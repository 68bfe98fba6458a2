-------------------------- MODULE MCDecodeService --------------------------
(***************************************************************************)
(* A behaviour is one of the decode service or one of the samples' way     *)
(* from the decoders to the deck (DecodePath): they share no state.        *)
(***************************************************************************)
EXTENDS DecodePath

VARIABLE part

mc_vars == <<part, vars, feed_vars>>

(* Tracks of one file, a track whose last stem cannot be opened, and one   *)
(* whose stems cannot be loaded twice.                                     *)
MCLoads ==
  { <<"unregistered">>, <<"corrupt">>, <<"corrupt", "unprobeable">>,
    <<"sound", "sound", "missing">> }

(* A packet of two frames, and one of one. *)
MCPackets == <<2, 1>>
-----------------------------------------------------------------------------
MCInit ==
  /\ part \in {"service", "feed"} /\ Init /\ Feed!Init
  /\ part # "feed" => want = 0

MCNext ==
  /\ UNCHANGED part
  /\ \/ part = "service" /\ Next /\ UNCHANGED feed_vars
     \/ part = "feed" /\ Feed!Next /\ UNCHANGED vars

(* The fairness of the two specifications. *)
MCSpec ==
  /\ MCInit /\ [][MCNext]_mc_vars
  /\ WF_vars(part = "service" /\ ControlThread) /\ WF_vars(part = "service" /\ Drain)
  /\ \A g \in 1..MaxDecoders : WF_vars(part = "service" /\ Decode(g))
  /\ \A s \in Streams : /\ WF_feed_vars(part = "feed" /\ Feed!Decode(s))
                       /\ WF_feed_vars(part = "feed" /\ Feed!Push(s))
  /\ WF_feed_vars(part = "feed" /\ (Feed!pull_deck_or_stems \/ Feed!Pop \/ Feed!Underrun))

-----------------------------------------------------------------------------
(* Nothing waits for ever on a full or an empty ring: a load gives its     *)
(* answer although it joins decoders nobody reads from (DecodeService),    *)
(* and a file that is listened to is heard to its end (DecodeFeed).        *)
NothingHangs == LoadsEnd /\ (part = "feed" => Feed!PlaysOut)
=============================================================================
