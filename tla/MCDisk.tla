------------------------------- MODULE MCDisk -------------------------------
(***************************************************************************)
(* What a session leaves on disk, for TLC.  The two threads that write     *)
(* share no state: a behaviour is one of either.                           *)
(***************************************************************************)
EXTENDS Disk

VARIABLES part, long, session

mc_vars == <<part, store_vars, long, wav_vars, session>>

Fade(v) == [kind |-> "Crossfader", value |-> v]

(* Two values of one fader, and a switch that is on already. *)
LogInputs ==
  { Fade(10), Fade(90), [kind |-> "SetMasterLimiterEnabled", enabled |-> TRUE] }
MCDescriptors == (1 :> <<"cutoff_hz">>)

MCPolicies ==
  { [max_age |-> 1, min_keep |-> 1], [max_age |-> 1, min_keep |-> 2],
    [max_age |-> 1, min_keep |-> 0], [max_age |-> 0, min_keep |-> 1] }

(* Recordings worth exporting: silence at the head; at the tail; too       *)
(* short to trim; nothing that reaches the threshold.                      *)
Loud == { <<0, 0, 0, 0, 1, 1>>, <<1, 1, 0, 0, 0, 0>> }
Recordings == Loud \cup { <<0, 0, 1, 1>>, <<0, 1, 0, 1>> }

(* Either one process logs many events and some writes fail, or several    *)
(* log one at the most and none does.                                      *)
LogNext ==
  /\ part = "log" /\ StoreNext
  /\ IF long THEN id' <= 1 /\ now' = 0 ELSE received' \in {<<>>, <<Fade(10)>>} /\ faults' = 0
  /\ UNCHANGED <<part, long, wav_vars, session>>

(* Events are logged while the writer of the recording rests. *)
LogsWhileIdle ==
  log_lines' # log_lines => session \in Loud /\ wav_writer = "drain" /\ popped = 0 /\ ring = <<>>

WavNext ==
  /\ part = "recording" /\ Rec!Next
  /\ IsPrefix(rendered', session) /\ LogsWhileIdle
  /\ UNCHANGED <<part, store_vars, long, session>>

MCInit ==
  /\ StoreInit /\ Rec!Init
  /\ \/ part = "log" /\ long \in BOOLEAN /\ session = <<>> /\ recorder = "none"
     \/ part = "recording" /\ long = FALSE /\ session \in Recordings

(* The fairness of Recorder's specification. *)
MCSpec ==
  /\ MCInit /\ [][LogNext \/ WavNext]_mc_vars
  /\ WF_wav_vars(part = "recording" /\ Rec!WriterNext)
  /\ WF_wav_vars(part = "recording" /\ Rec!Stop)
  /\ WF_wav_vars(part = "recording" /\ Rec!Join)

(* The shutdown of the recorder comes to an end (Recorder). *)
StopEnds == part = "recording" => Rec!StopEnds
=============================================================================
