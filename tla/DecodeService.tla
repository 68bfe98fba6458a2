---------------------------- MODULE DecodeService ----------------------------
(***************************************************************************)
(* engine/src/audio/decode.rs, SymphoniaDecodeService: a fixed table of    *)
(* slots with one sample ring each, one decoder thread per open file, the  *)
(* control thread that opens and rolls back, the audio thread that reads,  *)
(* and the side channel on which a decoder reports a failure to the        *)
(* bridge's drain (engine/src/bridge/decode_drain.rs).  A sample is the    *)
(* number of the decoder that made it; packets and resampling are left     *)
(* out (DecodeFeed has them), and a decoder thread is identified by the    *)
(* handle it was opened as.  A panic is caught and reported, as the        *)
(* development build does it; the release profile aborts the process.      *)
(***************************************************************************)
EXTENDS Naturals, Sequences, FiniteSets, SequencesExt

CONSTANTS
  Slots,          \* 0..MAX_DECODE_SLOTS - 1
  Decks,          \* DeckId
  Loads,          \* what a load may ask for: one file, or one per stem
  None,
  RingSamples,    \* RING_SAMPLES_500MS
  PacketSamples,  \* samples a packet decodes to
  DrainOnClose,   \* samples close pops before it joins, RING_SAMPLES_500MS / 8
  FailureCapacity,\* MID_STREAM_FAILURE_CAPACITY
  MaxLoads        \* bound: loads in a behaviour

\* What a load may find at its path; the two kinds that cannot be opened are
\* a file that is not there and a mem:// key nobody registered.
Files == {"sound", "missing", "unregistered", "unprobeable", "corrupt"}

open_media_source(file) == file \notin {"missing", "unregistered"}

\* The errors of an open, and the word a notification has for each.  Probe,
\* NoTrack and Resampler only end the decoder's thread: no open returns them.
DecodeError == {"NoFreeSlot", "Io", "UnknownInlineSource", "Spawn"}

OpenCategory(error) ==
  CASE error = "Io"                  -> "file_not_found"
    [] error = "NoFreeSlot"          -> "resource_exhausted"
    [] error = "UnknownInlineSource" -> "unknown_inline_source"
    [] error = "Spawn"               -> "decoder_thread_spawn"

\* Why a decoder gives up after its open succeeded, and the word the
\* notification uses for it.
MidStreamFailureKind == {"DecodeFailed", "ResampleFailed", "ThreadPanic"}

category(kind) ==
  IF kind = "ThreadPanic" THEN "decoder_thread_panic" ELSE "mid_stream_decode_failure"

(* An open or open_stems under way on the control thread. *)
Opening ==
  [step : {"claim", "source", "signal", "join"}, deck : Decks, files : Seq(Files), got : Seq(Slots),
   why : DecodeError \cup {None}, before : [Slots -> BOOLEAN]]

ASSUME DecodeAssumption ==
  /\ Slots \subseteq Nat /\ IsFiniteSet(Slots) /\ None \notin Nat
  /\ Decks \subseteq {"A", "B"}
  /\ Loads \subseteq Seq(Files) /\ <<>> \notin Loads /\ None \notin Opening
  /\ RingSamples \in Nat \ {0} /\ PacketSamples \in Nat \ {0} /\ DrainOnClose \in Nat
  /\ FailureCapacity \in Nat \ {0} /\ MaxLoads \in Nat

VARIABLES
  occupied,   \* per slot: the claim flag
  shutdown,   \* per slot: the decoder's stop flag
  queue,      \* per slot: the sample ring
  join,       \* per slot: the thread to join, None when there is none
  decoder,    \* every decoder ever spawned: its slot, file and phase, the
              \* samples of its packet it still has to push, and the deck it
              \* was opened for (which the thread is not told)
  call,       \* the control thread's open or open_stems, None when it is idle;
              \* "before" remembers the table it found, for AtomicOpen alone
  deck,       \* per deck: the slots of the handle the audio thread holds
  loads,      \* loads asked for so far
  channel,    \* the failure side channel, bounded
  errors,     \* decode_error notices of the control thread, by category
  notices     \* decode_error notices of the drain: the failure and the deck
              \* it is announced for

vars == <<occupied, shutdown, queue, join, decoder, call, deck, loads, channel, errors,
          notices>>

Init ==
  /\ occupied = [s \in Slots |-> FALSE] /\ shutdown = [s \in Slots |-> FALSE]
  /\ queue = [s \in Slots |-> <<>>] /\ join = [s \in Slots |-> None]
  /\ decoder = <<>> /\ call = None /\ deck = [d \in Decks |-> <<>>]
  /\ loads = 0 /\ channel = <<>> /\ errors = {} /\ notices = {}

Over(g) == decoder[g].phase \in {"ended", "failed"}

(* The control thread. *)

\* The translator asks for a load: a file, or the stems of a track.
Load(d, files) ==
  /\ call = None /\ loads < MaxLoads
  /\ loads' = loads + 1
  /\ call' = [step |-> "claim", deck |-> d, files |-> files, got |-> <<>>, why |-> None,
               before |-> occupied]
  /\ UNCHANGED <<occupied, shutdown, queue, join, decoder, deck, channel, errors, notices>>

\* An open that fails closes the stems this call has already opened.
Fail(error, opened) ==
  IF opened = <<>>
  THEN /\ call' = None
       /\ errors' = errors \cup {OpenCategory(error)}
  ELSE /\ call' = [call EXCEPT !.step = "signal", !.got = opened, !.why = error]
       /\ UNCHANGED errors

\* open, 1-2: the first free slot is claimed, its flag and its ring reset.
Claim ==
  /\ call # None /\ call.step = "claim"
  /\ LET free == {s \in Slots : ~occupied[s]}
     IN IF free = {}
        THEN Fail("NoFreeSlot", call.got) /\ UNCHANGED <<occupied, shutdown, queue>>
        ELSE \E s \in free :
               /\ \A j \in free : s <= j
               /\ occupied' = [occupied EXCEPT ![s] = TRUE]
               /\ shutdown' = [shutdown EXCEPT ![s] = FALSE]
               /\ queue' = [queue EXCEPT ![s] = <<>>]
               /\ call' = [call EXCEPT !.step = "source", !.got = Append(@, s)]
               /\ UNCHANGED errors
  /\ UNCHANGED <<join, decoder, deck, loads, channel, notices>>

\* The file of the stem this step of the call is about.
Asked == call.files[Len(call.got)]

\* open, 3-4: a source that cannot be opened, or a thread that cannot be
\* spawned, gives the slot back.
OpenFails(error) ==
  /\ call # None /\ call.step = "source"
  /\ CASE error = "Io"                  -> Asked = "missing"
       [] error = "UnknownInlineSource" -> Asked = "unregistered"
       [] OTHER                         -> open_media_source(Asked)
  /\ occupied' = [occupied EXCEPT ![Last(call.got)] = FALSE]
  /\ Fail(error, Front(call.got))
  /\ UNCHANGED <<shutdown, queue, join, decoder, deck, loads, channel, notices>>

\* open, 4-5: the decoder thread is spawned and its join handle stored; the
\* last stem completes the handle the audio thread is given.
Spawn ==
  /\ call # None /\ call.step = "source" /\ open_media_source(Asked)
  /\ LET s == Last(call.got)
     IN /\ decoder' = Append(decoder, [slot |-> s, file |-> Asked, phase |-> "probe",
                                       left |-> 0, deck |-> call.deck])
        /\ join' = [join EXCEPT ![s] = Len(decoder')]
  /\ IF Len(call.got) < Len(call.files)
     THEN call' = [call EXCEPT !.step = "claim"] /\ UNCHANGED deck
     ELSE call' = None /\ deck' = [deck EXCEPT ![call.deck] = call.got]
  /\ UNCHANGED <<occupied, shutdown, queue, loads, channel, errors, notices>>

\* close, 1-2: the stop flag goes up and part of the ring is drained.
CloseSignal ==
  /\ call # None /\ call.step = "signal"
  /\ LET s == Head(call.got)
     IN /\ shutdown' = [shutdown EXCEPT ![s] = TRUE]
        /\ queue' = [queue EXCEPT ![s] = SubSeq(@, DrainOnClose + 1, Len(@))]
  /\ call' = [call EXCEPT !.step = "join"]
  /\ UNCHANGED <<occupied, join, decoder, deck, loads, channel, errors, notices>>

\* Mutant: the slot is freed without waiting for its decoder.
CloseJoin_detached ==
  /\ call # None /\ call.step = "join"
  /\ LET s == Head(call.got)
     IN /\ join' = [join EXCEPT ![s] = None]
        /\ queue' = [queue EXCEPT ![s] = <<>>]
        /\ occupied' = [occupied EXCEPT ![s] = FALSE]
  /\ IF Len(call.got) = 1
     THEN call' = None /\ errors' = errors \cup {OpenCategory(call.why)}
     ELSE call' = [call EXCEPT !.step = "signal", !.got = Tail(@)] /\ UNCHANGED errors
  /\ UNCHANGED <<shutdown, decoder, deck, loads, channel, notices>>

\* Mutant: the rollback stops at the first stem it has closed.
CloseJoin_firstOnly ==
  /\ call # None /\ call.step = "join"
  /\ LET s == Head(call.got)
     IN /\ join[s] # None => Over(join[s])
        /\ join' = [join EXCEPT ![s] = None]
        /\ queue' = [queue EXCEPT ![s] = <<>>]
        /\ occupied' = [occupied EXCEPT ![s] = FALSE]
  /\ call' = None /\ errors' = errors \cup {OpenCategory(call.why)}
  /\ UNCHANGED <<shutdown, decoder, deck, loads, channel, notices>>

\* close, 3-4: the thread is joined, the ring emptied, the slot freed.
CloseJoin ==
  /\ call # None /\ call.step = "join"
  /\ LET s == Head(call.got)
     IN /\ join[s] # None => Over(join[s])
        /\ join' = [join EXCEPT ![s] = None]
        /\ queue' = [queue EXCEPT ![s] = <<>>]
        /\ occupied' = [occupied EXCEPT ![s] = FALSE]
  /\ IF Len(call.got) = 1
     THEN call' = None /\ errors' = errors \cup {OpenCategory(call.why)}
     ELSE call' = [call EXCEPT !.step = "signal", !.got = Tail(@)] /\ UNCHANGED errors
  /\ UNCHANGED <<shutdown, decoder, deck, loads, channel, notices>>

\* DeckUnload forgets the handle; nothing in the engine closes it.
Unload(d) ==
  /\ deck[d] # <<>>
  /\ deck' = [deck EXCEPT ![d] = <<>>]
  /\ UNCHANGED <<occupied, shutdown, queue, join, decoder, call, loads, channel, errors, notices>>

(* The decoder threads. *)

control_vars == <<occupied, shutdown, join, call, deck, loads, errors>>

MoveTo(g, phase) == decoder' = [decoder EXCEPT ![g].phase = phase]

\* A file that cannot be probed ends its thread with a line in the log.
Probe(g) ==
  /\ decoder[g].phase = "probe"
  /\ MoveTo(g, IF decoder[g].file = "unprobeable" THEN "ended" ELSE "decode")
  /\ UNCHANGED <<control_vars, queue, channel, notices>>

\* The head of the decode loop looks at the stop flag.
DecodeLook(g) ==
  /\ decoder[g].phase = "decode"
  /\ MoveTo(g, IF shutdown[decoder[g].slot] THEN "ended" ELSE "packet")
  /\ UNCHANGED <<control_vars, queue, channel, notices>>

\* try_send_mid_stream_failure: one try, and a full channel loses the report.
\* No report says which deck it is about.
Report(g, kind) ==
  channel' = IF Len(channel) < FailureCapacity
             THEN Append(channel, [decoder |-> g, category |-> category(kind), deck |-> None])
             ELSE channel

\* The next packet yields samples, the end of the file, or a failure that
\* ends the thread once it is reported: an error of the reader, of the codec or of
\* the resampler, or a panic that the thread's wrapper catches.
Packet(g) ==
  /\ decoder[g].phase = "packet"
  /\ \/ /\ decoder' = [decoder EXCEPT ![g].phase = "look", ![g].left = PacketSamples]
        /\ UNCHANGED channel
     \/ /\ decoder[g].file = "sound"
        /\ MoveTo(g, "ended") /\ UNCHANGED channel
     \/ /\ decoder[g].file = "corrupt"
        /\ MoveTo(g, "failed")
        /\ \E kind \in MidStreamFailureKind : Report(g, kind)
  /\ UNCHANGED <<control_vars, queue, notices>>

\* Mutant: a decoder that waits for room does not look at the stop flag.
PushLook_deaf(g) ==
  /\ decoder[g].phase = "look"
  /\ MoveTo(g, "push")
  /\ UNCHANGED <<control_vars, queue, channel, notices>>

\* push_blocking looks at the flag before every try; once it is up the rest
\* of the packet is dropped.
PushLook(g) ==
  /\ decoder[g].phase = "look"
  /\ IF shutdown[decoder[g].slot]
     THEN decoder' = [decoder EXCEPT ![g].phase = "decode", ![g].left = 0]
     ELSE MoveTo(g, "push")
  /\ UNCHANGED <<control_vars, queue, channel, notices>>

\* A sample that went into the ring is followed by the next of its packet.
Pushed(g) ==
  decoder' = [decoder EXCEPT ![g].phase = IF decoder[g].left = 1 THEN "decode" ELSE "look",
                             ![g].left = @ - 1]

\* The sample goes into the ring, or waits for room and looks again.
Push(g) ==
  LET s == decoder[g].slot
  IN /\ decoder[g].phase = "push"
     /\ IF Len(queue[s]) < RingSamples
        THEN queue' = [queue EXCEPT ![s] = Append(@, g)] /\ Pushed(g)
        ELSE MoveTo(g, "look") /\ UNCHANGED queue
     /\ UNCHANGED <<control_vars, channel, notices>>

(* The audio thread and the bridge. *)

\* The callback pops what the deck's rings hold and pads the rest; a stem at
\* gain zero is skipped.
Read(d) ==
  /\ \E heard \in SUBSET ToSet(deck[d]) :
       queue' = [s \in Slots |->
                   IF s \in heard /\ occupied[s] /\ queue[s] # <<>>
                   THEN Tail(queue[s]) ELSE queue[s]]
  /\ UNCHANGED <<control_vars, decoder, channel, notices>>

\* A report that names no deck is announced for deck A.
deck_from_char(c) == IF c = "B" THEN "B" ELSE "A"

publish(failure) == [failure EXCEPT !.deck = deck_from_char(@)]

\* Mutant: one failure is published per tick, the rest of the batch is lost.
Drain_headOnly ==
  /\ channel # <<>>
  /\ notices' = notices \cup {publish(Head(channel))}
  /\ channel' = <<>>
  /\ UNCHANGED <<control_vars, queue, decoder>>

\* drain_once: everything that waits is published.
Drain ==
  /\ channel # <<>>
  /\ notices' = notices \cup {publish(f) : f \in ToSet(channel)}
  /\ channel' = <<>>
  /\ UNCHANGED <<control_vars, queue, decoder>>

ControlThread == Claim \/ (\E error \in DecodeError \ {"NoFreeSlot"} : OpenFails(error)) \/ Spawn \/ CloseSignal \/ CloseJoin

Decode(g) ==
  /\ g \in DOMAIN decoder
  /\ Probe(g) \/ DecodeLook(g) \/ Packet(g) \/ PushLook(g) \/ Push(g)

MaxDecoders == MaxLoads * Cardinality(Slots)

Next ==
  \/ \E d \in Decks, files \in Loads : Load(d, files)
  \/ ControlThread
  \/ \E d \in Decks : Unload(d) \/ Read(d)
  \/ \E g \in 1..MaxDecoders : Decode(g)
  \/ Drain

\* Every thread keeps running and the drain's tick keeps coming.
Fairness ==
  /\ WF_vars(ControlThread) /\ WF_vars(Drain)
  /\ \A g \in 1..MaxDecoders : WF_vars(Decode(g))

Spec == Init /\ [][Next]_vars /\ Fairness
-----------------------------------------------------------------------------
TypeOK ==
  /\ occupied \in [Slots -> BOOLEAN] /\ shutdown \in [Slots -> BOOLEAN]
  /\ call \in Opening \cup {None}
  /\ \A s \in Slots : Len(queue[s]) <= RingSamples /\ join[s] \in DOMAIN decoder \cup {None}
  /\ \A g \in DOMAIN decoder :
       /\ decoder[g].slot \in Slots /\ decoder[g].file \in Files
       /\ decoder[g].left \in 0..PacketSamples
       /\ decoder[g].phase \in {"probe", "decode", "packet", "look", "push", "ended", "failed"}
  /\ \A d \in Decks : ToSet(deck[d]) \subseteq {s \in Slots : occupied[s]}
  /\ Len(channel) <= FailureCapacity /\ loads \in 0..MaxLoads

(* The rings outlive every track, so a slot that changes hands must bring  *)
(* neither a second producer nor a sample of its previous track along,     *)
(* however a rollback and the decoder it stops interleave (decode.rs,      *)
(* open and close).                                                        *)
RingHasOneOwner ==
  /\ TypeOK
  /\ \A g, h \in DOMAIN decoder :
       ~Over(g) /\ ~Over(h) /\ decoder[g].slot = decoder[h].slot => g = h
  /\ \A s \in Slots : \A i \in DOMAIN queue[s] : queue[s][i] = join[s]

(* Opening the stems of a track takes one slot for each of them or leaves  *)
(* the table as it was, whichever stem fails and why (decode.rs,           *)
(* open_stems).                                                            *)
AtomicOpen ==
  [][call # None /\ call' = None =>
       IF deck' = deck THEN occupied' = call.before
       ELSE /\ Len(deck'[call.deck]) = Len(call.files)
            /\ \A s \in Slots : occupied'[s] <=>
                 call.before[s] \/ s \in ToSet(deck'[call.deck])]_vars

(* The control thread joins a decoder that may be waiting for room in a    *)
(* ring nobody reads: it always gets its answer and goes on to the next    *)
(* event (decode.rs, close and push_blocking).                             *)
LoadsEnd == (call # None) ~> (call = None)

Told(g) == \E n \in notices : n.decoder = g

(* A decoder that gives up in the middle of a track is announced, even     *)
(* when several give up between two ticks of the drain (decode_drain.rs,   *)
(* drain_once; decode.rs, MID_STREAM_FAILURE_CAPACITY).                    *)
FailuresAreTold ==
  \A g \in 1..MaxDecoders :
    (g \in DOMAIN decoder /\ decoder[g].phase = "failed") ~> Told(g)

(* Documented, and not so in the code. *)

(* A failure is announced for the deck its track was loaded on             *)
(* (decode.rs, MidStreamFailure: "populated when the open-side knows which *)
(* deck the load was targeting (every production open currently does)").   *)
FailuresNameTheirDeck == \A n \in notices : n.deck = decoder[n.decoder].deck

(* When the slots run out, closing a deck makes room for another try       *)
(* (ws-protocol.md, resource_exhausted).                                   *)
UnloadMakesRoom ==
  call = None /\ (\A d \in Decks : deck[d] = <<>>) => \E s \in Slots : ~occupied[s]
=============================================================================
