---------------------------- MODULE ControlPlane ----------------------------
(***************************************************************************)
(* The live path of an event, engine/src/main.rs: the bridge puts it on    *)
(* the event channel, the control loop folds it into its own state, logs   *)
(* it, translates it and pushes the commands one by one on the bounded     *)
(* ring (audio/ring.rs), from which the audio callback (audio/io.rs) pops  *)
(* and applies them at its own pace.  A full ring drops the command.       *)
(***************************************************************************)
EXTENDS AudioTranslator, AudioMixer, SequencesExt

CONSTANTS
  Inputs,         \* the events the clients submit
  RingCapacity,   \* RING_CAPACITY, 1024 in the code
  MaxEvents       \* bound: events submitted in a behaviour

ASSUME ControlPlaneAssumption ==
  /\ RingCapacity \in Nat \ {0} /\ MaxEvents \in Nat
  /\ Inputs \subseteq EventKind

VARIABLES
  inbox,      \* crossbeam channel, bridge -> control loop (unbounded)
  state,      \* control_loop: its local EngineState
  logged,     \* events appended to the session log
  outbox,     \* commands of the current event not pushed yet
  notices,    \* decode_error notifications published
  clock_bpm,  \* SharedClock::master_bpm
  ring,       \* the SPSC command ring
  mixer       \* the audio thread's AudioMixer

vars == <<inbox, state, logged, outbox, notices, clock_bpm, ring, mixer>>

Init ==
  /\ inbox = <<>> /\ logged = 0 /\ outbox = <<>> /\ notices = <<>> /\ ring = <<>>
  /\ state = DefaultState
  /\ mixer = NewMixer
  /\ clock_bpm = 120

\* EngineHandle::forward_event: try_send on a channel without a bound.
Submit(ev) ==
  /\ logged + Len(inbox) < MaxEvents
  /\ inbox' = Append(inbox, ev)
  /\ UNCHANGED <<state, logged, outbox, notices, clock_bpm, ring, mixer>>

IsLoad(ev) == ev.kind \in {"DeckLoad", "DeckLoadStems"}

\* What DecodeService::open may answer: the track's decoder, or an error.
Opens(ev) == IF IsLoad(ev) THEN {ev.track, None} ELSE {None}

\* Mutant: the clock takes the tempo without the reducer's guard.
Receive_unguardedClock(handle) ==
  LET ev   == Head(inbox)
      next == Apply(state, ev)
  IN /\ outbox = <<>> /\ inbox # <<>> /\ handle \in Opens(ev)
     /\ inbox' = Tail(inbox)
     /\ logged' = logged + 1
     /\ clock_bpm' = IF ev.kind = "SetMasterBpm" THEN ev.bpm ELSE clock_bpm
     /\ outbox' = Commands(state, next, ev, handle)
     /\ state' = next
     /\ UNCHANGED <<notices, ring, mixer>>

\* One turn of control_loop up to the first push: apply, clock side channel,
\* log, translate (a load opens the decoder here).
Receive(handle) ==
  LET ev   == Head(inbox)
      next == Apply(state, ev)
  IN /\ outbox = <<>> /\ inbox # <<>> /\ handle \in Opens(ev)
     /\ inbox' = Tail(inbox)
     /\ logged' = logged + 1
     /\ clock_bpm' = IF ev.kind = "SetMasterBpm" /\ ev.bpm > 0 THEN ev.bpm ELSE clock_bpm
     /\ outbox' = Commands(state, next, ev, handle)
     /\ notices' = IF IsLoad(ev) /\ handle = None
                   THEN Append(notices, <<ev.deck, ev.track>>) ELSE notices
     /\ state' = next
     /\ UNCHANGED <<ring, mixer>>

\* Mutant: one command more than the ring holds.
Push_offByOne ==
  /\ outbox # <<>>
  /\ ring' = IF Len(ring) <= RingCapacity THEN Append(ring, Head(outbox)) ELSE ring
  /\ outbox' = Tail(outbox)
  /\ UNCHANGED <<inbox, state, logged, notices, clock_bpm, mixer>>

\* producer.try_push: the loop warns and goes on when the ring is full.
Push ==
  /\ outbox # <<>>
  /\ ring' = IF Len(ring) < RingCapacity THEN Append(ring, Head(outbox)) ELSE ring
  /\ outbox' = Tail(outbox)
  /\ UNCHANGED <<inbox, state, logged, notices, clock_bpm, mixer>>

\* Mutant: the last command stays in the ring.
Pop_keepsLast ==
  /\ Len(ring) > 1
  /\ mixer' = ApplyCmd(mixer, Head(ring))
  /\ ring' = Tail(ring)
  /\ UNCHANGED <<inbox, state, logged, outbox, notices, clock_bpm>>

\* The callback's drain loop, one try_pop at a time.
Pop ==
  /\ ring # <<>>
  /\ mixer' = ApplyCmd(mixer, Head(ring))
  /\ ring' = Tail(ring)
  /\ UNCHANGED <<inbox, state, logged, outbox, notices, clock_bpm>>

Next ==
  \/ \E ev \in Inputs : Submit(ev)
  \/ \E handle \in Tracks \cup {None} : Receive(handle)
  \/ Push
  \/ Pop

\* The control thread runs whenever it has work, the device calls back forever.
Fairness ==
  /\ WF_vars(\E handle \in Tracks \cup {None} : Receive(handle))
  /\ WF_vars(Push)
  /\ WF_vars(Pop)

Spec == Init /\ [][Next]_vars /\ Fairness
-----------------------------------------------------------------------------
(* What the audio thread will play once everything under way has landed. *)
Landed == FoldLeft(ApplyCmd, mixer, ring \o outbox)

(* The two copies of the mix agree, aspect by aspect. *)
Aspects == {<<"master", "A">>} \cup ({"track", "playing", "stems", "tone", "handoff", "fx"} \X DeckId)

MasterAgrees(s, m) ==
  /\ m.crossfader = s.crossfader
  /\ m.crossfader_curve = s.crossfader_curve
  /\ m.master_limiter_enabled = s.master_limiter_enabled
  /\ m.master_limiter_threshold_db = s.master_limiter_threshold_db
  /\ m.sidechain = s.sidechain

TrackAgrees(d, h) ==
  /\ d.loaded = IF d.stem_mode THEN h.stem_handle ELSE h.loaded
  /\ d.stem_mode => h.loaded = None
  /\ ~d.stem_mode => h.stem_handle = None

\* A parameter nobody set sits at its default, one outside its range is clamped.
ParamsAgree(sl, b) ==
  \A i \in DOMAIN descriptors(sl.effect_id) :
    LET name == descriptors(sl.effect_id)[i]
        spec == ParamSpec[name]
    IN b.params[i] = IF sl.params[name] = None THEN spec.default
                     ELSE Clamp(sl.params[name], spec.min, spec.max)

\* An empty slot is silent on both sides, whatever its other fields say.
SlotAgrees(sl, b) ==
  /\ sl.effect_id = b.effect_id
  /\ sl.effect_id # 0 => /\ sl.enabled = b.enabled
                         /\ sl.wet_dry = b.wet_dry
                         /\ sl.lfo = b.lfo
                         /\ ParamsAgree(sl, b)

Agrees(aspect, s, m) ==
  LET d == s.deck[aspect[2]]
      h == m.deck[aspect[2]]
  IN CASE aspect[1] = "master"  -> MasterAgrees(s, m)
       [] aspect[1] = "track"   -> TrackAgrees(d, h)
       [] aspect[1] = "playing" -> d.playing = h.playing
       [] aspect[1] = "stems"   -> d.stem_gains = h.stem_gains
       [] aspect[1] = "tone"    -> /\ d.pitch_semitones = h.pitch_semitones
                                   /\ d.tempo_ratio = h.tempo_ratio
       [] aspect[1] = "handoff" -> d.handoff_until_frame = h.handoff_until_frame
       [] aspect[1] = "fx"      -> \A s2 \in Slots : SlotAgrees(d.effects[s2], h.fx[s2])

SlotIsLive(sl) == sl.one_shot # None => sl.enabled /\ sl.effect_id # 0

LoopHasEnds(d) == d.loop_active => d.loop_in_ms # None /\ d.loop_out_ms # None

(* The steps after which the two copies may part. *)
Overflow == outbox # <<>> /\ Len(ring) = RingCapacity /\ outbox' = Tail(outbox)

Received(kinds, d) ==
  /\ logged' # logged
  /\ Head(inbox).kind \in kinds /\ Head(inbox).deck = d

FailedLoad(d) == Received({"DeckLoad", "DeckLoadStems"}, d) /\ outbox' = <<>>

MayPart(aspect) ==
  \/ Overflow
  \/ aspect[1] \in {"track", "playing", "stems"} /\ FailedLoad(aspect[2])
  \/ aspect[1] = "playing" /\ Received({"DeckLoad", "DeckLoadStems"}, aspect[2])
                           /\ state.deck[aspect[2]].playing
  \/ aspect[1] \in {"tone", "handoff", "fx"} /\ Received({"DeckUnload"}, aspect[2])

-----------------------------------------------------------------------------
(* The ring never outgrows its capacity, only the two commands of a        *)
(* takeover are ever waiting at once, and every command in flight is one   *)
(* the mixer knows how to apply.                                           *)
TypeOK ==
  /\ inbox \in Seq(Inputs) /\ logged \in Nat /\ logged + Len(inbox) <= MaxEvents
  /\ ring \in Seq(AudioCommand) /\ Len(ring) <= RingCapacity
  /\ outbox \in Seq(AudioCommand) /\ Len(outbox) <= 2
  /\ state \in EngineStateType /\ mixer \in Mixer
  /\ clock_bpm \in Nat \ {0}

(* The session clock that drives MIDI clock OUT and the reducer's master   *)
(* bpm are written from the same event by two pieces of code with a guard  *)
(* each (main.rs, audio/clock.rs, state.rs); they never differ.            *)
ClockFollowsState == clock_bpm = state.master_bpm

(* A pending one-shot sits on an occupied, enabled slot: every event that  *)
(* switches, clears or replaces the slot cancels it, and a swap moves it   *)
(* together with its effect (state.rs, EffectSlot::one_shot).              *)
OneShotOnLiveSlot ==
  \A d \in DeckId, s \in Slots : SlotIsLive(state.deck[d].effects[s])

(* An active loop has both ends, whatever mix of manual and bar loops,     *)
(* exits, cues and loads led to it (state.rs, LoopOut and SetLoopBars).    *)
ActiveLoopHasEnds == \A d \in DeckId : LoopHasEnds(state.deck[d])

(* What the audio thread is going to play parts from the control loop's    *)
(* state only where the code gives a reason: a command lost to a full      *)
(* ring, a load whose open failed, a load onto a playing deck, an unload   *)
(* of a deck with effects, pitch or a handoff.  Every other event of every *)
(* kind keeps both copies of the mix in step, at any backlog.              *)
CopiesPartOnlyForCause ==
  [][\A a \in Aspects :
       Agrees(a, state, Landed) /\ ~Agrees(a, state', Landed') => MayPart(a)]_vars

(* An event of the master section sends the one field it sets as a whole.  *)
MasterFieldAgrees(ev, s, m) ==
  /\ ev.kind = "Crossfader" => m.crossfader = s.crossfader
  /\ ev.kind = "SetCrossfaderCurve" => m.crossfader_curve = s.crossfader_curve
  /\ ev.kind = "SetMasterLimiterEnabled" => m.master_limiter_enabled = s.master_limiter_enabled
  /\ ev.kind = "SetMasterLimiterThreshold" =>
       m.master_limiter_threshold_db = s.master_limiter_threshold_db
  /\ ev.kind \in {"SetSidechainEnabled", "SetSidechainParams"} => m.sidechain = s.sidechain

(* Whatever was lost before, an event whose command states its whole       *)
(* aspect brings the two copies back in step on it: the crossfader and its *)
(* curve, the limiter's switch and threshold, the sidechain, a reset of    *)
(* pitch and tempo, a takeover, a slot assigned anew or cleared, a load    *)
(* that opened, an unload.                                                 *)
AbsoluteEventsResync ==
  [][logged' # logged =>
       LET ev == Head(inbox)
           aspects ==
             CASE ev.kind = "DeckUnload" -> {"track", "playing", "stems"}
               [] IsLoad(ev) /\ outbox' # <<>> -> {"track", "stems"}
               [] ev.kind = "PitchTempoReset" -> {"tone"}
               [] ev.kind = "TakeOver" -> {"handoff"}
               [] OTHER -> {}
       IN /\ \A a \in aspects : Agrees(<<a, ev.deck>>, state', Landed')
          /\ MasterFieldAgrees(ev, state', Landed')
          /\ ev.kind \in {"EffectAssign", "EffectClear"} /\ ev.slot \in Slots =>
               SlotAgrees(state'.deck[ev.deck].effects[ev.slot],
                          Landed'.deck[ev.deck].fx[ev.slot])]_vars

-----------------------------------------------------------------------------
(* Once the clients fall silent every accepted event reaches the audio     *)
(* thread: nothing is left in the channel, the loop's hands or the ring.   *)
EverythingLands == <>[](inbox = <<>> /\ outbox = <<>> /\ ring = <<>>)
=============================================================================
