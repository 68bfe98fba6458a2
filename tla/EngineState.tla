---------------------------- MODULE EngineState ----------------------------
(***************************************************************************)
(* The reducer: the pure function EngineState::apply of                    *)
(* engine/src/state.rs, one operator per event kind.  An event is a record *)
(* whose "kind" names the variant and whose other fields are its payload.  *)
(*                                                                         *)
(* Units: fractions (crossfader, wet/dry, stem gain, tempo ratio) are      *)
(* percents, positions and timestamps milliseconds; decibels, semitones    *)
(* and the compressor's knobs are in tenths.  NonFinite stands for every   *)
(* f32 that is not finite.                                                 *)
(***************************************************************************)
EXTENDS BeatGrid

CONSTANTS
  Tracks,        \* what a deck can be asked to load
  ParamNames,    \* effect parameter names a client may send
  Descriptors,   \* effects/mod.rs: effect id -> its parameter names, in order
  None,          \* Option::None
  NonFinite      \* an f32 that is not finite

DeckId == {"A", "B"}
Slots == 0..2
CueSlots == 0..7
Stems == 0..3
Bands == {"Low", "Mid", "High"}
Curves == {"Linear", "Dipped", "Sharp", "Scratch"}
SidechainKnobs == {"threshold_db", "ratio", "attack_ms", "release_ms", "makeup_gain_db"}
DOWNBEATS_INLINE_CAPACITY == 64

\* effects::descriptors: an unregistered id has no parameters.
descriptors(id) == IF id \in DOMAIN Descriptors THEN Descriptors[id] ELSE <<>>

ASSUME ConstantsAssumption ==
  /\ None \notin Int /\ NonFinite \notin Int /\ None \notin Tracks
  /\ Descriptors \in [DOMAIN Descriptors -> Seq(ParamNames)]
  /\ DOMAIN Descriptors \subseteq Nat \ {0}

I32_MAX == 2147483647
SaturatingAdd(a, b) ==
  IF b > 0 /\ a > I32_MAX - b THEN I32_MAX
  ELSE IF b < 0 /\ a < -I32_MAX - 1 - b THEN -I32_MAX - 1 ELSE a + b

AllAudible == [st \in Stems |-> 100]

EmptySlot ==
  [effect_id |-> 0, params |-> [p \in ParamNames |-> None], wet_dry |-> 0,
   enabled |-> FALSE, lfo |-> None, one_shot |-> None]

DefaultDeck ==
  [loaded |-> None, playing |-> FALSE, position_ms |-> 0,
   pitch_semitones |-> 0, tempo_ratio |-> 100, eq |-> [b \in Bands |-> 0],
   loop_in_ms |-> None, loop_out_ms |-> None, loop_active |-> FALSE,
   hot_cues |-> [c \in CueSlots |-> None], copilot_engaged |-> FALSE,
   track_gain_db |-> 0, bpm |-> 0, beat_grid_anchor_ms |-> 0,
   phase_offset_ms |-> 0, downbeats |-> <<>>,
   effects |-> [s \in Slots |-> EmptySlot], handoff_until_frame |-> 0,
   stem_gains |-> AllAudible, stem_mode |-> FALSE]

DefaultState ==
  [deck |-> [d \in DeckId |-> DefaultDeck], crossfader |-> 50,
   crossfader_curve |-> "Linear", session_active |-> FALSE,
   master_bpm |-> 120, master_limiter_enabled |-> TRUE,
   master_limiter_threshold_db |-> -5,
   sidechain |-> [enabled |-> FALSE, trigger_deck |-> "A",
                  knobs |-> [threshold_db |-> -120, ratio |-> 40, attack_ms |-> 50,
                             release_ms |-> 2000, makeup_gain_db |-> 0]]]

(* Ranges the reducer clamps to; pitch, tempo and limiter fall back to the *)
(* default when the value is not finite.                                   *)
clamp_unit(v) == Clamp(v, 0, 100)
clamp_pitch_semitones(v) == IF v = NonFinite THEN 0 ELSE Clamp(v, -120, 120)
clamp_tempo_ratio(v) == IF v = NonFinite THEN 100 ELSE Clamp(v, 50, 200)
clamp_threshold_db(v) == IF v = NonFinite THEN -5 ELSE Clamp(v, -240, 0)

knob_min == [threshold_db |-> -600, ratio |-> 10, attack_ms |-> 1,
             release_ms |-> 100, makeup_gain_db |-> 0]
knob_max == [threshold_db |-> 0, ratio |-> 200, attack_ms |-> 1000,
             release_ms |-> 20000, makeup_gain_db |-> 240]
clamp_knob(k, v) == Clamp(v, knob_min[k], knob_max[k])

(* One operator per event kind: the deck or the slot it leaves behind. *)
LoadedDeck(d, ev) ==
  [d EXCEPT !.loaded = ev.track, !.position_ms = 0, !.playing = FALSE,
            !.bpm = IF ev.bpm > 0 THEN ev.bpm ELSE 120,
            !.beat_grid_anchor_ms = ev.beat_grid_anchor_ms,
            !.phase_offset_ms = 0,
            !.downbeats = SubSeq(ev.downbeats_ms, 1,
                            Clamp(Len(ev.downbeats_ms), 0, DOWNBEATS_INLINE_CAPACITY)),
            !.hot_cues = ev.hot_cues, !.stem_gains = AllAudible]

DeckLoad(d, ev) ==
  [LoadedDeck(d, ev) EXCEPT
     !.track_gain_db = IF ev.track_gain_db = NonFinite THEN 0 ELSE ev.track_gain_db,
     !.stem_mode = FALSE]

DeckLoadStems(d, ev) == [LoadedDeck(d, ev) EXCEPT !.stem_mode = TRUE]

SetStemGain(d, ev) ==
  IF ev.stem \in Stems THEN [d EXCEPT !.stem_gains[ev.stem] = clamp_unit(ev.gain)] ELSE d

HotCueSet(d, ev) ==
  IF ev.slot \in CueSlots THEN [d EXCEPT !.hot_cues[ev.slot] = ev.position_ms] ELSE d

HotCueTrigger(d, ev) ==
  IF ev.slot \in CueSlots /\ d.hot_cues[ev.slot] # None
  THEN [d EXCEPT !.position_ms = d.hot_cues[ev.slot]]
  ELSE d

\* Mutant: the loop starts even when nobody set its start.
LoopOut_always(d) == [d EXCEPT !.loop_out_ms = d.position_ms, !.loop_active = TRUE]

LoopOut(d) ==
  [d EXCEPT !.loop_out_ms = d.position_ms, !.loop_active = (d.loop_in_ms # None)]

LoopExit(d) ==
  [d EXCEPT !.loop_in_ms = None, !.loop_out_ms = None, !.loop_active = FALSE]

SetLoopBars(d, ev) ==
  IF d.bpm <= 0 THEN d
  ELSE LET in == next_downbeat_at_or_after_ms(d.position_ms, d.beat_grid_anchor_ms,
                                              d.bpm, d.downbeats)
       IN [d EXCEPT !.loop_in_ms = in, !.loop_active = TRUE,
                    !.loop_out_ms = in + loop_length_ms(clamp_loop_bars(ev.bars), d.bpm)]

EqAdjust(d, ev) == [d EXCEPT !.eq[ev.band] = Clamp(ev.value_db, -260, 60)]

TakeOver(d, ev) ==
  [d EXCEPT !.copilot_engaged = FALSE, !.handoff_until_frame = ev.handoff_until_frame]

AssignedSlot(ev) ==
  [EmptySlot EXCEPT !.effect_id = ev.effect_id, !.wet_dry = 50, !.enabled = TRUE]

\* The target of an LFO is pulled inside the effect's parameter list.
LfoSet(s, ev) ==
  LET n == Len(descriptors(s.effect_id))
  IN [s EXCEPT !.lfo =
        [depth |-> clamp_unit(ev.depth),
         target_param |-> IF ev.target_param < n THEN ev.target_param
                          ELSE IF n = 0 THEN 0 ELSE n - 1]]

\* The end is the event's own timestamp plus whole beats of the deck's grid,
\* half a second each when the deck has none.
OneShot(d, s, ev) ==
  IF s.effect_id = 0 THEN s
  ELSE LET beat == IF d.bpm > 0 THEN MinuteMs \div d.bpm ELSE 500
       IN [s EXCEPT !.enabled = TRUE,
                    !.one_shot = [ends_at |-> ev.ts + beat * Clamp(ev.beats, 1, 64),
                                  was_enabled |-> s.enabled]]

\* Mutant: an explicit switch forgets the pending disengage.
EffectEnable_keepsOneShot(s, ev) == [s EXCEPT !.enabled = ev.enabled]

\* An explicit switch supersedes a pending one-shot.
EffectEnable(s, ev) == [s EXCEPT !.enabled = ev.enabled, !.one_shot = None]

SlotAfter(d, s, ev) ==
  CASE ev.kind = "EffectAssign"   -> AssignedSlot(ev)
    [] ev.kind = "EffectClear"    -> EmptySlot
    [] ev.kind = "EffectParam"    -> [s EXCEPT !.params[ev.param] = ev.value]
    [] ev.kind = "EffectWetDry"   -> [s EXCEPT !.wet_dry = clamp_unit(ev.value)]
    [] ev.kind = "EffectEnable"   -> EffectEnable(s, ev)
    [] ev.kind = "EffectLfoSet"   -> LfoSet(s, ev)
    [] ev.kind = "EffectLfoClear" -> [s EXCEPT !.lfo = None]
    [] ev.kind = "EffectOneShot"  -> OneShot(d, s, ev)

SlotKinds == {"EffectAssign", "EffectClear", "EffectParam", "EffectWetDry",
              "EffectEnable", "EffectLfoSet", "EffectLfoClear", "EffectOneShot"}

\* effects.get_mut(slot): an index past the last slot is ignored.
SlotEvent(d, ev) ==
  IF ev.slot \in Slots
  THEN [d EXCEPT !.effects[ev.slot] = SlotAfter(d, d.effects[ev.slot], ev)]
  ELSE d

SwapIndex(i) == Clamp(i, 0, 2)

EffectSwapSlots(d, ev) ==
  LET a == SwapIndex(ev.slot_a)
      b == SwapIndex(ev.slot_b)
  IN [d EXCEPT !.effects = [@ EXCEPT ![a] = d.effects[b], ![b] = d.effects[a]]]

DeckAfter(d, ev) ==
  CASE ev.kind = "DeckLoad"          -> DeckLoad(d, ev)
    [] ev.kind = "DeckLoadStems"     -> DeckLoadStems(d, ev)
    [] ev.kind = "SetStemGain"       -> SetStemGain(d, ev)
    [] ev.kind = "DeckUnload"        -> DefaultDeck
    [] ev.kind = "PhaseNudge"        -> [d EXCEPT !.phase_offset_ms = SaturatingAdd(@, ev.delta_ms)]
    [] ev.kind \in SlotKinds         -> SlotEvent(d, ev)
    [] ev.kind = "EffectSwapSlots"   -> EffectSwapSlots(d, ev)
    [] ev.kind = "DeckPlay"          -> [d EXCEPT !.playing = TRUE]
    [] ev.kind = "DeckPause"         -> [d EXCEPT !.playing = FALSE]
    [] ev.kind = "DeckCue"           -> [d EXCEPT !.position_ms = ev.position_ms]
    [] ev.kind = "EqAdjust"          -> EqAdjust(d, ev)
    [] ev.kind = "HotCueSet"         -> HotCueSet(d, ev)
    [] ev.kind = "HotCueTrigger"     -> HotCueTrigger(d, ev)
    [] ev.kind = "LoopIn"            -> [d EXCEPT !.loop_in_ms = d.position_ms]
    [] ev.kind = "LoopOut"           -> LoopOut(d)
    [] ev.kind = "LoopExit"          -> LoopExit(d)
    [] ev.kind = "SetLoopBars"       -> SetLoopBars(d, ev)
    [] ev.kind = "PitchBend"         -> [d EXCEPT !.pitch_semitones =
                                                    clamp_pitch_semitones(ev.semitones)]
    [] ev.kind = "TempoBend"         -> [d EXCEPT !.tempo_ratio = clamp_tempo_ratio(ev.ratio)]
    [] ev.kind = "PitchTempoReset"   -> [d EXCEPT !.pitch_semitones = 0, !.tempo_ratio = 100]
    [] ev.kind = "CopilotEngage"     -> [d EXCEPT !.copilot_engaged = TRUE]
    [] ev.kind = "CopilotDisengage"  -> [d EXCEPT !.copilot_engaged = FALSE]
    [] ev.kind = "TakeOver"          -> TakeOver(d, ev)

SetSidechainParams(sc, ev) ==
  [sc EXCEPT !.trigger_deck = IF ev.trigger_deck = None THEN @ ELSE ev.trigger_deck,
             !.knobs = [k \in SidechainKnobs |->
                          IF ev.knobs[k] \in {None, NonFinite} THEN sc.knobs[k]
                          ELSE clamp_knob(k, ev.knobs[k])]]

MasterAfter(s, ev) ==
  CASE ev.kind = "SessionStart"        -> [s EXCEPT !.session_active = TRUE]
    [] ev.kind = "SessionEnd"          -> [s EXCEPT !.session_active = FALSE]
    [] ev.kind = "Crossfader"          -> [s EXCEPT !.crossfader = clamp_unit(ev.value)]
    [] ev.kind = "SetCrossfaderCurve"  -> [s EXCEPT !.crossfader_curve = ev.curve]
    [] ev.kind = "SetMasterBpm"        -> [s EXCEPT !.master_bpm = IF ev.bpm > 0 THEN ev.bpm ELSE @]
    [] ev.kind = "SetSidechainEnabled" -> [s EXCEPT !.sidechain.enabled = ev.enabled]
    [] ev.kind = "SetSidechainParams"  -> [s EXCEPT !.sidechain = SetSidechainParams(@, ev)]
    [] ev.kind = "SetMasterLimiterEnabled" -> [s EXCEPT !.master_limiter_enabled = ev.enabled]
    [] ev.kind = "SetMasterLimiterThreshold" ->
         [s EXCEPT !.master_limiter_threshold_db = clamp_threshold_db(ev.threshold_db)]

MasterKinds == {"SessionStart", "SessionEnd", "Crossfader", "SetCrossfaderCurve",
                "SetMasterBpm", "SetSidechainEnabled", "SetSidechainParams",
                "SetMasterLimiterEnabled", "SetMasterLimiterThreshold"}

\* EngineState::apply: total, and the previous state is never modified.
Apply(s, ev) ==
  IF ev.kind \in MasterKinds THEN MasterAfter(s, ev)
  ELSE [s EXCEPT !.deck[ev.deck] = DeckAfter(@, ev)]
-----------------------------------------------------------------------------
(* The events the wire format can carry, and the states they build. *)
Percent == 0..100
Position == Nat \cup {None}
Real32 == Int \cup {NonFinite}

LoadEvent ==
  [kind : {"DeckLoad"}, deck : DeckId, track : Tracks, bpm : Int, beat_grid_anchor_ms : Nat,
   downbeats_ms : Seq(Nat), hot_cues : [CueSlots -> Position], track_gain_db : Real32]
LoadStemsEvent ==
  [kind : {"DeckLoadStems"}, deck : DeckId, track : Tracks, bpm : Int, beat_grid_anchor_ms : Nat,
   downbeats_ms : Seq(Nat), hot_cues : [CueSlots -> Position]]
PlainDeckEvent ==
  [kind : {"DeckUnload", "DeckPlay", "DeckPause", "LoopIn", "LoopOut", "LoopExit",
           "PitchTempoReset", "CopilotEngage", "CopilotDisengage"}, deck : DeckId]
DeckEvent ==
  LoadEvent \cup LoadStemsEvent \cup PlainDeckEvent
  \cup [kind : {"SetStemGain"}, deck : DeckId, stem : Nat, gain : Int]
  \cup [kind : {"PhaseNudge"}, deck : DeckId, delta_ms : Int]
  \cup [kind : {"DeckCue"}, deck : DeckId, position_ms : Nat]
  \cup [kind : {"EqAdjust"}, deck : DeckId, band : Bands, value_db : Int]
  \cup [kind : {"HotCueSet"}, deck : DeckId, slot : Nat, position_ms : Nat]
  \cup [kind : {"HotCueTrigger"}, deck : DeckId, slot : Nat]
  \cup [kind : {"SetLoopBars"}, deck : DeckId, bars : Nat]
  \cup [kind : {"PitchBend"}, deck : DeckId, semitones : Real32]
  \cup [kind : {"TempoBend"}, deck : DeckId, ratio : Real32]
  \cup [kind : {"TakeOver"}, deck : DeckId, handoff_until_frame : Nat]
FxEvent ==
       [kind : {"EffectAssign"}, deck : DeckId, slot : Nat, effect_id : Nat]
  \cup [kind : {"EffectClear", "EffectLfoClear"}, deck : DeckId, slot : Nat]
  \cup [kind : {"EffectParam"}, deck : DeckId, slot : Nat, param : ParamNames, value : Int]
  \cup [kind : {"EffectWetDry"}, deck : DeckId, slot : Nat, value : Int]
  \cup [kind : {"EffectEnable"}, deck : DeckId, slot : Nat, enabled : BOOLEAN]
  \cup [kind : {"EffectSwapSlots"}, deck : DeckId, slot_a : Nat, slot_b : Nat]
  \cup [kind : {"EffectLfoSet"}, deck : DeckId, slot : Nat, depth : Int, target_param : Nat]
  \cup [kind : {"EffectOneShot"}, deck : DeckId, slot : Nat, beats : Nat, ts : Int]
MasterEvent ==
       [kind : {"SessionStart", "SessionEnd"}]
  \cup [kind : {"Crossfader"}, value : Int]
  \cup [kind : {"SetCrossfaderCurve"}, curve : Curves]
  \cup [kind : {"SetMasterBpm"}, bpm : Int]
  \cup [kind : {"SetSidechainEnabled", "SetMasterLimiterEnabled"}, enabled : BOOLEAN]
  \cup [kind : {"SetSidechainParams"}, trigger_deck : DeckId \cup {None},
     knobs : [SidechainKnobs -> Real32 \cup {None}]]
  \cup [kind : {"SetMasterLimiterThreshold"}, threshold_db : Real32]
EventKind == DeckEvent \cup FxEvent \cup MasterEvent

Lfo == [depth : Percent, target_param : Nat]
\* Option<Lfo>: no configuration is the absent one.
ASSUME LfoAssumption == None \notin Lfo
LfoOption == Lfo \cup {None}
ParamMap == [ParamNames -> Int \cup {None}]
OneShotState == [ends_at : Int, was_enabled : BOOLEAN]
OneShotOption == OneShotState \cup {None}
EffectSlot ==
  [effect_id : Nat, params : ParamMap, wet_dry : Percent, enabled : BOOLEAN,
   lfo : LfoOption, one_shot : OneShotOption]

TrackOption == Tracks \cup {None}
PitchRange == -120..120
TempoRange == 50..200
EqGains == [Bands -> -260..60]
HotCues == [CueSlots -> Position]
EffectSlots == [Slots -> EffectSlot]
StemGains == [Stems -> Percent]
Downbeats == Seq(Nat)
Deck ==
  [loaded : TrackOption, playing : BOOLEAN, position_ms : Nat,
   pitch_semitones : PitchRange, tempo_ratio : TempoRange, eq : EqGains,
   loop_in_ms : Position, loop_out_ms : Position, loop_active : BOOLEAN,
   hot_cues : HotCues, copilot_engaged : BOOLEAN,
   track_gain_db : Int, bpm : Nat, beat_grid_anchor_ms : Nat,
   phase_offset_ms : Int, downbeats : Downbeats,
   effects : EffectSlots, handoff_until_frame : Nat,
   stem_gains : StemGains, stem_mode : BOOLEAN]
DeckPair == [DeckId -> Deck]
LimiterRange == -240..0
Tempo == Nat \ {0}
SidechainKnobSet ==
  {f \in [SidechainKnobs -> Int] : \A k \in SidechainKnobs : f[k] \in knob_min[k]..knob_max[k]}
SidechainConfig ==
  [enabled : BOOLEAN, trigger_deck : DeckId, knobs : SidechainKnobSet]
EngineStateType ==
  [deck : DeckPair, crossfader : Percent, crossfader_curve : Curves,
   session_active : BOOLEAN, master_bpm : Tempo, master_limiter_enabled : BOOLEAN,
   master_limiter_threshold_db : LimiterRange, sidechain : SidechainConfig]
=============================================================================
