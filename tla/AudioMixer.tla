----------------------------- MODULE AudioMixer -----------------------------
(***************************************************************************)
(* engine/src/audio/mixer.rs: the audio thread's own copy of the mix and   *)
(* AudioMixer::apply, which folds one popped command into it, with the     *)
(* FxBank of engine/src/audio/effects/mod.rs.  The samples render() makes  *)
(* and the oscillator's phase, all that a seek resets, are left out.       *)
(***************************************************************************)
EXTENDS EngineState

CONSTANT ParamSpec   \* parameter name -> [min, max, default] of its descriptor

ASSUME ParamSpecAssumption ==
  ParamSpec \in [UNION {{Descriptors[e][i] : i \in DOMAIN Descriptors[e]} : e \in DOMAIN Descriptors}
                   -> [min : Int, max : Int, default : Int]]

MAX_PARAMS == 6

\* DESCRIPTORS of effects/*.rs: they fit the table, each name stands once.
ASSUME DescriptorsAssumption ==
  \A id \in DOMAIN Descriptors :
    /\ Len(Descriptors[id]) <= MAX_PARAMS
    /\ \A i, j \in DOMAIN Descriptors[id] : Descriptors[id][i] = Descriptors[id][j] => i = j

\* FxBank::new and default_params: the table holds MAX_PARAMS numbers.
default_params(id) ==
  [i \in 1..MAX_PARAMS |-> IF i <= Len(descriptors(id))
                           THEN ParamSpec[descriptors(id)[i]].default ELSE 0]

NewBank == [effect_id |-> 0, params |-> [i \in 1..MAX_PARAMS |-> 0], wet_dry |-> 50,
            enabled |-> FALSE, lfo |-> None]

NewDeckHot == [playing |-> FALSE, loaded |-> None, stem_handle |-> None,
               stem_gains |-> AllAudible, gain |-> 0, track_gain_db |-> 0,
               handoff_until_frame |-> 0,
               pitch_semitones |-> 0, tempo_ratio |-> 100,
               fx |-> [s \in Slots |-> NewBank]]

NewMixer == [deck |-> [d \in DeckId |-> NewDeckHot], crossfader |-> 50,
             crossfader_curve |-> "Linear", master_limiter_enabled |-> TRUE,
             master_limiter_threshold_db |-> -5,
             sidechain |-> DefaultState.sidechain]

assign(id) == [NewBank EXCEPT !.effect_id = id, !.params = default_params(id), !.enabled = TRUE]

\* The parameters and the blend of a cleared bank stay behind.
clear(b) == [b EXCEPT !.effect_id = 0, !.enabled = FALSE, !.lfo = None]

set_param(b, i, v) ==
  LET descs == descriptors(b.effect_id)
  IN IF i > MAX_PARAMS THEN b
     ELSE [b EXCEPT !.params[i] = IF i <= Len(descs)
                                  THEN Clamp(v, ParamSpec[descs[i]].min, ParamSpec[descs[i]].max)
                                  ELSE v]

BankKinds == {"EffectAssign", "EffectClear", "EffectParam", "EffectWetDry",
              "EffectEnable", "EffectLfoSet", "EffectLfoClear"}

BankAfter(b, c) ==
  CASE c.kind = "EffectAssign"   -> IF c.effect_id = 0 THEN clear(b) ELSE assign(c.effect_id)
    [] c.kind = "EffectClear"    -> clear(b)
    [] c.kind = "EffectParam"    -> set_param(b, c.param_id, c.value)
    [] c.kind = "EffectWetDry"   -> [b EXCEPT !.wet_dry = clamp_unit(c.value)]
    [] c.kind = "EffectEnable"   -> [b EXCEPT !.enabled = c.enabled]
    [] c.kind = "EffectLfoSet"   -> [b EXCEPT !.lfo = c.config]
    [] c.kind = "EffectLfoClear" -> [b EXCEPT !.lfo = None]

BankCmd(h, c) ==
  IF c.slot \in Slots THEN [h EXCEPT !.fx[c.slot] = BankAfter(@, c)] ELSE h

\* playing is not touched by a load: the audio side keeps the transport.
LoadHandle(h, c) ==
  [h EXCEPT !.loaded = c.handle, !.stem_handle = None, !.stem_gains = AllAudible,
            !.track_gain_db = IF c.track_gain_db = NonFinite THEN 0
                              ELSE Clamp(c.track_gain_db, -600, 240)]

LoadStems(h, c) ==
  [h EXCEPT !.loaded = None, !.stem_handle = c.stems, !.stem_gains = AllAudible,
            !.track_gain_db = 0]

\* Mutant: an unloaded deck goes on playing.
UnloadHandle_keepsPlaying(h) ==
  [h EXCEPT !.loaded = None, !.stem_handle = None, !.stem_gains = AllAudible,
            !.track_gain_db = 0]

\* Effects, pitch, tempo, EQ gain and handoff outlive the track.
UnloadHandle(h) ==
  [h EXCEPT !.loaded = None, !.stem_handle = None, !.stem_gains = AllAudible,
            !.playing = FALSE, !.track_gain_db = 0]

HotAfter(h, c) ==
  CASE c.kind = "DeckPlay"        -> [h EXCEPT !.playing = TRUE]
    [] c.kind = "DeckPause"       -> [h EXCEPT !.playing = FALSE]
    [] c.kind = "DeckLoad"        -> LoadHandle(h, c)
    [] c.kind = "DeckLoadStems"   -> LoadStems(h, c)
    [] c.kind = "DeckUnload"      -> UnloadHandle(h)
    [] c.kind = "SetStemGain"     -> IF c.stem \in Stems
                                     THEN [h EXCEPT !.stem_gains[c.stem] = clamp_unit(c.gain)] ELSE h
    [] c.kind = "Eq"              -> [h EXCEPT !.gain = c.target_db]
    [] c.kind = "Pitch"           -> [h EXCEPT !.pitch_semitones = c.semitones]
    [] c.kind = "Tempo"           -> [h EXCEPT !.tempo_ratio = c.ratio]
    [] c.kind = "PitchTempoReset" -> [h EXCEPT !.pitch_semitones = 0, !.tempo_ratio = 100]
    [] c.kind = "ArmHandoff"      -> [h EXCEPT !.handoff_until_frame = c.until_frame]
    [] c.kind = "EffectSwap"      -> [h EXCEPT !.fx = [@ EXCEPT ![c.a] = h.fx[c.b],
                                                               ![c.b] = h.fx[c.a]]]
    [] c.kind \in BankKinds       -> BankCmd(h, c)
    [] OTHER                      -> h    \* DeckSeek, LoopArm, LoopDisarm, CancelAfter

MasterCmds == {"Crossfader", "SetCrossfaderCurve", "SetMasterLimiterEnabled",
               "SetMasterLimiterThreshold", "SetSidechain"}

ApplyCmd(m, c) ==
  CASE c.kind = "Crossfader"         -> [m EXCEPT !.crossfader = clamp_unit(c.target)]
    [] c.kind = "SetCrossfaderCurve" -> [m EXCEPT !.crossfader_curve = c.curve]
    [] c.kind = "SetMasterLimiterEnabled"   -> [m EXCEPT !.master_limiter_enabled = c.enabled]
    [] c.kind = "SetMasterLimiterThreshold" ->
         [m EXCEPT !.master_limiter_threshold_db = clamp_threshold_db(c.threshold_db)]
    [] c.kind = "SetSidechain"       -> [m EXCEPT !.sidechain = c.sidechain]
    [] c.kind \notin MasterCmds      -> [m EXCEPT !.deck[c.deck] = HotAfter(@, c)]
-----------------------------------------------------------------------------
(* The commands of translator.rs, and the mixers they build. *)
DeckCmd ==
  [kind : {"DeckPlay", "DeckPause", "DeckUnload", "PitchTempoReset", "LoopDisarm",
           "CancelAfter"}, deck : DeckId]
  \cup [kind : {"DeckSeek"}, deck : DeckId, ms : Nat]
  \cup [kind : {"Eq"}, deck : DeckId, target_db : Int]
  \cup [kind : {"Pitch"}, deck : DeckId, semitones : PitchRange]
  \cup [kind : {"Tempo"}, deck : DeckId, ratio : TempoRange]
  \cup [kind : {"LoopArm"}, deck : DeckId, in : Nat, out : Nat]
  \cup [kind : {"DeckLoad"}, deck : DeckId, handle : Tracks, track_gain_db : Real32]
  \cup [kind : {"DeckLoadStems"}, deck : DeckId, stems : Tracks]
  \cup [kind : {"SetStemGain"}, deck : DeckId, stem : Stems, gain : Int]
  \cup [kind : {"ArmHandoff"}, deck : DeckId, until_frame : Nat]
  \cup [kind : {"EffectSwap"}, deck : DeckId, a : Slots, b : Slots]
BankCommand ==
  [kind : {"EffectAssign"}, deck : DeckId, slot : Nat, effect_id : Nat]
  \cup [kind : {"EffectClear", "EffectLfoClear"}, deck : DeckId, slot : Nat]
  \cup [kind : {"EffectWetDry"}, deck : DeckId, slot : Nat, value : Int]
  \cup [kind : {"EffectEnable"}, deck : DeckId, slot : Nat, enabled : BOOLEAN]
  \cup [kind : {"EffectParam"}, deck : DeckId, slot : Nat, param_id : Nat \ {0}, value : Int]
  \cup [kind : {"EffectLfoSet"}, deck : DeckId, slot : Nat, config : Lfo]
MasterCommand ==
  [kind : {"Crossfader"}, target : Percent]
  \cup [kind : {"SetCrossfaderCurve"}, curve : Curves]
  \cup [kind : {"SetMasterLimiterEnabled"}, enabled : BOOLEAN]
  \cup [kind : {"SetMasterLimiterThreshold"}, threshold_db : LimiterRange]
  \cup [kind : {"SetSidechain"}, sidechain : SidechainConfig]
AudioCommand == DeckCmd \cup BankCommand \cup MasterCommand

ParamBank == [1..MAX_PARAMS -> Int]
FxBank ==
  [effect_id : Nat, params : ParamBank, wet_dry : Percent,
   enabled : BOOLEAN, lfo : LfoOption]
FxBanks == [Slots -> FxBank]
DeckHot ==
  [playing : BOOLEAN, loaded : TrackOption, stem_handle : TrackOption,
   stem_gains : StemGains, gain : Int, track_gain_db : Int,
   handoff_until_frame : Nat, pitch_semitones : PitchRange, tempo_ratio : TempoRange,
   fx : FxBanks]
HotPair == [DeckId -> DeckHot]
Mixer ==
  [deck : HotPair, crossfader : Percent, crossfader_curve : Curves,
   master_limiter_enabled : BOOLEAN, master_limiter_threshold_db : LimiterRange,
   sidechain : SidechainConfig]
=============================================================================
