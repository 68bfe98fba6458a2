--------------------------- MODULE MCControlPlane ---------------------------
EXTENDS ControlPlane

(* Two of the registered effects, with the descriptors TLC needs. *)
MCDescriptors == (1 :> <<"cutoff_hz", "mode">> @@ 2 :> <<"feedback">>)
MCParamSpec ==
  ("cutoff_hz" :> [min |-> 20, max |-> 20000, default |-> 1000] @@
   "mode"      :> [min |-> 0, max |-> 2, default |-> 0] @@
   "feedback"  :> [min |-> 0, max |-> 95, default |-> 40])
MCParamNames == {"cutoff_hz", "mode", "feedback", "unknown"}
MCTracks == {"song"}

NoCues == [c \in CueSlots |-> None]
OneCue == [NoCues EXCEPT ![7] = 1000]

Load(bpm, gain) ==
  [kind |-> "DeckLoad", deck |-> "A", track |-> "song", bpm |-> bpm, beat_grid_anchor_ms |-> 0,
   downbeats_ms |-> <<>>, hot_cues |-> OneCue, track_gain_db |-> gain]
LoadStemsOf ==
  [kind |-> "DeckLoadStems", deck |-> "A", track |-> "song", bpm |-> 120, beat_grid_anchor_ms |-> 0,
   downbeats_ms |-> <<0, 2000>>, hot_cues |-> NoCues]

OnA(kind) == [kind |-> kind, deck |-> "A"]
At(kind, slot) == [kind |-> kind, deck |-> "A", slot |-> slot]

TransportInputs ==
  { Load(120, NonFinite), LoadStemsOf, OnA("DeckUnload"), OnA("DeckPlay"), OnA("DeckPause"),
    [OnA("DeckPlay") EXCEPT !.deck = "B"],
    OnA("SetStemGain") @@ [stem |-> 0, gain |-> 150], OnA("SetStemGain") @@ [stem |-> 4, gain |-> 0],
    OnA("TakeOver") @@ [handoff_until_frame |-> 9] }

FxInputs ==
  { At("EffectAssign", 0) @@ [effect_id |-> 1], At("EffectAssign", 2) @@ [effect_id |-> 2],
    At("EffectAssign", 0) @@ [effect_id |-> 0],
    At("EffectClear", 0), At("EffectClear", 3), At("EffectLfoClear", 0),
    At("EffectParam", 0) @@ [param |-> "mode", value |-> 7],
    At("EffectParam", 0) @@ [param |-> "feedback", value |-> 7],
    At("EffectWetDry", 0) @@ [value |-> 101],
    At("EffectEnable", 0) @@ [enabled |-> FALSE], At("EffectEnable", 0) @@ [enabled |-> TRUE],
    At("EffectLfoSet", 0) @@ [depth |-> 50, target_param |-> 4],
    At("EffectOneShot", 0) @@ [beats |-> 0, ts |-> 0],
    OnA("EffectSwapSlots") @@ [slot_a |-> 0, slot_b |-> 9],
    OnA("DeckUnload") }

LoopInputs ==
  { Load(120, 0), Load(0, 0), OnA("LoopIn"), OnA("LoopOut"), OnA("LoopExit"),
    OnA("DeckCue") @@ [position_ms |-> 2500],
    At("HotCueSet", 0) @@ [position_ms |-> 500], At("HotCueSet", 8) @@ [position_ms |-> 500],
    At("HotCueTrigger", 7), At("HotCueTrigger", 8), At("HotCueTrigger", 0),
    OnA("SetLoopBars") @@ [bars |-> 3], OnA("PhaseNudge") @@ [delta_ms |-> 5],
    OnA("CopilotEngage"), OnA("CopilotDisengage"), OnA("DeckUnload") }

NoKnobs == [k \in SidechainKnobs |-> None]
MasterInputs ==
  { [kind |-> "Crossfader", value |-> 120], [kind |-> "Crossfader", value |-> 10],
    [kind |-> "SetCrossfaderCurve", curve |-> "Scratch"],
    [kind |-> "SetMasterBpm", bpm |-> 128], [kind |-> "SetMasterBpm", bpm |-> 0],
    [kind |-> "SetSidechainEnabled", enabled |-> TRUE],
    [kind |-> "SetSidechainParams", trigger_deck |-> "B",
     knobs |-> [NoKnobs EXCEPT !["ratio"] = 999, !["attack_ms"] = NonFinite]],
    [kind |-> "SetMasterLimiterEnabled", enabled |-> FALSE],
    [kind |-> "SetMasterLimiterThreshold", threshold_db |-> NonFinite],
    [kind |-> "SetMasterLimiterThreshold", threshold_db |-> -999],
    [kind |-> "SessionStart"], [kind |-> "SessionEnd"],
    OnA("EqAdjust") @@ [band |-> "Low", value_db |-> 99],
    OnA("PitchBend") @@ [semitones |-> NonFinite], OnA("PitchBend") @@ [semitones |-> 500],
    OnA("TempoBend") @@ [ratio |-> 10], OnA("PitchTempoReset"), OnA("DeckUnload") }
=============================================================================
