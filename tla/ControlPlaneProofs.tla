------------------------- MODULE ControlPlaneProofs -------------------------
(***************************************************************************)
(* What holds of the event path for every set of inputs, every ring        *)
(* capacity and any number of events: the types of commands and mixer, the *)
(* invariants of the reducer's state, and that the audio thread's copy of  *)
(* the mix parts from it only for the causes the code gives.               *)
(***************************************************************************)
EXTENDS ControlPlane, EngineStateProofs

-----------------------------------------------------------------------------
(* Types: the translator only emits commands the mixer knows, and these    *)
(* leave the mixer well formed.                                            *)

LEMMA MasterCommandSeq ==
  ASSUME NEW c \in MasterCommand PROVE <<c>> \in Seq(AudioCommand) /\ Len(<<c>>) <= 2
BY DEF AudioCommand

LEMMA DeckCmdSeq ==
  ASSUME NEW c \in DeckCmd PROVE <<c>> \in Seq(AudioCommand) /\ Len(<<c>>) <= 2
BY DEF AudioCommand

LEMMA BankCommandSeq ==
  ASSUME NEW c \in BankCommand PROVE <<c>> \in Seq(AudioCommand) /\ Len(<<c>>) <= 2
BY DEF AudioCommand

LEMMA PlainCmdType ==
  ASSUME NEW d \in DeckId,
         NEW k \in {"DeckPlay", "DeckPause", "DeckUnload", "PitchTempoReset", "LoopDisarm",
                    "CancelAfter"}
  PROVE  Cmd(k, d) \in DeckCmd
BY DEF Cmd, DeckCmd

(* The parameter a client names is found inside the effect's list. *)
LEMMA ParamCmdsType ==
  ASSUME NEW s \in EngineStateType, NEW ev, ev.deck \in DeckId, ev.slot \in Nat,
         ev.value \in Int
  PROVE  ParamCmds(s, ev) \in Seq(AudioCommand) /\ Len(ParamCmds(s, ev)) <= 2
<1> DEFINE names == IF ev.slot \in Slots
                    THEN descriptors(s.deck[ev.deck].effects[ev.slot].effect_id) ELSE <<>>
           ids   == {i \in DOMAIN names : names[i] = ev.param}
           id    == CHOOSE i \in ids : \A j \in ids : i <= j
           cmd   == [kind |-> "EffectParam", deck |-> ev.deck, slot |-> ev.slot,
                     param_id |-> id, value |-> ev.value]
<1>1. names \in Seq(ParamNames)
  BY ConstantsAssumption DEF descriptors
<1>2. CASE ids = {}
  <2>1. ParamCmds(s, ev) = <<>>
    BY <1>2, Zenon DEF ParamCmds
  <2> QED BY <2>1
<1>3. CASE ids # {}
  <2>1. ids \subseteq Nat \ {0}
    BY <1>1
  <2>2. \E i \in ids : \A j \in ids : i <= j
    <3> HIDE DEF ids
    <3>1. ids \subseteq Nat
      BY <2>1
    <3> QED BY <1>3, <3>1, LeastNat
  <2>3. id \in Nat \ {0}
    <3> HIDE DEF ids
    <3> QED BY <2>1, <2>2
  <2> HIDE DEF id
  <2>4. cmd \in BankCommand
    BY <2>3 DEF BankCommand
  <2> HIDE DEF cmd
  <2>5. <<cmd>> \in Seq(AudioCommand) /\ Len(<<cmd>>) <= 2
    BY <2>4, BankCommandSeq
  <2> USE DEF id, cmd
  <2>6. ParamCmds(s, ev) = <<cmd>>
    BY <1>3, Zenon DEF ParamCmds
  <2>7. QED
    BY <2>5, <2>6, Zenon
<1>4. QED
  BY <1>2, <1>3

LEMMA LfoCmdsType ==
  ASSUME NEW s \in EngineStateType, NEW ev, ev.deck \in DeckId, ev.slot \in Nat
  PROVE  LfoCmds(s, ev) \in Seq(AudioCommand) /\ Len(LfoCmds(s, ev)) <= 2
<1> DEFINE lfo == IF ev.slot \in Slots THEN s.deck[ev.deck].effects[ev.slot].lfo ELSE None
           cmd == [kind |-> "EffectLfoSet", deck |-> ev.deck, slot |-> ev.slot, config |-> lfo]
<1>1. CASE lfo = None
  BY <1>1 DEF LfoCmds
<1>2. CASE lfo # None
  <2>1. s.deck[ev.deck].effects \in EffectSlots
    BY DEF EngineStateType, DeckPair, Deck
  <2>2. lfo \in Lfo
    BY <1>2, <2>1 DEF EffectSlots, EffectSlot, LfoOption
  <2> HIDE DEF lfo
  <2>3. cmd \in BankCommand
    BY <2>2 DEF BankCommand
  <2> HIDE DEF cmd
  <2>4. <<cmd>> \in Seq(AudioCommand) /\ Len(<<cmd>>) <= 2
    BY <2>3, BankCommandSeq
  <2> USE DEF lfo, cmd
  <2>5. LfoCmds(s, ev) = <<cmd>>
    BY <1>2, Zenon DEF LfoCmds
  <2>6. QED
    BY <2>4, <2>5, Zenon
<1>3. QED
  BY <1>1, <1>2

LEMMA LoopCmdsType ==
  ASSUME NEW s \in EngineStateType, NEW ev, ev.deck \in DeckId
  PROVE  LoopCmds(s, ev) \in Seq(AudioCommand) /\ Len(LoopCmds(s, ev)) <= 2
<1> DEFINE d   == s.deck[ev.deck]
           cmd == [kind |-> "LoopArm", deck |-> ev.deck,
                   in |-> d.loop_in_ms, out |-> d.loop_out_ms]
<1>1. d \in Deck
  BY DEF EngineStateType, DeckPair
<1> HIDE DEF d
<1>2. CASE d.loop_active /\ d.loop_in_ms # None /\ d.loop_out_ms # None
  <2>1. d.loop_in_ms \in Nat /\ d.loop_out_ms \in Nat
    BY <1>1, <1>2 DEF Deck, Position
  <2>2. cmd \in DeckCmd
    BY <2>1 DEF DeckCmd
  <2> HIDE DEF cmd
  <2>3. <<cmd>> \in Seq(AudioCommand) /\ Len(<<cmd>>) <= 2
    BY <2>2, DeckCmdSeq
  <2> USE DEF cmd, d
  <2>4. LoopCmds(s, ev) = <<cmd>>
    BY <1>2, Zenon DEF LoopCmds
  <2>5. QED
    BY <2>3, <2>4, Zenon
<1>3. CASE ~(d.loop_active /\ d.loop_in_ms # None /\ d.loop_out_ms # None)
  BY <1>3 DEF LoopCmds, d
<1>4. QED
  BY <1>2, <1>3

LEMMA EnableCmdType ==
  ASSUME NEW ev, ev.deck \in DeckId, ev.slot \in Nat, NEW on \in BOOLEAN
  PROVE  EnableCmd(ev, on) \in BankCommand
BY DEF EnableCmd, BankCommand

LEMMA ToggleType ==
  ASSUME NEW prev, NEW next, NEW ev, ev.deck \in DeckId
  PROVE  Toggle(prev, next, ev) \in Seq(AudioCommand) /\ Len(Toggle(prev, next, ev)) <= 2
<1> DEFINE play  == Cmd("DeckPlay", ev.deck)
           pause == Cmd("DeckPause", ev.deck)
<1>1. play \in DeckCmd /\ pause \in DeckCmd
  BY PlainCmdType
<1>2. \/ Toggle(prev, next, ev) = <<play>>
      \/ Toggle(prev, next, ev) = <<pause>>
      \/ Toggle(prev, next, ev) = <<>>
  BY DEF Toggle
<1> HIDE DEF play, pause
<1>3. <<>> \in Seq(AudioCommand) /\ Len(<<>>) <= 2
  OBVIOUS
<1>4. QED
  BY <1>1, <1>2, <1>3, DeckCmdSeq

LEMMA LoadCmdsType ==
  ASSUME NEW ev \in LoadEvent \cup LoadStemsEvent, NEW handle \in TrackOption
  PROVE  LoadCmds(ev, handle) \in Seq(AudioCommand) /\ Len(LoadCmds(ev, handle)) <= 2
<1> DEFINE load  == [kind |-> "DeckLoad", deck |-> ev.deck, handle |-> handle,
                     track_gain_db |-> ev.track_gain_db]
           stems == [kind |-> "DeckLoadStems", deck |-> ev.deck, stems |-> handle]
<1>1. CASE handle = None
  BY <1>1 DEF LoadCmds
<1>2. CASE handle # None /\ ev.kind = "DeckLoad"
  <2>1. ev.deck \in DeckId /\ handle \in Tracks /\ ev.track_gain_db \in Real32
    BY <1>2 DEF LoadEvent, LoadStemsEvent, TrackOption
  <2>2. load \in DeckCmd
    BY <2>1 DEF DeckCmd
  <2> HIDE DEF load
  <2>3. <<load>> \in Seq(AudioCommand) /\ Len(<<load>>) <= 2
    BY <2>2, DeckCmdSeq
  <2> USE DEF load
  <2>4. LoadCmds(ev, handle) = <<load>>
    BY <1>2, Zenon DEF LoadCmds
  <2>5. QED
    BY <2>3, <2>4, Zenon
<1>3. CASE handle # None /\ ev.kind # "DeckLoad"
  <2>1. ev.deck \in DeckId /\ handle \in Tracks
    BY <1>3 DEF LoadEvent, LoadStemsEvent, TrackOption
  <2>2. stems \in DeckCmd
    BY <2>1 DEF DeckCmd
  <2> HIDE DEF stems
  <2>3. <<stems>> \in Seq(AudioCommand) /\ Len(<<stems>>) <= 2
    BY <2>2, DeckCmdSeq
  <2> USE DEF stems
  <2>4. LoadCmds(ev, handle) = <<stems>>
    BY <1>3, Zenon DEF LoadCmds
  <2>5. QED
    BY <2>3, <2>4, Zenon
<1>4. QED
  BY <1>1, <1>2, <1>3

(* What the translator emits for a deck event. *)
LEMMA DeckCommandsType ==
  ASSUME NEW prev \in EngineStateType, NEW next \in EngineStateType,
         NEW ev \in DeckEvent, NEW handle \in TrackOption
  PROVE  /\ Commands(prev, next, ev, handle) \in Seq(AudioCommand)
         /\ Len(Commands(prev, next, ev, handle)) <= 2
<1> DEFINE out == Commands(prev, next, ev, handle)
           d   == next.deck[ev.deck]
<1>1. ev.deck \in DeckId
  BY DEF DeckEvent, LoadEvent, LoadStemsEvent, PlainDeckEvent
<1>2. d \in Deck
  BY <1>1 DEF EngineStateType, DeckPair
<1>3. CASE ev.kind \in {"DeckPlay", "DeckPause"}
  <2>1. out = Toggle(prev, next, ev)
    BY <1>3 DEF Commands
  <2>2. QED
    BY <1>1, <2>1, ToggleType
<1>4. CASE ev.kind \in {"DeckCue", "HotCueTrigger"}
  <2> DEFINE c == [kind |-> "DeckSeek", deck |-> ev.deck, ms |-> d.position_ms]
  <2>1. d.position_ms \in Nat
    BY <1>2 DEF Deck
  <2>2. c \in DeckCmd
    BY <1>1, <2>1 DEF DeckCmd
  <2>3. out = <<c>>
    BY <1>4 DEF Commands, SeekCmds
  <2> HIDE DEF c
  <2>4. QED
    BY <2>2, <2>3, DeckCmdSeq
<1>5. CASE ev.kind = "EqAdjust"
  <2> DEFINE c == [kind |-> "Eq", deck |-> ev.deck, target_db |-> d.eq[ev.band]]
  <2>1. ev.band \in Bands
    BY <1>5 DEF DeckEvent, LoadEvent, LoadStemsEvent, PlainDeckEvent
  <2>2. d.eq[ev.band] \in Int
    <3>1. d.eq \in EqGains
      BY <1>2 DEF Deck
    <3>2. \A e \in EqGains, b \in Bands : e[b] \in Int
      BY SMT DEF EqGains
    <3>3. QED
      BY <2>1, <3>1, <3>2
  <2>3. c \in DeckCmd
    BY <1>1, <2>2 DEF DeckCmd
  <2>4. out = <<c>>
    BY <1>5 DEF Commands
  <2> HIDE DEF c
  <2>5. QED
    BY <2>3, <2>4, DeckCmdSeq
<1>6. CASE ev.kind = "PitchBend"
  <2> DEFINE c == [kind |-> "Pitch", deck |-> ev.deck, semitones |-> d.pitch_semitones]
  <2>1. d.pitch_semitones \in PitchRange
    BY <1>2 DEF Deck
  <2>2. c \in DeckCmd
    BY <1>1, <2>1 DEF DeckCmd
  <2>3. out = <<c>>
    BY <1>6 DEF Commands
  <2> HIDE DEF c
  <2>4. QED
    BY <2>2, <2>3, DeckCmdSeq
<1>7. CASE ev.kind = "TempoBend"
  <2> DEFINE c == [kind |-> "Tempo", deck |-> ev.deck, ratio |-> d.tempo_ratio]
  <2>1. d.tempo_ratio \in TempoRange
    BY <1>2 DEF Deck
  <2>2. c \in DeckCmd
    BY <1>1, <2>1 DEF DeckCmd
  <2>3. out = <<c>>
    BY <1>7 DEF Commands
  <2> HIDE DEF c
  <2>4. QED
    BY <2>2, <2>3, DeckCmdSeq
<1>8. CASE ev.kind \in {"PitchTempoReset", "DeckUnload"}
  <2>1. out = <<Cmd(ev.kind, ev.deck)>>
    BY <1>8 DEF Commands
  <2>2. Cmd(ev.kind, ev.deck) \in DeckCmd
    BY <1>1, <1>8, PlainCmdType
  <2>3. QED
    BY <2>1, <2>2, DeckCmdSeq
<1>9. CASE ev.kind \in {"LoopOut", "SetLoopBars"}
  <2>1. out = LoopCmds(next, ev)
    BY <1>9 DEF Commands
  <2>2. QED
    BY <1>1, <2>1, LoopCmdsType
<1>10. CASE ev.kind = "LoopExit"
  <2>1. out = <<Cmd("LoopDisarm", ev.deck)>>
    BY <1>10 DEF Commands
  <2>2. Cmd("LoopDisarm", ev.deck) \in DeckCmd
    BY <1>1, PlainCmdType
  <2>3. QED
    BY <2>1, <2>2, DeckCmdSeq
<1>11. CASE ev.kind \in {"DeckLoad", "DeckLoadStems"}
  <2>1. ev \in LoadEvent \cup LoadStemsEvent
    BY <1>11 DEF DeckEvent, LoadEvent, LoadStemsEvent, PlainDeckEvent
  <2>2. out = LoadCmds(ev, handle)
    BY <1>11 DEF Commands
  <2>3. QED
    BY <2>1, <2>2, LoadCmdsType
<1>12. CASE ev.kind = "SetStemGain"
  <2>1. out = IF ev.stem \in Stems THEN <<ev>> ELSE <<>>
    BY <1>12 DEF Commands, StemGainCmds
  <2>2. ev.stem \in Stems => ev \in DeckCmd
    BY <1>12 DEF DeckEvent, LoadEvent, LoadStemsEvent, PlainDeckEvent, DeckCmd
  <2>3. CASE ev.stem \in Stems
    BY <2>1, <2>2, <2>3, DeckCmdSeq
  <2>4. CASE ev.stem \notin Stems
    BY <2>1, <2>4
  <2>5. QED
    BY <2>3, <2>4
<1>13. CASE ev.kind = "TakeOver"
  <2> DEFINE a == [kind |-> "ArmHandoff", deck |-> ev.deck,
                   until_frame |-> ev.handoff_until_frame]
             c == Cmd("CancelAfter", ev.deck)
  <2>1. out = <<a, c>>
    BY <1>13 DEF Commands, TakeOverCmds
  <2>2. ev.handoff_until_frame \in Nat
    BY <1>13 DEF DeckEvent, LoadEvent, LoadStemsEvent, PlainDeckEvent
  <2>3. a \in DeckCmd
    BY <1>1, <2>2 DEF DeckCmd
  <2>4. c \in DeckCmd
    BY <1>1, PlainCmdType
  <2> HIDE DEF a, c
  <2>5. QED
    BY <2>1, <2>3, <2>4 DEF AudioCommand
<1>14. CASE ev.kind \in {"PhaseNudge", "HotCueSet", "LoopIn", "CopilotEngage",
                         "CopilotDisengage"}
  <2>1. out = <<>>
    BY <1>14 DEF Commands
  <2>2. QED
    BY <2>1
<1>15. ev.kind \in {"DeckPlay", "DeckPause", "DeckCue", "HotCueTrigger", "EqAdjust",
         "PitchBend", "TempoBend", "PitchTempoReset", "DeckUnload", "LoopOut", "SetLoopBars",
         "LoopExit", "DeckLoad", "DeckLoadStems", "SetStemGain", "TakeOver", "PhaseNudge",
         "HotCueSet", "LoopIn", "CopilotEngage", "CopilotDisengage"}
  BY DEF DeckEvent, LoadEvent, LoadStemsEvent, PlainDeckEvent
<1>16. QED
  BY <1>3, <1>4, <1>5, <1>6, <1>7, <1>8, <1>9, <1>10, <1>11, <1>12, <1>13, <1>14, <1>15

(* What the translator emits for an effect event. *)
LEMMA FxCommandsType ==
  ASSUME NEW prev \in EngineStateType, NEW next \in EngineStateType,
         NEW ev \in FxEvent, NEW handle
  PROVE  /\ Commands(prev, next, ev, handle) \in Seq(AudioCommand)
         /\ Len(Commands(prev, next, ev, handle)) <= 2
<1> DEFINE out == Commands(prev, next, ev, handle)
<1>1. ev.deck \in DeckId
  BY DEF FxEvent
<1>2. CASE ev.kind \in {"EffectAssign", "EffectClear", "EffectWetDry", "EffectLfoClear"}
  <2>1. out = <<ev>>
    BY <1>2 DEF Commands, SlotCmds
  <2>2. ev \in BankCommand
    BY <1>2 DEF FxEvent, BankCommand
  <2>3. QED
    BY <2>1, <2>2, BankCommandSeq
<1>3. CASE ev.kind = "EffectEnable"
  <2>1. out = <<EnableCmd(ev, ev.enabled)>>
    BY <1>3 DEF Commands
  <2>2. ev.slot \in Nat /\ ev.enabled \in BOOLEAN
    BY <1>3 DEF FxEvent
  <2>3. EnableCmd(ev, ev.enabled) \in BankCommand
    BY <1>1, <2>2, EnableCmdType
  <2>4. QED
    BY <2>1, <2>3, BankCommandSeq
<1>4. CASE ev.kind = "EffectParam"
  <2>1. out = ParamCmds(next, ev)
    BY <1>4 DEF Commands
  <2>2. ev.slot \in Nat /\ ev.value \in Int
    BY <1>4 DEF FxEvent
  <2>3. QED
    BY <1>1, <2>1, <2>2, ParamCmdsType
<1>5. CASE ev.kind = "EffectSwapSlots"
  <2> DEFINE c == [kind |-> "EffectSwap", deck |-> ev.deck,
                   a |-> SwapIndex(ev.slot_a), b |-> SwapIndex(ev.slot_b)]
  <2>1. ev.slot_a \in Nat /\ ev.slot_b \in Nat
    BY <1>5 DEF FxEvent
  <2>2. SwapIndex(ev.slot_a) \in Slots /\ SwapIndex(ev.slot_b) \in Slots
    BY <2>1, SMT DEF SwapIndex, Clamp, Slots
  <2>3. c \in DeckCmd
    BY <1>1, <2>2 DEF DeckCmd
  <2>4. out = <<c>> \/ out = <<>>
    BY <1>5 DEF Commands, SwapCmds
  <2> HIDE DEF c
  <2>5. <<>> \in Seq(AudioCommand) /\ Len(<<>>) <= 2
    OBVIOUS
  <2>6. QED
    BY <2>3, <2>4, <2>5, DeckCmdSeq
<1>6. CASE ev.kind = "EffectLfoSet"
  <2>1. out = LfoCmds(next, ev)
    BY <1>6 DEF Commands
  <2>2. ev.slot \in Nat
    BY <1>6 DEF FxEvent
  <2>3. QED
    BY <1>1, <2>1, <2>2, LfoCmdsType
<1>7. CASE ev.kind = "EffectOneShot"
  <2>1. out = OneShotCmds(prev, next, ev)
    BY <1>7 DEF Commands
  <2>2. ev.slot \in Nat
    BY <1>7 DEF FxEvent
  <2>3. EnableCmd(ev, TRUE) \in BankCommand
    BY <1>1, <2>2, EnableCmdType
  <2>4. out = <<EnableCmd(ev, TRUE)>> \/ out = <<>>
    BY <2>1 DEF OneShotCmds
  <2>5. <<>> \in Seq(AudioCommand) /\ Len(<<>>) <= 2
    OBVIOUS
  <2>6. QED
    BY <2>3, <2>4, <2>5, BankCommandSeq
<1>8. QED
  BY <1>2, <1>3, <1>4, <1>5, <1>6, <1>7 DEF FxEvent

(* What the translator emits for an event of the master section. *)
LEMMA MasterCommandsType ==
  ASSUME NEW prev \in EngineStateType, NEW next \in EngineStateType,
         NEW ev \in MasterEvent, NEW handle
  PROVE  /\ Commands(prev, next, ev, handle) \in Seq(AudioCommand)
         /\ Len(Commands(prev, next, ev, handle)) <= 2
<1> DEFINE out == Commands(prev, next, ev, handle)
<1>1. CASE ev.kind = "Crossfader"
  <2> DEFINE c == [kind |-> "Crossfader", target |-> next.crossfader]
  <2>1. c \in MasterCommand
    BY DEF MasterCommand, EngineStateType
  <2>2. out = <<c>>
    BY <1>1 DEF Commands
  <2> HIDE DEF c
  <2>3. QED
    BY <2>1, <2>2, MasterCommandSeq
<1>2. CASE ev.kind = "SetCrossfaderCurve"
  <2> DEFINE c == [kind |-> "SetCrossfaderCurve", curve |-> next.crossfader_curve]
  <2>1. c \in MasterCommand
    BY DEF MasterCommand, EngineStateType
  <2>2. out = <<c>>
    BY <1>2 DEF Commands
  <2> HIDE DEF c
  <2>3. QED
    BY <2>1, <2>2, MasterCommandSeq
<1>3. CASE ev.kind = "SetMasterLimiterEnabled"
  <2> DEFINE c == [kind |-> ev.kind, enabled |-> next.master_limiter_enabled]
  <2>1. c \in MasterCommand
    BY <1>3 DEF MasterCommand, EngineStateType
  <2>2. out = <<c>>
    BY <1>3 DEF Commands, LimiterCmds
  <2> HIDE DEF c
  <2>3. QED
    BY <2>1, <2>2, MasterCommandSeq
<1>4. CASE ev.kind = "SetMasterLimiterThreshold"
  <2> DEFINE c == [kind |-> ev.kind, threshold_db |-> next.master_limiter_threshold_db]
  <2>1. c \in MasterCommand
    BY <1>4 DEF MasterCommand, EngineStateType
  <2>2. out = <<c>>
    BY <1>4 DEF Commands, LimiterCmds
  <2> HIDE DEF c
  <2>3. QED
    BY <2>1, <2>2, MasterCommandSeq
<1>5. CASE ev.kind \in {"SetSidechainEnabled", "SetSidechainParams"}
  <2> DEFINE c == [kind |-> "SetSidechain", sidechain |-> next.sidechain]
  <2>1. c \in MasterCommand
    BY DEF MasterCommand, EngineStateType
  <2>2. out = <<c>>
    BY <1>5 DEF Commands, SidechainCmds
  <2> HIDE DEF c
  <2>3. QED
    BY <2>1, <2>2, MasterCommandSeq
<1>6. CASE ev.kind \in {"SessionStart", "SessionEnd", "SetMasterBpm"}
  <2>1. out = <<>>
    BY <1>6 DEF Commands
  <2>2. QED
    BY <2>1
<1>7. QED
  BY <1>1, <1>2, <1>3, <1>4, <1>5, <1>6 DEF MasterEvent

(* Every event yields at most two commands, all of them well formed. *)
LEMMA CommandsType ==
  ASSUME NEW prev \in EngineStateType, NEW next \in EngineStateType,
         NEW ev \in EventKind, NEW handle \in TrackOption
  PROVE  /\ Commands(prev, next, ev, handle) \in Seq(AudioCommand)
         /\ Len(Commands(prev, next, ev, handle)) <= 2
BY DeckCommandsType, FxCommandsType, MasterCommandsType DEF EventKind

-----------------------------------------------------------------------------
(* The mixer *)

LEMMA DefaultParams ==
  ASSUME NEW id \in Nat PROVE default_params(id) \in ParamBank
<1>1. descriptors(id) \in Seq(ParamNames)
  BY ConstantsAssumption DEF descriptors
<1>2. ASSUME NEW i \in 1..MAX_PARAMS
      PROVE  (IF i <= Len(descriptors(id)) THEN ParamSpec[descriptors(id)[i]].default ELSE 0) \in Int
  <2>1. CASE i <= Len(descriptors(id))
    <3>1. i \in DOMAIN descriptors(id)
      BY <1>1, <2>1 DEF MAX_PARAMS
    <3>2. id \in DOMAIN Descriptors
      BY <3>1 DEF descriptors
    <3>3. descriptors(id) = Descriptors[id]
      BY <3>2 DEF descriptors
    <3>4. descriptors(id)[i] \in UNION {{Descriptors[e][j] : j \in DOMAIN Descriptors[e]} :
                                          e \in DOMAIN Descriptors}
      BY <3>1, <3>2, <3>3
    <3>5. ParamSpec[descriptors(id)[i]] \in [min : Int, max : Int, default : Int]
      BY <3>4, ParamSpecAssumption
    <3>6. QED
      BY <2>1, <3>5
  <2>2. CASE ~(i <= Len(descriptors(id)))
    BY <2>2
  <2>3. QED
    BY <2>1, <2>2
<1>3. QED
  BY <1>2 DEF default_params, ParamBank

LEMMA SetParamType ==
  ASSUME NEW b \in FxBank, NEW i \in Nat \ {0}, NEW v \in Int
  PROVE  set_param(b, i, v) \in FxBank
<1> DEFINE descs == descriptors(b.effect_id)
           spec  == ParamSpec[descs[i]]
           x     == IF i <= Len(descs) THEN Clamp(v, spec.min, spec.max) ELSE v
           ps    == [b.params EXCEPT ![i] = x]
<1>1. CASE i > MAX_PARAMS
  BY <1>1 DEF set_param
<1>2. CASE ~(i > MAX_PARAMS)
  <2>1. x \in Int
    <3>1. CASE i <= Len(descs)
      <4>1. descs \in Seq(ParamNames)
        BY ConstantsAssumption DEF descriptors
      <4>2. i \in DOMAIN descs
        BY <3>1, <4>1
      <4>3. b.effect_id \in DOMAIN Descriptors /\ descs = Descriptors[b.effect_id]
        BY <4>2 DEF descriptors
      <4>4. descs[i] \in UNION {{Descriptors[e][j] : j \in DOMAIN Descriptors[e]} :
                                  e \in DOMAIN Descriptors}
        BY <4>2, <4>3
      <4>5. spec \in [min : Int, max : Int, default : Int]
        BY <4>4, ParamSpecAssumption
      <4>6. spec.min \in Int /\ spec.max \in Int
        BY <4>5
      <4> HIDE DEF spec, descs
      <4>7. Clamp(v, spec.min, spec.max) \in Int
        BY <4>6 DEF Clamp
      <4>8. QED
        BY <3>1, <4>7
    <3>2. CASE ~(i <= Len(descs))
      BY <3>2
    <3>3. QED
      BY <3>1, <3>2
  <2> HIDE DEF x
  <2>2. ps \in ParamBank
    BY <2>1 DEF FxBank, ParamBank
  <2> HIDE DEF ps
  <2>3. [b EXCEPT !.params = ps] \in FxBank
    BY <2>2 DEF FxBank
  <2> USE DEF x, ps
  <2>4. QED
    BY <1>2, <2>3, Zenon DEF set_param
<1>3. QED
  BY <1>1, <1>2

LEMMA NewBankType == NewBank \in FxBank
<1>1. [i \in 1..MAX_PARAMS |-> 0] \in ParamBank
  BY DEF ParamBank
<1>2. 50 \in Percent /\ None \in LfoOption
  BY SMT DEF Percent, LfoOption
<1>3. QED
  BY <1>1, <1>2 DEF NewBank, FxBank

(* Every effect command leaves a bank. *)
LEMMA BankAfterType ==
  ASSUME NEW b \in FxBank, NEW c \in BankCommand
  PROVE  BankAfter(b, c) \in FxBank
<1>1. None \in LfoOption /\ Lfo \subseteq LfoOption
  BY DEF LfoOption
<1>2. clear(b) \in FxBank
  BY <1>1 DEF clear, FxBank
<1>3. CASE c.kind = "EffectAssign"
  <2>1. c.effect_id \in Nat
    BY <1>3 DEF BankCommand
  <2>2. default_params(c.effect_id) \in ParamBank
    BY <2>1, DefaultParams
  <2>3. assign(c.effect_id) \in FxBank
    BY <2>1, <2>2, NewBankType DEF assign, FxBank
  <2>4. BankAfter(b, c) = IF c.effect_id = 0 THEN clear(b) ELSE assign(c.effect_id)
    BY <1>3 DEF BankAfter
  <2>5. QED
    BY <1>2, <2>3, <2>4
<1>4. CASE c.kind = "EffectClear"
  <2>1. BankAfter(b, c) = clear(b)
    BY <1>4 DEF BankAfter
  <2>2. QED
    BY <1>2, <2>1
<1>5. CASE c.kind = "EffectParam"
  <2>1. c.param_id \in Nat \ {0} /\ c.value \in Int
    BY <1>5 DEF BankCommand
  <2>2. BankAfter(b, c) = set_param(b, c.param_id, c.value)
    BY <1>5 DEF BankAfter
  <2>3. QED
    BY <2>1, <2>2, SetParamType
<1>6. CASE c.kind = "EffectWetDry"
  <2>1. clamp_unit(c.value) \in Percent
    BY <1>6, UnitPercent DEF BankCommand
  <2>2. BankAfter(b, c) = [b EXCEPT !.wet_dry = clamp_unit(c.value)]
    BY <1>6 DEF BankAfter
  <2>3. QED
    BY <2>1, <2>2 DEF FxBank
<1>7. CASE c.kind = "EffectEnable"
  <2>1. c.enabled \in BOOLEAN
    BY <1>7 DEF BankCommand
  <2>2. BankAfter(b, c) = [b EXCEPT !.enabled = c.enabled]
    BY <1>7 DEF BankAfter
  <2>3. QED
    BY <2>1, <2>2 DEF FxBank
<1>8. CASE c.kind = "EffectLfoSet"
  <2>1. c.config \in LfoOption
    BY <1>1, <1>8 DEF BankCommand
  <2>2. BankAfter(b, c) = [b EXCEPT !.lfo = c.config]
    BY <1>8 DEF BankAfter
  <2>3. QED
    BY <2>1, <2>2 DEF FxBank
<1>9. CASE c.kind = "EffectLfoClear"
  <2>1. BankAfter(b, c) = [b EXCEPT !.lfo = None]
    BY <1>9 DEF BankAfter
  <2>2. QED
    BY <1>1, <2>1 DEF FxBank
<1>10. QED
  BY <1>3, <1>4, <1>5, <1>6, <1>7, <1>8, <1>9 DEF BankCommand

LEMMA BankCmdType ==
  ASSUME NEW h \in DeckHot, NEW c \in BankCommand
  PROVE  BankCmd(h, c) \in DeckHot
<1>1. CASE c.slot \notin Slots
  BY <1>1 DEF BankCmd
<1>2. CASE c.slot \in Slots
  <2> DEFINE after == BankAfter(h.fx[c.slot], c)
             fx    == [h.fx EXCEPT ![c.slot] = after]
  <2>1. h.fx \in FxBanks
    BY DEF DeckHot
  <2>2. h.fx[c.slot] \in FxBank
    BY <1>2, <2>1 DEF FxBanks
  <2>3. after \in FxBank
    BY <2>2, BankAfterType
  <2> HIDE DEF after
  <2>4. fx \in FxBanks
    BY <2>1, <2>3 DEF FxBanks
  <2> HIDE DEF fx
  <2>5. [h EXCEPT !.fx = fx] \in DeckHot
    BY <2>4 DEF DeckHot
  <2> USE DEF after, fx
  <2>6. QED
    BY <1>2, <2>5 DEF BankCmd
<1>3. QED
  BY <1>1, <1>2

LEMMA NewDeckHotType == NewDeckHot \in DeckHot
<1>1. [s \in Slots |-> NewBank] \in FxBanks
  BY NewBankType DEF FxBanks
<1>2. AllAudible \in StemGains
  BY SMT DEF AllAudible, StemGains, Percent
<1>3. 0 \in PitchRange /\ 100 \in TempoRange /\ None \in TrackOption
  BY SMT DEF PitchRange, TempoRange, TrackOption
<1>4. QED
  BY <1>1, <1>2, <1>3 DEF NewDeckHot, DeckHot

(* Mounting, unmounting and swapping leave a deck. *)
LEMMA MountFields ==
  ASSUME NEW h \in DeckHot, NEW loaded \in TrackOption, NEW stems \in TrackOption,
         NEW gains \in StemGains, NEW gain \in Int
  PROVE  [h EXCEPT !.loaded = loaded, !.stem_handle = stems, !.stem_gains = gains,
                   !.track_gain_db = gain] \in DeckHot
BY DEF DeckHot

LEMMA MountValues ==
  AllAudible \in StemGains /\ None \in TrackOption /\ Tracks \subseteq TrackOption /\ 0 \in Int
BY SMT DEF AllAudible, StemGains, Percent, TrackOption

LEMMA LoadHandleType ==
  ASSUME NEW h \in DeckHot, NEW c, c.handle \in Tracks, c.track_gain_db \in Real32
  PROVE  LoadHandle(h, c) \in DeckHot
<1> DEFINE g == IF c.track_gain_db = NonFinite THEN 0 ELSE Clamp(c.track_gain_db, -600, 240)
<1>1. g \in Int
  BY SMT DEF Real32, Clamp
<1> HIDE DEF g
<1>2. [h EXCEPT !.loaded = c.handle, !.stem_handle = None, !.stem_gains = AllAudible,
                !.track_gain_db = g] \in DeckHot
  BY <1>1, MountValues, MountFields
<1> USE DEF g
<1>3. QED
  BY <1>2, Zenon DEF LoadHandle

LEMMA LoadStemsType ==
  ASSUME NEW h \in DeckHot, NEW c, c.stems \in Tracks
  PROVE  LoadStems(h, c) \in DeckHot
<1>1. [h EXCEPT !.loaded = None, !.stem_handle = c.stems, !.stem_gains = AllAudible,
                !.track_gain_db = 0] \in DeckHot
  BY MountValues, MountFields
<1>2. QED
  BY <1>1, Zenon DEF LoadStems

LEMMA UnloadHandleType ==
  ASSUME NEW h \in DeckHot PROVE UnloadHandle(h) \in DeckHot
<1> DEFINE h1 == [h EXCEPT !.playing = FALSE]
           h2 == [h1 EXCEPT !.loaded = None, !.stem_handle = None, !.stem_gains = AllAudible,
                            !.track_gain_db = 0]
<1>1. h1 \in DeckHot
  BY DEF DeckHot
<1> HIDE DEF h1
<1>2. h2 \in DeckHot
  BY <1>1, MountValues, MountFields
<1> HIDE DEF h2
<1>3. UnloadHandle(h) = h2
  <2>1. h2 = [h EXCEPT !.playing = FALSE, !.loaded = None, !.stem_handle = None,
                       !.stem_gains = AllAudible, !.track_gain_db = 0]
    BY DEF h1, h2
  <2>2. QED
    BY <2>1 DEF UnloadHandle, DeckHot
<1>4. QED
  BY <1>2, <1>3

LEMMA SwapBanksType ==
  ASSUME NEW h \in DeckHot, NEW a \in Slots, NEW b \in Slots
  PROVE  [h EXCEPT !.fx = [h.fx EXCEPT ![a] = h.fx[b], ![b] = h.fx[a]]] \in DeckHot
<1> DEFINE fx == [h.fx EXCEPT ![a] = h.fx[b], ![b] = h.fx[a]]
<1>1. h.fx \in FxBanks
  BY DEF DeckHot
<1>2. fx \in FxBanks
  BY <1>1 DEF FxBanks
<1> HIDE DEF fx
<1>3. [h EXCEPT !.fx = fx] \in DeckHot
  BY <1>2 DEF DeckHot
<1> USE DEF fx
<1>4. QED
  BY <1>3

LEMMA StemGainType ==
  ASSUME NEW h \in DeckHot, NEW c, c.stem \in Stems, c.gain \in Int
  PROVE  [h EXCEPT !.stem_gains[c.stem] = clamp_unit(c.gain)] \in DeckHot
<1> DEFINE g == [h.stem_gains EXCEPT ![c.stem] = clamp_unit(c.gain)]
<1>1. g \in StemGains
  BY UnitPercent DEF DeckHot, StemGains
<1> HIDE DEF g
<1>2. [h EXCEPT !.stem_gains = g] \in DeckHot
  BY <1>1 DEF DeckHot
<1> USE DEF g
<1>3. QED
  BY <1>2

(* Every deck command leaves a deck. *)
LEMMA HotAfterType ==
  ASSUME NEW h \in DeckHot, NEW c \in DeckCmd \cup BankCommand
  PROVE  HotAfter(h, c) \in DeckHot
<1>1. CASE c.kind \in BankKinds
  <2>1. c \in BankCommand
    BY <1>1 DEF DeckCmd, BankKinds
  <2>2. HotAfter(h, c) = BankCmd(h, c)
    BY <1>1 DEF HotAfter, BankKinds
  <2>3. QED
    BY <2>1, <2>2, BankCmdType
<1>2. CASE c.kind = "DeckPlay"
  <2>1. HotAfter(h, c) = [h EXCEPT !.playing = TRUE]
    BY <1>2 DEF HotAfter, BankKinds
  <2>2. QED
    BY <2>1 DEF DeckHot
<1>3. CASE c.kind = "DeckPause"
  <2>1. HotAfter(h, c) = [h EXCEPT !.playing = FALSE]
    BY <1>3 DEF HotAfter, BankKinds
  <2>2. QED
    BY <2>1 DEF DeckHot
<1>4. CASE c.kind = "DeckLoad"
  <2>1. c.handle \in Tracks /\ c.track_gain_db \in Real32
    BY <1>4 DEF DeckCmd, BankCommand
  <2>2. HotAfter(h, c) = LoadHandle(h, c)
    BY <1>4 DEF HotAfter, BankKinds
  <2>3. QED
    BY <2>1, <2>2, LoadHandleType
<1>5. CASE c.kind = "DeckLoadStems"
  <2>1. c.stems \in Tracks
    BY <1>5 DEF DeckCmd, BankCommand
  <2>2. HotAfter(h, c) = LoadStems(h, c)
    BY <1>5 DEF HotAfter, BankKinds
  <2>3. QED
    BY <2>1, <2>2, LoadStemsType
<1>6. CASE c.kind = "DeckUnload"
  <2>1. HotAfter(h, c) = UnloadHandle(h)
    BY <1>6 DEF HotAfter, BankKinds
  <2>2. QED
    BY <2>1, UnloadHandleType
<1>7. CASE c.kind = "SetStemGain"
  <2>1. c.stem \in Stems /\ c.gain \in Int
    BY <1>7 DEF DeckCmd, BankCommand
  <2>2. HotAfter(h, c) = [h EXCEPT !.stem_gains[c.stem] = clamp_unit(c.gain)]
    BY <1>7, <2>1 DEF HotAfter, BankKinds
  <2>3. QED
    BY <2>1, <2>2, StemGainType
<1>8. CASE c.kind = "Eq"
  <2>1. c.target_db \in Int
    BY <1>8 DEF DeckCmd, BankCommand
  <2>2. HotAfter(h, c) = [h EXCEPT !.gain = c.target_db]
    BY <1>8 DEF HotAfter, BankKinds
  <2>3. QED
    BY <2>1, <2>2 DEF DeckHot
<1>9. CASE c.kind = "Pitch"
  <2>1. c.semitones \in PitchRange
    BY <1>9 DEF DeckCmd, BankCommand
  <2>2. HotAfter(h, c) = [h EXCEPT !.pitch_semitones = c.semitones]
    BY <1>9 DEF HotAfter, BankKinds
  <2>3. QED
    BY <2>1, <2>2 DEF DeckHot
<1>10. CASE c.kind = "Tempo"
  <2>1. c.ratio \in TempoRange
    BY <1>10 DEF DeckCmd, BankCommand
  <2>2. HotAfter(h, c) = [h EXCEPT !.tempo_ratio = c.ratio]
    BY <1>10 DEF HotAfter, BankKinds
  <2>3. QED
    BY <2>1, <2>2 DEF DeckHot
<1>11. CASE c.kind = "PitchTempoReset"
  <2>1. 0 \in PitchRange /\ 100 \in TempoRange
    BY SMT DEF PitchRange, TempoRange
  <2>2. HotAfter(h, c) = [h EXCEPT !.pitch_semitones = 0, !.tempo_ratio = 100]
    BY <1>11 DEF HotAfter, BankKinds
  <2>3. QED
    BY <2>1, <2>2 DEF DeckHot
<1>12. CASE c.kind = "ArmHandoff"
  <2>1. c.until_frame \in Nat
    BY <1>12 DEF DeckCmd, BankCommand
  <2>2. HotAfter(h, c) = [h EXCEPT !.handoff_until_frame = c.until_frame]
    BY <1>12 DEF HotAfter, BankKinds
  <2>3. QED
    BY <2>1, <2>2 DEF DeckHot
<1>13. CASE c.kind = "EffectSwap"
  <2>1. c.a \in Slots /\ c.b \in Slots
    BY <1>13 DEF DeckCmd, BankCommand
  <2>2. HotAfter(h, c) = [h EXCEPT !.fx = [h.fx EXCEPT ![c.a] = h.fx[c.b],
                                                       ![c.b] = h.fx[c.a]]]
    BY <1>13 DEF HotAfter, BankKinds
  <2>3. QED
    BY <2>1, <2>2, SwapBanksType
<1>14. CASE c.kind \in {"LoopDisarm", "CancelAfter", "DeckSeek", "LoopArm"}
  <2>1. HotAfter(h, c) = h
    BY <1>14 DEF HotAfter, BankKinds
  <2>2. QED
    BY <2>1
<1>15. c.kind \in BankKinds \cup {"DeckPlay", "DeckPause", "DeckLoad", "DeckLoadStems",
         "DeckUnload", "SetStemGain", "Eq", "Pitch", "Tempo", "PitchTempoReset", "ArmHandoff",
         "EffectSwap", "LoopDisarm", "CancelAfter", "DeckSeek", "LoopArm"}
  BY DEF DeckCmd, BankCommand, BankKinds
<1>16. QED
  BY <1>1, <1>2, <1>3, <1>4, <1>5, <1>6, <1>7, <1>8, <1>9, <1>10, <1>11, <1>12, <1>13,
     <1>14, <1>15

LEMMA MixerFields ==
  ASSUME NEW m \in Mixer
  PROVE  /\ \A v \in HotPair : [m EXCEPT !.deck = v] \in Mixer
         /\ \A v \in Percent : [m EXCEPT !.crossfader = v] \in Mixer
         /\ \A v \in Curves : [m EXCEPT !.crossfader_curve = v] \in Mixer
         /\ \A v \in BOOLEAN : [m EXCEPT !.master_limiter_enabled = v] \in Mixer
         /\ \A v \in LimiterRange : [m EXCEPT !.master_limiter_threshold_db = v] \in Mixer
         /\ \A v \in SidechainConfig : [m EXCEPT !.sidechain = v] \in Mixer
<1>1. ASSUME NEW v \in HotPair PROVE [m EXCEPT !.deck = v] \in Mixer
  BY DEF Mixer
<1>2. ASSUME NEW v \in Percent PROVE [m EXCEPT !.crossfader = v] \in Mixer
  BY DEF Mixer
<1>3. ASSUME NEW v \in Curves PROVE [m EXCEPT !.crossfader_curve = v] \in Mixer
  BY DEF Mixer
<1>4. ASSUME NEW v \in BOOLEAN PROVE [m EXCEPT !.master_limiter_enabled = v] \in Mixer
  BY DEF Mixer
<1>5. ASSUME NEW v \in LimiterRange
      PROVE [m EXCEPT !.master_limiter_threshold_db = v] \in Mixer
  BY DEF Mixer
<1>6. ASSUME NEW v \in SidechainConfig PROVE [m EXCEPT !.sidechain = v] \in Mixer
  BY DEF Mixer
<1>7. QED
  BY <1>1, <1>2, <1>3, <1>4, <1>5, <1>6

LEMMA NewMixerType == NewMixer \in Mixer
<1>1. [d \in DeckId |-> NewDeckHot] \in HotPair
  BY NewDeckHotType DEF HotPair
<1>2. DefaultState.sidechain \in SidechainConfig
  BY DefaultStateType DEF EngineStateType
<1>3. 50 \in Percent /\ -5 \in LimiterRange /\ "Linear" \in Curves
  BY SMT DEF Percent, LimiterRange, Curves
<1>4. QED
  BY <1>1, <1>2, <1>3 DEF NewMixer, Mixer

(* AudioMixer::apply: a well-formed command takes a well-formed mixer to   *)
(* one, whatever the order they come in (mixer.rs, apply).                 *)
THEOREM ApplyCmdType ==
  ASSUME NEW m \in Mixer, NEW c \in AudioCommand
  PROVE  ApplyCmd(m, c) \in Mixer
<1>1. CASE c.kind = "Crossfader"
  <2>1. c.target \in Percent
    BY <1>1 DEF AudioCommand, DeckCmd, BankCommand, MasterCommand
  <2>2. clamp_unit(c.target) \in Percent
    BY <2>1, SMT DEF clamp_unit, Clamp, Percent
  <2>3. ApplyCmd(m, c) = [m EXCEPT !.crossfader = clamp_unit(c.target)]
    BY <1>1 DEF ApplyCmd, MasterCmds
  <2>4. QED
    BY <2>2, <2>3, MixerFields
<1>2. CASE c.kind = "SetCrossfaderCurve"
  <2>1. c.curve \in Curves
    BY <1>2 DEF AudioCommand, DeckCmd, BankCommand, MasterCommand
  <2>2. ApplyCmd(m, c) = [m EXCEPT !.crossfader_curve = c.curve]
    BY <1>2 DEF ApplyCmd, MasterCmds
  <2>3. QED
    BY <2>1, <2>2, MixerFields
<1>3. CASE c.kind = "SetMasterLimiterEnabled"
  <2>1. c.enabled \in BOOLEAN
    BY <1>3 DEF AudioCommand, DeckCmd, BankCommand, MasterCommand
  <2>2. ApplyCmd(m, c) = [m EXCEPT !.master_limiter_enabled = c.enabled]
    BY <1>3 DEF ApplyCmd, MasterCmds
  <2>3. QED
    BY <2>1, <2>2, MixerFields
<1>4. CASE c.kind = "SetMasterLimiterThreshold"
  <2>1. c.threshold_db \in LimiterRange
    BY <1>4 DEF AudioCommand, DeckCmd, BankCommand, MasterCommand
  <2>2. \A v \in LimiterRange : clamp_threshold_db(v) \in LimiterRange
    BY SMT DEF clamp_threshold_db, Clamp, LimiterRange
  <2>3. ApplyCmd(m, c) = [m EXCEPT !.master_limiter_threshold_db =
                                       clamp_threshold_db(c.threshold_db)]
    BY <1>4 DEF ApplyCmd, MasterCmds
  <2>4. QED
    BY <2>1, <2>2, <2>3, MixerFields
<1>5. CASE c.kind = "SetSidechain"
  <2>1. c.sidechain \in SidechainConfig
    BY <1>5 DEF AudioCommand, DeckCmd, BankCommand, MasterCommand
  <2>2. ApplyCmd(m, c) = [m EXCEPT !.sidechain = c.sidechain]
    BY <1>5 DEF ApplyCmd, MasterCmds
  <2>3. QED
    BY <2>1, <2>2, MixerFields
<1>6. CASE c.kind \notin MasterCmds
  <2> DEFINE h  == HotAfter(m.deck[c.deck], c)
             hs == [m.deck EXCEPT ![c.deck] = h]
  <2>1. c \in DeckCmd \cup BankCommand
    BY <1>6 DEF AudioCommand, MasterCommand, MasterCmds
  <2>2. c.deck \in DeckId
    BY <2>1 DEF DeckCmd, BankCommand
  <2>3. m.deck \in HotPair
    BY DEF Mixer
  <2>4. h \in DeckHot
    BY <2>1, <2>2, <2>3, HotAfterType DEF HotPair
  <2> HIDE DEF h
  <2>5. hs \in HotPair
    BY <2>2, <2>3, <2>4 DEF HotPair
  <2> HIDE DEF hs
  <2>6. [m EXCEPT !.deck = hs] \in Mixer
    BY <2>5, MixerFields
  <2> USE DEF h, hs
  <2>7. ApplyCmd(m, c) = [m EXCEPT !.deck = hs]
    BY <1>6 DEF ApplyCmd, MasterCmds
  <2>8. QED
    BY <2>6, <2>7
<1>7. QED
  BY <1>1, <1>2, <1>3, <1>4, <1>5, <1>6 DEF MasterCmds

-----------------------------------------------------------------------------
(* Loops *)

LoopKept(d, e) ==
  /\ e.loop_active = d.loop_active
  /\ e.loop_in_ms = d.loop_in_ms
  /\ e.loop_out_ms = d.loop_out_ms

(* Which loop a deck holds is not the load's business. *)
LEMMA LoadKeepsLoop ==
  ASSUME NEW d \in Deck, NEW ev \in LoadEvent \cup LoadStemsEvent
  PROVE  LoopKept(d, DeckLoad(d, ev)) /\ LoopKept(d, DeckLoadStems(d, ev))
<1> DEFINE l == LoadedDeck(d, ev)
<1>1. LoopKept(d, l)
  BY DEF LoadedDeck, Deck, LoopKept
<1>2. l \in Deck
  BY LoadedDeckType
<1> HIDE DEF l
<1>3. LoopKept(l, [l EXCEPT !.stem_mode = TRUE])
  BY <1>2 DEF LoopKept, Deck
<1>4. \A g : LoopKept(l, [l EXCEPT !.track_gain_db = g, !.stem_mode = FALSE])
  BY <1>2 DEF LoopKept, Deck
<1>5. LoopKept(l, DeckLoad(d, ev)) /\ LoopKept(l, DeckLoadStems(d, ev))
  BY <1>3, <1>4 DEF DeckLoad, DeckLoadStems, l
<1>6. QED
  BY <1>1, <1>5 DEF LoopKept

(* The events that neither set, move nor end a loop. *)
LoopFreeKinds ==
  SlotKinds \cup {"EffectSwapSlots", "SetStemGain", "PhaseNudge", "DeckPlay", "DeckPause", "DeckCue",
                  "EqAdjust", "HotCueSet", "HotCueTrigger", "PitchBend", "TempoBend",
                  "PitchTempoReset", "CopilotEngage", "CopilotDisengage", "TakeOver"}

LEMMA OthersKeepLoop ==
  ASSUME NEW d \in Deck, NEW ev, ev.kind \in LoopFreeKinds
  PROVE  LoopKept(d, DeckAfter(d, ev))
<1>1. CASE ev.kind \in SlotKinds
  <2>1. DeckAfter(d, ev) = SlotEvent(d, ev)
    BY <1>1 DEF DeckAfter, SlotKinds
  <2>2. QED
    BY <2>1 DEF SlotEvent, LoopKept, Deck
<1>2. CASE ev.kind = "EffectSwapSlots"
  <2>1. DeckAfter(d, ev) = EffectSwapSlots(d, ev)
    BY <1>2 DEF DeckAfter, SlotKinds
  <2>2. QED
    BY <2>1 DEF EffectSwapSlots, LoopKept, Deck
<1>3. CASE ev.kind \in {"SetStemGain", "EqAdjust", "HotCueSet", "HotCueTrigger"}
  <2>1. DeckAfter(d, ev) \in {SetStemGain(d, ev), EqAdjust(d, ev), HotCueSet(d, ev),
                              HotCueTrigger(d, ev)}
    BY <1>3 DEF DeckAfter, SlotKinds
  <2>2. QED
    BY <2>1 DEF SetStemGain, EqAdjust, HotCueSet, HotCueTrigger, LoopKept, Deck
<1>4. CASE ev.kind \in {"PhaseNudge", "DeckPlay", "DeckPause", "DeckCue"}
  BY <1>4 DEF DeckAfter, SlotKinds, LoopKept, Deck
<1>5. CASE ev.kind \in {"PitchBend", "TempoBend", "PitchTempoReset"}
  BY <1>5 DEF DeckAfter, SlotKinds, LoopKept, Deck
<1>6. CASE ev.kind \in {"CopilotEngage", "CopilotDisengage", "TakeOver"}
  BY <1>6 DEF DeckAfter, SlotKinds, TakeOver, LoopKept, Deck
<1>7. QED
  BY <1>1, <1>2, <1>3, <1>4, <1>5, <1>6 DEF LoopFreeKinds

(* An active loop keeps both ends through every deck event. *)
LEMMA LoopEndsKept ==
  ASSUME NEW d \in Deck, NEW ev \in DeckEvent \cup FxEvent, LoopHasEnds(d)
  PROVE  LoopHasEnds(DeckAfter(d, ev))
<1> DEFINE e == DeckAfter(d, ev)
<1>1. LoopKept(d, e) => LoopHasEnds(e)
  BY DEF LoopHasEnds, LoopKept
<1>2. None \notin Nat
  BY ConstantsAssumption
<1>3. CASE ev.kind \in {"DeckLoad", "DeckLoadStems"}
  <2>1. ev \in LoadEvent \cup LoadStemsEvent
    BY <1>3 DEF DeckEvent, FxEvent, PlainDeckEvent
  <2>2. e = DeckLoad(d, ev) \/ e = DeckLoadStems(d, ev)
    BY <1>3 DEF DeckAfter, SlotKinds
  <2>3. QED
    BY <1>1, <2>1, <2>2, LoadKeepsLoop
<1>4. CASE ev.kind = "DeckUnload"
  BY <1>4 DEF DeckAfter, SlotKinds, DefaultDeck, LoopHasEnds
<1>5. CASE ev.kind \in LoopFreeKinds
  BY <1>1, <1>5, OthersKeepLoop
<1>6. CASE ev.kind = "LoopIn"
  <2>1. e = [d EXCEPT !.loop_in_ms = d.position_ms]
    BY <1>6 DEF DeckAfter, SlotKinds
  <2>2. QED
    BY <1>2, <2>1 DEF LoopHasEnds, Deck
<1>7. CASE ev.kind = "LoopOut"
  <2>1. e = LoopOut(d)
    BY <1>7 DEF DeckAfter, SlotKinds
  <2>2. QED
    BY <1>2, <2>1 DEF LoopOut, LoopHasEnds, Deck
<1>8. CASE ev.kind = "LoopExit"
  BY <1>8 DEF DeckAfter, SlotKinds, LoopExit, LoopHasEnds, Deck
<1>9. CASE ev.kind = "SetLoopBars"
  <2> DEFINE in  == next_downbeat_at_or_after_ms(d.position_ms, d.beat_grid_anchor_ms,
                                                 d.bpm, d.downbeats)
             out == in + loop_length_ms(clamp_loop_bars(ev.bars), d.bpm)
  <2>1. e = SetLoopBars(d, ev)
    BY <1>9 DEF DeckAfter, SlotKinds
  <2>2. CASE d.bpm <= 0
    BY <2>1, <2>2 DEF SetLoopBars
  <2>3. CASE ~(d.bpm <= 0)
    <3>1. ev.bars \in Nat
      BY <1>9 DEF DeckEvent, FxEvent, LoadEvent, LoadStemsEvent, PlainDeckEvent
    <3>2. /\ d.position_ms \in Nat /\ d.beat_grid_anchor_ms \in Nat
          /\ d.bpm \in Nat \ {0} /\ d.downbeats \in Seq(Nat)
      BY <2>3 DEF Deck, Downbeats
    <3>3. in \in Nat
      BY <3>2, DownbeatNat
    <3>4. loop_length_ms(clamp_loop_bars(ev.bars), d.bpm) \in Nat
      BY <3>1, <3>2, LoopLengthNat
    <3>5. e = [d EXCEPT !.loop_in_ms = in, !.loop_active = TRUE, !.loop_out_ms = out]
      BY <2>1, <2>3 DEF SetLoopBars
    <3> HIDE DEF in
    <3>6. out \in Nat
      BY <3>3, <3>4
    <3> HIDE DEF out, e
    <3>7. e.loop_in_ms = in /\ e.loop_out_ms = out
      BY <3>5 DEF Deck
    <3>8. QED
      BY <1>2, <3>3, <3>6, <3>7 DEF LoopHasEnds, e
  <2>4. QED
    BY <2>2, <2>3
<1>10. ev.kind \in LoopFreeKinds \cup {"DeckLoad", "DeckLoadStems", "DeckUnload", "LoopIn",
                                       "LoopOut", "LoopExit", "SetLoopBars"}
  BY DEF DeckEvent, FxEvent, LoadEvent, LoadStemsEvent, PlainDeckEvent, LoopFreeKinds, SlotKinds
<1>11. QED
  BY <1>3, <1>4, <1>5, <1>6, <1>7, <1>8, <1>9, <1>10

-----------------------------------------------------------------------------
(* One-shots *)

SlotsAreLive(d) == \A s \in Slots : SlotIsLive(d.effects[s])

LEMMA SlotStaysLive ==
  ASSUME NEW d, NEW s \in EffectSlot, NEW ev, ev.kind \in SlotKinds, SlotIsLive(s)
  PROVE  SlotIsLive(SlotAfter(d, s, ev))
<1> DEFINE e == SlotAfter(d, s, ev)
           Kept == /\ e.one_shot = s.one_shot
                   /\ e.enabled = s.enabled
                   /\ e.effect_id = s.effect_id
<1>1. Kept => SlotIsLive(e)
  BY DEF SlotIsLive
<1>2. e.one_shot = None => SlotIsLive(e)
  BY DEF SlotIsLive
<1>3. CASE ev.kind \in {"EffectAssign", "EffectClear"}
  <2>1. e \in {AssignedSlot(ev), EmptySlot}
    BY <1>3 DEF SlotAfter
  <2>2. EmptySlot.one_shot = None
    BY DEF EmptySlot
  <2>3. AssignedSlot(ev).one_shot = None
    BY EmptySlotType, <2>2 DEF AssignedSlot, EffectSlot
  <2>4. QED
    BY <1>2, <2>1, <2>2, <2>3
<1>4. CASE ev.kind \in {"EffectParam", "EffectWetDry", "EffectLfoClear"}
  <2>1. Kept
    BY <1>4 DEF SlotAfter, EffectSlot
  <2>2. QED
    BY <1>1, <2>1
<1>5. CASE ev.kind = "EffectEnable"
  <2>1. e = EffectEnable(s, ev)
    BY <1>5 DEF SlotAfter
  <2>2. QED
    BY <1>2, <2>1 DEF EffectEnable, EffectSlot
<1>6. CASE ev.kind = "EffectLfoSet"
  <2>1. e = LfoSet(s, ev)
    BY <1>6 DEF SlotAfter
  <2>2. Kept
    BY <2>1 DEF LfoSet, EffectSlot
  <2>3. QED
    BY <1>1, <2>2
<1>7. CASE ev.kind = "EffectOneShot"
  <2>1. e = OneShot(d, s, ev)
    BY <1>7 DEF SlotAfter
  <2>2. CASE s.effect_id = 0
    BY <2>1, <2>2 DEF OneShot
  <2>3. CASE s.effect_id # 0
    <3>1. e.enabled = TRUE /\ e.effect_id = s.effect_id
      BY <2>1, <2>3 DEF OneShot, EffectSlot
    <3>2. QED
      BY <2>3, <3>1 DEF SlotIsLive
  <2>4. QED
    BY <2>2, <2>3
<1>8. QED
  BY <1>3, <1>4, <1>5, <1>6, <1>7 DEF SlotKinds

(* No deck event leaves a one-shot on an empty or disabled slot. *)
LEMMA SlotsStayLive ==
  ASSUME NEW d \in Deck, NEW ev \in DeckEvent \cup FxEvent, SlotsAreLive(d)
  PROVE  SlotsAreLive(DeckAfter(d, ev))
<1> DEFINE e == DeckAfter(d, ev)
<1>1. e.effects = d.effects => SlotsAreLive(e)
  BY DEF SlotsAreLive
<1>2. d.effects \in [Slots -> EffectSlot]
  BY DEF Deck, EffectSlots
<1>3. CASE ev.kind \in SlotKinds
  <2>1. e = SlotEvent(d, ev)
    BY <1>3 DEF DeckAfter, SlotKinds
  <2>2. CASE ev.slot \notin Slots
    BY <2>1, <2>2 DEF SlotEvent
  <2>3. CASE ev.slot \in Slots
    <3> DEFINE after == SlotAfter(d, d.effects[ev.slot], ev)
    <3>1. SlotIsLive(after)
      BY <1>2, <1>3, <2>3, SlotStaysLive DEF SlotsAreLive
    <3> HIDE DEF after
    <3>2. e = [d EXCEPT !.effects[ev.slot] = after]
      BY <2>1, <2>3 DEF SlotEvent, after
    <3> HIDE DEF e
    <3>3. e.effects = [d.effects EXCEPT ![ev.slot] = after]
      BY <3>2 DEF Deck
    <3>4. \A i \in Slots : e.effects[i] = IF i = ev.slot THEN after ELSE d.effects[i]
      BY <1>2, <3>3
    <3>5. QED
      BY <3>1, <3>4 DEF SlotsAreLive, e
  <2>4. QED
    BY <2>2, <2>3
<1>4. CASE ev.kind = "EffectSwapSlots"
  <2> DEFINE a == SwapIndex(ev.slot_a)
             b == SwapIndex(ev.slot_b)
  <2>1. ev.slot_a \in Nat /\ ev.slot_b \in Nat
    BY <1>4 DEF DeckEvent, FxEvent, LoadEvent, LoadStemsEvent, PlainDeckEvent
  <2>2. a \in Slots /\ b \in Slots
    BY <2>1, SMT DEF SwapIndex, Clamp, Slots
  <2>3. e = EffectSwapSlots(d, ev)
    BY <1>4 DEF DeckAfter, SlotKinds
  <2>4. e.effects = [d.effects EXCEPT ![a] = d.effects[b], ![b] = d.effects[a]]
    BY <2>3 DEF EffectSwapSlots, Deck
  <2> HIDE DEF a, b, e
  <2>5. \A i \in Slots : \E j \in Slots : e.effects[i] = d.effects[j]
    BY <1>2, <2>2, <2>4
  <2>6. QED
    BY <2>5 DEF SlotsAreLive, e
<1>5. CASE ev.kind = "DeckUnload"
  BY <1>5 DEF DeckAfter, SlotKinds, DefaultDeck, EmptySlot, SlotsAreLive, SlotIsLive
<1>6. CASE ev.kind \in {"DeckLoad", "DeckLoadStems"}
  <2>1. e \in {DeckLoad(d, ev), DeckLoadStems(d, ev)}
    BY <1>6 DEF DeckAfter, SlotKinds
  <2> DEFINE l == LoadedDeck(d, ev)
  <2>2. l.effects = d.effects
    BY DEF LoadedDeck, Deck
  <2>3. l \in Deck
    BY <1>6, LoadedDeckType DEF DeckEvent, FxEvent, PlainDeckEvent
  <2> HIDE DEF l
  <2>4. e.effects = l.effects
    BY <2>1, <2>3 DEF DeckLoad, DeckLoadStems, Deck, l
  <2>5. QED
    BY <1>1, <2>2, <2>4
<1>7. CASE ev.kind \in {"SetStemGain", "EqAdjust", "HotCueSet", "HotCueTrigger", "SetLoopBars"}
  <2>1. e \in {SetStemGain(d, ev), EqAdjust(d, ev), HotCueSet(d, ev), HotCueTrigger(d, ev),
               SetLoopBars(d, ev)}
    BY <1>7 DEF DeckAfter, SlotKinds
  <2>2. SetStemGain(d, ev).effects = d.effects /\ EqAdjust(d, ev).effects = d.effects
    BY DEF SetStemGain, EqAdjust, Deck
  <2>3. HotCueSet(d, ev).effects = d.effects /\ HotCueTrigger(d, ev).effects = d.effects
    BY DEF HotCueSet, HotCueTrigger, Deck
  <2>4. SetLoopBars(d, ev).effects = d.effects
    BY DEF SetLoopBars, Deck
  <2> HIDE DEF e
  <2>5. e.effects = d.effects
    BY <2>1, <2>2, <2>3, <2>4
  <2>6. QED
    BY <1>1, <2>5 DEF e
<1>8. CASE ev.kind \in {"PhaseNudge", "DeckPlay", "DeckPause", "DeckCue", "PitchBend", "TempoBend",
                        "PitchTempoReset"}
  <2>1. e.effects = d.effects
    BY <1>8 DEF DeckAfter, SlotKinds, Deck
  <2>2. QED
    BY <1>1, <2>1
<1>9. CASE ev.kind \in {"LoopIn", "LoopOut", "LoopExit", "CopilotEngage", "CopilotDisengage",
                        "TakeOver"}
  <2>1. e.effects = d.effects
    BY <1>9 DEF DeckAfter, SlotKinds, LoopOut, LoopExit, TakeOver, Deck
  <2>2. QED
    BY <1>1, <2>1
<1>10. ev.kind \in SlotKinds \cup {"EffectSwapSlots", "DeckUnload", "DeckLoad", "DeckLoadStems",
         "SetStemGain", "EqAdjust", "HotCueSet", "HotCueTrigger", "SetLoopBars", "PhaseNudge",
         "DeckPlay", "DeckPause", "DeckCue", "PitchBend", "TempoBend", "PitchTempoReset",
         "LoopIn", "LoopOut", "LoopExit", "CopilotEngage", "CopilotDisengage", "TakeOver"}
  BY DEF DeckEvent, FxEvent, LoadEvent, LoadStemsEvent, PlainDeckEvent, SlotKinds
<1>11. QED
  BY <1>3, <1>4, <1>5, <1>6, <1>7, <1>8, <1>9, <1>10

-----------------------------------------------------------------------------
(* The whole path *)

LEMMA DecksAfterApply ==
  ASSUME NEW s \in EngineStateType, NEW ev \in EventKind
  PROVE  \/ Apply(s, ev).deck = s.deck
         \/ /\ ev \in DeckEvent \cup FxEvent /\ ev.deck \in DeckId
            /\ \A d \in DeckId :
                 Apply(s, ev).deck[d] = IF d = ev.deck THEN DeckAfter(s.deck[d], ev)
                                        ELSE s.deck[d]
<1>1. CASE ev.kind \in MasterKinds
  <2>1. Apply(s, ev) = MasterAfter(s, ev)
    BY <1>1 DEF Apply
  <2>2. MasterAfter(s, ev).deck = s.deck
    BY <1>1 DEF MasterAfter, MasterKinds, EngineStateType
  <2>3. QED
    BY <2>1, <2>2
<1>2. CASE ev.kind \notin MasterKinds
  <2> DEFINE e == DeckAfter(s.deck[ev.deck], ev)
  <2>1. ev \in DeckEvent \cup FxEvent /\ ev.deck \in DeckId
    BY <1>2, EventKinds
  <2>2. s.deck \in [DeckId -> Deck]
    BY DEF EngineStateType, DeckPair
  <2> HIDE DEF e
  <2>3. Apply(s, ev) = [s EXCEPT !.deck[ev.deck] = e]
    BY <1>2 DEF Apply, e
  <2>4. Apply(s, ev).deck = [s.deck EXCEPT ![ev.deck] = e]
    BY <2>3 DEF EngineStateType
  <2>5. \A d \in DeckId : Apply(s, ev).deck[d] = IF d = ev.deck THEN e ELSE s.deck[d]
    BY <2>1, <2>2, <2>4
  <2>6. QED
    BY <2>1, <2>5 DEF e
<1>3. QED
  BY <1>1, <1>2

(* The event the control loop is about to take. *)
LEMMA NextEvent ==
  ASSUME TypeOK, NEW handle \in Tracks \cup {None}, Receive(handle)
  PROVE  /\ Head(inbox) \in EventKind
         /\ state' = Apply(state, Head(inbox))
         /\ inbox' = Tail(inbox) /\ inbox # <<>>
BY ControlPlaneAssumption DEF Receive, TypeOK

LEMMA InitType == Init => TypeOK
<1>1. NewMixer \in Mixer /\ DefaultState \in EngineStateType
  BY NewMixerType, DefaultStateType
<1>2. QED
  BY <1>1, ControlPlaneAssumption DEF Init, TypeOK

LEMMA TypeKept == TypeOK /\ [Next]_vars => TypeOK'
<1> SUFFICES ASSUME TypeOK, [Next]_vars PROVE TypeOK'
  OBVIOUS
<1> USE DEF TypeOK
<1>1. ASSUME NEW ev \in Inputs, Submit(ev) PROVE TypeOK'
  <2>1. inbox' \in Seq(Inputs) /\ Len(inbox') = Len(inbox) + 1
    BY <1>1 DEF Submit
  <2>2. QED
    BY <1>1, <2>1, ControlPlaneAssumption DEF Submit
<1>2. ASSUME NEW handle \in Tracks \cup {None}, Receive(handle) PROVE TypeOK'
  <2> DEFINE ev == Head(inbox)
  <2>1. ev \in EventKind /\ state' = Apply(state, ev) /\ inbox' = Tail(inbox) /\ inbox # <<>>
    BY <1>2, NextEvent
  <2>2. inbox' \in Seq(Inputs) /\ Len(inbox') = Len(inbox) - 1
    BY <2>1
  <2>3. state' \in EngineStateType
    BY <2>1, ApplyType
  <2>4. outbox' \in Seq(AudioCommand) /\ Len(outbox') <= 2
    <3>1. handle \in TrackOption
      BY DEF TrackOption
    <3>2. outbox' = Commands(state, state', ev, handle)
      BY <1>2 DEF Receive
    <3>3. QED
      BY <2>1, <2>3, <3>1, <3>2, CommandsType
  <2>5. clock_bpm' \in Nat \ {0}
    <3>1. ev.kind = "SetMasterBpm" => ev.bpm \in Int
      BY <2>1 DEF EventKind, MasterEvent, DeckEvent, FxEvent, LoadEvent, LoadStemsEvent,
                  PlainDeckEvent
    <3>2. clock_bpm' = IF ev.kind = "SetMasterBpm" /\ ev.bpm > 0 THEN ev.bpm ELSE clock_bpm
      BY <1>2 DEF Receive
    <3>3. QED
      BY <3>1, <3>2
  <2>6. logged' = logged + 1 /\ UNCHANGED <<ring, mixer>>
    BY <1>2 DEF Receive
  <2>7. QED
    BY <2>2, <2>3, <2>4, <2>5, <2>6, ControlPlaneAssumption
<1>3. CASE Push
  <2>1. Head(outbox) \in AudioCommand /\ Tail(outbox) \in Seq(AudioCommand)
        /\ Len(Tail(outbox)) <= 2
    BY <1>3 DEF Push
  <2>2. ring' \in Seq(AudioCommand) /\ Len(ring') <= RingCapacity
    BY <1>3, <2>1, ControlPlaneAssumption DEF Push
  <2>3. QED
    BY <1>3, <2>1, <2>2 DEF Push
<1>4. CASE Pop
  <2>1. Head(ring) \in AudioCommand /\ Tail(ring) \in Seq(AudioCommand)
        /\ Len(Tail(ring)) <= RingCapacity
    BY <1>4, ControlPlaneAssumption DEF Pop
  <2>2. mixer' \in Mixer
    BY <1>4, <2>1, ApplyCmdType DEF Pop
  <2>3. QED
    BY <1>4, <2>1, <2>2 DEF Pop
<1>5. CASE UNCHANGED vars
  BY <1>5 DEF vars
<1>6. QED
  BY <1>1, <1>2, <1>3, <1>4, <1>5 DEF Next

(* Whatever the clients send, the ring never holds more than its capacity, *)
(* no event leaves more than two commands to push, and the state, the      *)
(* mixer and every command in flight keep their types: the reducer, the    *)
(* translator and the audio callback are total on what they are handed     *)
(* (state.rs apply, translator.rs, mixer.rs apply, ring.rs).               *)
THEOREM TypeCorrect == Spec => []TypeOK
BY InitType, TypeKept, PTL DEF Spec

(* The audio clock and the reducer's state never disagree on the tempo.    *)
(* (main.rs, control_loop; audio/clock.rs, set_master_bpm).                *)
THEOREM ClockCorrect == Spec => []ClockFollowsState
<1>1. Init => ClockFollowsState
  BY DEF Init, ClockFollowsState, DefaultState
<1>2. TypeOK /\ ClockFollowsState /\ [Next]_vars => ClockFollowsState'
  <2> SUFFICES ASSUME TypeOK, ClockFollowsState, [Next]_vars PROVE ClockFollowsState'
    OBVIOUS
  <2>1. ASSUME NEW handle \in Tracks \cup {None}, Receive(handle) PROVE ClockFollowsState'
    <3> DEFINE ev == Head(inbox)
    <3>1. ev \in EventKind /\ state' = Apply(state, ev) /\ state \in EngineStateType
      BY <2>1, NextEvent DEF TypeOK
    <3>2. clock_bpm' = IF ev.kind = "SetMasterBpm" /\ ev.bpm > 0 THEN ev.bpm ELSE clock_bpm
      BY <2>1 DEF Receive
    <3>3. CASE ev.kind = "SetMasterBpm"
      <4>1. state'.master_bpm = IF ev.bpm > 0 THEN ev.bpm ELSE state.master_bpm
        BY <3>1, <3>3 DEF Apply, MasterKinds, MasterAfter, EngineStateType
      <4>2. QED
        BY <3>2, <3>3, <4>1 DEF ClockFollowsState
    <3>4. CASE ev.kind # "SetMasterBpm"
      <4>1. state'.master_bpm = state.master_bpm
        <5>1. CASE ev.kind \in MasterKinds
          BY <3>1, <3>4, <5>1 DEF Apply, MasterKinds, MasterAfter, EngineStateType
        <5>2. CASE ev.kind \notin MasterKinds
          BY <3>1, <5>2 DEF Apply, EngineStateType
        <5>3. QED
          BY <5>1, <5>2
      <4>2. QED
        BY <3>2, <3>4, <4>1 DEF ClockFollowsState
    <3>5. QED
      BY <3>3, <3>4
  <2>2. ASSUME UNCHANGED <<clock_bpm, state>> PROVE ClockFollowsState'
    BY <2>2 DEF ClockFollowsState
  <2>3. QED
    BY <2>1, <2>2 DEF Next, Submit, Push, Pop, vars
<1>3. QED
  BY <1>1, <1>2, TypeCorrect, PTL DEF Spec

(* A pending one-shot is always on an occupied, enabled slot (state.rs,    *)
(* EffectSlot::one_shot).                                                  *)
THEOREM OneShotCorrect == Spec => []OneShotOnLiveSlot
<1>1. Init => OneShotOnLiveSlot
  BY DEF Init, OneShotOnLiveSlot, SlotIsLive, DefaultState, DefaultDeck, EmptySlot
<1>2. TypeOK /\ OneShotOnLiveSlot /\ [Next]_vars => OneShotOnLiveSlot'
  <2> SUFFICES ASSUME TypeOK, OneShotOnLiveSlot, [Next]_vars PROVE OneShotOnLiveSlot'
    OBVIOUS
  <2>1. ASSUME NEW handle \in Tracks \cup {None}, Receive(handle) PROVE OneShotOnLiveSlot'
    <3> DEFINE ev == Head(inbox)
    <3>1. ev \in EventKind /\ state' = Apply(state, ev) /\ state \in EngineStateType
      BY <2>1, NextEvent DEF TypeOK
    <3>2. \A d \in DeckId : state.deck[d] \in Deck /\ SlotsAreLive(state.deck[d])
      BY <3>1 DEF OneShotOnLiveSlot, SlotsAreLive, EngineStateType, DeckPair
    <3>3. \A d \in DeckId : SlotsAreLive(state'.deck[d])
      BY <3>1, <3>2, DecksAfterApply, SlotsStayLive
    <3>4. QED
      BY <3>3 DEF OneShotOnLiveSlot, SlotsAreLive
  <2>2. ASSUME UNCHANGED state PROVE OneShotOnLiveSlot'
    BY <2>2 DEF OneShotOnLiveSlot
  <2>3. QED
    BY <2>1, <2>2 DEF Next, Submit, Push, Pop, vars
<1>3. QED
  BY <1>1, <1>2, TypeCorrect, PTL DEF Spec

(* A loop the translator may arm always has both ends (state.rs, LoopOut   *)
(* and SetLoopBars).                                                       *)
THEOREM LoopCorrect == Spec => []ActiveLoopHasEnds
<1>1. Init => ActiveLoopHasEnds
  BY DEF Init, ActiveLoopHasEnds, LoopHasEnds, DefaultState, DefaultDeck
<1>2. TypeOK /\ ActiveLoopHasEnds /\ [Next]_vars => ActiveLoopHasEnds'
  <2> SUFFICES ASSUME TypeOK, ActiveLoopHasEnds, [Next]_vars PROVE ActiveLoopHasEnds'
    OBVIOUS
  <2>1. ASSUME NEW handle \in Tracks \cup {None}, Receive(handle) PROVE ActiveLoopHasEnds'
    <3> DEFINE ev == Head(inbox)
    <3>1. ev \in EventKind /\ state' = Apply(state, ev) /\ state \in EngineStateType
      BY <2>1, NextEvent DEF TypeOK
    <3>2. \A d \in DeckId : state.deck[d] \in Deck /\ LoopHasEnds(state.deck[d])
      BY <3>1 DEF ActiveLoopHasEnds, EngineStateType, DeckPair
    <3>3. \A d \in DeckId : LoopHasEnds(state'.deck[d])
      BY <3>1, <3>2, DecksAfterApply, LoopEndsKept
    <3>4. QED
      BY <3>3 DEF ActiveLoopHasEnds
  <2>2. ASSUME UNCHANGED state PROVE ActiveLoopHasEnds'
    BY <2>2 DEF ActiveLoopHasEnds
  <2>3. QED
    BY <2>1, <2>2 DEF Next, Submit, Push, Pop, vars
<1>3. QED
  BY <1>1, <1>2, TypeCorrect, PTL DEF Spec

-----------------------------------------------------------------------------
(* Folds: what a sequence of commands makes of a mixer. *)

(* What the callback makes of a sequence of commands; the fold, by its     *)
(* defining equation over the first n of them.                             *)
LandsOn(m, s) == FoldLeft(ApplyCmd, m, s)

IsFold(f, m, s, n) ==
  f = [t \in SUBSET (1..n) |-> IF t = {} THEN m ELSE ApplyCmd(f[t \ {Max(t)}], s[Max(t)])]

(* What is under way lands on the mixer as it stands. *)
LEMMA LandedIsFold == Landed = LandsOn(mixer, ring \o outbox)
BY DEF Landed, LandsOn, FoldLeft, MapThenFoldSet

(* The equation has a solution for every length: the least length without  *)
(* one would extend the solution before it.                                *)
LEMMA FoldExists ==
  ASSUME NEW m, NEW s, NEW n \in Nat
  PROVE  \E f : IsFold(f, m, s, n)
<1> DEFINE Has(k) == \E f : IsFold(f, m, s, k)
           Bad == {k \in Nat : ~Has(k)}
<1>1. Has(0)
  <2> DEFINE g == [t \in SUBSET (1..0) |-> m]
  <2>1. g = [t \in SUBSET (1..0) |-> IF t = {} THEN m ELSE ApplyCmd(g[t \ {Max(t)}], s[Max(t)])]
    OBVIOUS
  <2>2. IsFold(g, m, s, 0)
    BY <2>1 DEF IsFold
  <2> HIDE DEF g
  <2> QED BY <2>2
<1>2. ASSUME NEW k \in Nat, Has(k) PROVE Has(k+1)
  <2>1. PICK f : IsFold(f, m, s, k)
    BY <1>2
  <2> DEFINE g == [t \in SUBSET (1..(k+1)) |->
                     IF t \in SUBSET (1..k) THEN f[t] ELSE ApplyCmd(f[t \ {k+1}], s[k+1])]
  <2>2. ASSUME NEW t \in SUBSET (1..(k+1))
        PROVE  g[t] = IF t = {} THEN m ELSE ApplyCmd(g[t \ {Max(t)}], s[Max(t)])
    <3>1. CASE t \in SUBSET (1..k)
      <4>1. g[t] = f[t] BY <3>1
      <4>2. \A x : t \ {x} \in SUBSET (1..k) /\ t \ {x} \in SUBSET (1..(k+1)) BY <3>1
      <4>3. \A x : g[t \ {x}] = f[t \ {x}] BY <4>2
      <4>4. f[t] = IF t = {} THEN m ELSE ApplyCmd(f[t \ {Max(t)}], s[Max(t)])
        BY <2>1, <3>1 DEF IsFold
      <4> HIDE DEF g
      <4> QED BY <4>1, <4>3, <4>4
    <3>2. CASE t \notin SUBSET (1..k)
      <4>1. k+1 \in t BY <3>2
      <4>2. Max(t) = k+1
        <5>1. k+1 \in Nat /\ \A y \in t : y \in Nat /\ k+1 >= y OBVIOUS
        <5>2. \A x \in t : (\A y \in t : x >= y) => x = k+1
          <6> TAKE x \in t
          <6> HAVE \A y \in t : x >= y
          <6> QED BY <4>1, <5>1
        <5> QED BY <4>1, <5>1, <5>2 DEF Max
      <4>3. t \ {k+1} \in SUBSET (1..k) /\ t \ {k+1} \in SUBSET (1..(k+1)) OBVIOUS
      <4>4. g[t \ {k+1}] = f[t \ {k+1}] BY <4>3
      <4>5. g[t] = ApplyCmd(f[t \ {k+1}], s[k+1]) BY <3>2
      <4> HIDE DEF g
      <4> QED BY <4>1, <4>2, <4>4, <4>5
    <3> QED BY <3>1, <3>2
  <2>3. g = [t \in SUBSET (1..(k+1)) |-> g[t]] OBVIOUS
  <2> HIDE DEF g
  <2>4. g = [t \in SUBSET (1..(k+1)) |-> IF t = {} THEN m ELSE ApplyCmd(g[t \ {Max(t)}], s[Max(t)])]
    BY <2>2, <2>3
  <2>5. IsFold(g, m, s, k+1) BY <2>4 DEF IsFold
  <2> QED BY <2>5
<1> HIDE DEF Has
<1>3. Bad = {}
  <2> SUFFICES ASSUME Bad # {} PROVE FALSE OBVIOUS
  <2>1. PICK j \in Bad : \A i \in Bad : j <= i BY LeastNat
  <2>2. j # 0 BY <1>1
  <2>3. j - 1 \in Nat /\ j - 1 \notin Bad BY <2>1, <2>2
  <2>4. Has(j - 1) BY <2>3
  <2>5. Has((j - 1) + 1) BY <2>3, <2>4, <1>2
  <2>6. (j - 1) + 1 = j OBVIOUS
  <2> QED BY <2>5, <2>6
<1> QED BY <1>3 DEF Has

(* So the fold of the community modules satisfies it. *)
LEMMA FoldHolds ==
  ASSUME NEW m, NEW s \in Seq(AudioCommand)
  PROVE  \E f : IsFold(f, m, s, Len(s)) /\ LandsOn(m, s) = f[1..Len(s)]
<1> DEFINE f == CHOOSE f : IsFold(f, m, s, Len(s))
<1>1. IsFold(f, m, s, Len(s))
  BY FoldExists
<1>2. DOMAIN s = 1..Len(s)
  OBVIOUS
<1>3. LandsOn(m, s) = f[1..Len(s)]
  BY <1>2 DEF LandsOn, FoldLeft, MapThenFoldSet, IsFold
<1> HIDE DEF f
<1> QED BY <1>1, <1>3

(* The mixers a sequence of commands goes through, from the first on. *)
IsRun(v, m, s) == v[0] = m /\ \A k \in 0..(Len(s) - 1) : v[k+1] = ApplyCmd(v[k], s[k+1])

(* Every sequence of commands has such a run, and only one. *)
LEMMA RunExists ==
  ASSUME NEW m, NEW s \in Seq(AudioCommand)
  PROVE  \E v : IsRun(v, m, s) /\ LandsOn(m, s) = v[Len(s)]
<1>1. PICK f : IsFold(f, m, s, Len(s)) /\ LandsOn(m, s) = f[1..Len(s)]
  BY FoldHolds
<1> DEFINE n == Len(s)
           v == [k \in 0..n |-> f[1..k]]
<1>2. n \in Nat
  OBVIOUS
<1>3. v[0] = m
  <2>1. 1..0 = {} /\ 1..0 \in SUBSET (1..n)
    BY <1>2
  <2>2. f[1..0] = m
    BY <1>1, <2>1 DEF IsFold
  <2>3. QED
    BY <1>2, <2>2
<1>4. ASSUME NEW k \in 0..(n - 1) PROVE v[k+1] = ApplyCmd(v[k], s[k+1])
  <2> DEFINE t == 1..(k+1)
  <2>1. t \in SUBSET (1..n) /\ t # {} /\ t \ {k+1} = 1..k
    BY <1>2
  <2>2. Max(t) = k+1
    <3>1. \A x \in t : (\A y \in t : x >= y) => x = k+1
      BY <1>2
    <3>2. k+1 \in t /\ \A y \in t : k+1 >= y
      BY <1>2
    <3> HIDE DEF t
    <3>3. QED
      BY <3>1, <3>2 DEF Max
  <2> HIDE DEF t
  <2>3. f[t] = ApplyCmd(f[t \ {k+1}], s[k+1])
    BY <1>1, <2>1, <2>2 DEF IsFold
  <2>4. v[k+1] = f[t] /\ v[k] = f[1..k]
    BY <1>2 DEF t
  <2>5. QED
    BY <2>1, <2>3, <2>4
<1>5. v[n] = f[1..n]
  BY <1>2
<1> HIDE DEF v
<1>6. IsRun(v, m, s)
  BY <1>3, <1>4 DEF IsRun
<1>7. QED
  BY <1>1, <1>5, <1>6

LEMMA RunIsUnique ==
  ASSUME NEW m, NEW s \in Seq(AudioCommand), NEW v, IsRun(v, m, s)
  PROVE  LandsOn(m, s) = v[Len(s)]
<1>1. PICK w : IsRun(w, m, s) /\ LandsOn(m, s) = w[Len(s)]
  BY RunExists
<1> DEFINE Bad == {k \in 0..Len(s) : v[k] # w[k]}
<1>2. Bad = {}
  <2> SUFFICES ASSUME Bad # {} PROVE FALSE
    OBVIOUS
  <2>0. Bad \subseteq Nat
    OBVIOUS
  <2>1. PICK k \in Bad : \A j \in Bad : k <= j
    BY <2>0, LeastNat
  <2>2. k # 0
    BY <1>1 DEF IsRun
  <2>3. k - 1 \in 0..(Len(s) - 1) /\ k - 1 \notin Bad
    BY <2>1, <2>2
  <2>4. v[k-1] = w[k-1]
    BY <2>3
  <2>5. v[(k-1)+1] = w[(k-1)+1]
    BY <1>1, <2>3, <2>4 DEF IsRun
  <2>6. QED
    BY <2>5
<1>3. QED
  BY <1>1, <1>2

(* What the callback makes of commands taken from either end. *)
LEMMA LandsOnNone == ASSUME NEW m PROVE LandsOn(m, <<>>) = m
<1>1. <<>> \in Seq(AudioCommand) /\ Len(<<>>) = 0
  OBVIOUS
<1>2. PICK v : IsRun(v, m, <<>>) /\ LandsOn(m, <<>>) = v[Len(<<>>)]
  BY <1>1, RunExists
<1>3. QED
  BY <1>1, <1>2 DEF IsRun

LEMMA LandsOnLast ==
  ASSUME NEW m, NEW s \in Seq(AudioCommand), NEW c \in AudioCommand
  PROVE  LandsOn(m, Append(s, c)) = ApplyCmd(LandsOn(m, s), c)
<1> DEFINE t == Append(s, c)
<1>1. t \in Seq(AudioCommand) /\ Len(t) = Len(s) + 1 /\ t[Len(s) + 1] = c
  OBVIOUS
<1>2. \A k \in 0..(Len(s) - 1) : t[k+1] = s[k+1]
  OBVIOUS
<1> HIDE DEF t
<1>3. PICK v : IsRun(v, m, t) /\ LandsOn(m, t) = v[Len(t)]
  BY <1>1, RunExists
<1>4. IsRun(v, m, s)
  BY <1>1, <1>2, <1>3 DEF IsRun
<1>5. LandsOn(m, s) = v[Len(s)]
  BY <1>4, RunIsUnique
<1>6. v[Len(s) + 1] = ApplyCmd(v[Len(s)], c)
  <2>1. Len(s) \in 0..(Len(t) - 1)
    BY <1>1
  <2>2. QED
    BY <1>1, <1>3, <2>1 DEF IsRun
<1>7. QED
  BY <1>1, <1>3, <1>5, <1>6 DEF t

LEMMA LandsOnFirst ==
  ASSUME NEW m, NEW s \in Seq(AudioCommand), s # <<>>
  PROVE  LandsOn(m, s) = LandsOn(ApplyCmd(m, Head(s)), Tail(s))
<1> DEFINE t == Tail(s)
<1>1. t \in Seq(AudioCommand) /\ Len(t) = Len(s) - 1 /\ Len(s) \in Nat \ {0}
  OBVIOUS
<1>2. \A k \in 0..(Len(t) - 1) : t[k+1] = s[(k+1)+1]
  OBVIOUS
<1>3. Head(s) = s[1]
  OBVIOUS
<1> HIDE DEF t
<1>4. PICK v : IsRun(v, m, s) /\ LandsOn(m, s) = v[Len(s)]
  BY RunExists
<1> DEFINE w == [k \in 0..Len(t) |-> v[k+1]]
<1>5. w[0] = ApplyCmd(m, Head(s))
  <2>1. v[0+1] = ApplyCmd(v[0], s[0+1]) /\ v[0] = m
    BY <1>1, <1>4 DEF IsRun
  <2>2. QED
    BY <1>1, <1>3, <2>1
<1>6. ASSUME NEW k \in 0..(Len(t) - 1) PROVE w[k+1] = ApplyCmd(w[k], t[k+1])
  <2>1. w[k+1] = v[(k+1)+1] /\ w[k] = v[k+1]
    BY <1>1
  <2>2. k+1 \in 0..(Len(s) - 1)
    BY <1>1
  <2>3. v[(k+1)+1] = ApplyCmd(v[k+1], s[(k+1)+1])
    BY <1>4, <2>2 DEF IsRun
  <2>4. QED
    BY <1>2, <2>1, <2>3
<1>7. w[Len(t)] = v[Len(s)]
  BY <1>1
<1> HIDE DEF w
<1>8. IsRun(w, ApplyCmd(m, Head(s)), t)
  BY <1>5, <1>6 DEF IsRun
<1>9. LandsOn(ApplyCmd(m, Head(s)), t) = w[Len(t)]
  BY <1>1, <1>8, RunIsUnique
<1>10. QED
  BY <1>4, <1>7, <1>9 DEF t

(* Whatever lands leaves a mixer. *)
LEMMA LandsOnType ==
  ASSUME NEW m \in Mixer, NEW s \in Seq(AudioCommand)
  PROVE  LandsOn(m, s) \in Mixer
<1>1. PICK v : IsRun(v, m, s) /\ LandsOn(m, s) = v[Len(s)]
  BY RunExists
<1> DEFINE Bad == {k \in 0..Len(s) : v[k] \notin Mixer}
<1>2. Bad = {}
  <2> SUFFICES ASSUME Bad # {} PROVE FALSE
    OBVIOUS
  <2>0. Bad \subseteq Nat
    OBVIOUS
  <2>1. PICK k \in Bad : \A j \in Bad : k <= j
    BY <2>0, LeastNat
  <2>2. k # 0
    BY <1>1 DEF IsRun
  <2>3. k - 1 \in 0..(Len(s) - 1) /\ k - 1 \notin Bad /\ (k-1)+1 = k
    BY <2>1, <2>2
  <2>4. v[k-1] \in Mixer /\ s[(k-1)+1] \in AudioCommand
    BY <2>3
  <2>5. v[(k-1)+1] \in Mixer
    BY <1>1, <2>3, <2>4, ApplyCmdType DEF IsRun
  <2>6. QED
    BY <2>3, <2>5
<1>3. QED
  BY <1>1, <1>2

(* One command, and two more at most. *)
LEMMA LandsOnOne == ASSUME NEW m, NEW c \in AudioCommand PROVE LandsOn(m, <<c>>) = ApplyCmd(m, c)
<1>1. <<c>> \in Seq(AudioCommand) /\ <<c>> # <<>> /\ Head(<<c>>) = c /\ Tail(<<c>>) = <<>>
  OBVIOUS
<1>2. LandsOn(m, <<c>>) = LandsOn(ApplyCmd(m, c), <<>>)
  BY <1>1, LandsOnFirst
<1>3. QED
  BY <1>2, LandsOnNone

(* Two commands at most are pushed for an event. *)
LEMMA LandsOnMore ==
  ASSUME NEW m, NEW s \in Seq(AudioCommand), NEW t \in Seq(AudioCommand), Len(t) <= 2
  PROVE  LandsOn(m, s \o t) = LandsOn(LandsOn(m, s), t)
<1>1. CASE Len(t) = 0
  <2>1. t = <<>> /\ s \o t = s
    BY <1>1
  <2>2. QED
    BY <2>1, LandsOnNone
<1>2. CASE Len(t) = 1
  <2>1. PICK c \in AudioCommand : t = <<c>>
    <3>1. t = <<t[1]>> /\ t[1] \in AudioCommand
      BY <1>2
    <3>2. QED
      BY <3>1
  <2>2. s \o t = Append(s, c)
    BY <2>1
  <2>3. LandsOn(m, Append(s, c)) = ApplyCmd(LandsOn(m, s), c)
    BY LandsOnLast
  <2>4. LandsOn(LandsOn(m, s), <<c>>) = ApplyCmd(LandsOn(m, s), c)
    BY LandsOnOne
  <2>5. QED
    BY <2>1, <2>2, <2>3, <2>4, Zenon
<1>3. CASE Len(t) = 2
  <2>1. PICK c \in AudioCommand, e \in AudioCommand : t = <<c, e>>
    <3>1. DOMAIN t = 1..2 /\ t[1] \in AudioCommand /\ t[2] \in AudioCommand
      BY <1>3
    <3>2. t = <<t[1], t[2]>>
      BY <1>3, <3>1
    <3>3. QED
      BY <3>1, <3>2
  <2>2. s \o t = Append(Append(s, c), e) /\ t = Append(<<c>>, e)
    BY <2>1
  <2>3. Append(s, c) \in Seq(AudioCommand) /\ <<c>> \in Seq(AudioCommand)
    OBVIOUS
  <2>4. LandsOn(m, s \o t) = ApplyCmd(ApplyCmd(LandsOn(m, s), c), e)
    <3>1. LandsOn(m, Append(s, c)) = ApplyCmd(LandsOn(m, s), c)
      BY LandsOnLast
    <3>2. LandsOn(m, Append(Append(s, c), e)) = ApplyCmd(LandsOn(m, Append(s, c)), e)
      BY <2>3, LandsOnLast
    <3>3. QED
      BY <2>2, <3>1, <3>2, Zenon
  <2>5. LandsOn(LandsOn(m, s), t) = ApplyCmd(ApplyCmd(LandsOn(m, s), c), e)
    <3>1. LandsOn(LandsOn(m, s), <<c>>) = ApplyCmd(LandsOn(m, s), c)
      BY LandsOnOne
    <3>2. LandsOn(LandsOn(m, s), Append(<<c>>, e)) = ApplyCmd(LandsOn(LandsOn(m, s), <<c>>), e)
      BY <2>3, LandsOnLast
    <3>3. QED
      BY <2>2, <3>1, <3>2, Zenon
  <2>6. QED
    BY <2>4, <2>5
<1>4. Len(t) \in Nat /\ Len(t) <= 2
  OBVIOUS
<1>5. \A n \in Nat : n <= 2 => n = 0 \/ n = 1 \/ n = 2
  OBVIOUS
<1>6. QED
  BY <1>1, <1>2, <1>3, <1>4, <1>5

-----------------------------------------------------------------------------
(* The parts of a deck an event, or a command, is about. *)
DeckParts == {"track", "playing", "stems", "tone", "handoff", "fx"}

TouchedBy(kind) ==
  CASE kind \in {"DeckLoad", "DeckLoadStems"} -> {"track", "playing", "stems"}
    [] kind = "DeckUnload" -> DeckParts
    [] kind \in {"DeckPlay", "DeckPause"} -> {"playing"}
    [] kind = "SetStemGain" -> {"stems"}
    [] kind \in {"PitchBend", "TempoBend", "PitchTempoReset", "Pitch", "Tempo"} -> {"tone"}
    [] kind \in {"TakeOver", "ArmHandoff"} -> {"handoff"}
    [] kind \in SlotKinds \cup BankKinds \cup {"EffectSwapSlots", "EffectSwap"} -> {"fx"}
    [] OTHER -> {}

(* A part a deck keeps, in the reducer and in the mixer. *)
PartKept(k, d, e) ==
  /\ k = "track"   => e.loaded = d.loaded /\ e.stem_mode = d.stem_mode
  /\ k = "playing" => e.playing = d.playing
  /\ k = "stems"   => e.stem_gains = d.stem_gains
  /\ k = "tone"    => e.pitch_semitones = d.pitch_semitones /\ e.tempo_ratio = d.tempo_ratio
  /\ k = "handoff" => e.handoff_until_frame = d.handoff_until_frame
  /\ k = "fx"      => e.effects = d.effects

HotPartKept(k, h, g) ==
  /\ k = "track"   => g.loaded = h.loaded /\ g.stem_handle = h.stem_handle
  /\ k = "playing" => g.playing = h.playing
  /\ k = "stems"   => g.stem_gains = h.stem_gains
  /\ k = "tone"    => g.pitch_semitones = h.pitch_semitones /\ g.tempo_ratio = h.tempo_ratio
  /\ k = "handoff" => g.handoff_until_frame = h.handoff_until_frame
  /\ k = "fx"      => g.fx = h.fx

(* What an aspect of a deck comes to, given its two copies. *)
PartAgrees(k, d, h) ==
  /\ k = "track"   => TrackAgrees(d, h)
  /\ k = "playing" => d.playing = h.playing
  /\ k = "stems"   => d.stem_gains = h.stem_gains
  /\ k = "tone"    => d.pitch_semitones = h.pitch_semitones /\ d.tempo_ratio = h.tempo_ratio
  /\ k = "handoff" => d.handoff_until_frame = h.handoff_until_frame
  /\ k = "fx"      => \A i \in Slots : SlotAgrees(d.effects[i], h.fx[i])

LEMMA AgreesByPart ==
  ASSUME NEW k \in DeckParts, NEW x \in DeckId, NEW s, NEW m
  PROVE  Agrees(<<k, x>>, s, m) <=> PartAgrees(k, s.deck[x], m.deck[x])
BY DEF Agrees, PartAgrees, DeckParts

(* What both copies keep goes on agreeing. *)
LEMMA KeptPartAgrees ==
  ASSUME NEW k \in DeckParts, NEW d, NEW e, NEW h, NEW g,
         PartKept(k, d, e), HotPartKept(k, h, g), PartAgrees(k, d, h)
  PROVE  PartAgrees(k, e, g)
BY DEF PartKept, HotPartKept, PartAgrees, TrackAgrees, DeckParts

(* A deck event leaves the other parts of the deck alone. *)
LEMMA EventKeepsParts ==
  ASSUME NEW d \in Deck, NEW ev \in DeckEvent \cup FxEvent, NEW k \in DeckParts,
         k \notin TouchedBy(ev.kind)
  PROVE  PartKept(k, d, DeckAfter(d, ev))
<1> DEFINE e == DeckAfter(d, ev)
<1>1. CASE ev.kind \in SlotKinds
  <2>1. e = SlotEvent(d, ev)
    BY <1>1 DEF DeckAfter, SlotKinds
  <2>2. k # "fx"
    BY <1>1 DEF TouchedBy, SlotKinds
  <2>3. QED
    BY <2>1, <2>2 DEF SlotEvent, PartKept, Deck
<1>2. CASE ev.kind = "EffectSwapSlots"
  <2>1. e = EffectSwapSlots(d, ev)
    BY <1>2 DEF DeckAfter, SlotKinds
  <2>2. k # "fx"
    BY <1>2 DEF TouchedBy, SlotKinds, BankKinds
  <2>3. QED
    BY <2>1, <2>2 DEF EffectSwapSlots, PartKept, Deck
<1>3. CASE ev.kind = "DeckUnload"
  BY <1>3 DEF TouchedBy, SlotKinds, BankKinds
<1>4. CASE ev.kind \in {"DeckLoad", "DeckLoadStems"}
  <2> DEFINE l == LoadedDeck(d, ev)
  <2>1. k \in {"tone", "handoff", "fx"}
    BY <1>4 DEF TouchedBy, DeckParts, SlotKinds, BankKinds
  <2>2. l \in Deck
    BY <1>4, LoadedDeckType DEF DeckEvent, FxEvent, PlainDeckEvent
  <2>3. PartKept(k, d, l)
    BY <2>1 DEF LoadedDeck, Deck, PartKept
  <2> HIDE DEF l
  <2>4. e \in {DeckLoad(d, ev), DeckLoadStems(d, ev)}
    BY <1>4 DEF DeckAfter, SlotKinds
  <2>5. PartKept(k, l, e)
    BY <2>1, <2>2, <2>4 DEF DeckLoad, DeckLoadStems, Deck, PartKept, l
  <2>6. QED
    BY <2>3, <2>5 DEF PartKept
<1>5. CASE ev.kind = "SetStemGain"
  <2>1. e = SetStemGain(d, ev) /\ k # "stems"
    BY <1>5 DEF DeckAfter, SlotKinds, BankKinds, TouchedBy
  <2>2. QED
    BY <2>1 DEF SetStemGain, PartKept, Deck
<1>6. CASE ev.kind \in {"DeckPlay", "DeckPause"}
  <2>1. k # "playing"
    BY <1>6 DEF TouchedBy, SlotKinds, BankKinds
  <2>2. QED
    BY <1>6, <2>1 DEF DeckAfter, SlotKinds, PartKept, Deck
<1>7. CASE ev.kind \in {"PitchBend", "TempoBend", "PitchTempoReset"}
  <2>1. k # "tone"
    BY <1>7 DEF TouchedBy, SlotKinds, BankKinds
  <2>2. QED
    BY <1>7, <2>1 DEF DeckAfter, SlotKinds, PartKept, Deck
<1>8. CASE ev.kind = "TakeOver"
  <2>1. k # "handoff"
    BY <1>8 DEF TouchedBy, SlotKinds, BankKinds
  <2>2. QED
    BY <1>8, <2>1 DEF DeckAfter, SlotKinds, TakeOver, PartKept, Deck
<1>9. CASE ev.kind \in {"PhaseNudge", "DeckCue", "LoopIn", "CopilotEngage", "CopilotDisengage"}
  BY <1>9 DEF DeckAfter, SlotKinds, PartKept, Deck
<1>10. CASE ev.kind \in {"EqAdjust", "HotCueSet", "HotCueTrigger"}
  <2>1. e \in {EqAdjust(d, ev), HotCueSet(d, ev), HotCueTrigger(d, ev)}
    BY <1>10 DEF DeckAfter, SlotKinds
  <2>2. QED
    BY <2>1 DEF EqAdjust, HotCueSet, HotCueTrigger, PartKept, Deck
<1>11. CASE ev.kind \in {"LoopOut", "LoopExit", "SetLoopBars"}
  <2>1. e \in {LoopOut(d), LoopExit(d), SetLoopBars(d, ev)}
    BY <1>11 DEF DeckAfter, SlotKinds
  <2>2. QED
    BY <2>1 DEF LoopOut, LoopExit, SetLoopBars, PartKept, Deck
<1>12. ev.kind \in SlotKinds \cup {"EffectSwapSlots", "DeckUnload", "DeckLoad", "DeckLoadStems",
         "SetStemGain", "DeckPlay", "DeckPause", "PitchBend", "TempoBend", "PitchTempoReset",
         "TakeOver", "PhaseNudge", "DeckCue", "LoopIn", "CopilotEngage", "CopilotDisengage",
         "EqAdjust", "HotCueSet", "HotCueTrigger", "LoopOut", "LoopExit", "SetLoopBars"}
  BY DEF DeckEvent, FxEvent, LoadEvent, LoadStemsEvent, PlainDeckEvent, SlotKinds
<1>13. QED
  BY <1>1, <1>2, <1>3, <1>4, <1>5, <1>6, <1>7, <1>8, <1>9, <1>10, <1>11, <1>12

(* So does a command. *)
LEMMA CommandKeepsParts ==
  ASSUME NEW h \in DeckHot, NEW c \in DeckCmd \cup BankCommand, NEW k \in DeckParts,
         k \notin TouchedBy(c.kind)
  PROVE  HotPartKept(k, h, HotAfter(h, c))
<1> DEFINE g == HotAfter(h, c)
<1>1. CASE c.kind \in BankKinds
  <2>1. g = BankCmd(h, c)
    BY <1>1 DEF HotAfter, BankKinds
  <2>2. k # "fx"
    BY <1>1 DEF TouchedBy, BankKinds, SlotKinds
  <2>3. QED
    BY <2>1, <2>2 DEF BankCmd, HotPartKept, DeckHot
<1>2. CASE c.kind = "EffectSwap"
  <2>1. k # "fx"
    BY <1>2 DEF TouchedBy, BankKinds, SlotKinds
  <2>2. QED
    BY <1>2, <2>1 DEF HotAfter, BankKinds, HotPartKept, DeckHot
<1>3. CASE c.kind \in {"DeckPlay", "DeckPause"}
  <2>1. k # "playing"
    BY <1>3 DEF TouchedBy, SlotKinds, BankKinds
  <2>2. QED
    BY <1>3, <2>1 DEF HotAfter, BankKinds, HotPartKept, DeckHot
<1>4. CASE c.kind \in {"DeckLoad", "DeckLoadStems", "DeckUnload"}
  <2>1. k \notin {"track", "playing", "stems"}
    BY <1>4 DEF TouchedBy, DeckParts, SlotKinds, BankKinds
  <2>2. g \in {LoadHandle(h, c), LoadStems(h, c), UnloadHandle(h)}
    BY <1>4 DEF HotAfter, BankKinds
  <2>3. QED
    <3>1. CASE g = LoadHandle(h, c)
      BY <2>1, <3>1 DEF LoadHandle, HotPartKept, DeckHot
    <3>2. CASE g = LoadStems(h, c)
      BY <2>1, <3>2 DEF LoadStems, HotPartKept, DeckHot
    <3>3. CASE g = UnloadHandle(h)
      BY <2>1, <3>3 DEF UnloadHandle, HotPartKept, DeckHot
    <3>4. QED
      BY <2>2, <3>1, <3>2, <3>3
<1>5. CASE c.kind = "SetStemGain"
  <2>1. k # "stems"
    BY <1>5 DEF TouchedBy, SlotKinds, BankKinds
  <2>2. QED
    BY <1>5, <2>1 DEF HotAfter, BankKinds, HotPartKept, DeckHot
<1>6. CASE c.kind \in {"Pitch", "Tempo", "PitchTempoReset"}
  <2>1. k # "tone"
    BY <1>6 DEF TouchedBy, SlotKinds, BankKinds
  <2>2. QED
    BY <1>6, <2>1 DEF HotAfter, BankKinds, HotPartKept, DeckHot
<1>7. CASE c.kind = "ArmHandoff"
  <2>1. k # "handoff"
    BY <1>7 DEF TouchedBy, SlotKinds, BankKinds
  <2>2. QED
    BY <1>7, <2>1 DEF HotAfter, BankKinds, HotPartKept, DeckHot
<1>8. CASE c.kind = "Eq"
  BY <1>8 DEF HotAfter, BankKinds, HotPartKept, DeckHot
<1>9. CASE c.kind \in {"LoopDisarm", "CancelAfter", "DeckSeek", "LoopArm"}
  <2>1. g = h
    BY <1>9 DEF HotAfter, BankKinds
  <2>2. QED
    BY <2>1 DEF HotPartKept
<1>10. c.kind \in BankKinds \cup {"DeckPlay", "DeckPause", "DeckLoad", "DeckLoadStems",
         "DeckUnload", "SetStemGain", "Eq", "Pitch", "Tempo", "PitchTempoReset", "ArmHandoff",
         "EffectSwap", "LoopDisarm", "CancelAfter", "DeckSeek", "LoopArm"}
  BY DEF DeckCmd, BankCommand, BankKinds
<1>11. QED
  BY <1>1, <1>2, <1>3, <1>4, <1>5, <1>6, <1>7, <1>8, <1>9, <1>10

(* What a deck's commands leave of the rest of the mix. *)
MasterKept(m, n) ==
  /\ n.crossfader = m.crossfader /\ n.crossfader_curve = m.crossfader_curve
  /\ n.master_limiter_enabled = m.master_limiter_enabled
  /\ n.master_limiter_threshold_db = m.master_limiter_threshold_db
  /\ n.sidechain = m.sidechain

(* A deck's command reaches that deck and nothing else. *)
LEMMA DeckCommandLands ==
  ASSUME NEW m \in Mixer, NEW c \in AudioCommand, c.kind \notin MasterCmds
  PROVE  /\ c \in DeckCmd \cup BankCommand /\ c.deck \in DeckId
         /\ MasterKept(m, ApplyCmd(m, c))
         /\ \A y \in DeckId : ApplyCmd(m, c).deck[y] =
                                IF y = c.deck THEN HotAfter(m.deck[y], c) ELSE m.deck[y]
<1> DEFINE g == HotAfter(m.deck[c.deck], c)
<1>1. c \in DeckCmd \cup BankCommand
  BY DEF AudioCommand, MasterCommand, MasterCmds
<1>2. c.deck \in DeckId
  BY <1>1 DEF DeckCmd, BankCommand
<1>3. ApplyCmd(m, c) = [m EXCEPT !.deck[c.deck] = g]
  BY DEF ApplyCmd, MasterCmds
<1>4. m.deck \in [DeckId -> DeckHot]
  BY DEF Mixer, HotPair
<1> HIDE DEF g
<1>5. ApplyCmd(m, c).deck = [m.deck EXCEPT ![c.deck] = g]
  BY <1>3 DEF Mixer
<1>6. MasterKept(m, ApplyCmd(m, c))
  BY <1>3 DEF Mixer, MasterKept
<1>7. \A y \in DeckId : ApplyCmd(m, c).deck[y] = IF y = c.deck THEN g ELSE m.deck[y]
  BY <1>2, <1>4, <1>5
<1>8. QED
  BY <1>1, <1>2, <1>6, <1>7 DEF g

(* Commands for one deck and some of its parts. *)
IsFor(c, x, parts) == c.kind \notin MasterCmds /\ c.deck = x /\ TouchedBy(c.kind) \subseteq parts

AllFor(cs, x, parts) == \A i \in DOMAIN cs : IsFor(cs[i], x, parts)

MixKept(m, n, x, parts) ==
  /\ MasterKept(m, n)
  /\ \A y \in DeckId \ {x} : n.deck[y] = m.deck[y]
  /\ \A k \in DeckParts \ parts : HotPartKept(k, m.deck[x], n.deck[x])

(* A command for some parts of a deck keeps the others. *)
LEMMA OneCommandKeeps ==
  ASSUME NEW m \in Mixer, NEW c \in AudioCommand, NEW x, NEW parts, IsFor(c, x, parts)
  PROVE  MixKept(m, ApplyCmd(m, c), x, parts)
<1> DEFINE n == ApplyCmd(m, c)
<1>1. /\ c \in DeckCmd \cup BankCommand /\ c.deck \in DeckId
      /\ MasterKept(m, n)
      /\ \A y \in DeckId : n.deck[y] = IF y = c.deck THEN HotAfter(m.deck[y], c) ELSE m.deck[y]
  BY DeckCommandLands DEF IsFor
<1> HIDE DEF n
<1>2. m.deck[x] \in DeckHot
  BY <1>1 DEF Mixer, HotPair, IsFor
<1>3. ASSUME NEW k \in DeckParts \ parts PROVE HotPartKept(k, m.deck[x], n.deck[x])
  <2>1. k \notin TouchedBy(c.kind)
    BY DEF IsFor
  <2>2. HotPartKept(k, m.deck[x], HotAfter(m.deck[x], c))
    BY <1>1, <1>2, <2>1, CommandKeepsParts
  <2>3. n.deck[x] = HotAfter(m.deck[x], c)
    BY <1>1 DEF IsFor
  <2>4. QED
    BY <2>2, <2>3
<1>4. \A y \in DeckId \ {x} : n.deck[y] = m.deck[y]
  BY <1>1 DEF IsFor
<1>5. QED
  BY <1>1, <1>3, <1>4 DEF MixKept, n

(* And so do the commands of an event, one after the other. *)
LEMMA CommandsKeep ==
  ASSUME NEW m \in Mixer, NEW cs \in Seq(AudioCommand), Len(cs) <= 2,
         NEW x \in DeckId, NEW parts, AllFor(cs, x, parts)
  PROVE  MixKept(m, LandsOn(m, cs), x, parts)
<1>1. CASE cs = <<>>
  <2>1. LandsOn(m, cs) = m
    BY <1>1, LandsOnNone
  <2>2. QED
    BY <2>1 DEF MixKept, MasterKept, HotPartKept
<1>2. CASE Len(cs) = 1
  <2>1. cs = <<cs[1]>> /\ cs[1] \in AudioCommand /\ 1 \in DOMAIN cs
    BY <1>2
  <2>2. IsFor(cs[1], x, parts)
    BY <2>1 DEF AllFor
  <2>3. LandsOn(m, <<cs[1]>>) = ApplyCmd(m, cs[1])
    BY <2>1, LandsOnOne
  <2>4. LandsOn(m, cs) = ApplyCmd(m, cs[1])
    BY <2>1, <2>3, Zenon
  <2>5. QED
    BY <2>1, <2>2, <2>4, OneCommandKeeps
<1>3. CASE Len(cs) = 2
  <2> DEFINE c == cs[1]
             e == cs[2]
             n == ApplyCmd(m, c)
  <2>1. c \in AudioCommand /\ e \in AudioCommand /\ DOMAIN cs = 1..2
    BY <1>3
  <2>2. cs = Append(<<c>>, e)
    BY <1>3, <2>1
  <2>3. IsFor(c, x, parts) /\ IsFor(e, x, parts)
    BY <2>1 DEF AllFor
  <2>4. MixKept(m, n, x, parts) /\ n \in Mixer
    BY <2>1, <2>3, OneCommandKeeps, ApplyCmdType
  <2>5. MixKept(n, ApplyCmd(n, e), x, parts)
    BY <2>1, <2>3, <2>4, OneCommandKeeps
  <2>6. LandsOn(m, cs) = ApplyCmd(n, e)
    <3>1. <<c>> \in Seq(AudioCommand)
      BY <2>1
    <3>2. LandsOn(m, Append(<<c>>, e)) = ApplyCmd(LandsOn(m, <<c>>), e)
      BY <2>1, <3>1, LandsOnLast
    <3>3. LandsOn(m, <<c>>) = n
      BY <2>1, LandsOnOne
    <3>4. QED
      BY <2>2, <3>2, <3>3, Zenon
  <2> HIDE DEF c, e, n
  <2>7. MixKept(m, ApplyCmd(n, e), x, parts)
    BY <2>4, <2>5 DEF MixKept, MasterKept, HotPartKept
  <2>8. QED
    BY <2>6, <2>7
<1>4. Len(cs) \in Nat /\ Len(cs) <= 2 /\ (Len(cs) = 0 => cs = <<>>)
  OBVIOUS
<1>5. \A n \in Nat : n <= 2 => n = 0 \/ n = 1 \/ n = 2
  OBVIOUS
<1>6. QED
  BY <1>1, <1>2, <1>3, <1>4, <1>5

LEMMA ForNone == ASSUME NEW x, NEW parts PROVE AllFor(<<>>, x, parts)
BY DEF AllFor

LEMMA ForOne == ASSUME NEW c, NEW x, NEW parts, IsFor(c, x, parts) PROVE AllFor(<<c>>, x, parts)
BY DEF AllFor

(* The translator only sends what the event is about. *)
LEMMA CommandsAreFor ==
  ASSUME NEW prev, NEW next, NEW ev \in DeckEvent \cup FxEvent, NEW handle
  PROVE  AllFor(Commands(prev, next, ev, handle), ev.deck, TouchedBy(ev.kind))
<1> DEFINE cs == Commands(prev, next, ev, handle)
           x  == ev.deck
           parts == TouchedBy(ev.kind)
           Single(c) == IsFor(c, x, parts)
<1> USE DEF TouchedBy, SlotKinds, BankKinds, MasterCmds
<1>1. CASE ev.kind \in {"DeckPlay", "DeckPause"}
  <2>1. Single(Cmd("DeckPlay", x)) /\ Single(Cmd("DeckPause", x))
    BY <1>1 DEF Cmd, IsFor
  <2>2. \/ cs = <<Cmd("DeckPlay", x)>>
        \/ cs = <<Cmd("DeckPause", x)>>
        \/ cs = <<>>
    BY <1>1 DEF Commands, Toggle
  <2>3. QED
    BY <2>1, <2>2, ForNone, ForOne
<1>2. CASE ev.kind \in {"DeckCue", "HotCueTrigger"}
  <2> DEFINE c == [kind |-> "DeckSeek", deck |-> x, ms |-> next.deck[x].position_ms]
  <2>1. Single(c)
    BY DEF IsFor
  <2>2. cs = <<c>>
    BY <1>2 DEF Commands, SeekCmds
  <2> HIDE DEF c
  <2>3. QED
    BY <2>1, <2>2, ForOne
<1>3. CASE ev.kind = "EqAdjust"
  <2> DEFINE c == [kind |-> "Eq", deck |-> x, target_db |-> next.deck[x].eq[ev.band]]
  <2>1. Single(c)
    BY DEF IsFor
  <2>2. cs = <<c>>
    BY <1>3 DEF Commands
  <2> HIDE DEF c
  <2>3. QED
    BY <2>1, <2>2, ForOne
<1>4. CASE ev.kind = "PitchBend"
  <2> DEFINE c == [kind |-> "Pitch", deck |-> x, semitones |-> next.deck[x].pitch_semitones]
  <2>1. Single(c)
    BY <1>4 DEF IsFor
  <2>2. cs = <<c>>
    BY <1>4 DEF Commands
  <2> HIDE DEF c
  <2>3. QED
    BY <2>1, <2>2, ForOne
<1>5. CASE ev.kind = "TempoBend"
  <2> DEFINE c == [kind |-> "Tempo", deck |-> x, ratio |-> next.deck[x].tempo_ratio]
  <2>1. Single(c)
    BY <1>5 DEF IsFor
  <2>2. cs = <<c>>
    BY <1>5 DEF Commands
  <2> HIDE DEF c
  <2>3. QED
    BY <2>1, <2>2, ForOne
<1>6. CASE ev.kind \in {"PitchTempoReset", "DeckUnload", "LoopExit"}
  <2> DEFINE c == Cmd(IF ev.kind = "LoopExit" THEN "LoopDisarm" ELSE ev.kind, x)
  <2>1. Single(c)
    BY <1>6 DEF Cmd, IsFor
  <2>2. cs = <<c>>
    BY <1>6 DEF Commands
  <2> HIDE DEF c
  <2>3. QED
    BY <2>1, <2>2, ForOne
<1>7. CASE ev.kind \in {"LoopOut", "SetLoopBars"}
  <2> DEFINE c == [kind |-> "LoopArm", deck |-> x, in |-> next.deck[x].loop_in_ms,
                   out |-> next.deck[x].loop_out_ms]
  <2>1. Single(c)
    BY DEF IsFor
  <2>2. cs = <<c>> \/ cs = <<>>
    BY <1>7 DEF Commands, LoopCmds
  <2> HIDE DEF c
  <2>3. QED
    BY <2>1, <2>2, ForNone, ForOne
<1>8. CASE ev.kind \in {"DeckLoad", "DeckLoadStems"}
  <2> DEFINE c == [kind |-> "DeckLoad", deck |-> x, handle |-> handle,
                   track_gain_db |-> ev.track_gain_db]
             e == [kind |-> "DeckLoadStems", deck |-> x, stems |-> handle]
  <2>1. Single(c) /\ Single(e)
    BY <1>8 DEF IsFor
  <2>2. cs = <<c>> \/ cs = <<e>> \/ cs = <<>>
    BY <1>8 DEF Commands, LoadCmds
  <2> HIDE DEF c, e
  <2>3. QED
    BY <2>1, <2>2, ForNone, ForOne
<1>9. CASE ev.kind \in {"SetStemGain", "EffectAssign", "EffectClear", "EffectWetDry", "EffectLfoClear"}
  <2>1. Single(ev)
    BY <1>9 DEF IsFor
  <2>2. cs = <<ev>> \/ cs = <<>>
    BY <1>9 DEF Commands, StemGainCmds, SlotCmds
  <2>3. QED
    BY <2>1, <2>2, ForNone, ForOne
<1>10. CASE ev.kind = "TakeOver"
  <2> DEFINE c == [kind |-> "ArmHandoff", deck |-> x, until_frame |-> ev.handoff_until_frame]
             e == Cmd("CancelAfter", x)
  <2>1. Single(c) /\ Single(e)
    BY <1>10 DEF IsFor, Cmd
  <2>2. cs = <<c, e>>
    BY <1>10 DEF Commands, TakeOverCmds
  <2> HIDE DEF c, e, cs
  <2>3. DOMAIN cs = 1..2 /\ cs[1] = c /\ cs[2] = e
    BY <2>2
  <2>4. QED
    BY <2>1, <2>3 DEF AllFor, cs
<1>11. CASE ev.kind \in {"EffectEnable", "EffectOneShot"}
  <2>1. \A on : Single(EnableCmd(ev, on))
    BY <1>11 DEF IsFor, EnableCmd
  <2>2. cs \in {<<EnableCmd(ev, ev.enabled)>>, <<EnableCmd(ev, TRUE)>>, <<>>}
    BY <1>11 DEF Commands, OneShotCmds
  <2>3. QED
    BY <2>1, <2>2, ForNone, ForOne
<1>12. CASE ev.kind = "EffectParam"
  <2> DEFINE names == IF ev.slot \in Slots
                      THEN descriptors(next.deck[x].effects[ev.slot].effect_id) ELSE <<>>
             ids   == {i \in DOMAIN names : names[i] = ev.param}
             c == [kind |-> "EffectParam", deck |-> x, slot |-> ev.slot,
                   param_id |-> CHOOSE i \in ids : \A j \in ids : i <= j, value |-> ev.value]
  <2>1. Single(c)
    BY <1>12 DEF IsFor
  <2>2. cs = ParamCmds(next, ev)
    BY <1>12 DEF Commands
  <2>3. ParamCmds(next, ev) = <<c>> \/ ParamCmds(next, ev) = <<>>
    BY Zenon DEF ParamCmds
  <2> HIDE DEF c
  <2>4. QED
    BY <2>1, <2>2, <2>3, ForNone, ForOne
<1>13. CASE ev.kind = "EffectSwapSlots"
  <2> DEFINE c == [kind |-> "EffectSwap", deck |-> x, a |-> SwapIndex(ev.slot_a), b |-> SwapIndex(ev.slot_b)]
  <2>1. Single(c)
    BY <1>13 DEF IsFor
  <2>2. cs = <<c>> \/ cs = <<>>
    BY <1>13 DEF Commands, SwapCmds
  <2> HIDE DEF c
  <2>3. QED
    BY <2>1, <2>2, ForNone, ForOne
<1>14. CASE ev.kind = "EffectLfoSet"
  <2> DEFINE lfo == IF ev.slot \in Slots THEN next.deck[x].effects[ev.slot].lfo ELSE None
             c == [kind |-> "EffectLfoSet", deck |-> x, slot |-> ev.slot, config |-> lfo]
  <2>1. Single(c)
    BY <1>14 DEF IsFor
  <2>2. cs = LfoCmds(next, ev)
    BY <1>14 DEF Commands
  <2>3. LfoCmds(next, ev) = <<c>> \/ LfoCmds(next, ev) = <<>>
    BY Zenon DEF LfoCmds
  <2> HIDE DEF c
  <2>4. QED
    BY <2>1, <2>2, <2>3, ForNone, ForOne
<1>15. CASE ev.kind \in {"PhaseNudge", "HotCueSet", "LoopIn", "CopilotEngage", "CopilotDisengage"}
  <2>1. cs = <<>>
    BY <1>15 DEF Commands
  <2>2. QED
    BY <2>1, ForNone
<1>16. ev.kind \in SlotKinds \cup {"EffectSwapSlots", "DeckUnload", "DeckLoad", "DeckLoadStems",
         "SetStemGain", "DeckPlay", "DeckPause", "PitchBend", "TempoBend", "PitchTempoReset",
         "TakeOver", "PhaseNudge", "DeckCue", "LoopIn", "CopilotEngage", "CopilotDisengage",
         "EqAdjust", "HotCueSet", "HotCueTrigger", "LoopOut", "LoopExit", "SetLoopBars"}
  BY DEF DeckEvent, FxEvent, LoadEvent, LoadStemsEvent, PlainDeckEvent
<1>17. QED
  BY <1>1, <1>2, <1>3, <1>4, <1>5, <1>6, <1>7, <1>8, <1>9, <1>10, <1>11, <1>12, <1>13, <1>14,
     <1>15, <1>16

-----------------------------------------------------------------------------
(* Decks: the commands of an event bring a deck to what the reducer made   *)
(* of it.                                                                  *)

(* One command for a deck: what it leaves of it. *)
LEMMA OneLands ==
  ASSUME NEW m \in Mixer, NEW c \in AudioCommand, c.kind \notin MasterCmds
  PROVE  LandsOn(m, <<c>>).deck[c.deck] = HotAfter(m.deck[c.deck], c)
<1>1. LandsOn(m, <<c>>) = ApplyCmd(m, c)
  BY LandsOnOne
<1>2. c.deck \in DeckId
  BY DeckCommandLands
<1>3. ApplyCmd(m, c).deck[c.deck] = HotAfter(m.deck[c.deck], c)
  BY <1>2, DeckCommandLands
<1>4. QED
  BY <1>1, <1>3, Zenon

(* Before and after an event of a deck. *)
LEMMA DeckStep ==
  ASSUME NEW s \in EngineStateType, NEW m \in Mixer, NEW ev \in DeckEvent \cup FxEvent
  PROVE  /\ ev.deck \in DeckId /\ s.deck[ev.deck] \in Deck /\ m.deck[ev.deck] \in DeckHot
         /\ Apply(s, ev).deck[ev.deck] = DeckAfter(s.deck[ev.deck], ev)
         /\ \A y \in DeckId \ {ev.deck} : Apply(s, ev).deck[y] = s.deck[y]
<1> DEFINE e == DeckAfter(s.deck[ev.deck], ev)
<1>1. ev.deck \in DeckId
  BY DEF DeckEvent, FxEvent, LoadEvent, LoadStemsEvent, PlainDeckEvent
<1>2. ev.kind \notin MasterKinds
  BY DEF DeckEvent, FxEvent, LoadEvent, LoadStemsEvent, PlainDeckEvent, MasterKinds
<1>3. s.deck \in [DeckId -> Deck] /\ m.deck \in [DeckId -> DeckHot]
  BY DEF EngineStateType, DeckPair, Mixer, HotPair
<1> HIDE DEF e
<1>4. Apply(s, ev) = [s EXCEPT !.deck[ev.deck] = e]
  BY <1>2 DEF Apply, e
<1>5. Apply(s, ev).deck = [s.deck EXCEPT ![ev.deck] = e]
  BY <1>4 DEF EngineStateType
<1>6. QED
  BY <1>1, <1>3, <1>5 DEF e

-----------------------------------------------------------------------------
(* Play and pause. *)
LEMMA PlayLands ==
  ASSUME NEW s \in EngineStateType, NEW m \in Mixer, NEW ev \in DeckEvent, NEW handle,
         ev.kind \in {"DeckPlay", "DeckPause"},
         s.deck[ev.deck].playing = m.deck[ev.deck].playing
  PROVE  Apply(s, ev).deck[ev.deck].playing
           = LandsOn(m, Commands(s, Apply(s, ev), ev, handle)).deck[ev.deck].playing
<1> DEFINE t  == Apply(s, ev)
           cs == Commands(s, t, ev, handle)
           x  == ev.deck
           d  == s.deck[x]
           h  == m.deck[x]
<1>1. x \in DeckId /\ d \in Deck /\ h \in DeckHot /\ t.deck[x] = DeckAfter(d, ev)
  BY DeckStep
<1>2. cs = Toggle(s, t, ev)
  BY DEF Commands
<1>3. CASE ev.kind = "DeckPlay"
  <2> DEFINE c == Cmd("DeckPlay", x)
  <2>1. t.deck[x].playing = TRUE
    BY <1>1, <1>3 DEF DeckAfter, SlotKinds, Deck
  <2>2. CASE d.playing
    <3>1. cs = <<>>
      BY <1>2, <1>3, <2>2 DEF Toggle
    <3>2. QED
      BY <2>1, <2>2, <3>1, LandsOnNone
  <2>3. CASE ~d.playing
    <3>1. cs = <<c>>
      BY <1>2, <1>3, <2>1, <2>3 DEF Toggle
    <3>2. c \in AudioCommand /\ c.kind = "DeckPlay" /\ c.deck = x
      BY <1>1 DEF Cmd, AudioCommand, DeckCmd
    <3> HIDE DEF c
    <3>3. LandsOn(m, <<c>>).deck[x] = HotAfter(h, c)
      BY <3>2, OneLands DEF MasterCmds
    <3>4. HotAfter(h, c).playing = TRUE
      BY <1>1, <3>2 DEF HotAfter, BankKinds, DeckHot
    <3> HIDE DEF cs, t
    <3>5. LandsOn(m, cs).deck[x] = HotAfter(h, c)
      BY <3>1, <3>3, Zenon
    <3>6. QED
      BY <2>1, <3>4, <3>5 DEF cs, t
  <2>4. QED
    BY <2>2, <2>3
<1>4. CASE ev.kind = "DeckPause"
  <2> DEFINE c == Cmd("DeckPause", x)
  <2>1. t.deck[x].playing = FALSE
    BY <1>1, <1>4 DEF DeckAfter, SlotKinds, Deck
  <2>2. CASE ~d.playing
    <3>1. cs = <<>>
      BY <1>2, <1>4, <2>2 DEF Toggle
    <3>2. d.playing = FALSE
      BY <1>1, <2>2 DEF Deck
    <3>3. QED
      BY <2>1, <3>1, <3>2, LandsOnNone
  <2>3. CASE d.playing
    <3>1. cs = <<c>>
      BY <1>2, <1>4, <2>1, <2>3 DEF Toggle
    <3>2. c \in AudioCommand /\ c.kind = "DeckPause" /\ c.deck = x
      BY <1>1 DEF Cmd, AudioCommand, DeckCmd
    <3> HIDE DEF c
    <3>3. LandsOn(m, <<c>>).deck[x] = HotAfter(h, c)
      BY <3>2, OneLands DEF MasterCmds
    <3>4. HotAfter(h, c).playing = FALSE
      BY <1>1, <3>2 DEF HotAfter, BankKinds, DeckHot
    <3> HIDE DEF cs, t
    <3>5. LandsOn(m, cs).deck[x] = HotAfter(h, c)
      BY <3>1, <3>3, Zenon
    <3>6. QED
      BY <2>1, <3>4, <3>5 DEF cs, t
  <2>4. QED
    BY <2>2, <2>3
<1>5. QED
  BY <1>3, <1>4

(* Pitch and tempo. *)
LEMMA ToneLands ==
  ASSUME NEW s \in EngineStateType, NEW m \in Mixer, NEW ev \in DeckEvent, NEW handle,
         ev.kind \in {"PitchBend", "TempoBend", "PitchTempoReset"},
         ev.kind # "PitchTempoReset" => PartAgrees("tone", s.deck[ev.deck], m.deck[ev.deck])
  PROVE  PartAgrees("tone", Apply(s, ev).deck[ev.deck],
                    LandsOn(m, Commands(s, Apply(s, ev), ev, handle)).deck[ev.deck])
<1> DEFINE t  == Apply(s, ev)
           cs == Commands(s, t, ev, handle)
           x  == ev.deck
           d  == s.deck[x]
           e  == t.deck[x]
           h  == m.deck[x]
           c  == CASE ev.kind = "PitchBend" -> [kind |-> "Pitch", deck |-> x, semitones |-> e.pitch_semitones]
                   [] ev.kind = "TempoBend" -> [kind |-> "Tempo", deck |-> x, ratio |-> e.tempo_ratio]
                   [] OTHER -> Cmd("PitchTempoReset", x)
<1>1. x \in DeckId /\ d \in Deck /\ h \in DeckHot /\ e = DeckAfter(d, ev)
  BY DeckStep
<1>2. e \in Deck
  BY <1>1, DeckAfterType
<1>3. e.pitch_semitones \in PitchRange /\ e.tempo_ratio \in TempoRange
  BY <1>2 DEF Deck
<1>4. cs = <<c>>
  BY DEF Commands
<1>5. c \in AudioCommand /\ c.deck = x /\ c.kind \notin MasterCmds
  BY <1>1, <1>3 DEF Cmd, AudioCommand, DeckCmd, MasterCmds
<1>6. PartAgrees("tone", e, HotAfter(h, c))
  <2>1. CASE ev.kind = "PitchBend"
    <3>1. e.tempo_ratio = d.tempo_ratio
      BY <1>1, <2>1 DEF DeckAfter, SlotKinds, Deck
    <3>2. d.tempo_ratio = h.tempo_ratio
      BY <2>1 DEF PartAgrees
    <3>3. c = [kind |-> "Pitch", deck |-> x, semitones |-> e.pitch_semitones]
      BY <2>1
    <3> HIDE DEF c, e
    <3>4. HotAfter(h, c) = [h EXCEPT !.pitch_semitones = e.pitch_semitones]
      BY <3>3 DEF HotAfter, BankKinds
    <3>5. HotAfter(h, c).tempo_ratio = h.tempo_ratio /\ HotAfter(h, c).pitch_semitones = e.pitch_semitones
      BY <1>1, <3>4 DEF DeckHot
    <3>6. QED
      BY <3>1, <3>2, <3>5 DEF PartAgrees
  <2>2. CASE ev.kind = "TempoBend"
    <3>1. e.pitch_semitones = d.pitch_semitones
      BY <1>1, <2>2 DEF DeckAfter, SlotKinds, Deck
    <3>2. d.pitch_semitones = h.pitch_semitones
      BY <2>2 DEF PartAgrees
    <3>3. c = [kind |-> "Tempo", deck |-> x, ratio |-> e.tempo_ratio]
      BY <2>2
    <3> HIDE DEF c, e
    <3>4. HotAfter(h, c) = [h EXCEPT !.tempo_ratio = e.tempo_ratio]
      BY <3>3 DEF HotAfter, BankKinds
    <3>5. HotAfter(h, c).tempo_ratio = e.tempo_ratio /\ HotAfter(h, c).pitch_semitones = h.pitch_semitones
      BY <1>1, <3>4 DEF DeckHot
    <3>6. QED
      BY <3>1, <3>2, <3>5 DEF PartAgrees
  <2>3. CASE ev.kind = "PitchTempoReset"
    <3>1. e.pitch_semitones = 0 /\ e.tempo_ratio = 100
      BY <1>1, <2>3 DEF DeckAfter, SlotKinds, Deck
    <3>2. c.kind = "PitchTempoReset"
      BY <2>3 DEF Cmd
    <3> HIDE DEF c, e
    <3>3. HotAfter(h, c) = [h EXCEPT !.pitch_semitones = 0, !.tempo_ratio = 100]
      BY <3>2 DEF HotAfter, BankKinds
    <3>4. HotAfter(h, c).pitch_semitones = 0 /\ HotAfter(h, c).tempo_ratio = 100
      BY <1>1, <3>3 DEF DeckHot
    <3>5. QED
      BY <3>1, <3>4 DEF PartAgrees
  <2>4. QED
    BY <2>1, <2>2, <2>3
<1> HIDE DEF c, cs, e
<1>7. LandsOn(m, <<c>>).deck[x] = HotAfter(h, c)
  BY <1>5, OneLands
<1>8. LandsOn(m, cs).deck[x] = HotAfter(h, c)
  BY <1>4, <1>7, Zenon
<1>9. QED
  BY <1>6, <1>8, Zenon DEF cs, e

(* A stem's gain. *)
LEMMA StemLands ==
  ASSUME NEW s \in EngineStateType, NEW m \in Mixer, NEW ev \in DeckEvent, NEW handle,
         ev.kind = "SetStemGain", s.deck[ev.deck].stem_gains = m.deck[ev.deck].stem_gains
  PROVE  Apply(s, ev).deck[ev.deck].stem_gains
           = LandsOn(m, Commands(s, Apply(s, ev), ev, handle)).deck[ev.deck].stem_gains
<1> DEFINE t  == Apply(s, ev)
           cs == Commands(s, t, ev, handle)
           x  == ev.deck
           d  == s.deck[x]
           h  == m.deck[x]
<1>1. x \in DeckId /\ d \in Deck /\ h \in DeckHot /\ t.deck[x] = DeckAfter(d, ev)
  BY DeckStep
<1>2. t.deck[x] = SetStemGain(d, ev)
  BY <1>1 DEF DeckAfter, SlotKinds
<1>3. cs = StemGainCmds(ev)
  BY DEF Commands
<1>4. CASE ev.stem \notin Stems
  <2>1. cs = <<>> /\ t.deck[x] = d
    BY <1>2, <1>3, <1>4 DEF StemGainCmds, SetStemGain
  <2>2. LandsOn(m, cs) = m
    BY <2>1, LandsOnNone
  <2> HIDE DEF cs, t
  <2>3. QED
    BY <2>1, <2>2 DEF cs, t
<1>5. CASE ev.stem \in Stems
  <2>1. cs = <<ev>>
    BY <1>3, <1>5 DEF StemGainCmds
  <2>2. ev \in AudioCommand /\ ev.kind \notin MasterCmds
    BY <1>5 DEF DeckEvent, LoadEvent, LoadStemsEvent, PlainDeckEvent, AudioCommand, DeckCmd, MasterCmds
  <2>3. LandsOn(m, <<ev>>).deck[x] = HotAfter(h, ev)
    BY <2>2, OneLands
  <2>4. HotAfter(h, ev) = [h EXCEPT !.stem_gains[ev.stem] = clamp_unit(ev.gain)]
    BY <1>5 DEF HotAfter, BankKinds
  <2>5. t.deck[x].stem_gains = [d.stem_gains EXCEPT ![ev.stem] = clamp_unit(ev.gain)]
    BY <1>1, <1>2, <1>5 DEF SetStemGain, Deck
  <2>6. HotAfter(h, ev).stem_gains = [h.stem_gains EXCEPT ![ev.stem] = clamp_unit(ev.gain)]
    BY <1>1, <2>4 DEF DeckHot
  <2> HIDE DEF cs, t
  <2>7. LandsOn(m, cs).deck[x] = HotAfter(h, ev)
    BY <2>1, <2>3, Zenon
  <2>8. QED
    BY <2>5, <2>6, <2>7 DEF cs, t
<1>6. QED
  BY <1>4, <1>5

(* A takeover. *)
LEMMA HandoffLands ==
  ASSUME NEW s \in EngineStateType, NEW m \in Mixer, NEW ev \in DeckEvent, NEW handle,
         ev.kind = "TakeOver"
  PROVE  PartAgrees("handoff", Apply(s, ev).deck[ev.deck],
                    LandsOn(m, Commands(s, Apply(s, ev), ev, handle)).deck[ev.deck])
<1> DEFINE t  == Apply(s, ev)
           cs == Commands(s, t, ev, handle)
           x  == ev.deck
           d  == s.deck[x]
           h  == m.deck[x]
           c  == [kind |-> "ArmHandoff", deck |-> x, until_frame |-> ev.handoff_until_frame]
           b  == Cmd("CancelAfter", x)
           n  == ApplyCmd(m, c)
<1>1. x \in DeckId /\ d \in Deck /\ h \in DeckHot /\ t.deck[x] = DeckAfter(d, ev)
  BY DeckStep
<1>2. t.deck[x].handoff_until_frame = ev.handoff_until_frame
  BY <1>1 DEF DeckAfter, SlotKinds, TakeOver, Deck
<1>3. cs = <<c, b>>
  BY DEF Commands, TakeOverCmds
<1>4. ev.handoff_until_frame \in Nat
  BY DEF DeckEvent, LoadEvent, LoadStemsEvent, PlainDeckEvent
<1>5. c \in AudioCommand /\ c.kind = "ArmHandoff" /\ c.deck = x
  BY <1>1, <1>4 DEF AudioCommand, DeckCmd
<1>6. b \in AudioCommand /\ b.kind = "CancelAfter" /\ b.deck = x
  BY <1>1 DEF Cmd, AudioCommand, DeckCmd
<1>6a. c.until_frame = ev.handoff_until_frame
  OBVIOUS
<1> HIDE DEF c, b
<1>7. n \in Mixer /\ n.deck[x] = HotAfter(h, c)
  BY <1>1, <1>5, ApplyCmdType, DeckCommandLands DEF MasterCmds
<1> HIDE DEF n
<1>8. LandsOn(m, <<c, b>>) = LandsOn(n, <<b>>)
  <2>1. <<c, b>> \in Seq(AudioCommand) /\ <<c, b>> # <<>> /\ Head(<<c, b>>) = c /\ Tail(<<c, b>>) = <<b>>
    BY <1>5, <1>6
  <2>2. QED
    BY <2>1, LandsOnFirst DEF n
<1>9. LandsOn(n, <<b>>).deck[x] = HotAfter(n.deck[x], b)
  BY <1>6, <1>7, OneLands DEF MasterCmds
<1>10. HotAfter(n.deck[x], b) = n.deck[x]
  BY <1>6 DEF HotAfter, BankKinds
<1>11. HotAfter(h, c).handoff_until_frame = ev.handoff_until_frame
  BY <1>1, <1>5, <1>6a DEF HotAfter, BankKinds, DeckHot
<1> HIDE DEF cs, t
<1>12. LandsOn(m, cs).deck[x] = HotAfter(h, c)
  BY <1>3, <1>7, <1>8, <1>9, <1>10, Zenon
<1>13. QED
  BY <1>2, <1>11, <1>12 DEF PartAgrees, cs, t

(* A load that opened; the transport stays where the audio side has it. *)
LEMMA LoadLands ==
  ASSUME NEW s \in EngineStateType, NEW m \in Mixer, NEW ev \in LoadEvent \cup LoadStemsEvent
  PROVE  LET e == Apply(s, ev).deck[ev.deck]
             g == LandsOn(m, Commands(s, Apply(s, ev), ev, ev.track)).deck[ev.deck]
         IN /\ PartAgrees("track", e, g) /\ PartAgrees("stems", e, g)
            /\ e.playing = FALSE /\ g.playing = m.deck[ev.deck].playing
<1> DEFINE t  == Apply(s, ev)
           cs == Commands(s, t, ev, ev.track)
           x  == ev.deck
           d  == s.deck[x]
           h  == m.deck[x]
           l  == LoadedDeck(d, ev)
           c  == IF ev.kind = "DeckLoad"
                 THEN [kind |-> "DeckLoad", deck |-> x, handle |-> ev.track,
                       track_gain_db |-> ev.track_gain_db]
                 ELSE [kind |-> "DeckLoadStems", deck |-> x, stems |-> ev.track]
           e  == t.deck[x]
           g  == HotAfter(h, c)
<1>1. x \in DeckId /\ d \in Deck /\ h \in DeckHot /\ e = DeckAfter(d, ev)
  BY DeckStep DEF DeckEvent
<1>2. ev.track \in Tracks /\ ev.track # None
  BY ConstantsAssumption DEF LoadEvent, LoadStemsEvent
<1>3. cs = <<c>>
  BY <1>2, Zenon DEF Commands, LoadCmds, LoadEvent, LoadStemsEvent
<1>4. c \in AudioCommand /\ c.deck = x /\ c.kind \notin MasterCmds
  <2>1. CASE ev.kind = "DeckLoad"
    BY <1>1, <1>2, <2>1 DEF AudioCommand, DeckCmd, MasterCmds, LoadEvent, LoadStemsEvent
  <2>2. CASE ev.kind # "DeckLoad"
    BY <1>1, <1>2, <2>2 DEF AudioCommand, DeckCmd, MasterCmds
  <2>3. QED
    BY <2>1, <2>2
<1>5. l \in Deck /\ l.loaded = ev.track /\ l.playing = FALSE /\ l.stem_gains = AllAudible
  <2>1. l \in Deck
    BY <1>1, LoadedDeckType
  <2>2. l.loaded = ev.track /\ l.playing = FALSE /\ l.stem_gains = AllAudible
    BY <1>1 DEF LoadedDeck, Deck
  <2>3. QED
    BY <2>1, <2>2
<1>6. /\ PartAgrees("track", e, g) /\ PartAgrees("stems", e, g)
      /\ e.playing = FALSE /\ g.playing = h.playing
  <2>1. CASE ev.kind = "DeckLoad"
    <3>1. e = DeckLoad(d, ev)
      BY <1>1, <2>1 DEF DeckAfter, SlotKinds
    <3>2. c.kind = "DeckLoad" /\ c.handle = ev.track
      BY <2>1
    <3> HIDE DEF c, l, e
    <3>3. e.loaded = ev.track /\ e.playing = FALSE /\ e.stem_gains = AllAudible /\ e.stem_mode = FALSE
      BY <1>5, <3>1 DEF DeckLoad, Deck, l
    <3>4. g = LoadHandle(h, c)
      BY <3>2 DEF HotAfter, BankKinds
    <3>5. g.loaded = ev.track /\ g.stem_handle = None /\ g.stem_gains = AllAudible /\ g.playing = h.playing
      BY <1>1, <3>2, <3>4 DEF LoadHandle, DeckHot
    <3> HIDE DEF g
    <3>6. QED
      BY <3>3, <3>5 DEF PartAgrees, TrackAgrees
  <2>2. CASE ev.kind # "DeckLoad"
    <3>0. ev.kind = "DeckLoadStems"
      BY <2>2 DEF LoadEvent, LoadStemsEvent
    <3>1. e = DeckLoadStems(d, ev)
      BY <1>1, <3>0 DEF DeckAfter, SlotKinds
    <3>2. c.kind = "DeckLoadStems" /\ c.stems = ev.track
      BY <2>2
    <3> HIDE DEF c, l, e
    <3>3. e.loaded = ev.track /\ e.playing = FALSE /\ e.stem_gains = AllAudible /\ e.stem_mode = TRUE
      BY <1>5, <3>1 DEF DeckLoadStems, Deck, l
    <3>4. g = LoadStems(h, c)
      BY <3>2 DEF HotAfter, BankKinds
    <3>5. g.loaded = None /\ g.stem_handle = ev.track /\ g.stem_gains = AllAudible /\ g.playing = h.playing
      BY <1>1, <3>2, <3>4 DEF LoadStems, DeckHot
    <3> HIDE DEF g
    <3>6. QED
      BY <3>3, <3>5 DEF PartAgrees, TrackAgrees
  <2>3. QED
    BY <2>1, <2>2
<1> HIDE DEF c
<1>7. LandsOn(m, <<c>>).deck[x] = g
  BY <1>4, OneLands
<1> HIDE DEF cs, e, g
<1>8. LandsOn(m, cs).deck[x] = g
  BY <1>3, <1>7, Zenon
<1>9. QED
  BY <1>6, <1>8, Zenon DEF cs, e

(* An unload. *)
LEMMA UnloadLands ==
  ASSUME NEW s \in EngineStateType, NEW m \in Mixer, NEW ev \in PlainDeckEvent, NEW handle,
         ev.kind = "DeckUnload"
  PROVE  LET e == Apply(s, ev).deck[ev.deck]
             g == LandsOn(m, Commands(s, Apply(s, ev), ev, handle)).deck[ev.deck]
         IN PartAgrees("track", e, g) /\ PartAgrees("playing", e, g) /\ PartAgrees("stems", e, g)
<1> DEFINE t  == Apply(s, ev)
           cs == Commands(s, t, ev, handle)
           x  == ev.deck
           h  == m.deck[x]
           c  == Cmd("DeckUnload", x)
           e  == t.deck[x]
           g  == HotAfter(h, c)
<1>1. x \in DeckId /\ h \in DeckHot /\ e = DeckAfter(s.deck[x], ev)
  BY DeckStep DEF DeckEvent
<1>2. cs = <<c>>
  BY DEF Commands
<1>3. c \in AudioCommand /\ c.deck = x /\ c.kind = "DeckUnload"
  BY <1>1 DEF Cmd, AudioCommand, DeckCmd
<1>4. e = DefaultDeck
  BY <1>1 DEF DeckAfter, SlotKinds
<1> HIDE DEF c, e
<1>5. g = UnloadHandle(h)
  BY <1>3 DEF HotAfter, BankKinds
<1>6. g.loaded = None /\ g.stem_handle = None /\ g.stem_gains = AllAudible /\ g.playing = FALSE
  BY <1>1, <1>5 DEF UnloadHandle, DeckHot
<1>7. LandsOn(m, <<c>>).deck[x] = g
  BY <1>3, OneLands DEF MasterCmds
<1> HIDE DEF g
<1>8. PartAgrees("track", e, g) /\ PartAgrees("playing", e, g) /\ PartAgrees("stems", e, g)
  BY <1>4, <1>6 DEF PartAgrees, TrackAgrees, DefaultDeck
<1> HIDE DEF cs
<1>9. LandsOn(m, cs).deck[x] = g
  BY <1>2, <1>7, Zenon
<1>10. QED
  BY <1>8, <1>9, Zenon DEF cs, e

-----------------------------------------------------------------------------
(* Effects *)

(* Names and parameters of an effect. *)
LEMMA NamesOf ==
  ASSUME NEW id
  PROVE  /\ descriptors(id) \in Seq(ParamNames) /\ Len(descriptors(id)) <= MAX_PARAMS
         /\ \A i, j \in DOMAIN descriptors(id) : descriptors(id)[i] = descriptors(id)[j] => i = j
<1>1. CASE id \in DOMAIN Descriptors
  <2>1. descriptors(id) = Descriptors[id]
    BY <1>1 DEF descriptors
  <2>2. Descriptors[id] \in Seq(ParamNames)
    BY <1>1, ConstantsAssumption
  <2>3. QED
    BY <1>1, <2>1, <2>2, DescriptorsAssumption
<1>2. CASE id \notin DOMAIN Descriptors
  <2>1. descriptors(id) = <<>>
    BY <1>2 DEF descriptors
  <2>2. QED
    BY <2>1 DEF MAX_PARAMS
<1>3. QED
  BY <1>1, <1>2

(* A slot assigned anew, or cleared, agrees whatever the two copies held. *)
LEMMA AssignAgrees ==
  ASSUME NEW d, NEW s \in EffectSlot, NEW b \in FxBank, NEW ev \in FxEvent,
         ev.kind \in {"EffectAssign", "EffectClear"}
  PROVE  SlotAgrees(SlotAfter(d, s, ev), BankAfter(b, ev))
<1> DEFINE e == SlotAfter(d, s, ev)
           g == BankAfter(b, ev)
<1>1. CASE ev.kind = "EffectClear" \/ ev.effect_id = 0
  <2>1. g = clear(b)
    BY <1>1 DEF BankAfter
  <2>2. g.effect_id = 0
    BY <2>1 DEF clear, FxBank
  <2>3. e.effect_id = 0
    BY <1>1, EmptySlotType DEF SlotAfter, AssignedSlot, EmptySlot, EffectSlot
  <2>4. QED
    BY <2>2, <2>3 DEF SlotAgrees
<1>2. CASE ev.kind = "EffectAssign" /\ ev.effect_id # 0
  <2> DEFINE id == ev.effect_id
             names == descriptors(id)
  <2>1. e = AssignedSlot(ev) /\ g = assign(id)
    BY <1>2 DEF SlotAfter, BankAfter
  <2>2. /\ e.effect_id = id /\ e.enabled = TRUE /\ e.wet_dry = 50 /\ e.lfo = None
        /\ e.params = [p \in ParamNames |-> None]
    BY <2>1 DEF AssignedSlot, EmptySlot
  <2>3. /\ g.effect_id = id /\ g.enabled = TRUE /\ g.wet_dry = 50 /\ g.lfo = None
        /\ g.params = default_params(id)
    BY <2>1 DEF assign, NewBank
  <2> HIDE DEF e, g
  <2>4. ASSUME NEW i \in DOMAIN names
        PROVE  e.params[names[i]] = None /\ g.params[i] = ParamSpec[names[i]].default
    <3>1. names \in Seq(ParamNames) /\ Len(names) <= MAX_PARAMS
      BY NamesOf
    <3>2. i \in 1..MAX_PARAMS /\ i <= Len(names) /\ names[i] \in ParamNames
      BY <3>1 DEF MAX_PARAMS
    <3> HIDE DEF names
    <3>3. default_params(id)[i] = ParamSpec[names[i]].default
      BY <3>2 DEF default_params, names
    <3>4. e.params[names[i]] = None
      BY <2>2, <3>2
    <3>5. QED
      BY <2>3, <3>3, <3>4
  <2>5. ParamsAgree(e, g)
    BY <2>2, <2>4 DEF ParamsAgree
  <2>6. QED
    BY <2>2, <2>3, <2>5 DEF SlotAgrees, e, g
<1>3. QED
  BY <1>1, <1>2

(* The parameters agree as long as nobody touches them. *)
LEMMA ParamsKept ==
  ASSUME NEW s, NEW b, NEW e, NEW g, ParamsAgree(s, b),
         e.effect_id = s.effect_id, e.params = s.params, g.params = b.params
  PROVE  ParamsAgree(e, g)
BY DEF ParamsAgree

(* The blend, and an oscillator taken away. *)
LEMMA BlendAgrees ==
  ASSUME NEW d, NEW s \in EffectSlot, NEW b \in FxBank, NEW ev \in FxEvent, SlotAgrees(s, b),
         ev.kind \in {"EffectWetDry", "EffectLfoClear"}
  PROVE  SlotAgrees(SlotAfter(d, s, ev), BankAfter(b, ev))
<1> DEFINE e == SlotAfter(d, s, ev)
           g == BankAfter(b, ev)
<1>1. CASE ev.kind = "EffectWetDry"
  <2>1. e = [s EXCEPT !.wet_dry = clamp_unit(ev.value)] /\ g = [b EXCEPT !.wet_dry = clamp_unit(ev.value)]
    BY <1>1 DEF SlotAfter, BankAfter
  <2> HIDE DEF e, g
  <2>2. /\ e.effect_id = s.effect_id /\ e.params = s.params /\ e.enabled = s.enabled /\ e.lfo = s.lfo
        /\ e.wet_dry = clamp_unit(ev.value)
    BY <2>1 DEF EffectSlot
  <2>3. /\ g.effect_id = b.effect_id /\ g.params = b.params /\ g.enabled = b.enabled /\ g.lfo = b.lfo
        /\ g.wet_dry = clamp_unit(ev.value)
    BY <2>1 DEF FxBank
  <2>4. ParamsAgree(s, b) => ParamsAgree(e, g)
    BY <2>2, <2>3, ParamsKept
  <2>5. QED
    BY <2>2, <2>3, <2>4, Zenon DEF SlotAgrees, e, g
<1>2. CASE ev.kind = "EffectLfoClear"
  <2>1. e = [s EXCEPT !.lfo = None] /\ g = [b EXCEPT !.lfo = None]
    BY <1>2 DEF SlotAfter, BankAfter
  <2> HIDE DEF e, g
  <2>2. /\ e.effect_id = s.effect_id /\ e.params = s.params /\ e.enabled = s.enabled
        /\ e.lfo = None /\ e.wet_dry = s.wet_dry
    BY <2>1 DEF EffectSlot
  <2>3. /\ g.effect_id = b.effect_id /\ g.params = b.params /\ g.enabled = b.enabled
        /\ g.lfo = None /\ g.wet_dry = b.wet_dry
    BY <2>1 DEF FxBank
  <2>4. ParamsAgree(s, b) => ParamsAgree(e, g)
    BY <2>2, <2>3, ParamsKept
  <2>5. QED
    BY <2>2, <2>3, <2>4, Zenon DEF SlotAgrees, e, g
<1>3. QED
  BY <1>1, <1>2

(* Switching a slot on or off. *)
LEMMA SwitchAgrees ==
  ASSUME NEW s \in EffectSlot, NEW b \in FxBank, NEW e \in EffectSlot, NEW c, SlotAgrees(s, b),
         c.kind = "EffectEnable", e.enabled = c.enabled, e.effect_id = s.effect_id,
         e.params = s.params, e.wet_dry = s.wet_dry, e.lfo = s.lfo
  PROVE  SlotAgrees(e, BankAfter(b, c))
<1> DEFINE g == BankAfter(b, c)
<1>1. g = [b EXCEPT !.enabled = c.enabled]
  BY DEF BankAfter
<1> HIDE DEF g
<1>2. /\ g.effect_id = b.effect_id /\ g.params = b.params /\ g.enabled = c.enabled
      /\ g.lfo = b.lfo /\ g.wet_dry = b.wet_dry
  BY <1>1 DEF FxBank
<1>3. ParamsAgree(s, b) => ParamsAgree(e, g)
  BY <1>2, ParamsKept
<1>4. QED
  BY <1>2, <1>3, Zenon DEF SlotAgrees, g

(* An oscillator on the reducer's target. *)
LEMMA LfoAgrees ==
  ASSUME NEW s \in EffectSlot, NEW b \in FxBank, NEW e \in EffectSlot, NEW c, SlotAgrees(s, b),
         c.kind = "EffectLfoSet", e.lfo = c.config, e.effect_id = s.effect_id,
         e.params = s.params, e.wet_dry = s.wet_dry, e.enabled = s.enabled
  PROVE  SlotAgrees(e, BankAfter(b, c))
<1> DEFINE g == BankAfter(b, c)
<1>1. g = [b EXCEPT !.lfo = c.config]
  BY DEF BankAfter
<1> HIDE DEF g
<1>2. /\ g.effect_id = b.effect_id /\ g.params = b.params /\ g.enabled = b.enabled
      /\ g.lfo = c.config /\ g.wet_dry = b.wet_dry
  BY <1>1 DEF FxBank
<1>3. ParamsAgree(s, b) => ParamsAgree(e, g)
  BY <1>2, ParamsKept
<1>4. QED
  BY <1>2, <1>3, Zenon DEF SlotAgrees, g

(* A parameter the current effect knows. *)
LEMMA ParamAgrees ==
  ASSUME NEW s \in EffectSlot, NEW b \in FxBank, NEW p \in ParamNames, NEW v \in Int, SlotAgrees(s, b),
         NEW i \in DOMAIN descriptors(s.effect_id), descriptors(s.effect_id)[i] = p
  PROVE  SlotAgrees([s EXCEPT !.params[p] = v], set_param(b, i, v))
<1> DEFINE e == [s EXCEPT !.params[p] = v]
           g == set_param(b, i, v)
           names == descriptors(s.effect_id)
           spec == ParamSpec[p]
<1>1. /\ names \in Seq(ParamNames) /\ Len(names) <= MAX_PARAMS
      /\ \A j \in DOMAIN names : names[j] = p => j = i
  BY NamesOf
<1>2. i \in 1..MAX_PARAMS /\ i <= Len(names) /\ ~(i > MAX_PARAMS)
  BY <1>1 DEF MAX_PARAMS
<1>3. CASE s.effect_id = 0
  <2>1. e.effect_id = 0
    BY <1>3 DEF EffectSlot
  <2>2. g.effect_id = b.effect_id
    BY <1>2 DEF set_param, FxBank
  <2> HIDE DEF e, g
  <2>3. QED
    BY <1>3, <2>1, <2>2 DEF SlotAgrees, e, g
<1>4. CASE s.effect_id # 0
  <2>1. b.effect_id = s.effect_id /\ ParamsAgree(s, b)
    BY <1>4 DEF SlotAgrees
  <2> DEFINE w == Clamp(v, spec.min, spec.max)
  <2>2. g = [b EXCEPT !.params[i] = w]
    <3>1. g = [b EXCEPT !.params[i] = IF i <= Len(names)
                                      THEN Clamp(v, ParamSpec[names[i]].min, ParamSpec[names[i]].max)
                                      ELSE v]
      BY <1>2, <2>1, Zenon DEF set_param
    <3>2. QED
      BY <1>2, <3>1
  <2> HIDE DEF g, w
  <2>3. /\ g.effect_id = b.effect_id /\ g.enabled = b.enabled /\ g.lfo = b.lfo /\ g.wet_dry = b.wet_dry
        /\ g.params = [b.params EXCEPT ![i] = w]
    BY <2>2 DEF FxBank
  <2> HIDE DEF e
  <2>4. /\ e.effect_id = s.effect_id /\ e.enabled = s.enabled /\ e.lfo = s.lfo /\ e.wet_dry = s.wet_dry
        /\ e.params = [s.params EXCEPT ![p] = v]
    BY DEF EffectSlot, e
  <2>5. s.params \in [ParamNames -> Int \cup {None}] /\ b.params \in [1..MAX_PARAMS -> Int]
    BY DEF EffectSlot, ParamMap, FxBank, ParamBank
  <2>6. ASSUME NEW j \in DOMAIN names
        PROVE  g.params[j] = IF e.params[names[j]] = None THEN ParamSpec[names[j]].default
                             ELSE Clamp(e.params[names[j]], ParamSpec[names[j]].min, ParamSpec[names[j]].max)
    <3>1. CASE j = i
      <4>1. g.params[j] = w
        BY <1>2, <2>3, <2>5, <3>1
      <4>2. names[j] = p /\ e.params[names[j]] = v
        BY <2>4, <2>5, <3>1
      <4>3. v # None
        BY ConstantsAssumption
      <4> HIDE DEF names
      <4>4. QED
        BY <4>1, <4>2, <4>3 DEF w
    <3>2. CASE j # i
      <4>1. names[j] # p /\ names[j] \in ParamNames
        BY <1>1, <3>2
      <4>2. j \in 1..MAX_PARAMS
        BY <1>1 DEF MAX_PARAMS
      <4>3. g.params[j] = b.params[j]
        BY <2>3, <2>5, <3>2, <4>2
      <4>4. e.params[names[j]] = s.params[names[j]]
        BY <2>4, <2>5, <4>1
      <4>5. b.params[j] = IF s.params[names[j]] = None THEN ParamSpec[names[j]].default
                          ELSE Clamp(s.params[names[j]], ParamSpec[names[j]].min, ParamSpec[names[j]].max)
        BY <2>1 DEF ParamsAgree
      <4> HIDE DEF names
      <4>6. QED
        BY <4>3, <4>4, <4>5, Zenon
    <3>3. QED
      BY <3>1, <3>2
  <2>7. ParamsAgree(e, g)
    BY <2>4, <2>6 DEF ParamsAgree
  <2>8. SlotAgrees(e, g)
    BY <2>3, <2>4, <2>7 DEF SlotAgrees
  <2>9. QED
    BY <2>8 DEF e, g
<1>5. QED
  BY <1>3, <1>4

(* A parameter it does not know changes nothing that is heard. *)
LEMMA UnknownParamAgrees ==
  ASSUME NEW s \in EffectSlot, NEW b \in FxBank, NEW p \in ParamNames, NEW v \in Int, SlotAgrees(s, b),
         \A i \in DOMAIN descriptors(s.effect_id) : descriptors(s.effect_id)[i] # p
  PROVE  SlotAgrees([s EXCEPT !.params[p] = v], b)
<1> DEFINE e == [s EXCEPT !.params[p] = v]
           names == descriptors(s.effect_id)
<1>1. /\ e.effect_id = s.effect_id /\ e.enabled = s.enabled /\ e.lfo = s.lfo /\ e.wet_dry = s.wet_dry
      /\ e.params = [s.params EXCEPT ![p] = v]
  BY DEF EffectSlot
<1>2. s.params \in [ParamNames -> Int \cup {None}]
  BY DEF EffectSlot, ParamMap
<1>3. \A j \in DOMAIN names : names[j] \in ParamNames
  BY NamesOf
<1> HIDE DEF e
<1>4. \A j \in DOMAIN names : e.params[names[j]] = s.params[names[j]]
  BY <1>1, <1>2, <1>3
<1>5. ParamsAgree(s, b) => ParamsAgree(e, b)
  BY <1>1, <1>4 DEF ParamsAgree
<1>6. QED
  BY <1>1, <1>5 DEF SlotAgrees, e

(* One slot moves, with or without a command. *)
LEMMA SlotMoves ==
  ASSUME NEW d \in Deck, NEW h \in DeckHot, NEW ev \in FxEvent, ev.kind \in SlotKinds, ev.slot \in Slots
  PROVE  LET e == DeckAfter(d, ev)
         IN /\ e.effects[ev.slot] = SlotAfter(d, d.effects[ev.slot], ev)
            /\ \A i \in Slots \ {ev.slot} : e.effects[i] = d.effects[i]
<1> DEFINE a == SlotAfter(d, d.effects[ev.slot], ev)
           e == DeckAfter(d, ev)
<1>1. e = SlotEvent(d, ev)
  BY DEF DeckAfter, SlotKinds
<1> HIDE DEF a
<1>2. SlotEvent(d, ev) = [d EXCEPT !.effects[ev.slot] = a]
  BY DEF SlotEvent, a
<1> HIDE DEF e
<1>3. e.effects = [d.effects EXCEPT ![ev.slot] = a]
  BY <1>1, <1>2 DEF Deck
<1>4. d.effects \in [Slots -> EffectSlot]
  BY DEF Deck, EffectSlots
<1>5. QED
  BY <1>3, <1>4 DEF e, a

(* And one bank. *)
LEMMA BankMoves ==
  ASSUME NEW h \in DeckHot, NEW c \in BankCommand, c.slot \in Slots
  PROVE  LET g == HotAfter(h, c)
         IN /\ g.fx[c.slot] = BankAfter(h.fx[c.slot], c)
            /\ \A i \in Slots \ {c.slot} : g.fx[i] = h.fx[i]
<1> DEFINE a == BankAfter(h.fx[c.slot], c)
           g == HotAfter(h, c)
<1>1. g = BankCmd(h, c)
  BY DEF HotAfter, BankKinds, BankCommand
<1> HIDE DEF a
<1>2. BankCmd(h, c) = [h EXCEPT !.fx[c.slot] = a]
  BY DEF BankCmd, a
<1> HIDE DEF g
<1>3. g.fx = [h.fx EXCEPT ![c.slot] = a]
  BY <1>1, <1>2 DEF DeckHot
<1>4. h.fx \in [Slots -> FxBank]
  BY DEF DeckHot, FxBanks
<1>5. QED
  BY <1>3, <1>4 DEF g, a

(* A command for the slot reaches its bank. *)
LEMMA SlotLands ==
  ASSUME NEW m \in Mixer, NEW d \in Deck, NEW ev \in FxEvent, ev.kind \in SlotKinds, ev.slot \in Slots,
         NEW c \in BankCommand, c.deck = ev.deck, c.slot = ev.slot,
         SlotAgrees(SlotAfter(d, d.effects[ev.slot], ev), BankAfter(m.deck[ev.deck].fx[ev.slot], c))
  PROVE  /\ SlotAgrees(DeckAfter(d, ev).effects[ev.slot],
                       LandsOn(m, <<c>>).deck[ev.deck].fx[ev.slot])
         /\ PartAgrees("fx", d, m.deck[ev.deck]) =>
              PartAgrees("fx", DeckAfter(d, ev), LandsOn(m, <<c>>).deck[ev.deck])
<1> DEFINE x == ev.deck
           h == m.deck[x]
           e == DeckAfter(d, ev)
           g == HotAfter(h, c)
<1>1. h \in DeckHot
  BY DEF Mixer, HotPair, FxEvent
<1>2. c \in AudioCommand /\ c.kind \notin MasterCmds
  BY DEF AudioCommand, BankCommand, MasterCmds
<1>3. LandsOn(m, <<c>>).deck[x] = g
  BY <1>2, OneLands
<1>4. /\ e.effects[ev.slot] = SlotAfter(d, d.effects[ev.slot], ev)
      /\ \A i \in Slots \ {ev.slot} : e.effects[i] = d.effects[i]
  BY <1>1, SlotMoves
<1>5. /\ g.fx[ev.slot] = BankAfter(h.fx[ev.slot], c)
      /\ \A i \in Slots \ {ev.slot} : g.fx[i] = h.fx[i]
  BY <1>1, BankMoves
<1> HIDE DEF e, g
<1>6. SlotAgrees(e.effects[ev.slot], g.fx[ev.slot])
  BY <1>4, <1>5
<1>7. PartAgrees("fx", d, h) => PartAgrees("fx", e, g)
  <2> SUFFICES ASSUME PartAgrees("fx", d, h), NEW i \in Slots PROVE SlotAgrees(e.effects[i], g.fx[i])
    BY DEF PartAgrees
  <2>1. SlotAgrees(d.effects[i], h.fx[i])
    BY DEF PartAgrees
  <2>2. CASE i = ev.slot
    BY <1>6, <2>2
  <2>3. CASE i # ev.slot
    <3>1. e.effects[i] = d.effects[i] /\ g.fx[i] = h.fx[i]
      BY <1>4, <1>5, <2>3
    <3>2. QED
      BY <2>1, <3>1
  <2>4. QED
    BY <2>2, <2>3
<1>8. QED
  BY <1>3, <1>6, <1>7, Zenon DEF e

(* No command, and none needed. *)
LEMMA SlotStays ==
  ASSUME NEW d \in Deck, NEW h \in DeckHot, NEW ev \in FxEvent, ev.kind \in SlotKinds, ev.slot \in Slots,
         SlotAgrees(SlotAfter(d, d.effects[ev.slot], ev), h.fx[ev.slot]), PartAgrees("fx", d, h)
  PROVE  PartAgrees("fx", DeckAfter(d, ev), h)
<1> DEFINE e == DeckAfter(d, ev)
<1>1. /\ e.effects[ev.slot] = SlotAfter(d, d.effects[ev.slot], ev)
      /\ \A i \in Slots \ {ev.slot} : e.effects[i] = d.effects[i]
  BY SlotMoves
<1> HIDE DEF e
<1>2. ASSUME NEW i \in Slots PROVE SlotAgrees(e.effects[i], h.fx[i])
  <2>1. SlotAgrees(d.effects[i], h.fx[i])
    BY DEF PartAgrees
  <2>2. CASE i = ev.slot
    BY <1>1, <2>2
  <2>3. CASE i # ev.slot
    <3>1. e.effects[i] = d.effects[i]
      BY <1>1, <2>3
    <3>2. QED
      BY <2>1, <3>1
  <2>4. QED
    BY <2>2, <2>3
<1>3. PartAgrees("fx", e, h)
  BY <1>2 DEF PartAgrees
<1>4. QED
  BY <1>3 DEF e

(* A slot the deck does not have: nothing moves on either side. *)
LEMMA NoSuchSlot ==
  ASSUME NEW d \in Deck, NEW m \in Mixer, NEW ev \in FxEvent, ev.kind \in SlotKinds, ev.slot \notin Slots
  PROVE  /\ DeckAfter(d, ev) = d
         /\ \A c \in BankCommand : c.deck = ev.deck /\ c.slot = ev.slot =>
              LandsOn(m, <<c>>).deck[ev.deck] = m.deck[ev.deck]
<1>1. DeckAfter(d, ev) = d
  BY DEF DeckAfter, SlotKinds, SlotEvent
<1>2. ASSUME NEW c \in BankCommand, c.deck = ev.deck, c.slot = ev.slot
      PROVE  LandsOn(m, <<c>>).deck[ev.deck] = m.deck[ev.deck]
  <2>1. c \in AudioCommand /\ c.kind \notin MasterCmds /\ c.kind \in BankKinds
    BY DEF AudioCommand, BankCommand, MasterCmds, BankKinds
  <2>2. LandsOn(m, <<c>>).deck[c.deck] = HotAfter(m.deck[c.deck], c)
    BY <2>1, OneLands
  <2>3. \A h : HotAfter(h, c) = h
    BY <1>2, <2>1 DEF HotAfter, BankKinds, BankCmd
  <2>4. QED
    BY <1>2, <2>2, <2>3
<1>3. QED
  BY <1>1, <1>2

(* Two slots change places on both sides. *)
LEMMA SwapLands ==
  ASSUME NEW s \in EngineStateType, NEW m \in Mixer, NEW ev \in FxEvent, NEW handle,
         ev.kind = "EffectSwapSlots", PartAgrees("fx", s.deck[ev.deck], m.deck[ev.deck])
  PROVE  PartAgrees("fx", Apply(s, ev).deck[ev.deck],
                    LandsOn(m, Commands(s, Apply(s, ev), ev, handle)).deck[ev.deck])
<1> DEFINE t  == Apply(s, ev)
           cs == Commands(s, t, ev, handle)
           x  == ev.deck
           d  == s.deck[x]
           h  == m.deck[x]
           e  == t.deck[x]
           a  == SwapIndex(ev.slot_a)
           b  == SwapIndex(ev.slot_b)
           c  == [kind |-> "EffectSwap", deck |-> x, a |-> a, b |-> b]
<1>1. x \in DeckId /\ d \in Deck /\ h \in DeckHot /\ e = DeckAfter(d, ev)
  BY DeckStep
<1>2. ev.slot_a \in Nat /\ ev.slot_b \in Nat
  BY DEF FxEvent
<1>3. a \in Slots /\ b \in Slots
  BY <1>2, SMT DEF SwapIndex, Clamp, Slots
<1>4. e = EffectSwapSlots(d, ev)
  BY <1>1 DEF DeckAfter, SlotKinds
<1>4a. cs = SwapCmds(ev)
  BY DEF Commands
<1>4b. cs = IF a = b THEN <<>> ELSE <<c>>
  BY <1>4a DEF SwapCmds
<1>4c. c \in AudioCommand /\ c.kind = "EffectSwap" /\ c.deck = x /\ c.a = a /\ c.b = b
  BY <1>1, <1>3 DEF AudioCommand, DeckCmd
<1> HIDE DEF a, b, c
<1>5. e.effects = [d.effects EXCEPT ![a] = d.effects[b], ![b] = d.effects[a]]
  BY <1>1, <1>4 DEF EffectSwapSlots, Deck, a, b
<1>6. d.effects \in [Slots -> EffectSlot] /\ h.fx \in [Slots -> FxBank]
  BY <1>1 DEF Deck, EffectSlots, DeckHot, FxBanks
<1> HIDE DEF e
<1>7. \A i \in Slots : e.effects[i] = d.effects[IF i = a THEN b ELSE IF i = b THEN a ELSE i]
  BY <1>3, <1>5, <1>6
<1>8. \A i \in Slots : SlotAgrees(d.effects[i], h.fx[i])
  BY DEF PartAgrees
<1> DEFINE g == LandsOn(m, cs).deck[x]
<1>9. \A i \in Slots : g.fx[i] = h.fx[IF i = a THEN b ELSE IF i = b THEN a ELSE i]
  <2>1. CASE a = b
    <3>1. LandsOn(m, cs) = m
      BY <1>4b, <2>1, LandsOnNone
    <3> HIDE DEF cs
    <3>2. g = h
      BY <3>1
    <3>3. QED
      BY <2>1, <3>2
  <2>2. CASE a # b
    <3>1. cs = <<c>>
      BY <1>4b, <2>2
    <3>2. LandsOn(m, <<c>>).deck[x] = HotAfter(h, c)
      BY <1>4c, OneLands DEF MasterCmds
    <3> HIDE DEF cs
    <3>3. g = HotAfter(h, c)
      BY <3>1, <3>2, Zenon
    <3>4. HotAfter(h, c).fx = [h.fx EXCEPT ![a] = h.fx[b], ![b] = h.fx[a]]
      BY <1>1, <1>4c DEF HotAfter, BankKinds, DeckHot
    <3> HIDE DEF g
    <3>5. QED
      BY <1>3, <1>6, <3>3, <3>4
  <2>3. QED
    BY <2>1, <2>2
<1> HIDE DEF g, cs
<1>10. ASSUME NEW i \in Slots PROVE SlotAgrees(e.effects[i], g.fx[i])
  <2> DEFINE j == IF i = a THEN b ELSE IF i = b THEN a ELSE i
  <2>1. j \in Slots
    BY <1>3
  <2>2. e.effects[i] = d.effects[j] /\ g.fx[i] = h.fx[j]
    BY <1>7, <1>9
  <2> HIDE DEF j
  <2>3. QED
    BY <1>8, <2>1, <2>2
<1>11. PartAgrees("fx", e, g)
  BY <1>10 DEF PartAgrees
<1>12. QED
  BY <1>11 DEF e, g, cs

(* The slot events whose command is the event itself. *)
LEMMA PassedOn ==
  ASSUME NEW s \in EngineStateType, NEW m \in Mixer, NEW ev \in FxEvent, NEW handle,
         ev.kind \in {"EffectAssign", "EffectClear", "EffectWetDry", "EffectLfoClear"},
         ev.slot \in Slots,
         ev.kind \in {"EffectAssign", "EffectClear"} \/ PartAgrees("fx", s.deck[ev.deck], m.deck[ev.deck])
  PROVE  LET e == Apply(s, ev).deck[ev.deck]
             g == LandsOn(m, Commands(s, Apply(s, ev), ev, handle)).deck[ev.deck]
         IN /\ SlotAgrees(e.effects[ev.slot], g.fx[ev.slot])
            /\ PartAgrees("fx", s.deck[ev.deck], m.deck[ev.deck]) => PartAgrees("fx", e, g)
<1> DEFINE t  == Apply(s, ev)
           cs == Commands(s, t, ev, handle)
           x  == ev.deck
           d  == s.deck[x]
           h  == m.deck[x]
<1>1. x \in DeckId /\ d \in Deck /\ h \in DeckHot /\ t.deck[x] = DeckAfter(d, ev)
  BY DeckStep
<1>2. cs = <<ev>>
  BY DEF Commands, SlotCmds
<1>3. ev \in BankCommand /\ ev.kind \in SlotKinds
  BY DEF FxEvent, BankCommand, SlotKinds
<1>4. d.effects[ev.slot] \in EffectSlot /\ h.fx[ev.slot] \in FxBank
  BY <1>1 DEF Deck, EffectSlots, DeckHot, FxBanks
<1>5. SlotAgrees(SlotAfter(d, d.effects[ev.slot], ev), BankAfter(h.fx[ev.slot], ev))
  <2>1. CASE ev.kind \in {"EffectAssign", "EffectClear"}
    BY <1>4, <2>1, AssignAgrees
  <2>2. CASE ev.kind \notin {"EffectAssign", "EffectClear"}
    <3>1. SlotAgrees(d.effects[ev.slot], h.fx[ev.slot])
      BY <2>2 DEF PartAgrees
    <3>2. QED
      BY <1>4, <2>2, <3>1, BlendAgrees
  <2>3. QED
    BY <2>1, <2>2
<1>6. /\ SlotAgrees(DeckAfter(d, ev).effects[ev.slot], LandsOn(m, <<ev>>).deck[x].fx[ev.slot])
      /\ PartAgrees("fx", d, h) => PartAgrees("fx", DeckAfter(d, ev), LandsOn(m, <<ev>>).deck[x])
  BY <1>1, <1>3, <1>5, SlotLands
<1> HIDE DEF cs, t
<1>7. LandsOn(m, cs) = LandsOn(m, <<ev>>)
  BY <1>2, Zenon
<1>8. QED
  BY <1>1, <1>6, <1>7, Zenon DEF cs, t

(* A switch and a one-shot. *)
LEMMA EnableLands ==
  ASSUME NEW s \in EngineStateType, NEW m \in Mixer, NEW ev \in FxEvent, NEW handle,
         ev.kind \in {"EffectEnable", "EffectOneShot"}, ev.slot \in Slots,
         PartAgrees("fx", s.deck[ev.deck], m.deck[ev.deck])
  PROVE  PartAgrees("fx", Apply(s, ev).deck[ev.deck],
                    LandsOn(m, Commands(s, Apply(s, ev), ev, handle)).deck[ev.deck])
<1> DEFINE t  == Apply(s, ev)
           cs == Commands(s, t, ev, handle)
           x  == ev.deck
           d  == s.deck[x]
           h  == m.deck[x]
           sl == d.effects[ev.slot]
           a  == SlotAfter(d, sl, ev)
           on == IF ev.kind = "EffectEnable" THEN ev.enabled ELSE TRUE
           c  == EnableCmd(ev, on)
<1>1. x \in DeckId /\ d \in Deck /\ h \in DeckHot /\ t.deck[x] = DeckAfter(d, ev)
  BY DeckStep
<1>2. ev.kind \in SlotKinds /\ ev.kind \notin MasterKinds /\ on \in BOOLEAN /\ ev.slot \in Nat
  BY DEF FxEvent, SlotKinds, MasterKinds
<1>3. c \in BankCommand /\ c.kind = "EffectEnable" /\ c.deck = x /\ c.slot = ev.slot /\ c.enabled = on
  BY <1>1, <1>2, EnableCmdType DEF EnableCmd
<1>4. sl \in EffectSlot /\ h.fx[ev.slot] \in FxBank /\ SlotAgrees(sl, h.fx[ev.slot])
  BY <1>1 DEF Deck, EffectSlots, DeckHot, FxBanks, PartAgrees
<1>5. a \in EffectSlot
  BY <1>1, <1>2, <1>4, SlotAfterType
<1>6. a.effect_id = sl.effect_id /\ a.params = sl.params /\ a.wet_dry = sl.wet_dry /\ a.lfo = sl.lfo
  <2>1. a \in {EffectEnable(sl, ev), OneShot(d, sl, ev)}
    BY DEF SlotAfter
  <2> HIDE DEF a, d
  <2>2. a = EffectEnable(sl, ev) =>
          a.effect_id = sl.effect_id /\ a.params = sl.params /\ a.wet_dry = sl.wet_dry /\ a.lfo = sl.lfo
    BY <1>4 DEF EffectEnable, EffectSlot
  <2>3. a = OneShot(d, sl, ev) =>
          a.effect_id = sl.effect_id /\ a.params = sl.params /\ a.wet_dry = sl.wet_dry /\ a.lfo = sl.lfo
    BY <1>4 DEF OneShot, EffectSlot
  <2>4. QED
    BY <2>1, <2>2, <2>3
<1>6a. t.deck[x].effects[ev.slot] = a
  BY <1>1, <1>2, SlotMoves
<1>7. \/ cs = <<c>> /\ a.enabled = on
      \/ cs = <<>> /\ (a.effect_id = 0 \/ a.enabled = sl.enabled)
  <2>1. CASE ev.kind = "EffectEnable"
    <3>1. cs = <<c>>
      BY <2>1 DEF Commands
    <3>2. a = EffectEnable(sl, ev)
      BY <2>1 DEF SlotAfter
    <3> HIDE DEF a, cs, c
    <3>3. a.enabled = on
      BY <1>4, <2>1, <3>2 DEF EffectEnable, EffectSlot
    <3>4. QED
      BY <3>1, <3>3
  <2>2. CASE ev.kind = "EffectOneShot"
    <3>1. a = OneShot(d, sl, ev)
      BY <2>2 DEF SlotAfter
    <3>2. cs = OneShotCmds(s, t, ev)
      BY <2>2 DEF Commands
    <3>3. OneShotCmds(s, t, ev) = IF ~sl.enabled /\ a.enabled THEN <<EnableCmd(ev, TRUE)>> ELSE <<>>
      BY <1>6a DEF OneShotCmds
    <3>3a. c = EnableCmd(ev, TRUE)
      BY <2>2
    <3> HIDE DEF a, cs, c, t
    <3>4. CASE sl.effect_id = 0
      <4>1. a = sl
        BY <3>1, <3>4 DEF OneShot
      <4>2. QED
        BY <3>2, <3>3, <3>4, <4>1
    <3>5. CASE sl.effect_id # 0
      <4>1. a.enabled = TRUE
        BY <1>4, <3>1, <3>5 DEF OneShot, EffectSlot
      <4>2. CASE sl.enabled
        <5>1. sl.enabled = TRUE
          BY <1>4, <4>2 DEF EffectSlot
        <5>2. cs = <<>>
          BY <3>2, <3>3, <4>2
        <5>3. QED
          BY <4>1, <5>1, <5>2
      <4>3. CASE ~sl.enabled
        <5>1. cs = <<c>>
          BY <3>2, <3>3, <3>3a, <4>1, <4>3
        <5>2. QED
          BY <2>2, <4>1, <5>1
      <4>4. QED
        BY <4>2, <4>3
    <3>6. QED
      BY <3>4, <3>5
  <2>3. QED
    BY <2>1, <2>2
<1> HIDE DEF c, on, cs, t
<1>8. CASE cs = <<c>> /\ a.enabled = on
  <2> HIDE DEF a
  <2>1. SlotAgrees(a, BankAfter(h.fx[ev.slot], c))
    BY <1>3, <1>4, <1>5, <1>6, <1>8, SwitchAgrees
  <2>2. PartAgrees("fx", DeckAfter(d, ev), LandsOn(m, <<c>>).deck[x])
    BY <1>1, <1>2, <1>3, <2>1, SlotLands DEF a
  <2>3. LandsOn(m, cs) = LandsOn(m, <<c>>)
    BY <1>8, Zenon
  <2>4. QED
    BY <1>1, <2>2, <2>3, Zenon DEF cs, t
<1>9. CASE cs = <<>> /\ (a.effect_id = 0 \/ a.enabled = sl.enabled)
  <2> HIDE DEF a
  <2>1. SlotAgrees(a, h.fx[ev.slot])
    <3>1. CASE a.effect_id = 0
      BY <1>4, <1>6, <3>1 DEF SlotAgrees
    <3>2. CASE a.enabled = sl.enabled
      <4>1. ParamsAgree(sl, h.fx[ev.slot]) => ParamsAgree(a, h.fx[ev.slot])
        BY <1>6, ParamsKept
      <4> HIDE DEF sl
      <4>2. QED
        BY <1>4, <1>6, <3>2, <4>1, Zenon DEF SlotAgrees
    <3>3. QED
      BY <1>9, <3>1, <3>2
  <2>2. PartAgrees("fx", DeckAfter(d, ev), h)
    BY <1>1, <1>2, <2>1, SlotStays DEF a
  <2>3. LandsOn(m, cs) = m
    <3>1. LandsOn(m, <<>>) = m
      BY LandsOnNone
    <3>2. QED
      BY <1>9, <3>1, Zenon
  <2>4. LandsOn(m, cs).deck[x] = h
    BY <2>3, Zenon
  <2>5. QED
    BY <1>1, <2>2, <2>4, Zenon DEF cs, t
<1>10. QED
  BY <1>7, <1>8, <1>9

(* A parameter, known to the effect or not. *)
LEMMA ParamLands ==
  ASSUME NEW s \in EngineStateType, NEW m \in Mixer, NEW ev \in FxEvent, NEW handle,
         ev.kind = "EffectParam", ev.slot \in Slots,
         PartAgrees("fx", s.deck[ev.deck], m.deck[ev.deck])
  PROVE  PartAgrees("fx", Apply(s, ev).deck[ev.deck],
                    LandsOn(m, Commands(s, Apply(s, ev), ev, handle)).deck[ev.deck])
<1> DEFINE t  == Apply(s, ev)
           cs == Commands(s, t, ev, handle)
           x  == ev.deck
           d  == s.deck[x]
           h  == m.deck[x]
           sl == d.effects[ev.slot]
           b  == h.fx[ev.slot]
           a  == SlotAfter(d, sl, ev)
           names == IF ev.slot \in Slots
                    THEN descriptors(t.deck[x].effects[ev.slot].effect_id) ELSE <<>>
           ids == {i \in DOMAIN names : names[i] = ev.param}
           id  == CHOOSE i \in ids : \A j \in ids : i <= j
           c   == [kind |-> "EffectParam", deck |-> x, slot |-> ev.slot, param_id |-> id,
                   value |-> ev.value]
<1>1. x \in DeckId /\ d \in Deck /\ h \in DeckHot /\ t.deck[x] = DeckAfter(d, ev)
  BY DeckStep
<1>2. ev.kind \in SlotKinds /\ ev.slot \in Nat /\ ev.param \in ParamNames /\ ev.value \in Int
  BY DEF FxEvent, SlotKinds
<1>3. sl \in EffectSlot /\ b \in FxBank /\ SlotAgrees(sl, b)
  BY <1>1 DEF Deck, EffectSlots, DeckHot, FxBanks, PartAgrees
<1>4. a = [sl EXCEPT !.params[ev.param] = ev.value]
  BY DEF SlotAfter
<1>5. t.deck[x].effects[ev.slot] = a
  BY <1>1, <1>2, SlotMoves
<1>6. a.effect_id = sl.effect_id
  BY <1>3, <1>4 DEF EffectSlot
<1>7. names = descriptors(sl.effect_id)
  BY <1>5, <1>6, Zenon
<1>8. cs = ParamCmds(t, ev)
  BY DEF Commands
<1>9a. ids = {} => ParamCmds(t, ev) = <<>>
  BY Zenon DEF ParamCmds
<1>9b. ids # {} => ParamCmds(t, ev) = <<c>>
  BY Zenon DEF ParamCmds
<1> HIDE DEF t, cs
<1>9. (ids = {} => cs = <<>>) /\ (ids # {} => cs = <<c>>)
  BY <1>8, <1>9a, <1>9b, Zenon
<1> HIDE DEF names
<1>10. CASE ids = {}
  <2>1. cs = <<>>
    BY <1>9, <1>10
  <2>2. SlotAgrees(a, b)
    <3>1. \A i \in DOMAIN names : names[i] # ev.param
      BY <1>10
    <3> HIDE DEF a, b, sl
    <3>2. QED
      BY <1>2, <1>3, <1>4, <1>7, <3>1, UnknownParamAgrees
  <2>3. PartAgrees("fx", DeckAfter(d, ev), h)
    BY <1>1, <1>2, <2>2, SlotStays
  <2>4. LandsOn(m, cs).deck[x] = h
    <3>1. LandsOn(m, <<>>) = m
      BY LandsOnNone
    <3>2. QED
      BY <2>1, <3>1, Zenon
  <2>5. QED
    BY <1>1, <2>3, <2>4, Zenon DEF cs, t
<1>11. CASE ids # {}
  <2>1. names \in Seq(ParamNames)
    BY <1>7, NamesOf
  <2>2. ids \subseteq Nat \ {0}
    BY <2>1
  <2>3. \E i \in ids : \A j \in ids : i <= j
    BY <1>11, <2>2, LeastNat
  <2>4. id \in ids
    BY <2>3
  <2> HIDE DEF id
  <2>5. id \in Nat \ {0} /\ id \in DOMAIN names /\ names[id] = ev.param
    BY <2>2, <2>4
  <2>6. c \in BankCommand /\ c.kind = "EffectParam" /\ c.deck = x /\ c.slot = ev.slot
        /\ c.param_id = id /\ c.value = ev.value
    BY <1>1, <1>2, <2>5 DEF BankCommand
  <2>7. cs = <<c>>
    BY <1>9, <1>11
  <2> HIDE DEF c
  <2>8. BankAfter(b, c) = set_param(b, id, ev.value)
    BY <2>6 DEF BankAfter
  <2>9. SlotAgrees(a, set_param(b, id, ev.value))
    <3> HIDE DEF a, b, sl
    <3>1. QED
      BY <1>2, <1>3, <1>4, <1>7, <2>5, ParamAgrees
  <2>10. PartAgrees("fx", DeckAfter(d, ev), LandsOn(m, <<c>>).deck[x])
    <3>1. SlotAgrees(a, BankAfter(b, c))
      BY <2>8, <2>9
    <3>2. QED
      BY <1>1, <1>2, <2>6, <3>1, SlotLands
  <2>11. LandsOn(m, cs) = LandsOn(m, <<c>>)
    BY <2>7, Zenon
  <2>12. QED
    BY <1>1, <2>10, <2>11, Zenon DEF cs, t
<1>12. QED
  BY <1>10, <1>11

(* An oscillator. *)
LEMMA LfoLands ==
  ASSUME NEW s \in EngineStateType, NEW m \in Mixer, NEW ev \in FxEvent, NEW handle,
         ev.kind = "EffectLfoSet", ev.slot \in Slots,
         PartAgrees("fx", s.deck[ev.deck], m.deck[ev.deck])
  PROVE  PartAgrees("fx", Apply(s, ev).deck[ev.deck],
                    LandsOn(m, Commands(s, Apply(s, ev), ev, handle)).deck[ev.deck])
<1> DEFINE t  == Apply(s, ev)
           cs == Commands(s, t, ev, handle)
           x  == ev.deck
           d  == s.deck[x]
           h  == m.deck[x]
           sl == d.effects[ev.slot]
           b  == h.fx[ev.slot]
           a  == SlotAfter(d, sl, ev)
           c  == [kind |-> "EffectLfoSet", deck |-> x, slot |-> ev.slot, config |-> a.lfo]
<1>1. x \in DeckId /\ d \in Deck /\ h \in DeckHot /\ t.deck[x] = DeckAfter(d, ev)
  BY DeckStep
<1>2. ev.kind \in SlotKinds /\ ev.kind \notin MasterKinds /\ ev.slot \in Nat
  BY DEF FxEvent, SlotKinds, MasterKinds
<1>3. sl \in EffectSlot /\ b \in FxBank /\ SlotAgrees(sl, b)
  BY <1>1 DEF Deck, EffectSlots, DeckHot, FxBanks, PartAgrees
<1>4. a = LfoSet(sl, ev)
  BY DEF SlotAfter
<1>5. t.deck[x].effects[ev.slot] = a
  BY <1>1, <1>2, SlotMoves
<1>6. a \in EffectSlot
  BY <1>1, <1>2, <1>3, SlotAfterType
<1> HIDE DEF a, sl
<1>7. /\ a.effect_id = sl.effect_id /\ a.params = sl.params /\ a.wet_dry = sl.wet_dry
      /\ a.enabled = sl.enabled
  BY <1>3, <1>4 DEF LfoSet, EffectSlot
<1>8. a.lfo \in Lfo
  <2>1. ev.depth \in Int /\ ev.target_param \in Nat
    BY DEF FxEvent
  <2> DEFINE n == Len(descriptors(sl.effect_id))
             r == IF ev.target_param < n THEN ev.target_param ELSE IF n = 0 THEN 0 ELSE n - 1
  <2>2. n \in Nat
    BY NamesOf
  <2>3. r \in Nat
    BY <2>1, <2>2
  <2>4. a.lfo = [depth |-> clamp_unit(ev.depth), target_param |-> r]
    BY <1>3, <1>4 DEF LfoSet, EffectSlot
  <2>5. clamp_unit(ev.depth) \in Percent
    BY <2>1, UnitPercent
  <2> HIDE DEF r, n
  <2>6. QED
    BY <2>3, <2>4, <2>5 DEF Lfo
<1>9. c \in BankCommand /\ c.kind = "EffectLfoSet" /\ c.deck = x /\ c.slot = ev.slot /\ c.config = a.lfo
  BY <1>1, <1>2, <1>8 DEF BankCommand
<1>10. cs = <<c>>
  <2>1. cs = LfoCmds(t, ev)
    BY DEF Commands
  <2> HIDE DEF t
  <2>2. a.lfo # None
    BY <1>8, LfoAssumption
  <2>3. (IF ev.slot \in Slots THEN t.deck[x].effects[ev.slot].lfo ELSE None) = a.lfo
    BY <1>5, Zenon
  <2>4. LfoCmds(t, ev) = <<c>>
    BY <2>2, <2>3, Zenon DEF LfoCmds
  <2>5. QED
    BY <2>1, <2>4, Zenon
<1> HIDE DEF c, cs, t
<1>11. SlotAgrees(a, BankAfter(b, c))
  BY <1>3, <1>6, <1>7, <1>9, LfoAgrees
<1>12. PartAgrees("fx", DeckAfter(d, ev), LandsOn(m, <<c>>).deck[x])
  BY <1>1, <1>2, <1>9, <1>11, SlotLands DEF a, sl
<1>13. LandsOn(m, cs) = LandsOn(m, <<c>>)
  BY <1>10, Zenon
<1>14. QED
  BY <1>1, <1>12, <1>13, Zenon DEF cs, t

(* The slots of an event without a place in the rack. *)
LEMMA NoSlotLands ==
  ASSUME NEW s \in EngineStateType, NEW m \in Mixer, NEW ev \in FxEvent, NEW handle,
         ev.kind \in SlotKinds, ev.slot \notin Slots
  PROVE  /\ Apply(s, ev).deck[ev.deck] = s.deck[ev.deck]
         /\ LandsOn(m, Commands(s, Apply(s, ev), ev, handle)).deck[ev.deck] = m.deck[ev.deck]
<1> DEFINE t  == Apply(s, ev)
           cs == Commands(s, t, ev, handle)
           x  == ev.deck
<1>1. x \in DeckId /\ s.deck[x] \in Deck /\ t.deck[x] = DeckAfter(s.deck[x], ev)
  BY DeckStep
<1>2. /\ t.deck[x] = s.deck[x]
      /\ \A c \in BankCommand : c.deck = x /\ c.slot = ev.slot => LandsOn(m, <<c>>).deck[x] = m.deck[x]
  BY <1>1, NoSuchSlot
<1>3. LandsOn(m, <<>>).deck[x] = m.deck[x]
  BY LandsOnNone, Zenon
<1>4. CASE ev.kind \in {"EffectAssign", "EffectClear", "EffectWetDry", "EffectLfoClear"}
  <2>1. cs = <<ev>>
    BY <1>4 DEF Commands, SlotCmds
  <2>2. ev \in BankCommand
    BY <1>4 DEF FxEvent, BankCommand
  <2> HIDE DEF cs, t
  <2>3. LandsOn(m, <<ev>>).deck[x] = m.deck[x]
    BY <1>2, <2>2
  <2>4. LandsOn(m, cs).deck[x] = m.deck[x]
    BY <2>1, <2>3, Zenon
  <2>5. QED
    BY <1>2, <2>4, Zenon DEF cs, t
<1>5. CASE ev.kind = "EffectEnable"
  <2> DEFINE c == EnableCmd(ev, ev.enabled)
  <2>1. cs = <<c>>
    BY <1>5 DEF Commands
  <2>2. ev.slot \in Nat /\ ev.enabled \in BOOLEAN
    BY <1>5 DEF FxEvent
  <2>3. c \in BankCommand /\ c.deck = x /\ c.slot = ev.slot
    BY <1>1, <2>2, EnableCmdType DEF EnableCmd
  <2> HIDE DEF cs, t, c
  <2>4. LandsOn(m, <<c>>).deck[x] = m.deck[x]
    BY <1>2, <2>3
  <2>5. LandsOn(m, cs).deck[x] = m.deck[x]
    BY <2>1, <2>4, Zenon
  <2>6. QED
    BY <1>2, <2>5, Zenon DEF cs, t
<1>6. CASE ev.kind \in {"EffectParam", "EffectLfoSet", "EffectOneShot"}
  <2>1. cs = <<>>
    <3>1. CASE ev.kind = "EffectParam"
      <4>1. cs = ParamCmds(t, ev)
        BY <3>1 DEF Commands
      <4> HIDE DEF t
      <4>2. (IF ev.slot \in Slots THEN descriptors(t.deck[x].effects[ev.slot].effect_id) ELSE <<>>) = <<>>
        OBVIOUS
      <4>3. {i \in DOMAIN <<>> : <<>>[i] = ev.param} = {}
        OBVIOUS
      <4>4. ParamCmds(t, ev) = <<>>
        BY <4>2, <4>3, Zenon DEF ParamCmds
      <4>5. QED
        BY <4>1, <4>4, Zenon
    <3>2. CASE ev.kind = "EffectLfoSet"
      BY <3>2 DEF Commands, LfoCmds
    <3>3. CASE ev.kind = "EffectOneShot"
      BY <3>3 DEF Commands, OneShotCmds
    <3>4. QED
      BY <1>6, <3>1, <3>2, <3>3
  <2> HIDE DEF cs, t
  <2>2. LandsOn(m, cs).deck[x] = m.deck[x]
    BY <1>3, <2>1, Zenon
  <2>3. QED
    BY <1>2, <2>2, Zenon DEF cs, t
<1>7. QED
  BY <1>4, <1>5, <1>6 DEF SlotKinds

(* Every effect event keeps both copies of a deck's slots in step. *)
LEMMA FxLands ==
  ASSUME NEW s \in EngineStateType, NEW m \in Mixer, NEW ev \in FxEvent, NEW handle,
         PartAgrees("fx", s.deck[ev.deck], m.deck[ev.deck])
  PROVE  PartAgrees("fx", Apply(s, ev).deck[ev.deck],
                    LandsOn(m, Commands(s, Apply(s, ev), ev, handle)).deck[ev.deck])
<1>1. ev.kind \in SlotKinds \cup {"EffectSwapSlots"}
  BY DEF FxEvent, SlotKinds
<1>2. CASE ev.kind = "EffectSwapSlots"
  BY <1>2, SwapLands
<1>3. CASE ev.kind \in SlotKinds /\ ev.slot \notin Slots
  BY <1>3, NoSlotLands
<1>4. CASE ev.kind \in SlotKinds /\ ev.slot \in Slots
  <2>1. ev.kind \in {"EffectAssign", "EffectClear", "EffectWetDry", "EffectLfoClear"}
        \/ ev.kind \in {"EffectEnable", "EffectOneShot"} \/ ev.kind = "EffectParam" \/ ev.kind = "EffectLfoSet"
    BY <1>4 DEF SlotKinds
  <2>2. QED
    BY <1>4, <2>1, PassedOn, EnableLands, ParamLands, LfoLands
<1>5. QED
  BY <1>1, <1>2, <1>3, <1>4

-----------------------------------------------------------------------------
(* The master section, and any event *)

(* A value in range is not clamped again on the audio side. *)
LEMMA ClampIdle ==
  /\ \A v \in Percent : clamp_unit(v) = v
  /\ \A v \in LimiterRange : clamp_threshold_db(v) = v
<1>1. \A v \in Percent : clamp_unit(v) = v
  BY SMT DEF clamp_unit, Clamp, Percent
<1>2. ASSUME NEW v \in LimiterRange PROVE clamp_threshold_db(v) = v
  <2>1. v \in Int
    BY SMT DEF LimiterRange
  <2>1a. v # NonFinite
    BY <2>1, ConstantsAssumption
  <2>2. QED
    BY <2>1a, SMT DEF clamp_threshold_db, Clamp, LimiterRange
<1>3. QED
  BY <1>1, <1>2

(* A master event brings the masters of both copies to the same value, one *)
(* by one, and leaves the decks alone.                                     *)
LEMMA MasterLands ==
  ASSUME NEW s \in EngineStateType, NEW m \in Mixer, NEW ev \in MasterEvent, NEW handle
  PROVE  LET t == Apply(s, ev)
             n == LandsOn(m, Commands(s, t, ev, handle))
         IN /\ t.deck = s.deck /\ n.deck = m.deck
            /\ MasterAgrees(s, m) => MasterAgrees(t, n)
            /\ MasterFieldAgrees(ev, t, n)
<1> DEFINE t  == Apply(s, ev)
           cs == Commands(s, t, ev, handle)
           n  == LandsOn(m, cs)
           Goal == /\ t.deck = s.deck /\ n.deck = m.deck
                   /\ MasterAgrees(s, m) => MasterAgrees(t, n)
                   /\ MasterFieldAgrees(ev, t, n)
<1>0. ev.kind \in MasterKinds
  BY DEF MasterEvent, MasterKinds
<1>1. t = MasterAfter(s, ev)
  BY <1>0 DEF Apply
<1>2. t \in EngineStateType
  BY ApplyType DEF EventKind
<1>3. t.crossfader \in Percent /\ t.master_limiter_threshold_db \in LimiterRange /\ t.crossfader_curve \in Curves
      /\ t.master_limiter_enabled \in BOOLEAN /\ t.sidechain \in SidechainConfig
  BY <1>2 DEF EngineStateType
<1>4. CASE ev.kind \in {"SessionStart", "SessionEnd", "SetMasterBpm"}
  <2>1. cs = <<>>
    BY <1>4 DEF Commands
  <2>2. /\ t.deck = s.deck /\ t.crossfader = s.crossfader /\ t.crossfader_curve = s.crossfader_curve
        /\ t.master_limiter_enabled = s.master_limiter_enabled /\ t.sidechain = s.sidechain
        /\ t.master_limiter_threshold_db = s.master_limiter_threshold_db
    BY <1>1, <1>4 DEF MasterAfter, EngineStateType
  <2>3. LandsOn(m, <<>>) = m
    BY LandsOnNone
  <2> HIDE DEF cs
  <2>4. n = m
    BY <2>1, <2>3, Zenon
  <2> HIDE DEF n, t
  <2>5. MasterAgrees(s, m) => MasterAgrees(t, n)
    BY <2>2, <2>4 DEF MasterAgrees
  <2>6. MasterFieldAgrees(ev, t, n)
    BY <1>4 DEF MasterFieldAgrees
  <2>7. Goal
    BY <2>2, <2>4, <2>5, <2>6
  <2>8. QED
    BY <2>7 DEF n, cs, t
<1>5. CASE ev.kind = "Crossfader"
  <2> DEFINE c == [kind |-> "Crossfader", target |-> t.crossfader]
  <2>1. cs = <<c>>
    BY <1>5 DEF Commands
  <2>2. /\ t.deck = s.deck /\ t.crossfader_curve = s.crossfader_curve
        /\ t.master_limiter_enabled = s.master_limiter_enabled /\ t.sidechain = s.sidechain
        /\ t.master_limiter_threshold_db = s.master_limiter_threshold_db
    BY <1>1, <1>5 DEF MasterAfter, EngineStateType
  <2> HIDE DEF t
  <2>3. c \in AudioCommand
    BY <1>3 DEF AudioCommand, MasterCommand
  <2>4. LandsOn(m, <<c>>) = ApplyCmd(m, c)
    BY <2>3, LandsOnOne
  <2>5. ApplyCmd(m, c) = [m EXCEPT !.crossfader = clamp_unit(t.crossfader)]
    BY DEF ApplyCmd, MasterCmds
  <2>6. clamp_unit(t.crossfader) = t.crossfader
    BY <1>3, ClampIdle
  <2> HIDE DEF c, cs
  <2>7. n = [m EXCEPT !.crossfader = t.crossfader]
    BY <2>1, <2>4, <2>5, <2>6, Zenon
  <2> HIDE DEF n
  <2>8. MasterAgrees(s, m) => MasterAgrees(t, n)
    BY <2>2, <2>7 DEF MasterAgrees, Mixer
  <2>9. MasterFieldAgrees(ev, t, n)
    BY <1>5, <2>7 DEF MasterFieldAgrees, Mixer
  <2>10. t.deck = s.deck /\ n.deck = m.deck
    BY <2>2, <2>7 DEF Mixer
  <2>11. Goal
    BY <2>8, <2>9, <2>10
  <2>12. QED
    BY <2>11 DEF n, cs, t
<1>6. CASE ev.kind = "SetCrossfaderCurve"
  <2> DEFINE c == [kind |-> "SetCrossfaderCurve", curve |-> t.crossfader_curve]
  <2>1. cs = <<c>>
    BY <1>6 DEF Commands
  <2>2. /\ t.deck = s.deck /\ t.crossfader = s.crossfader
        /\ t.master_limiter_enabled = s.master_limiter_enabled /\ t.sidechain = s.sidechain
        /\ t.master_limiter_threshold_db = s.master_limiter_threshold_db
    BY <1>1, <1>6 DEF MasterAfter, EngineStateType
  <2> HIDE DEF t
  <2>3. c \in AudioCommand
    BY <1>3 DEF AudioCommand, MasterCommand
  <2>4. LandsOn(m, <<c>>) = ApplyCmd(m, c)
    BY <2>3, LandsOnOne
  <2>5. ApplyCmd(m, c) = [m EXCEPT !.crossfader_curve = t.crossfader_curve]
    BY DEF ApplyCmd, MasterCmds
  <2> HIDE DEF c, cs
  <2>7. n = [m EXCEPT !.crossfader_curve = t.crossfader_curve]
    BY <2>1, <2>4, <2>5, Zenon
  <2> HIDE DEF n
  <2>8. MasterAgrees(s, m) => MasterAgrees(t, n)
    BY <2>2, <2>7 DEF MasterAgrees, Mixer
  <2>9. MasterFieldAgrees(ev, t, n)
    BY <1>6, <2>7 DEF MasterFieldAgrees, Mixer
  <2>10. t.deck = s.deck /\ n.deck = m.deck
    BY <2>2, <2>7 DEF Mixer
  <2>11. Goal
    BY <2>8, <2>9, <2>10
  <2>12. QED
    BY <2>11 DEF n, cs, t
<1>7. CASE ev.kind = "SetMasterLimiterEnabled"
  <2> DEFINE c == [kind |-> ev.kind, enabled |-> t.master_limiter_enabled]
  <2>1. cs = <<c>>
    BY <1>7 DEF Commands, LimiterCmds
  <2>2. /\ t.deck = s.deck /\ t.crossfader = s.crossfader /\ t.crossfader_curve = s.crossfader_curve
        /\ t.sidechain = s.sidechain
        /\ t.master_limiter_threshold_db = s.master_limiter_threshold_db
    BY <1>1, <1>7 DEF MasterAfter, EngineStateType
  <2> HIDE DEF t
  <2>3. c \in AudioCommand
    BY <1>3, <1>7 DEF AudioCommand, MasterCommand
  <2>4. LandsOn(m, <<c>>) = ApplyCmd(m, c)
    BY <2>3, LandsOnOne
  <2>5. ApplyCmd(m, c) = [m EXCEPT !.master_limiter_enabled = t.master_limiter_enabled]
    BY <1>7 DEF ApplyCmd, MasterCmds
  <2> HIDE DEF c, cs
  <2>7. n = [m EXCEPT !.master_limiter_enabled = t.master_limiter_enabled]
    BY <2>1, <2>4, <2>5, Zenon
  <2> HIDE DEF n
  <2>8. MasterAgrees(s, m) => MasterAgrees(t, n)
    BY <2>2, <2>7 DEF MasterAgrees, Mixer
  <2>9. MasterFieldAgrees(ev, t, n)
    BY <1>7, <2>7 DEF MasterFieldAgrees, Mixer
  <2>10. t.deck = s.deck /\ n.deck = m.deck
    BY <2>2, <2>7 DEF Mixer
  <2>11. Goal
    BY <2>8, <2>9, <2>10
  <2>12. QED
    BY <2>11 DEF n, cs, t
<1>8. CASE ev.kind = "SetMasterLimiterThreshold"
  <2> DEFINE c == [kind |-> ev.kind, threshold_db |-> t.master_limiter_threshold_db]
  <2>1. cs = <<c>>
    BY <1>8 DEF Commands, LimiterCmds
  <2>2. /\ t.deck = s.deck /\ t.crossfader = s.crossfader /\ t.crossfader_curve = s.crossfader_curve
        /\ t.sidechain = s.sidechain /\ t.master_limiter_enabled = s.master_limiter_enabled
    BY <1>1, <1>8 DEF MasterAfter, EngineStateType
  <2> HIDE DEF t
  <2>3. c \in AudioCommand
    BY <1>3, <1>8 DEF AudioCommand, MasterCommand
  <2>4. LandsOn(m, <<c>>) = ApplyCmd(m, c)
    BY <2>3, LandsOnOne
  <2>5. ApplyCmd(m, c) =
          [m EXCEPT !.master_limiter_threshold_db = clamp_threshold_db(t.master_limiter_threshold_db)]
    BY <1>8 DEF ApplyCmd, MasterCmds
  <2>6. clamp_threshold_db(t.master_limiter_threshold_db) = t.master_limiter_threshold_db
    BY <1>3, ClampIdle
  <2> HIDE DEF c, cs
  <2>7. n = [m EXCEPT !.master_limiter_threshold_db = t.master_limiter_threshold_db]
    BY <2>1, <2>4, <2>5, <2>6, Zenon
  <2> HIDE DEF n
  <2>8. MasterAgrees(s, m) => MasterAgrees(t, n)
    BY <2>2, <2>7 DEF MasterAgrees, Mixer
  <2>9. MasterFieldAgrees(ev, t, n)
    BY <1>8, <2>7 DEF MasterFieldAgrees, Mixer
  <2>10. t.deck = s.deck /\ n.deck = m.deck
    BY <2>2, <2>7 DEF Mixer
  <2>11. Goal
    BY <2>8, <2>9, <2>10
  <2>12. QED
    BY <2>11 DEF n, cs, t
<1>9. CASE ev.kind \in {"SetSidechainEnabled", "SetSidechainParams"}
  <2> DEFINE c == [kind |-> "SetSidechain", sidechain |-> t.sidechain]
  <2>1. cs = <<c>>
    BY <1>9 DEF Commands, SidechainCmds
  <2>2. /\ t.deck = s.deck /\ t.crossfader = s.crossfader /\ t.crossfader_curve = s.crossfader_curve
        /\ t.master_limiter_enabled = s.master_limiter_enabled
        /\ t.master_limiter_threshold_db = s.master_limiter_threshold_db
    <3>1. \E sc : t = [s EXCEPT !.sidechain = sc]
      BY <1>1, <1>9, Zenon DEF MasterAfter
    <3> HIDE DEF t
    <3>2. QED
      BY <3>1 DEF EngineStateType
  <2> HIDE DEF t
  <2>3. c \in AudioCommand
    BY <1>3 DEF AudioCommand, MasterCommand
  <2>4. LandsOn(m, <<c>>) = ApplyCmd(m, c)
    BY <2>3, LandsOnOne
  <2>5. ApplyCmd(m, c) = [m EXCEPT !.sidechain = t.sidechain]
    BY DEF ApplyCmd, MasterCmds
  <2> HIDE DEF c, cs
  <2>7. n = [m EXCEPT !.sidechain = t.sidechain]
    BY <2>1, <2>4, <2>5, Zenon
  <2> HIDE DEF n
  <2>8. MasterAgrees(s, m) => MasterAgrees(t, n)
    BY <2>2, <2>7 DEF MasterAgrees, Mixer
  <2>9. MasterFieldAgrees(ev, t, n)
    BY <1>9, <2>7 DEF MasterFieldAgrees, Mixer
  <2>10. t.deck = s.deck /\ n.deck = m.deck
    BY <2>2, <2>7 DEF Mixer
  <2>11. Goal
    BY <2>8, <2>9, <2>10
  <2>12. QED
    BY <2>11 DEF n, cs, t
<1>10. QED
  BY <1>0, <1>4, <1>5, <1>6, <1>7, <1>8, <1>9 DEF MasterKinds

(* The causes for which an event may part the copies of an aspect. *)
Excused(k, x, s, ev, cs) ==
  \/ k \in {"track", "playing", "stems"} /\ IsLoad(ev) /\ ev.deck = x /\ cs = <<>>
  \/ k = "playing" /\ IsLoad(ev) /\ ev.deck = x /\ s.deck[x].playing
  \/ k \in {"tone", "handoff", "fx"} /\ ev.kind = "DeckUnload" /\ ev.deck = x

(* A part of a deck that agrees goes on agreeing, event by event. *)
LEMMA PartLands ==
  ASSUME NEW s \in EngineStateType, NEW m \in Mixer, NEW ev \in DeckEvent \cup FxEvent,
         NEW handle \in Opens(ev), NEW k \in TouchedBy(ev.kind), k \in DeckParts,
         PartAgrees(k, s.deck[ev.deck], m.deck[ev.deck]),
         ~Excused(k, ev.deck, s, ev, Commands(s, Apply(s, ev), ev, handle))
  PROVE  PartAgrees(k, Apply(s, ev).deck[ev.deck],
                    LandsOn(m, Commands(s, Apply(s, ev), ev, handle)).deck[ev.deck])
<1> DEFINE t  == Apply(s, ev)
           cs == Commands(s, t, ev, handle)
           n  == LandsOn(m, cs)
           x  == ev.deck
           e  == t.deck[x]
           g  == n.deck[x]
<1>1. CASE ev.kind \in {"DeckPlay", "DeckPause"}
  <2>1. k = "playing" /\ ev \in DeckEvent
    BY <1>1 DEF TouchedBy, SlotKinds, BankKinds, FxEvent
  <2>2. s.deck[x].playing = m.deck[x].playing
    BY <2>1 DEF PartAgrees
  <2>3. e.playing = g.playing
    BY <1>1, <2>1, <2>2, PlayLands
  <2> HIDE DEF e, g
  <2>4. PartAgrees(k, e, g)
    BY <2>1, <2>3 DEF PartAgrees
  <2>5. QED
    BY <2>4 DEF e, g
<1>2. CASE ev.kind \in {"DeckLoad", "DeckLoadStems"}
  <2>1. k \in {"track", "playing", "stems"} /\ ev \in LoadEvent \cup LoadStemsEvent
    BY <1>2 DEF TouchedBy, SlotKinds, BankKinds, DeckEvent, FxEvent, PlainDeckEvent
  <2>2. cs # <<>>
    BY <1>2, <2>1 DEF Excused, IsLoad
  <2>3. cs = LoadCmds(ev, handle)
    BY <1>2 DEF Commands
  <2>4. handle # None
    BY <2>2, <2>3 DEF LoadCmds
  <2>5. handle = ev.track
    BY <1>2, <2>4 DEF Opens, IsLoad
  <2>6. /\ PartAgrees("track", e, g) /\ PartAgrees("stems", e, g)
        /\ e.playing = FALSE /\ g.playing = m.deck[x].playing
    BY <2>1, <2>5, LoadLands
  <2>7. k = "playing" => m.deck[x].playing = FALSE
    <3>1. x \in DeckId /\ s.deck[x] \in Deck
      BY DeckStep
    <3>2. s.deck[x].playing \in BOOLEAN
      BY <3>1 DEF Deck
    <3>3. k = "playing" => s.deck[x].playing = m.deck[x].playing
      BY DEF PartAgrees
    <3>4. k = "playing" => ~s.deck[x].playing
      BY <1>2 DEF Excused, IsLoad
    <3>5. QED
      BY <3>2, <3>3, <3>4
  <2> HIDE DEF e, g
  <2>8. PartAgrees(k, e, g)
    BY <2>1, <2>6, <2>7 DEF PartAgrees
  <2>9. QED
    BY <2>8 DEF e, g
<1>3. CASE ev.kind = "DeckUnload"
  <2>1. ev \in PlainDeckEvent
    BY <1>3 DEF DeckEvent, FxEvent, LoadEvent, LoadStemsEvent
  <2>2. k \in {"track", "playing", "stems"}
    BY <1>3 DEF Excused, DeckParts
  <2>3. QED
    BY <1>3, <2>1, <2>2, UnloadLands
<1>4. CASE ev.kind = "SetStemGain"
  <2>1. k = "stems" /\ ev \in DeckEvent
    BY <1>4 DEF TouchedBy, SlotKinds, BankKinds, FxEvent
  <2>2. s.deck[x].stem_gains = m.deck[x].stem_gains
    BY <2>1 DEF PartAgrees
  <2>3. e.stem_gains = g.stem_gains
    BY <1>4, <2>1, <2>2, StemLands
  <2> HIDE DEF e, g
  <2>4. PartAgrees(k, e, g)
    BY <2>1, <2>3 DEF PartAgrees
  <2>5. QED
    BY <2>4 DEF e, g
<1>5. CASE ev.kind \in {"PitchBend", "TempoBend", "PitchTempoReset"}
  <2>1. k = "tone" /\ ev \in DeckEvent
    BY <1>5 DEF TouchedBy, SlotKinds, BankKinds, FxEvent
  <2>2. QED
    BY <1>5, <2>1, ToneLands
<1>6. CASE ev.kind = "TakeOver"
  <2>1. k = "handoff" /\ ev \in DeckEvent
    BY <1>6 DEF TouchedBy, SlotKinds, BankKinds, FxEvent
  <2>2. QED
    BY <1>6, <2>1, HandoffLands
<1>7. CASE ev.kind \in SlotKinds \cup {"EffectSwapSlots"}
  <2>1. k = "fx" /\ ev \in FxEvent
    BY <1>7 DEF TouchedBy, SlotKinds, BankKinds, DeckEvent, LoadEvent, LoadStemsEvent, PlainDeckEvent
  <2>2. QED
    BY <2>1, FxLands
<1>8. ev.kind \notin {"PhaseNudge", "DeckCue", "LoopIn", "CopilotEngage", "CopilotDisengage",
         "EqAdjust", "HotCueSet", "HotCueTrigger", "LoopOut", "LoopExit", "SetLoopBars"}
  BY DEF TouchedBy, SlotKinds, BankKinds
<1>9. QED
  BY <1>1, <1>2, <1>3, <1>4, <1>5, <1>6, <1>7, <1>8
     DEF DeckEvent, FxEvent, LoadEvent, LoadStemsEvent, PlainDeckEvent, SlotKinds

(* The commands of any event are known to the mixer, and two at most. *)
LEMMA EventCommands ==
  ASSUME NEW s \in EngineStateType, NEW ev \in EventKind, NEW handle \in Opens(ev)
  PROVE  /\ Commands(s, Apply(s, ev), ev, handle) \in Seq(AudioCommand)
         /\ Len(Commands(s, Apply(s, ev), ev, handle)) <= 2
<1>1. handle \in TrackOption
  <2>1. IsLoad(ev) => ev.track \in Tracks
    BY DEF IsLoad, EventKind, DeckEvent, FxEvent, MasterEvent, LoadEvent, LoadStemsEvent, PlainDeckEvent
  <2>2. QED
    BY <2>1 DEF Opens, TrackOption
<1>2. Apply(s, ev) \in EngineStateType
  BY ApplyType
<1>3. QED
  BY <1>1, <1>2, CommandsType

(* Nothing but the named causes parts the copies. *)
LEMMA Agreement ==
  ASSUME NEW s \in EngineStateType, NEW m \in Mixer, NEW ev \in EventKind, NEW handle \in Opens(ev),
         NEW a \in Aspects, Agrees(a, s, m),
         ~Excused(a[1], a[2], s, ev, Commands(s, Apply(s, ev), ev, handle))
  PROVE  Agrees(a, Apply(s, ev), LandsOn(m, Commands(s, Apply(s, ev), ev, handle)))
<1> DEFINE t  == Apply(s, ev)
           cs == Commands(s, t, ev, handle)
           n  == LandsOn(m, cs)
<1>1. \/ a = <<"master", "A">>
      \/ \E k \in DeckParts, x \in DeckId : a = <<k, x>>
  BY DEF Aspects, DeckParts
<1>2. cs \in Seq(AudioCommand) /\ Len(cs) <= 2
  BY EventCommands
<1>3. CASE ev \in MasterEvent
  <2>1. t.deck = s.deck /\ n.deck = m.deck /\ (MasterAgrees(s, m) => MasterAgrees(t, n))
    BY <1>3, MasterLands
  <2> HIDE DEF n, t
  <2>2. CASE a = <<"master", "A">>
    <3>1. \A u, v : Agrees(a, u, v) <=> MasterAgrees(u, v)
      BY <2>2 DEF Agrees
    <3>2. Agrees(a, t, n)
      BY <2>1, <3>1
    <3>3. QED
      BY <3>2 DEF n, cs, t
  <2>3. ASSUME NEW k \in DeckParts, NEW x \in DeckId, a = <<k, x>> PROVE Agrees(a, t, n)
    <3>1. PartAgrees(k, s.deck[x], m.deck[x])
      BY <2>3, AgreesByPart
    <3>2. QED
      BY <2>1, <2>3, <3>1, AgreesByPart
  <2>4. Agrees(a, t, n)
    BY <1>1, <2>2, <2>3 DEF n, cs, t
  <2>5. QED
    BY <2>4 DEF n, cs, t
<1>4. CASE ev \in DeckEvent \cup FxEvent
  <2> DEFINE y == ev.deck
             parts == TouchedBy(ev.kind)
  <2>1. /\ y \in DeckId /\ s.deck[y] \in Deck /\ m.deck[y] \in DeckHot
        /\ t.deck[y] = DeckAfter(s.deck[y], ev)
        /\ \A z \in DeckId \ {y} : t.deck[z] = s.deck[z]
    BY <1>4, DeckStep
  <2>2. AllFor(cs, y, parts)
    BY <1>4, CommandsAreFor
  <2>3. MixKept(m, n, y, parts)
    BY <1>2, <2>1, <2>2, CommandsKeep
  <2>4. CASE a = <<"master", "A">>
    <3>1. \A u, v : Agrees(a, u, v) <=> MasterAgrees(u, v)
      BY <2>4 DEF Agrees
    <3>2. ev.kind \notin MasterKinds
      BY <1>4 DEF DeckEvent, FxEvent, LoadEvent, LoadStemsEvent, PlainDeckEvent, MasterKinds
    <3>3. \E e : t = [s EXCEPT !.deck[y] = e]
      BY <3>2 DEF Apply
    <3> HIDE DEF t, n
    <3>4. /\ t.crossfader = s.crossfader /\ t.crossfader_curve = s.crossfader_curve
          /\ t.master_limiter_enabled = s.master_limiter_enabled /\ t.sidechain = s.sidechain
          /\ t.master_limiter_threshold_db = s.master_limiter_threshold_db
      BY <3>3 DEF EngineStateType
    <3>5. MasterAgrees(t, n)
      BY <2>3, <3>1, <3>4 DEF MasterAgrees, MixKept, MasterKept
    <3>6. Agrees(a, t, n)
      BY <3>1, <3>5
    <3>7. QED
      BY <3>6 DEF t, n
  <2>5. ASSUME NEW k \in DeckParts, NEW x \in DeckId, a = <<k, x>> PROVE Agrees(a, t, n)
    <3>1. PartAgrees(k, s.deck[x], m.deck[x])
      BY <2>5, AgreesByPart
    <3>2. CASE x # y
      <4>1. t.deck[x] = s.deck[x] /\ n.deck[x] = m.deck[x]
        BY <2>1, <2>3, <3>2 DEF MixKept
      <4> HIDE DEF t, n
      <4>2. PartAgrees(k, t.deck[x], n.deck[x])
        BY <3>1, <4>1
      <4>3. QED
        BY <2>5, <4>2, AgreesByPart
    <3>3. CASE x = y /\ k \notin parts
      <4>1. PartKept(k, s.deck[x], t.deck[x])
        BY <1>4, <2>1, <3>3, EventKeepsParts
      <4>2. HotPartKept(k, m.deck[x], n.deck[x])
        BY <2>3, <3>3 DEF MixKept
      <4> HIDE DEF t, n
      <4>3. PartAgrees(k, t.deck[x], n.deck[x])
        BY <3>1, <4>1, <4>2, KeptPartAgrees
      <4>4. QED
        BY <2>5, <4>3, AgreesByPart
    <3>4. CASE x = y /\ k \in parts
      <4>1. ~Excused(k, y, s, ev, cs)
        BY <2>5, <3>4
      <4>2. PartAgrees(k, t.deck[y], n.deck[y])
        BY <1>4, <3>1, <3>4, <4>1, PartLands
      <4> HIDE DEF t, n
      <4>3. PartAgrees(k, t.deck[x], n.deck[x])
        BY <3>4, <4>2
      <4>4. QED
        BY <2>5, <4>3, AgreesByPart
    <3>5. QED
      BY <3>2, <3>3, <3>4
  <2> HIDE DEF t, n
  <2>6. Agrees(a, t, n)
    BY <1>1, <2>4, <2>5 DEF t, n
  <2>7. QED
    BY <2>6 DEF t, n
<1>5. QED
  BY <1>3, <1>4 DEF EventKind

-----------------------------------------------------------------------------
(* The two copies of the mix *)

(* The same after a step. *)
LEMMA LandedNext == Landed' = LandsOn(mixer', ring' \o outbox')
BY DEF Landed, LandsOn, FoldLeft, MapThenFoldSet

LEMMA LandedType == TypeOK => Landed \in Mixer
<1>1. TypeOK => ring \o outbox \in Seq(AudioCommand) /\ mixer \in Mixer
  BY DEF TypeOK
<1>2. QED
  BY <1>1, LandedIsFold, LandsOnType

(* The control loop's turn appends the event's commands to what is under   *)
(* way.                                                                    *)
LEMMA ReceiveLands ==
  ASSUME TypeOK, NEW handle \in Tracks \cup {None}, Receive(handle)
  PROVE  LET ev == Head(inbox)
             cs == Commands(state, Apply(state, ev), ev, handle)
         IN /\ ev \in EventKind /\ handle \in Opens(ev) /\ logged' # logged
            /\ state' = Apply(state, ev) /\ outbox' = cs
            /\ Landed' = LandsOn(Landed, cs)
<1> DEFINE ev == Head(inbox)
           cs == Commands(state, Apply(state, ev), ev, handle)
<1>1. ev \in EventKind /\ state' = Apply(state, ev)
  BY NextEvent
<1>2. /\ handle \in Opens(ev) /\ logged' = logged + 1 /\ outbox' = cs
      /\ outbox = <<>> /\ ring' = ring /\ mixer' = mixer
  BY DEF Receive
<1>3. state \in EngineStateType /\ logged \in Nat /\ ring \in Seq(AudioCommand)
  BY DEF TypeOK
<1>4. cs \in Seq(AudioCommand) /\ Len(cs) <= 2
  BY <1>1, <1>2, <1>3, EventCommands
<1> HIDE DEF cs, ev
<1>5. LandsOn(mixer, ring \o cs) = LandsOn(LandsOn(mixer, ring), cs)
  BY <1>3, <1>4, LandsOnMore
<1>6. ring \o outbox = ring
  BY <1>2, <1>3
<1>7. Landed = LandsOn(mixer, ring)
  BY <1>6, LandedIsFold, Zenon
<1>8. Landed' = LandsOn(mixer, ring \o cs)
  BY <1>2, LandedNext, Zenon
<1>9. logged' # logged
  BY <1>2, <1>3
<1>10. Landed' = LandsOn(Landed, cs)
  BY <1>5, <1>7, <1>8, Zenon
<1>11. QED
  BY <1>1, <1>2, <1>9, <1>10 DEF cs, ev

(* Moving a command along changes nothing of what lands, unless the ring   *)
(* is full.                                                                *)
LEMMA PushLands ==
  ASSUME TypeOK, Push
  PROVE  state' = state /\ logged' = logged /\ (Landed' = Landed \/ Overflow)
<1>1. /\ outbox # <<>> /\ outbox' = Tail(outbox) /\ state' = state /\ mixer' = mixer /\ logged' = logged
      /\ ring' = IF Len(ring) < RingCapacity THEN Append(ring, Head(outbox)) ELSE ring
  BY DEF Push
<1>2. ring \in Seq(AudioCommand) /\ outbox \in Seq(AudioCommand) /\ Len(ring) <= RingCapacity
  BY DEF TypeOK
<1>3. CASE Len(ring) < RingCapacity
  <2>1. ring' \o outbox' = ring \o outbox
    <3>1. Append(ring, Head(outbox)) \o Tail(outbox) = ring \o outbox
      BY <1>1, <1>2
    <3>2. QED
      BY <1>1, <1>3, <3>1
  <2>2. Landed' = Landed
    BY <1>1, <2>1, LandedIsFold, LandedNext, Zenon
  <2>3. QED
    BY <1>1, <2>2
<1>4. CASE ~(Len(ring) < RingCapacity)
  <2>1. Len(ring) = RingCapacity
    BY <1>2, <1>4, ControlPlaneAssumption
  <2>2. QED
    BY <1>1, <2>1 DEF Overflow
<1>5. QED
  BY <1>3, <1>4

(* The callback's pop takes the first of what is under way. *)
LEMMA PopLands ==
  ASSUME TypeOK, Pop
  PROVE  state' = state /\ logged' = logged /\ Landed' = Landed
<1>1. /\ ring # <<>> /\ ring' = Tail(ring) /\ mixer' = ApplyCmd(mixer, Head(ring))
      /\ state' = state /\ logged' = logged /\ outbox' = outbox
  BY DEF Pop
<1>2. ring \in Seq(AudioCommand) /\ outbox \in Seq(AudioCommand)
  BY DEF TypeOK
<1> DEFINE s == ring \o outbox
<1>3. s \in Seq(AudioCommand) /\ s # <<>> /\ Head(s) = Head(ring) /\ Tail(s) = Tail(ring) \o outbox
  BY <1>1, <1>2
<1> HIDE DEF s
<1>4. LandsOn(mixer, s) = LandsOn(ApplyCmd(mixer, Head(s)), Tail(s))
  BY <1>3, LandsOnFirst
<1>5. Landed' = LandsOn(ApplyCmd(mixer, Head(s)), Tail(s))
  BY <1>1, <1>3, LandedNext, Zenon
<1>6. Landed = LandsOn(mixer, s)
  BY LandedIsFold, Zenon DEF s
<1>7. QED
  BY <1>1, <1>4, <1>5, <1>6, Zenon

(* A submission does not reach the mix. *)
LEMMA SubmitLands ==
  ASSUME NEW ev, Submit(ev) \/ UNCHANGED vars
  PROVE  state' = state /\ logged' = logged /\ Landed' = Landed
<1>1. /\ state' = state /\ logged' = logged
      /\ mixer' = mixer /\ ring' = ring /\ outbox' = outbox
  BY DEF Submit, vars
<1>2. QED
  BY <1>1, LandedIsFold, LandedNext, Zenon

(* The control loop's state and what the audio thread will play never part *)
(* on an aspect of the mix but for a cause the code gives: a command lost  *)
(* to a full ring (ring.rs, try_push), a load whose open failed or that    *)
(* came onto a playing deck, an unload of a deck with effects, pitch or a  *)
(* handoff (mixer.rs, apply).  So at any backlog, for any inputs and any   *)
(* ring (main.rs, control_loop; audio/translator.rs).                      *)
THEOREM CopiesCorrect == Spec => CopiesPartOnlyForCause
<1>1. ASSUME TypeOK, [Next]_vars, NEW a \in Aspects,
             Agrees(a, state, Landed), ~Agrees(a, state', Landed')
      PROVE  MayPart(a)
  <2>1. ASSUME NEW ev \in Inputs, Submit(ev) PROVE MayPart(a)
    <3>1. state' = state /\ Landed' = Landed
      BY <2>1, SubmitLands
    <3>2. QED
      BY <1>1, <3>1, Zenon
  <2>2. ASSUME NEW handle \in Tracks \cup {None}, Receive(handle) PROVE MayPart(a)
    <3> DEFINE ev == Head(inbox)
               cs == Commands(state, Apply(state, ev), ev, handle)
    <3>1. /\ ev \in EventKind /\ handle \in Opens(ev) /\ logged' # logged
          /\ state' = Apply(state, ev) /\ outbox' = cs /\ Landed' = LandsOn(Landed, cs)
      BY <1>1, <2>2, ReceiveLands
    <3>2. state \in EngineStateType /\ Landed \in Mixer
      BY <1>1, LandedType DEF TypeOK
    <3>3. ~Agrees(a, Apply(state, ev), LandsOn(Landed, cs))
      <4> HIDE DEF ev, cs
      <4>1. QED
        BY <1>1, <3>1, Zenon
    <3>4. Excused(a[1], a[2], state, ev, cs)
      BY <1>1, <3>1, <3>2, <3>3, Agreement
    <3> HIDE DEF cs
    <3>5. QED
      BY <3>1, <3>4 DEF Excused, MayPart, FailedLoad, Received, IsLoad
  <2>3. CASE Push
    <3>1. state' = state /\ (Landed' = Landed \/ Overflow)
      BY <1>1, <2>3, PushLands
    <3>2. CASE Landed' = Landed
      BY <1>1, <3>1, <3>2, Zenon
    <3>3. QED
      BY <3>1, <3>2 DEF MayPart
  <2>4. CASE Pop
    <3>1. state' = state /\ Landed' = Landed
      BY <1>1, <2>4, PopLands
    <3>2. QED
      BY <1>1, <3>1, Zenon
  <2>5. CASE UNCHANGED vars
    <3>1. state' = state /\ Landed' = Landed
      BY <2>5, SubmitLands
    <3>2. QED
      BY <1>1, <3>1, Zenon
  <2>6. QED
    BY <1>1, <2>1, <2>2, <2>3, <2>4, <2>5 DEF Next
<1>2. TypeOK /\ [Next]_vars
        => [\A a \in Aspects :
              Agrees(a, state, Landed) /\ ~Agrees(a, state', Landed') => MayPart(a)]_vars
  BY <1>1
<1>3. QED
  BY <1>2, TypeCorrect, PTL DEF Spec, CopiesPartOnlyForCause

(* The absolute events, one by one. *)
LEMMA AbsoluteParts ==
  ASSUME NEW s \in EngineStateType, NEW m \in Mixer, NEW ev \in EventKind, NEW handle \in Opens(ev)
  PROVE  LET t  == Apply(s, ev)
             cs == Commands(s, t, ev, handle)
             n  == LandsOn(m, cs)
             Agreed(k) == Agrees(<<k, ev.deck>>, t, n)
         IN /\ ev.kind = "DeckUnload" => Agreed("track") /\ Agreed("playing") /\ Agreed("stems")
            /\ IsLoad(ev) /\ cs # <<>> => Agreed("track") /\ Agreed("stems")
            /\ ev.kind = "PitchTempoReset" => Agreed("tone")
            /\ ev.kind = "TakeOver" => Agreed("handoff")
            /\ MasterFieldAgrees(ev, t, n)
            /\ ev.kind \in {"EffectAssign", "EffectClear"} /\ ev.slot \in Slots =>
                 SlotAgrees(t.deck[ev.deck].effects[ev.slot], n.deck[ev.deck].fx[ev.slot])
<1> DEFINE t  == Apply(s, ev)
           cs == Commands(s, t, ev, handle)
           n  == LandsOn(m, cs)
           x  == ev.deck
           Agreed(k) == Agrees(<<k, x>>, t, n)
           Part(k) == PartAgrees(k, t.deck[x], n.deck[x])
<1>1. ASSUME x \in DeckId, NEW k \in DeckParts, Part(k) PROVE Agreed(k)
  BY <1>1, AgreesByPart
<1>2. {"track", "playing", "stems", "tone", "handoff"} \subseteq DeckParts
  BY DEF DeckParts
<1>3. ASSUME ev.kind = "DeckUnload" PROVE Agreed("track") /\ Agreed("playing") /\ Agreed("stems")
  <2>1. ev \in PlainDeckEvent
    BY <1>3 DEF EventKind, MasterEvent, DeckEvent, FxEvent, LoadEvent, LoadStemsEvent
  <2>2. Part("track") /\ Part("playing") /\ Part("stems")
    BY <1>3, <2>1, UnloadLands
  <2>3. x \in DeckId
    BY <2>1 DEF PlainDeckEvent
  <2> HIDE DEF Part, Agreed
  <2>4. QED
    BY <1>1, <1>2, <2>2, <2>3
<1>4. ASSUME IsLoad(ev), cs # <<>> PROVE Agreed("track") /\ Agreed("stems")
  <2>1. ev \in LoadEvent \cup LoadStemsEvent
    BY <1>4 DEF IsLoad, EventKind, MasterEvent, DeckEvent, FxEvent, PlainDeckEvent
  <2>2. cs = LoadCmds(ev, handle)
    BY <1>4 DEF IsLoad, Commands
  <2>3. handle # None
    BY <1>4, <2>2 DEF LoadCmds
  <2>4. handle = ev.track
    BY <1>4, <2>3 DEF Opens
  <2>5. Part("track") /\ Part("stems")
    BY <2>1, <2>4, LoadLands
  <2>6. x \in DeckId
    BY <2>1 DEF LoadEvent, LoadStemsEvent
  <2> HIDE DEF Part, Agreed
  <2>7. QED
    BY <1>1, <1>2, <2>5, <2>6
<1>5. ASSUME ev.kind \in {"PitchTempoReset", "TakeOver"}
      PROVE  /\ ev.kind = "PitchTempoReset" => Agreed("tone")
             /\ ev.kind = "TakeOver" => Agreed("handoff")
  <2>1. ev \in DeckEvent /\ x \in DeckId
    BY <1>5 DEF EventKind, MasterEvent, DeckEvent, FxEvent, LoadEvent, LoadStemsEvent, PlainDeckEvent
  <2>2. ev.kind = "PitchTempoReset" => Part("tone")
    BY <2>1, ToneLands
  <2>3. ev.kind = "TakeOver" => Part("handoff")
    BY <2>1, HandoffLands
  <2> HIDE DEF Part, Agreed
  <2>4. QED
    BY <1>1, <1>2, <2>1, <2>2, <2>3
<1>6. MasterFieldAgrees(ev, t, n)
  <2>1. CASE ev \in MasterEvent
    BY <2>1, MasterLands
  <2>2. CASE ev \notin MasterEvent
    <3>1. ev.kind \notin {"Crossfader", "SetCrossfaderCurve", "SetMasterLimiterEnabled",
                          "SetMasterLimiterThreshold", "SetSidechainEnabled", "SetSidechainParams"}
      BY <2>2 DEF EventKind, DeckEvent, FxEvent, LoadEvent, LoadStemsEvent, PlainDeckEvent
    <3>2. QED
      BY <3>1 DEF MasterFieldAgrees
  <2>3. QED
    BY <2>1, <2>2
<1>7. ASSUME ev.kind \in {"EffectAssign", "EffectClear"}, ev.slot \in Slots
      PROVE  SlotAgrees(t.deck[x].effects[ev.slot], n.deck[x].fx[ev.slot])
  <2>1. ev \in FxEvent
    BY <1>7 DEF EventKind, MasterEvent, DeckEvent, LoadEvent, LoadStemsEvent, PlainDeckEvent
  <2>2. QED
    BY <1>7, <2>1, PassedOn
<1> HIDE DEF Agreed, n, cs, t
<1>8. QED
  BY <1>3, <1>4, <1>5, <1>6, <1>7 DEF Agreed, n, cs, t

(* Whatever was lost before, an event whose command states its whole       *)
(* aspect brings both copies back in step: no earlier overflow, failed     *)
(* load or unload can outlast it (audio/translator.rs, mixer.rs apply).    *)
THEOREM ResyncCorrect == Spec => AbsoluteEventsResync
<1> DEFINE ev == Head(inbox)
           Resynced ==
             LET aspects ==
                   CASE ev.kind = "DeckUnload" -> {"track", "playing", "stems"}
                     [] IsLoad(ev) /\ outbox' # <<>> -> {"track", "stems"}
                     [] ev.kind = "PitchTempoReset" -> {"tone"}
                     [] ev.kind = "TakeOver" -> {"handoff"}
                     [] OTHER -> {}
             IN /\ \A a \in aspects : Agrees(<<a, ev.deck>>, state', Landed')
                /\ MasterFieldAgrees(ev, state', Landed')
                /\ ev.kind \in {"EffectAssign", "EffectClear"} /\ ev.slot \in Slots =>
                     SlotAgrees(state'.deck[ev.deck].effects[ev.slot],
                                Landed'.deck[ev.deck].fx[ev.slot])
<1>1. ASSUME TypeOK, NEW handle \in Tracks \cup {None}, Receive(handle) PROVE Resynced
  <2> DEFINE cs == Commands(state, Apply(state, ev), ev, handle)
             t == state'
             n == Landed'
  <2>1. /\ ev \in EventKind /\ handle \in Opens(ev)
        /\ t = Apply(state, ev) /\ outbox' = cs /\ n = LandsOn(Landed, cs)
    BY <1>1, ReceiveLands
  <2>2. state \in EngineStateType /\ Landed \in Mixer
    BY <1>1, LandedType DEF TypeOK
  <2>3. /\ ev.kind = "DeckUnload" =>
             /\ Agrees(<<"track", ev.deck>>, t, n) /\ Agrees(<<"playing", ev.deck>>, t, n)
             /\ Agrees(<<"stems", ev.deck>>, t, n)
        /\ IsLoad(ev) /\ cs # <<>> =>
             Agrees(<<"track", ev.deck>>, t, n) /\ Agrees(<<"stems", ev.deck>>, t, n)
        /\ ev.kind = "PitchTempoReset" => Agrees(<<"tone", ev.deck>>, t, n)
        /\ ev.kind = "TakeOver" => Agrees(<<"handoff", ev.deck>>, t, n)
        /\ MasterFieldAgrees(ev, t, n)
        /\ ev.kind \in {"EffectAssign", "EffectClear"} /\ ev.slot \in Slots =>
             SlotAgrees(t.deck[ev.deck].effects[ev.slot], n.deck[ev.deck].fx[ev.slot])
    <3> HIDE DEF ev, t, n
    <3>1. LandsOn(Landed, Commands(state, Apply(state, ev), ev, handle)) = n
      BY <2>1
    <3> HIDE DEF cs
    <3>2. QED
      BY <2>1, <2>2, <3>1, AbsoluteParts, Zenon DEF cs
  <2> HIDE DEF ev, t, n, cs
  <2>4. outbox' = cs
    BY <2>1
  <2>5. QED
    BY <2>3, <2>4 DEF IsLoad, t, n
<1>2. ASSUME TypeOK, [Next]_vars, logged' # logged PROVE Resynced
  <2>1. \A e : ~Submit(e) /\ ~(UNCHANGED vars)
    BY <1>2 DEF Submit, vars
  <2>2. ~Push /\ ~Pop
    BY <1>2 DEF Push, Pop
  <2> HIDE DEF Resynced
  <2>3. QED
    BY <1>1, <1>2, <2>1, <2>2 DEF Next
<1>3. TypeOK /\ [Next]_vars => [logged' # logged => Resynced]_vars
  BY <1>2
<1>4. QED
  BY <1>3, TypeCorrect, PTL DEF Spec, AbsoluteEventsResync
=============================================================================
