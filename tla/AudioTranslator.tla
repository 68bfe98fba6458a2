-------------------------- MODULE AudioTranslator --------------------------
(***************************************************************************)
(* engine/src/audio/translator.rs: the audio commands one event yields,    *)
(* given the state before it, the state after it and what the decode       *)
(* service answered to an open.  Every command is stamped with the current *)
(* frame and applied as soon as it is popped, so the stamp, the ramp and   *)
(* the ms -> frame conversion are left out.                                *)
(***************************************************************************)
EXTENDS EngineState

Cmd(kind, d) == [kind |-> kind, deck |-> d]

Toggle(prev, next, ev) ==
  LET was == prev.deck[ev.deck].playing
      is  == next.deck[ev.deck].playing
  IN CASE ev.kind = "DeckPlay" /\ ~was /\ is  -> <<Cmd("DeckPlay", ev.deck)>>
       [] ev.kind = "DeckPause" /\ was /\ ~is -> <<Cmd("DeckPause", ev.deck)>>
       [] OTHER -> <<>>

\* handle = None: the open failed, nothing reaches the audio thread.
LoadCmds(ev, handle) ==
  IF handle = None THEN <<>>
  ELSE IF ev.kind = "DeckLoad"
  THEN <<[kind |-> "DeckLoad", deck |-> ev.deck, handle |-> handle,
          track_gain_db |-> ev.track_gain_db]>>
  ELSE <<[kind |-> "DeckLoadStems", deck |-> ev.deck, stems |-> handle]>>

LoopCmds(next, ev) ==
  LET d == next.deck[ev.deck]
  IN IF d.loop_active /\ d.loop_in_ms # None /\ d.loop_out_ms # None
     THEN <<[kind |-> "LoopArm", deck |-> ev.deck,
             in |-> d.loop_in_ms, out |-> d.loop_out_ms]>>
     ELSE <<>>

\* ADR-005: the handoff window is armed, then later AI commands are cancelled.
TakeOverCmds(ev) ==
  << [kind |-> "ArmHandoff", deck |-> ev.deck, until_frame |-> ev.handoff_until_frame],
     Cmd("CancelAfter", ev.deck) >>

\* Mutant: the parameter ids are counted from zero.
ParamCmds_zeroBased(next, ev) ==
  LET names == IF ev.slot \in Slots
               THEN descriptors(next.deck[ev.deck].effects[ev.slot].effect_id) ELSE <<>>
      ids   == {i \in DOMAIN names : names[i] = ev.param}
  IN IF ids = {} THEN <<>>
     ELSE <<[kind |-> "EffectParam", deck |-> ev.deck, slot |-> ev.slot,
             param_id |-> (CHOOSE i \in ids : \A j \in ids : i <= j) - 1, value |-> ev.value]>>

\* The parameter is named by its position in the slot's current effect.
ParamCmds(next, ev) ==
  LET names == IF ev.slot \in Slots
               THEN descriptors(next.deck[ev.deck].effects[ev.slot].effect_id) ELSE <<>>
      ids   == {i \in DOMAIN names : names[i] = ev.param}
  IN IF ids = {} THEN <<>>
     ELSE <<[kind |-> "EffectParam", deck |-> ev.deck, slot |-> ev.slot,
             param_id |-> CHOOSE i \in ids : \A j \in ids : i <= j, value |-> ev.value]>>

SwapCmds(ev) ==
  LET a == SwapIndex(ev.slot_a)
      b == SwapIndex(ev.slot_b)
  IN IF a = b THEN <<>>
     ELSE <<[kind |-> "EffectSwap", deck |-> ev.deck, a |-> a, b |-> b]>>

LfoCmds(next, ev) ==
  LET lfo == IF ev.slot \in Slots THEN next.deck[ev.deck].effects[ev.slot].lfo ELSE None
  IN IF lfo = None THEN <<>>
     ELSE <<[kind |-> "EffectLfoSet", deck |-> ev.deck, slot |-> ev.slot, config |-> lfo]>>

EnableCmd(ev, on) == [kind |-> "EffectEnable", deck |-> ev.deck, slot |-> ev.slot, enabled |-> on]

\* Only an off -> on transition is worth a command.
OneShotCmds(prev, next, ev) ==
  LET on(s) == ev.slot \in Slots /\ s.deck[ev.deck].effects[ev.slot].enabled
  IN IF ~on(prev) /\ on(next) THEN <<EnableCmd(ev, TRUE)>> ELSE <<>>

\* A cue and a hot cue seek to the position the reducer landed on.
SeekCmds(next, ev) ==
  <<[kind |-> "DeckSeek", deck |-> ev.deck, ms |-> next.deck[ev.deck].position_ms]>>

StemGainCmds(ev) == IF ev.stem \in Stems THEN <<ev>> ELSE <<>>

\* A slot's assignment is passed on as it is: the ids are already numbers.
SlotCmds(ev) == <<ev>>

\* The limiter is told what the reducer made of the request.
LimiterCmds(next, ev) ==
  IF ev.kind = "SetMasterLimiterEnabled"
  THEN <<[kind |-> ev.kind, enabled |-> next.master_limiter_enabled]>>
  ELSE <<[kind |-> ev.kind, threshold_db |-> next.master_limiter_threshold_db]>>

\* Any change of the sidechain sends the whole of it.
SidechainCmds(next) == <<[kind |-> "SetSidechain", sidechain |-> next.sidechain]>>

Commands(prev, next, ev, handle) ==
  CASE ev.kind \in {"DeckPlay", "DeckPause"} -> Toggle(prev, next, ev)
    [] ev.kind \in {"DeckCue", "HotCueTrigger"} -> SeekCmds(next, ev)
    [] ev.kind = "Crossfader" -> <<[kind |-> "Crossfader", target |-> next.crossfader]>>
    [] ev.kind = "SetCrossfaderCurve" ->
         <<[kind |-> "SetCrossfaderCurve", curve |-> next.crossfader_curve]>>
    [] ev.kind = "EqAdjust" ->
         <<[kind |-> "Eq", deck |-> ev.deck, target_db |-> next.deck[ev.deck].eq[ev.band]]>>
    [] ev.kind = "PitchBend" ->
         <<[kind |-> "Pitch", deck |-> ev.deck, semitones |-> next.deck[ev.deck].pitch_semitones]>>
    [] ev.kind = "TempoBend" ->
         <<[kind |-> "Tempo", deck |-> ev.deck, ratio |-> next.deck[ev.deck].tempo_ratio]>>
    [] ev.kind \in {"PitchTempoReset", "DeckUnload"} -> <<Cmd(ev.kind, ev.deck)>>
    [] ev.kind \in {"LoopOut", "SetLoopBars"} -> LoopCmds(next, ev)
    [] ev.kind = "LoopExit" -> <<Cmd("LoopDisarm", ev.deck)>>
    [] ev.kind \in {"DeckLoad", "DeckLoadStems"} -> LoadCmds(ev, handle)
    [] ev.kind = "SetStemGain" -> StemGainCmds(ev)
    [] ev.kind = "TakeOver" -> TakeOverCmds(ev)
    [] ev.kind \in {"EffectAssign", "EffectClear", "EffectWetDry", "EffectLfoClear"} -> SlotCmds(ev)
    [] ev.kind = "EffectEnable" -> <<EnableCmd(ev, ev.enabled)>>
    [] ev.kind = "EffectParam" -> ParamCmds(next, ev)
    [] ev.kind = "EffectSwapSlots" -> SwapCmds(ev)
    [] ev.kind = "EffectLfoSet" -> LfoCmds(next, ev)
    [] ev.kind = "EffectOneShot" -> OneShotCmds(prev, next, ev)
    [] ev.kind \in {"SetMasterLimiterEnabled", "SetMasterLimiterThreshold"} -> LimiterCmds(next, ev)
    [] ev.kind \in {"SetSidechainEnabled", "SetSidechainParams"} -> SidechainCmds(next)
    [] OTHER -> <<>>
=============================================================================
