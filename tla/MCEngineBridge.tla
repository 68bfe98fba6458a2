--------------------------- MODULE MCEngineBridge ---------------------------
EXTENDS EngineBridge

CONSTANTS c1, c2

BothWirings == [control_loop |-> {c1, c2}, submit_event_kind |-> {c1}]
LiveAlone == [control_loop |-> {c1}]

MCDescriptors == (1 :> <<"cutoff_hz">>)
MCParamNames == {"cutoff_hz"}
MCTracks == {"song"}

OnSlot(kind) == [kind |-> kind, deck |-> "A", slot |-> 0]

(* An effect, a one-beat shot on it, and the user's own switch. *)
FxKinds ==
  { OnSlot("EffectAssign") @@ [effect_id |-> 1],
    OnSlot("EffectOneShot") @@ [beats |-> 1, ts |-> 0],
    OnSlot("EffectEnable") @@ [enabled |-> TRUE] }
=============================================================================
