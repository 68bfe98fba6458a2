----------------------------- MODULE MCSession -----------------------------
EXTENDS MCControlPlane

(* A session keeps to the controls of one panel, so that three events in a *)
(* row from each panel can all be tried.                                   *)
Panels == [transport |-> TransportInputs, fx |-> FxInputs, loop |-> LoopInputs,
           master |-> MasterInputs]
AllInputs == UNION {Panels[p] : p \in DOMAIN Panels}

VARIABLE panel

SessionInit == Init /\ panel \in DOMAIN Panels
SessionNext ==
  /\ Next
  /\ Len(inbox') > Len(inbox) => Last(inbox') \in Panels[panel]
  /\ UNCHANGED panel
SessionSpec == SessionInit /\ [][SessionNext]_<<vars, panel>> /\ Fairness
=============================================================================
