----------------------------- MODULE MCClients -----------------------------
(***************************************************************************)
(* The two ends of the WebSocket, for TLC.  They share no state: a         *)
(* behaviour is one of the server, of the user interface's client or of    *)
(* the co-pilot's.                                                         *)
(***************************************************************************)
EXTENDS BothEnds

VARIABLE part

mc_vars == <<part, vars, ui_vars, copilot_vars>>

Is(p) == part = p /\ UNCHANGED part

MCInit ==
  /\ part \in {"server", "ui", "copilot"} /\ Init /\ Ui!Init /\ Co!Init
  /\ part # "ui" => owns

MCNext ==
  \/ Is("server") /\ Next /\ UNCHANGED <<ui_vars, copilot_vars>>
  \/ Is("ui") /\ Ui!Next /\ UNCHANGED <<vars, copilot_vars>>
  \/ Is("copilot") /\ Co!Next /\ UNCHANGED <<vars, ui_vars>>

\* The fairness of the three specifications, each while it is the one.
ServerFairness ==
  /\ WF_vars(part = "server" /\ Drained)
  /\ \A c \in Clients :
       /\ WF_vars(part = "server" /\ Reader(c)) /\ WF_vars(part = "server" /\ Forwarder(c))
       /\ WF_vars(part = "server" /\ WriterOver(c))
       /\ SF_vars(part = "server" /\ QueueAnswer(c)) /\ SF_vars(part = "server" /\ QueueNotice(c))
  /\ \A c \in Readers : WF_vars(part = "server" /\ Write(c))

UiFairness ==
  WF_ui_vars(part = "ui" /\ Ui!Replies) /\ WF_ui_vars(part = "ui" /\ Ui!Finishes)

CoPilotFairness ==
  /\ WF_copilot_vars(part = "copilot" /\ Co!Reads)
  /\ WF_copilot_vars(part = "copilot" /\ Co!EngineTakes)
  /\ \A p \in 1..MaxPlans :
       /\ WF_copilot_vars(part = "copilot" /\ p \in Co!Plans /\ Co!Send(p))
       /\ WF_copilot_vars(part = "copilot" /\ p \in Co!Plans /\ Co!Timeout(p))
       /\ WF_copilot_vars(part = "copilot" /\ p \in Co!Plans /\ Co!CancelLands(p))

MCSpec == MCInit /\ [][MCNext]_mc_vars /\ ServerFairness /\ UiFairness /\ CoPilotFairness

-----------------------------------------------------------------------------
(* No caller on the other side waits for ever: every call of the user      *)
(* interface settles (UiSocket) and every plan of the co-pilot ends        *)
(* (CoPilot).                                                              *)
CallersGetAnEnd ==
  (part = "ui" => Ui!EveryCallSettles) /\ (part = "copilot" => Co!EveryPlanEnds)

(* What the co-pilot says of its two seconds: a call that times out was    *)
(* not answered (CoPilot).                                                 *)
TimeoutMeansSilence == Co!TimeoutMeansSilence
=============================================================================
