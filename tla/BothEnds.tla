------------------------------ MODULE BothEnds ------------------------------
(***************************************************************************)
(* The WebSocket between the engine and those who use it, seen from both   *)
(* ends: the engine's server (WsServer), the client of the user interface  *)
(* (UiSocket) and the co-pilot's (CoPilot).  The three share no state.     *)
(***************************************************************************)
EXTENDS WsServer

CONSTANTS
  None,
  Decks, Tracks, PlanLength,
  MaxSockets, MaxCalls, MaxMounts,            \* bounds of the user interface
  MaxPlans, MaxStates, MaxTurns, MaxToggles   \* bounds of the co-pilot

VARIABLES
  owns, mounted, mounts, socket, sockets, timers, reconnectTimer, closedByUser, calls, slip,
  run, link, wedged, to_engine, from_engine, pending, plan, auto, taken, crossed, stacked,
  notices, turns, toggles

ui_vars == <<owns, mounted, mounts, socket, sockets, timers, reconnectTimer, closedByUser,
             calls, slip>>
copilot_vars ==
  <<run, link, wedged, to_engine, from_engine, pending, plan, auto, taken, crossed, stacked,
    notices, turns, toggles>>

Ui == INSTANCE UiSocket
Co == INSTANCE CoPilot WITH inbox <- from_engine, MaxNotices <- MaxStates

ASSUME BothEndsAssumption == Ui!UiSocketConstants /\ Co!CoPilotConstants

-----------------------------------------------------------------------------
(* The client of the user interface keeps to one socket and to being       *)
(* closed, but for a socket made while another was closing, and says hello *)
(* before anything else (UiSocket).                                        *)
SocketHolds == Ui!SecondSocketOnlyBySlip /\ Ui!ClosedStaysClosed /\ Ui!HelloComesFirst

(* A plan reaches the engine in order and without gaps, and two mixes of a *)
(* deck run, or one after auto-mix was switched off, only where the code   *)
(* leaves it open (CoPilot).                                               *)
PlansHold == Co!PlansArriveWithoutGaps /\ Co!OnlyOverlapsEscape
=============================================================================
