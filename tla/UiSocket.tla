------------------------------ MODULE UiSocket ------------------------------
(***************************************************************************)
(* ui/src/ws/client.ts, JsonRpcWS, with the component that mounts it: one  *)
(* client object, the sockets it has made, its reconnect timers and its    *)
(* calls.  The handlers of a socket are closures over the client, so a     *)
(* socket that was given up still runs them.  Backoff times are left out:  *)
(* a timer that is armed may fire.                                         *)
(***************************************************************************)
EXTENDS Integers, Sequences, FiniteSets

CONSTANTS
  None,
  MaxSockets,   \* bound: sockets made
  MaxCalls,     \* bound: ids given out
  MaxMounts     \* bound: mounts of the component and presses of the button

UiSocketConstants ==
  None \notin Nat /\ {MaxSockets, MaxCalls, MaxMounts} \subseteq Nat

VARIABLES
  owns,            \* whether the component closes the client when it goes
  mounted, mounts,
  socket,          \* this.socket: the number of a socket, or None
  sockets,         \* every socket made: its readyState and what it was sent
  timers,          \* reconnect timers that are armed
  reconnectTimer,  \* the one the client remembers
  closedByUser,
  calls,           \* per id: the socket it was sent on, and how it stands
  slip             \* history: a socket was made while a closing one had its
                   \* onclose still to come

ui_vars == <<owns, mounted, mounts, socket, sockets, timers, reconnectTimer, closedByUser,
             calls, slip>>

Settled == {"resolved", "rejected"}
Waiting(id) == calls[id].is = "waiting"
Asked(g) == [on |-> g, is |-> "waiting"]
Refused == [on |-> None, is |-> "rejected"]
Hello == 0
Usable(g) == sockets[g].readyState \in {"connecting", "open"}
Made == DOMAIN sockets

Init ==
  /\ owns \in BOOLEAN /\ mounted = FALSE /\ mounts = 0
  /\ socket = None /\ sockets = <<>> /\ timers = {} /\ reconnectTimer = None
  /\ closedByUser = FALSE /\ calls = <<>> /\ slip = FALSE

\* Mutant: a socket that is connecting does not count.
AlreadyThere_open == socket # None /\ sockets[socket].readyState = "open"

AlreadyThere == socket # None /\ Usable(socket)

connect ==
  /\ closedByUser' = FALSE
  /\ IF AlreadyThere THEN UNCHANGED <<socket, sockets, slip>>
     ELSE /\ Len(sockets) < MaxSockets
          /\ socket' = Len(sockets) + 1
          /\ sockets' = Append(sockets, [readyState |-> "connecting", sent |-> <<>>])
          /\ slip' = (slip \/ \E g \in Made : sockets[g].readyState = "closing")

\* Mutant: whoever was waiting goes on waiting.
RejectPending_none == calls

\* Every call that has no answer is rejected, whichever socket it went out on.
RejectPending ==
  [id \in DOMAIN calls |-> IF Waiting(id) THEN [calls[id] EXCEPT !.is = "rejected"] ELSE calls[id]]

close ==
  /\ closedByUser' = TRUE
  /\ timers' = timers \ {reconnectTimer} /\ reconnectTimer' = None
  /\ IF socket = None THEN UNCHANGED sockets
     ELSE sockets' = [sockets EXCEPT ![socket].readyState = "closing"]
  /\ socket' = None
  /\ calls' = RejectPending

(* The component: mounted, gone (React may mount it twice), its button. *)

Mount ==
  /\ ~mounted /\ mounts < MaxMounts
  /\ mounted' = TRUE /\ mounts' = mounts + 1
  /\ connect
  /\ UNCHANGED <<owns, timers, reconnectTimer, calls>>

Unmount ==
  /\ mounted /\ mounted' = FALSE
  /\ IF owns THEN close
     ELSE UNCHANGED <<socket, sockets, timers, reconnectTimer, closedByUser, calls>>
  /\ UNCHANGED <<owns, mounts, slip>>

\* Mutant: the timer that is armed is left alone.
reconnectNow_keepsTimer ==
  /\ mounted /\ mounts < MaxMounts /\ mounts' = mounts + 1
  /\ connect
  /\ UNCHANGED <<owns, mounted, timers, reconnectTimer, calls>>

reconnectNow ==
  /\ mounted /\ mounts < MaxMounts /\ mounts' = mounts + 1
  /\ timers' = timers \ {reconnectTimer} /\ reconnectTimer' = None
  /\ connect
  /\ UNCHANGED <<owns, mounted, calls>>

\* The callback forgets the handle, which may be that of a later timer.
ReconnectTimer(t) ==
  /\ t \in timers
  /\ timers' = timers \ {t} /\ reconnectTimer' = None
  /\ connect
  /\ UNCHANGED <<owns, mounted, mounts, calls>>

-----------------------------------------------------------------------------
(* A call: its id is registered, then it is sent on the socket of the      *)
(* moment, or rejected when that is not open.                              *)
Sending(cs, ss) ==
  IF socket # None /\ ss[socket].readyState = "open"
  THEN /\ calls' = Append(cs, Asked(socket))
       /\ sockets' = [ss EXCEPT ![socket].sent = Append(@, Len(cs) + 1)]
  ELSE /\ calls' = Append(cs, Refused)
       /\ sockets' = ss

Call ==
  /\ Len(calls) < MaxCalls
  /\ Sending(calls, sockets)
  /\ UNCHANGED <<owns, mounted, mounts, socket, timers, reconnectTimer, closedByUser, slip>>

\* Mutant: the listeners are told before the hello is sent.
handleOpen_listenersFirst(ss) ==
  IF socket = None
  THEN calls' = calls \o <<Asked(None), Refused>> /\ sockets' = ss
  ELSE LET id == Len(calls) + 1
       IN IF ss[socket].readyState = "open"
          THEN /\ calls' = calls \o <<Asked(socket), Asked(socket)>>
               /\ sockets' = [ss EXCEPT ![socket].sent = @ \o <<id + 1, Hello>>]
          ELSE calls' = Append(calls, Asked(None)) /\ sockets' = ss

(* handleOpen, of whichever socket: hello on the socket of the moment, if  *)
(* there is one, then a listener that calls.  A send on a socket that is   *)
(* still connecting throws, one on a closing socket goes nowhere; the id   *)
(* of the hello stays registered until the next close.                     *)
handleOpen(ss) ==
  IF socket = None
  THEN calls' = calls \o <<Asked(None), Refused>> /\ sockets' = ss
  ELSE IF ss[socket].readyState = "connecting"
  THEN calls' = Append(calls, Asked(None)) /\ sockets' = ss
  ELSE LET hello == IF ss[socket].readyState = "open"
                    THEN [ss EXCEPT ![socket].sent = Append(@, Hello)] ELSE ss
       IN Sending(Append(calls, Asked(socket)), hello)

Opens(g) ==
  /\ sockets[g].readyState = "connecting" /\ Len(calls) + 2 <= MaxCalls
  /\ handleOpen([sockets EXCEPT ![g].readyState = "open"])
  /\ UNCHANGED <<owns, mounted, mounts, socket, timers, reconnectTimer, closedByUser, slip>>

\* handleMessage: the answer to a call that went out on socket g.
Answers(g, id) ==
  /\ sockets[g].readyState \in {"open", "closing"} /\ calls[id] = Asked(g)
  /\ \E how \in Settled : calls' = [calls EXCEPT ![id].is = how]
  /\ UNCHANGED <<owns, mounted, mounts, socket, sockets, timers, reconnectTimer, closedByUser, slip>>

\* The engine starts the closing handshake.
EngineCloses(g) ==
  /\ sockets[g].readyState = "open"
  /\ sockets' = [sockets EXCEPT ![g].readyState = "closing"]
  /\ UNCHANGED <<owns, mounted, mounts, socket, timers, reconnectTimer, closedByUser, calls, slip>>

(* The connection fails, drops or has been closed: handleClose, of         *)
(* whichever socket, forgets the socket of the moment.                     *)
Closed(g) ==
  /\ sockets[g].readyState # "closed"
  /\ sockets' = [sockets EXCEPT ![g].readyState = "closed"]
  /\ socket' = None
  /\ calls' = RejectPending
  /\ IF closedByUser THEN UNCHANGED <<timers, reconnectTimer>>
     ELSE timers' = timers \cup {g} /\ reconnectTimer' = g
  /\ UNCHANGED <<owns, mounted, mounts, closedByUser, slip>>

Next ==
  \/ Mount \/ Unmount \/ reconnectNow \/ Call
  \/ \E t \in timers : ReconnectTimer(t)
  \/ \E g \in Made : Opens(g) \/ EngineCloses(g) \/ Closed(g)
  \/ \E g \in Made, id \in DOMAIN calls : Answers(g, id)

(* The engine answers what reaches it, a closing handshake ends. *)
Replies == \E g \in Made, id \in DOMAIN calls : Answers(g, id)
Finishes == \E g \in Made : sockets[g].readyState = "closing" /\ Closed(g)

Spec == Init /\ [][Next]_ui_vars /\ WF_ui_vars(Replies) /\ WF_ui_vars(Finishes)

-----------------------------------------------------------------------------
(* The client keeps to one socket, whatever its timers, the button and the *)
(* engine do, unless it made a socket while an older one was still         *)
(* closing: the older one's onclose then takes the new socket away         *)
(* (client.ts, connect: "the single-socket invariant").                    *)
SecondSocketOnlyBySlip ==
  slip \/ /\ Cardinality({g \in Made : Usable(g)}) <= 1
          /\ \A g \in Made : Usable(g) => socket = g

(* A client that was closed stays closed: nothing is armed to open it      *)
(* again (client.ts, close: "Permanently close; cancels any pending        *)
(* reconnect").                                                            *)
ClosedStaysClosed ==
  closedByUser /\ ~slip => timers = {} /\ \A g \in Made : ~Usable(g)

(* Nothing is asked of the engine on a socket before the hello, whichever  *)
(* socket's handler sends it (client.ts, handleOpen).                      *)
HelloComesFirst ==
  \A g \in Made : sockets[g].sent # <<>> => sockets[g].sent[1] = Hello

(* No caller waits for ever: in the end every call has been answered, or   *)
(* rejected when any socket went down (client.ts, handleClose).            *)
EveryCallSettles == <>[](\A id \in DOMAIN calls : calls[id].on # None => ~Waiting(id))
=============================================================================
