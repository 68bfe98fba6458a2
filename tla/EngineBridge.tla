---------------------------- MODULE EngineBridge ----------------------------
(***************************************************************************)
(* The bridge's EngineHandle (engine/src/bridge/rpc.rs) shared by the      *)
(* client connections, the one-shot sweeper (engine/src/oneshot_sweeper.rs)*)
(* and the thread at the other end of the event channel.  That thread is   *)
(* either main.rs's control_loop, which folds events into a state of its   *)
(* own, or the loop the bridge's tests wire in its place, which hands each *)
(* event to EngineHandle::submit_event_kind.                               *)
(***************************************************************************)
EXTENDS EngineState, SequencesExt

CONSTANTS
  Clients,      \* WebSocket connections
  Sweeper,      \* the sweeper thread
  Kinds,        \* what clients submit; the bridge writes a one-shot's ts
  Wirings,      \* "control_loop" and "submit_event_kind", and who submits there
  MaxEvents,    \* bound: events the clients submit
  MaxTime,      \* bound: the clock stops here, or when no one-shot is pending
  MaxBacklog    \* bound: the sweeper scans only while fewer events wait

ASSUME EngineBridgeAssumption ==
  /\ DOMAIN Wirings \subseteq {"control_loop", "submit_event_kind"}
  /\ \A w \in DOMAIN Wirings : Wirings[w] \subseteq Clients
  /\ Sweeper \notin Clients /\ None \notin Clients /\ Kinds \subseteq EventKind
  /\ MaxEvents \in Nat /\ MaxTime \in Nat /\ MaxBacklog \in Nat

Actors == Clients \cup {Sweeper}

VARIABLES
  wiring,       \* what is behind the event channel, for good
  next_id,      \* EngineInner::next_event_id
  now,          \* the wall clock, ms
  submitted,    \* events stamped for clients so far
  stamped,      \* per actor: the event it stamped and has not sent yet
  sweep_now,    \* the clock reading of the scan under way, None when there is none
  todo,         \* disengages that scan still has to send
  channel,      \* the unbounded event channel
  loop_state,   \* control_loop: its local state
  applied,      \* events folded so far, in order
  handle_state, \* EngineInner::state
  handle_log,   \* EngineInner::log, by id
  current,      \* submit_event_kind: the event whose log and notice are due
  notices       \* StateChanged notices sent, by last_event_id

vars == <<wiring, next_id, now, submitted, stamped, sweep_now, todo, channel, loop_state, applied,
          handle_state, handle_log, current, notices>>
sweep_vars == <<sweep_now, todo>>
handle_vars == <<handle_state, handle_log, current, notices>>
loop_vars == <<loop_state, applied>>

Init ==
  /\ wiring \in DOMAIN Wirings
  /\ next_id = 1 /\ now = 0 /\ submitted = 0
  /\ stamped = [a \in Actors |-> None]
  /\ sweep_now = None /\ todo = <<>> /\ channel = <<>>
  /\ loop_state = DefaultState /\ applied = <<>>
  /\ handle_state = DefaultState /\ handle_log = <<>> /\ current = None /\ notices = <<>>

At(kind, t) == IF kind.kind = "EffectOneShot" THEN [kind EXCEPT !.ts = t] ELSE kind

\* stamp_event: the id and the wall clock are taken long before the send.
Stamp(a, kind) ==
  /\ stamped[a] = None
  /\ next_id' = next_id + 1
  /\ stamped' = [stamped EXCEPT ![a] = [id |-> next_id, by |-> a, kind |-> At(kind, now)]]

\* A connection handles one frame at a time: dispatch of engine.submit_event.
Submit(c, kind) ==
  /\ c \in Wirings[wiring] /\ submitted < MaxEvents
  /\ Stamp(c, kind)
  /\ submitted' = submitted + 1
  /\ UNCHANGED <<wiring, now, sweep_vars, channel, loop_vars, handle_vars>>

\* Mutant: a send that succeeded is tried again.
Forward_twice(a) ==
  /\ stamped[a] # None
  /\ channel' = channel \o <<stamped[a], stamped[a]>>
  /\ stamped' = [stamped EXCEPT ![a] = None]
  /\ UNCHANGED <<wiring, next_id, now, submitted, sweep_vars, loop_vars, handle_vars>>

\* forward_event: try_send on a channel that is never full.
Forward(a) ==
  /\ stamped[a] # None
  /\ channel' = Append(channel, stamped[a])
  /\ stamped' = [stamped EXCEPT ![a] = None]
  /\ UNCHANGED <<wiring, next_id, now, submitted, sweep_vars, loop_vars, handle_vars>>

EverySlot == <<<<"A", 0>>, <<"A", 1>>, <<"A", 2>>, <<"B", 0>>, <<"B", 1>>, <<"B", 2>>>>
SlotAt(s, p) == s.deck[p[1]].effects[p[2]]
Pending(s, p) == SlotAt(s, p).one_shot # None
Expired(s, p, t) == Pending(s, p) /\ t >= SlotAt(s, p).one_shot.ends_at

Disengage(s, p) ==
  [kind |-> "EffectEnable", deck |-> p[1], slot |-> p[2],
   enabled |-> SlotAt(s, p).one_shot.was_enabled]

\* sweep_once reads the wall clock ...
SweepClock ==
  /\ sweep_now = None /\ todo = <<>> /\ stamped[Sweeper] = None
  /\ Len(channel) < MaxBacklog
  /\ sweep_now' = now
  /\ UNCHANGED <<wiring, next_id, now, submitted, stamped, todo, channel, loop_vars, handle_vars>>

(* The numbers of a set, smallest first. *)
InOrder(S) ==
  {scan \in [1..Cardinality(S) -> S] : \A m, n \in DOMAIN scan : m < n => scan[m] < scan[n]}

\* Mutant: the comparison is the wrong way round.
SweepSnapshot_early ==
  /\ sweep_now # None
  /\ \E scan \in InOrder({i \in DOMAIN EverySlot : /\ Pending(handle_state, EverySlot[i])
                                                  /\ ~Expired(handle_state, EverySlot[i], sweep_now)}) :
       todo' = [n \in DOMAIN scan |-> Disengage(handle_state, EverySlot[scan[n]])]
  /\ sweep_now' = None
  /\ UNCHANGED <<wiring, next_id, now, submitted, stamped, channel, loop_vars, handle_vars>>

\* ... then a snapshot of the handle's state, which it scans at leisure.
SweepSnapshot ==
  /\ sweep_now # None
  /\ \E scan \in InOrder({i \in DOMAIN EverySlot : Expired(handle_state, EverySlot[i], sweep_now)}) :
       todo' = [n \in DOMAIN scan |-> Disengage(handle_state, EverySlot[scan[n]])]
  /\ sweep_now' = None
  /\ UNCHANGED <<wiring, next_id, now, submitted, stamped, channel, loop_vars, handle_vars>>

SweepEmit ==
  /\ todo # <<>>
  /\ Stamp(Sweeper, Head(todo))
  /\ todo' = Tail(todo)
  /\ UNCHANGED <<wiring, now, submitted, sweep_now, channel, loop_vars, handle_vars>>

\* Mutant: the loop waits for a second event before it folds the first.
ControlLoop_batched ==
  /\ wiring = "control_loop" /\ Len(channel) > 1
  /\ loop_state' = Apply(loop_state, Head(channel).kind)
  /\ applied' = Append(applied, Head(channel))
  /\ channel' = Tail(channel)
  /\ UNCHANGED <<wiring, next_id, now, submitted, stamped, sweep_vars, handle_vars>>

\* control_loop: the handle it holds is only told of decode errors.
ControlLoop ==
  /\ wiring = "control_loop" /\ channel # <<>>
  /\ loop_state' = Apply(loop_state, Head(channel).kind)
  /\ applied' = Append(applied, Head(channel))
  /\ channel' = Tail(channel)
  /\ UNCHANGED <<wiring, next_id, now, submitted, stamped, sweep_vars, handle_vars>>

\* submit_event_kind stamps the event anew and folds it under the state lock,
SubmitApply ==
  /\ wiring = "submit_event_kind" /\ channel # <<>> /\ current = None
  /\ LET ev == [Head(channel) EXCEPT !.id = next_id, !.kind = At(@, now)]
     IN /\ handle_state' = Apply(handle_state, ev.kind)
        /\ current' = ev
        /\ applied' = Append(applied, ev)
  /\ next_id' = next_id + 1
  /\ channel' = Tail(channel)
  /\ UNCHANGED <<wiring, now, submitted, stamped, sweep_vars, loop_state, handle_log, notices>>

\* then logs it under the log lock,
SubmitLog ==
  /\ current # None /\ current.id \notin ToSet(handle_log)
  /\ handle_log' = Append(handle_log, current.id)
  /\ UNCHANGED <<wiring, next_id, now, submitted, stamped, sweep_vars, channel, loop_vars,
                 handle_state, current, notices>>

\* Mutant: the notice does not wait for the log.
SubmitNotify_early ==
  /\ current # None
  /\ notices' = Append(notices, current.id)
  /\ current' = None
  /\ UNCHANGED <<wiring, next_id, now, submitted, stamped, sweep_vars, channel, loop_vars,
                 handle_state, handle_log>>

\* Mutant: a notice is dropped when another event is already waiting.
SubmitNotify_coalesced ==
  /\ current # None /\ current.id \in ToSet(handle_log)
  /\ notices' = IF channel = <<>> THEN Append(notices, current.id) ELSE notices
  /\ current' = None
  /\ UNCHANGED <<wiring, next_id, now, submitted, stamped, sweep_vars, channel, loop_vars,
                 handle_state, handle_log>>

\* then tells the subscribers.
SubmitNotify ==
  /\ current # None /\ current.id \in ToSet(handle_log)
  /\ notices' = Append(notices, current.id)
  /\ current' = None
  /\ UNCHANGED <<wiring, next_id, now, submitted, stamped, sweep_vars, channel, loop_vars,
                 handle_state, handle_log>>

(* The state the audio side follows. *)
live == IF wiring = "control_loop" THEN loop_state ELSE handle_state

Tick ==
  /\ \/ now < MaxTime
     \/ \E i \in DOMAIN EverySlot : Pending(live, EverySlot[i]) /\ ~Expired(live, EverySlot[i], now)
  /\ now' = now + 500
  /\ UNCHANGED <<wiring, next_id, submitted, stamped, sweep_vars, channel, loop_vars, handle_vars>>

Next ==
  \/ \E c \in Clients, kind \in Kinds : Submit(c, kind)
  \/ \E a \in Actors : Forward(a)
  \/ SweepClock \/ SweepSnapshot \/ SweepEmit
  \/ ControlLoop
  \/ SubmitApply \/ SubmitLog \/ SubmitNotify
  \/ Tick

\* Time passes, every thread that has work gets to run, the sweeper for ever.
Fairness ==
  /\ \A a \in Actors : WF_vars(Forward(a))
  /\ WF_vars(SweepClock) /\ WF_vars(SweepSnapshot) /\ WF_vars(SweepEmit)
  /\ WF_vars(ControlLoop)
  /\ WF_vars(SubmitApply) /\ WF_vars(SubmitLog) /\ WF_vars(SubmitNotify)
  /\ WF_vars(Tick)

Spec == Init /\ [][Next]_vars /\ Fairness
-----------------------------------------------------------------------------
(* Ids are handed out once, and only ids already handed out travel. *)
TypeOK ==
  /\ next_id \in Nat \ {0} /\ now \in Nat /\ submitted \in 0..MaxEvents
  /\ loop_state \in EngineStateType /\ handle_state \in EngineStateType
  /\ \A i \in DOMAIN channel : channel[i].id < next_id /\ channel[i].kind \in EventKind
  /\ \A a \in Actors : stamped[a] # None => stamped[a].id < next_id /\ stamped[a].by = a
  /\ current # None => current.id = Last(applied).id

(* The clients share one counter and one channel, and the stamp is taken   *)
(* before the send: still no id travels twice to the control loop, and the *)
(* events of one client are folded in the order it sent them (rpc.rs       *)
(* dispatch, stamp_event and forward_event).  Where the handle folds them, *)
(* a subscriber told of an event finds it in the log when it asks, though  *)
(* state, log and notice are written under three locks                     *)
(* (submit_event_kind).                                                    *)
SourceOrderKept ==
  /\ TypeOK
  /\ wiring = "control_loop" =>
       LET path == applied \o channel
       IN \A i, j \in DOMAIN path :
            i < j => /\ path[i].id # path[j].id
                     /\ path[i].by = path[j].by => path[i].id < path[j].id
  /\ IsPrefix(notices, handle_log)

(* Every event a client was told is accepted is in the end folded into the *)
(* loop's state, and announced where the handle folds it (rpc.rs,          *)
(* forward_event and submit_event_kind; main.rs, control_loop).            *)
EveryAcceptedIsFolded ==
  /\ <>[](channel = <<>> /\ \A c \in Clients : stamped[c] = None)
  /\ wiring = "submit_event_kind" => <>[](Len(notices) = Len(applied))

(* A one-shot is switched back once its time is over: the sweeper finds it *)
(* and its disengage comes through (oneshot_sweeper.rs, module doc).       *)
OneShotsEnd ==
  \A i \in DOMAIN EverySlot : []<>(~Pending(live, EverySlot[i]))

(* Where the handle folds the events, as in the bridge's tests, the        *)
(* sweeper sees the state it has to switch back, and does.                 *)
OneShotsEndAtHandle == wiring = "submit_event_kind" => OneShotsEnd
=============================================================================
