------------------------------- MODULE CoPilot -------------------------------
(***************************************************************************)
(* copilot/engine_client.py, auto_mix.py and service.py, run_with_proposer:*)
(* the co-pilot as a client of the engine.  One task connects and reads;   *)
(* while it handles a notice it may submit the proposer's plan itself, or  *)
(* launch a task that submits auto-mix's.  Between two awaits nothing else *)
(* of this program runs, and as nobody subscribes to auto-mix's changes    *)
(* its notifications do not suspend: a tick is one step.  What is in a     *)
(* plan is left out, how many events it has is kept; times are left out    *)
(* but for their order: the engine answers at once unless it is wedged,    *)
(* deadlines pass in the order the calls were sent.                        *)
(***************************************************************************)
EXTENDS Integers, SequencesExt, FiniteSets

CONSTANTS
  Decks,        \* decks auto-mix may be on for, each the source of its mixes
  Tracks,       \* what a deck may have loaded
  PlanLength,   \* events of a plan: load, engage, ..., play, fade
  None,
  MaxPlans,     \* bound: plans launched or submitted
  MaxNotices,   \* bound: state_changed notices
  MaxTurns,     \* bound: connections lost, times the engine wedges or wakes
  MaxToggles    \* bound: set_auto_mix calls

CoPilotConstants ==
  /\ IsFiniteSet(Decks) /\ PlanLength \in Nat \ {0} /\ {MaxPlans, MaxNotices, MaxTurns, MaxToggles} \subseteq Nat
  /\ None \notin Decks /\ None \notin Tracks /\ None \notin Nat /\ "proposer" \notin Decks

VARIABLES
  run,       \* the reading task: connect, hello, read, handler, backoff, dead
  link,      \* the connection as it is: none, open, lost
  wedged,    \* the engine does not answer for now
  to_engine, inbox,
  pending,   \* calls that wait for an answer, in the order they were sent
  plan,      \* per plan: who submits it, its next event, where it is, and
             \* (history) the track it is to replace
  auto,      \* per deck: enabled, status, last_track_id, in_flight_task
  taken,     \* history: the events the engine has taken, plan and number
  crossed,   \* history, per deck: its source was reloaded while a mix ran
  stacked,   \* history, per deck: a mix began before the last task was gone
  notices, turns, toggles

copilot_vars ==
  <<run, link, wedged, to_engine, inbox, pending, plan, auto, taken, crossed,
    stacked, notices, turns, toggles>>
bounds == <<notices, turns, toggles>>
ways == <<run, link, wedged, turns>>

Plans == DOMAIN plan
Ended == {"done", "failed"}
Tasks(d) == {p \in Plans : plan[p].by = d /\ plan[p].step \notin Ended}
Mixes(d) == {p \in Tasks(d) : plan[p].step # "cancelled"}
Connected == run \in {"read", "handler"}

\* The state a notice carries of a deck: its track, and whether a mix is due.
States == [Decks -> [loaded : Tracks, due : BOOLEAN]]
Notice(s) == [type |-> "state", state |-> s]

Fresh == [enabled |-> FALSE, status |-> "idle", track |-> None, task |-> None]

Init ==
  /\ run = "connect" /\ link = "none" /\ wedged = FALSE
  /\ to_engine = <<>> /\ inbox = <<>> /\ pending = <<>>
  /\ plan = <<>> /\ auto = [d \in Decks |-> Fresh]
  /\ taken = <<>> /\ crossed = [d \in Decks |-> FALSE] /\ stacked = [d \in Decks |-> FALSE]
  /\ notices = 0 /\ turns = 0 /\ toggles = 0

-----------------------------------------------------------------------------
(* The connection, EngineClient.run. *)

Connects ==
  /\ run = "connect"
  /\ \/ run' = "hello" /\ link' = "open" /\ to_engine' = <<>> /\ inbox' = <<>>
     \/ run' = "backoff" /\ UNCHANGED <<link, to_engine, inbox>>
  /\ UNCHANGED <<wedged, turns, pending, plan, auto, taken, crossed, stacked,
                 notices, toggles>>

\* _handshake: the first frame settles it.  One that is not the answer, a
\* refusal and a timeout are AuthError, which ends run.
Handshake ==
  /\ run = "hello"
  /\ \/ link = "open" /\ ~wedged /\ inbox = <<>> /\ run' \in {"read", "dead"}
     \/ inbox # <<>> /\ run' = "dead"
     \/ wedged /\ inbox = <<>> /\ link = "open" /\ run' = "dead"
     \/ link = "lost" /\ inbox = <<>> /\ run' = "backoff"
  /\ UNCHANGED <<link, wedged, turns, to_engine, inbox, pending, plan, auto,
                 taken, crossed, stacked, notices, toggles>>

\* _reader_loop sees the close; calls that wait are left to their timeouts.
SeesClose ==
  /\ run = "read" /\ link = "lost" /\ inbox = <<>>
  /\ run' = "backoff" /\ link' = "none"
  /\ UNCHANGED <<wedged, turns, to_engine, inbox, pending, plan, auto, taken,
                 crossed, stacked, notices, toggles>>

Backoff ==
  /\ run = "backoff" /\ run' = "connect"
  /\ UNCHANGED <<link, wedged, turns, to_engine, inbox, pending, plan, auto,
                 taken, crossed, stacked, notices, toggles>>

-----------------------------------------------------------------------------
(* A frame is read.  An answer wakes the call that waits for it, if it     *)
(* still does; a plan waits for one call at a time.                        *)
Without(p) ==
  LET at == {i \in DOMAIN pending : pending[i].plan = p}
  IN IF at = {} THEN pending ELSE RemoveAt(pending, CHOOSE i \in at : TRUE)

\* What becomes of a deck's entry when its task is over.
TaskOver(a, p, status) ==
  IF plan[p].by = "proposer" THEN a
  ELSE [a EXCEPT ![plan[p].by].task = None, ![plan[p].by].status = status]

\* The reader goes on once the plan it submits itself is over.
ReaderAfter(p, over) == IF plan[p].by = "proposer" /\ over THEN "read" ELSE run

\* Mutant: a plan goes on although an event was not accepted.
Fails_goesOn(p) ==
  /\ plan' = [plan EXCEPT ![p].next = @ + 1,
                          ![p].step = IF plan[p].next = PlanLength THEN "failed" ELSE "send"]
  /\ pending' = Without(p)
  /\ UNCHANGED auto
  /\ run' = ReaderAfter(p, plan[p].next = PlanLength)

Fails(p) ==
  /\ plan' = [plan EXCEPT ![p].step = "failed"]
  /\ pending' = Without(p)
  /\ auto' = TaskOver(auto, p, "idle")
  /\ run' = ReaderAfter(p, TRUE)

Succeeds(p) ==
  LET last == plan[p].next = PlanLength
  IN /\ plan' = [plan EXCEPT ![p].next = @ + 1, ![p].step = IF last THEN "done" ELSE "send"]
     /\ pending' = Without(p)
     /\ auto' = IF last THEN TaskOver(auto, p, "done") ELSE auto
     /\ run' = ReaderAfter(p, last)

\* _handle_response: the engine's result or its error.
ReadAnswer ==
  /\ run = "read" /\ inbox # <<>> /\ Head(inbox).type = "answer"
  /\ inbox' = Tail(inbox)
  /\ LET p == Head(inbox).plan
     IN IF [plan |-> p, n |-> Head(inbox).n] \in ToSet(pending) /\ plan[p].step = "wait"
        THEN Succeeds(p) \/ Fails(p)
        ELSE UNCHANGED <<plan, pending, auto, run>>
  /\ UNCHANGED <<link, wedged, to_engine, taken, crossed, stacked, bounds>>

(* A state_changed notice, on_state: auto_mix.tick, then the proposer.  A  *)
(* deck whose mix is under way or done is only looked at for a new track;  *)
(* a deck that is idle and due gets the next plan, from the queue or from  *)
(* the proposer, which says the same thing only once per notice.           *)

Engaged(d) == auto[d].status \in {"transitioning", "done"}

Launches(d, s) == ~Engaged(d) /\ auto[d].status = "idle" /\ auto[d].enabled /\ s[d].due

\* Mutant: a deck is taken for reloaded on every notice.
Reloaded_always(d, s) == Engaged(d)

Reloaded(d, s) == Engaged(d) /\ s[d].loaded # auto[d].track

New(by, s) ==
  IF by = "proposer" THEN [by |-> by, next |-> 1, step |-> "send", from |-> None]
  ELSE [by |-> by, next |-> 1, step |-> "start", from |-> s[by].loaded]

Tick(s, started) ==
  /\ auto' = [d \in Decks |->
       IF Reloaded(d, s) THEN [auto[d] EXCEPT !.status = "idle", !.track = None]
       ELSE IF d \in DOMAIN started
       THEN [auto[d] EXCEPT !.status = "armed", !.track = s[d].loaded, !.task = started[d]]
       ELSE auto[d]]
  /\ crossed' = [d \in Decks |-> crossed[d] \/ \E p \in Mixes(d) : plan[p].from # s[d].loaded]
  /\ stacked' = [d \in Decks |-> stacked[d] \/ (d \in DOMAIN started /\ Tasks(d) # {})]

ReadNotice ==
  /\ run = "read" /\ inbox # <<>> /\ Head(inbox).type = "state"
  /\ inbox' = Tail(inbox)
  /\ LET s == Head(inbox).state
     IN \E queued, proposes \in BOOLEAN :
          \E ds \in SUBSET {d \in Decks : Launches(d, s)} :
            /\ ~queued => Cardinality(ds) <= 1
            /\ (proposes /\ ~queued) => ds = {}
            /\ LET by == SetToSeq(ds) \o IF proposes THEN <<"proposer">> ELSE <<>>
               IN /\ Len(plan) + Len(by) <= MaxPlans
                  /\ plan' = plan \o [i \in DOMAIN by |-> New(by[i], s)]
                  /\ Tick(s, [d \in ds |-> Len(plan) + CHOOSE i \in DOMAIN by : by[i] = d])
            /\ run' = IF proposes THEN "handler" ELSE "read"
  /\ UNCHANGED <<link, wedged, to_engine, pending, taken, bounds>>

-----------------------------------------------------------------------------
(* EngineClient.call, by whoever submits plan p.                           *)

Waits(p) ==
  /\ plan' = [plan EXCEPT ![p].step = "wait"]
  /\ pending' = Append(pending, [plan |-> p, n |-> plan[p].next])
  /\ auto' = IF plan[p].by = "proposer" THEN auto
             ELSE [auto EXCEPT ![plan[p].by].status = "transitioning"]
  /\ UNCHANGED run

\* Without a connection it raises, on a lost one it may.
Send(p) ==
  /\ plan[p].step \in {"start", "send"}
  /\ \/ Connected /\ link = "open"
        /\ to_engine' = Append(to_engine, [plan |-> p, n |-> plan[p].next])
        /\ Waits(p)
     \/ Connected /\ link = "lost" /\ Waits(p) /\ UNCHANGED to_engine
     \/ ~(Connected /\ link = "open") /\ Fails(p) /\ UNCHANGED to_engine
  /\ UNCHANGED <<link, wedged, inbox, taken, crossed, stacked, bounds>>

AnswerTo(c) == [type |-> "answer", plan |-> c.plan, n |-> c.n]
AnswerWaits(c) == AnswerTo(c) \in ToSet(inbox)

\* The answer is on its way to a reader that reads.
Served(c) ==
  /\ run = "read"
  /\ AnswerWaits(c) \/ (c \in ToSet(to_engine) /\ link = "open" /\ ~wedged)

\* Mutant: a call waits for as long as it takes.
Timeout_never(p) == FALSE /\ UNCHANGED copilot_vars

\* The deadline of the oldest call, or aclose once run is over.
Timeout(p) ==
  /\ pending # <<>> /\ Head(pending).plan = p /\ plan[p].step = "wait" /\ ~Served(Head(pending))
  /\ Fails(p)
  /\ UNCHANGED <<link, wedged, to_engine, inbox, taken, crossed, stacked, bounds>>

\* set_auto_mix, from the HTTP server: off cancels the task it knows of.
SetAutoMix(d, on) ==
  /\ toggles < MaxToggles /\ toggles' = toggles + 1
  /\ LET a == auto[d]
         stops == ~on /\ a.task # None
     IN /\ auto' = [auto EXCEPT ![d] =
              IF stops THEN [a EXCEPT !.enabled = FALSE, !.status = "idle", !.task = None]
              ELSE [a EXCEPT !.enabled = on]]
        /\ plan' = IF stops /\ plan[a.task].step \notin Ended
                   THEN [plan EXCEPT ![a.task].step = IF @ = "start" THEN "failed" ELSE "cancelled"]
                   ELSE plan
  /\ UNCHANGED <<ways, run, to_engine, inbox, pending, taken, crossed, stacked, notices>>

\* The cancelled task gets to run: it forgets the deck's task, whichever it is.
CancelLands(p) ==
  /\ plan[p].step = "cancelled"
  /\ plan' = [plan EXCEPT ![p].step = "failed"]
  /\ pending' = Without(p)
  /\ auto' = [auto EXCEPT ![plan[p].by].task = None]
  /\ UNCHANGED <<ways, run, to_engine, inbox, taken, crossed, stacked, notices, toggles>>

-----------------------------------------------------------------------------
(* The engine and the connection. *)

EngineTakes ==
  /\ link = "open" /\ ~wedged /\ to_engine # <<>>
  /\ taken' = Append(taken, Head(to_engine))
  /\ inbox' = Append(inbox, AnswerTo(Head(to_engine)))
  /\ to_engine' = Tail(to_engine)
  /\ UNCHANGED <<ways, run, pending, plan, auto, crossed, stacked, notices, toggles>>

\* An engine that wants no token tells of states before the hello is answered.
EngineTells(s) ==
  /\ link = "open" /\ ~wedged /\ run \in {"hello", "read", "handler"} /\ notices < MaxNotices
  /\ inbox' = Append(inbox, Notice(s)) /\ notices' = notices + 1
  /\ UNCHANGED <<ways, run, to_engine, pending, plan, auto, taken, crossed, stacked, toggles>>

LinkLost ==
  /\ link = "open" /\ turns < MaxTurns /\ turns' = turns + 1
  /\ link' = "lost" /\ to_engine' = <<>>
  /\ \E k \in 0..Len(inbox) : inbox' = SubSeq(inbox, 1, k)
  /\ UNCHANGED <<run, wedged, pending, plan, auto, taken, crossed, stacked, notices, toggles>>

Wedges ==
  /\ turns < MaxTurns /\ turns' = turns + 1 /\ wedged' = ~wedged
  /\ UNCHANGED <<run, link, to_engine, inbox, pending, plan, auto, taken, crossed,
                 stacked, notices, toggles>>

Reads == ReadAnswer \/ ReadNotice

Next ==
  \/ Connects \/ Handshake \/ SeesClose \/ Backoff \/ ReadAnswer \/ ReadNotice
  \/ \E p \in Plans : Send(p) \/ Timeout(p) \/ CancelLands(p)
  \/ \E d \in Decks, on \in BOOLEAN : SetAutoMix(d, on)
  \/ EngineTakes \/ (\E s \in States : EngineTells(s)) \/ LinkLost \/ Wedges

(* The event loop gets round to every task, deadlines pass. *)
Fairness ==
  /\ WF_copilot_vars(Reads) /\ WF_copilot_vars(EngineTakes)
  /\ \A p \in 1..MaxPlans :
       /\ WF_copilot_vars(p \in Plans /\ Send(p)) /\ WF_copilot_vars(p \in Plans /\ Timeout(p))
       /\ WF_copilot_vars(p \in Plans /\ CancelLands(p))

Spec == Init /\ [][Next]_copilot_vars /\ Fairness

-----------------------------------------------------------------------------
(* The engine takes the events of a plan in order, from the first on, none *)
(* twice and none left out, whatever is lost, late or cancelled: a load    *)
(* that failed is not followed by the play and the fade (service.py,       *)
(* run_with_proposer; auto_mix.py, _execute).                              *)
PlansArriveWithoutGaps ==
  \A j \in DOMAIN taken :
    /\ \A i \in 1..j - 1 : taken[i].plan = taken[j].plan => taken[i].n < taken[j].n
    /\ taken[j].n # 1 =>
         \E i \in 1..j - 1 : taken[i] = [plan |-> taken[j].plan, n |-> taken[j].n - 1]

(* One mix at a time for a deck, and none goes on after auto-mix was       *)
(* switched off; both fail only in the ways the code leaves open, when the *)
(* source is reloaded in the middle of a mix, or a mix begins before the   *)
(* cancelled one has run (auto_mix.py, tick and set_auto_mix).             *)
OnlyOverlapsEscape ==
  \A d \in Decks :
    /\ Cardinality(Mixes(d)) > 1 => crossed[d]
    /\ Mixes(d) # {} /\ ~auto[d].enabled => stacked[d]

(* Whatever becomes of the engine and the connection, every plan that was  *)
(* begun is carried out or given up in the end, and the reader reads on    *)
(* (engine_client.py, call).                                               *)
EveryPlanEnds == <>[](run # "handler" /\ \A p \in Plans : plan[p].step \in Ended)

(* engine_client.py: "Engine RPCs are local and return in single-digit ms  *)
(* under normal load; 2s is a generous ceiling that still fails-fast on a  *)
(* wedged engine": a call that times out was not answered.                 *)
TimeoutMeansSilence ==
  [][\A p \in Plans : Timeout(p) => ~AnswerWaits(Head(pending))]_copilot_vars
=============================================================================
