------------------------------ MODULE EventLog ------------------------------
(***************************************************************************)
(* The event log of one engine process (engine/src/persistence/mod.rs), as *)
(* control_loop (engine/src/main.rs) drives it, and its replay             *)
(* (persistence/replay.rs).  A line of the file is its event; lines    *)
(* differ in length, so how many fit the buffer varies within BufferLines. *)
(* A write to the file may stop anywhere: after some whole lines, or in    *)
(* the middle of the next, which then leaves a torn line at the end.       *)
(***************************************************************************)
EXTENDS EngineState, SequencesExt

CONSTANTS
  Inputs,        \* the event kinds that arrive
  FLUSH_EVERY_N,
  BufferLines,   \* how many lines fit BufWriter's buffer: from the longest
                 \* lines to the shortest
  MaxEvents,     \* bound: events received by one process
  MaxFaults      \* bound: writes that stop before their end

ASSUME EventLogAssumption ==
  /\ Inputs \subseteq EventKind
  /\ FLUSH_EVERY_N \in Nat \ {0} /\ BufferLines \subseteq Nat \ {0} /\ BufferLines # {}
  /\ MaxEvents \in Nat /\ MaxFaults \in Nat

VARIABLES
  phase,      \* "off", "running", or how the last process ended
  writer,     \* EventLog::writer: is a file open
  file,       \* the whole lines on disk
  torn,       \* does the file end with a piece of a line
  buf,        \* BufWriter's buffer
  since,      \* since_flush
  state,      \* control_loop's state
  received,   \* history: every event of this process
  refused,    \* history: some append returned an error
  faults      \* writes that stopped early so far

log_vars == <<writer, file, torn, buf, since>>
vars == <<phase, log_vars, state, received, refused, faults>>

Init ==
  /\ phase = "off" /\ writer = FALSE
  /\ file = <<>> /\ torn = FALSE /\ buf = <<>> /\ since = 0
  /\ state = DefaultState /\ received = <<>> /\ refused = FALSE /\ faults = 0

Log == [file |-> file, torn |-> torn, buf |-> buf, since |-> since]
Store(w) == file' = w.file /\ torn' = w.torn /\ buf' = w.buf /\ since' = w.since

(* How far a write of the buffer gets: k whole lines, and perhaps a piece  *)
(* of the next.                                                            *)
Whole(w) == [k |-> Len(w.buf), cut |-> FALSE]
Broken(w) == IF faults < MaxFaults THEN [k : 0..Len(w.buf)-1, cut : BOOLEAN] ELSE {}

\* Mutant: what was written before the error is written again later.
FlushBuf_keepsWritten(w, o) ==
  [w EXCEPT !.file = @ \o SubSeq(w.buf, 1, o.k),
            !.buf  = IF o = Whole(w) THEN <<>> ELSE @,
            !.torn = o # Whole(w) /\ (o.cut \/ (o.k = 0 /\ @))]

\* BufWriter::flush_buf drops from the buffer what the file has taken, also
\* when it returns an error.
FlushBuf(w, o) ==
  [w EXCEPT !.file = @ \o SubSeq(w.buf, 1, o.k),
            !.buf  = SubSeq(@, o.k + 1, Len(@)),
            !.torn = o # Whole(w) /\ (o.cut \/ (o.k = 0 /\ @))]

\* May the buffer be full, or not, for the next line?
NoRoom(full) == \E n \in BufferLines : full <=> Len(buf) >= n

\* Mutant: the line overtakes the buffered ones when there is no room.
Buffered_overtaking(ev, full) ==
  [IF full THEN [Log EXCEPT !.file = Append(@, ev)] ELSE [Log EXCEPT !.buf = Append(@, ev)]
     EXCEPT !.since = @ + 1]

\* write_all makes room first when the line does not fit.
Buffered(ev, full) ==
  [IF full THEN FlushBuf(Log, Whole(Log)) ELSE Log
     EXCEPT !.buf = Append(@, ev), !.since = @ + 1]

\* Mutant: the counter is compared before it is advanced.
Due_late(w) == w.since > FLUSH_EVERY_N

Due(w) == w.since >= FLUSH_EVERY_N

\* EventLog::append.  The error of a write that makes room leaves the event
\* out of the log; the error of a flush that is due leaves the counter up, so
\* that the next append flushes again.
append(ev) ==
  \E full \in BOOLEAN : NoRoom(full) /\
  LET w == Buffered(ev, full)
  IN \/ full /\ \E o \in Broken(Log) : Store(FlushBuf(Log, o)) /\ refused' = TRUE
                                       /\ faults' = faults + 1
     \/ ~Due(w) /\ Store(w) /\ UNCHANGED <<refused, faults>>
     \/ /\ Due(w)
        /\ Store([FlushBuf(w, Whole(w)) EXCEPT !.since = 0]) /\ UNCHANGED <<refused, faults>>
     \/ /\ Due(w)
        /\ \E o \in Broken(w) : Store(FlushBuf(w, o)) /\ faults' = faults + 1
        /\ UNCHANGED refused

Boot(open) ==
  /\ phase # "running"
  /\ phase' = "running" /\ writer' = open
  /\ file' = <<>> /\ torn' = FALSE /\ buf' = <<>> /\ since' = 0
  /\ state' = DefaultState /\ received' = <<>> /\ refused' = FALSE /\ faults' = 0

\* control_loop: fold the event, then append it; an append error is only
\* warned about.
Receive(ev) ==
  /\ phase = "running" /\ Len(received) < MaxEvents
  /\ state' = Apply(state, ev)
  /\ received' = Append(received, ev)
  /\ IF writer THEN append(ev) ELSE UNCHANGED <<file, torn, buf, since, refused, faults>>
  /\ UNCHANGED <<phase, writer>>

(* The process ends; what BufWriter holds goes with it. *)
Ends(how) ==
  /\ phase = "running"
  /\ phase' = how
  /\ writer' = FALSE /\ buf' = <<>>
  /\ UNCHANGED <<since, state, received, refused>>

\* The process is killed, or a thread panics in a release build (panic =
\* "abort"): no destructor runs.
Crash == Ends("crash") /\ UNCHANGED <<file, torn, faults>>

\* A debug build unwinds: Drop flushes, as well as it can.
Unwind ==
  /\ writer
  /\ Ends("unwind")
  /\ \E o \in {Whole(Log)} \cup Broken(Log) :
       /\ file' = FlushBuf(Log, o).file /\ torn' = FlushBuf(Log, o).torn
       /\ faults' = IF o = Whole(Log) THEN faults ELSE faults + 1

\* SIGTERM: the bridge is shut down and main returns.  control_loop holds a
\* handle of its own, so its channel never closes and its final flush never
\* runs; the process exit takes the thread.
Shutdown == Ends("shutdown") /\ UNCHANGED <<file, torn, faults>>

Next ==
  \/ \E open \in BOOLEAN : Boot(open)
  \/ \E ev \in Inputs : Receive(ev)
  \/ Crash \/ Unwind \/ Shutdown

Spec == Init /\ [][Next]_vars
-----------------------------------------------------------------------------
(* EventReplay::collect refuses a file with a torn line; replay_state folds *)
(* the rest from the default state.                                         *)
replay_state(events) == FoldLeft(Apply, DefaultState, events)
Replay == IF torn THEN None ELSE replay_state(file)
-----------------------------------------------------------------------------
(* No more lines are buffered than the buffer has room for. *)
TypeOK ==
  /\ phase \in {"off", "running", "crash", "unwind", "shutdown"}
  /\ writer \in BOOLEAN /\ torn \in BOOLEAN /\ refused \in BOOLEAN
  /\ file \in Seq(Inputs) /\ received \in Seq(Inputs)
  /\ buf \in Seq(Inputs) /\ \E n \in BufferLines : Len(buf) <= n
  /\ since \in Nat /\ faults \in Nat
  /\ state \in EngineStateType

(* While no append was refused, the log is what control_loop folded, in    *)
(* order: the file is its beginning and the buffer the next piece.         *)
LogIsWhatWasFolded ==
  writer /\ ~refused => file \o buf = received

(* A replay of a log whose lines are all on disk gives the live state      *)
(* (replay.rs: engine state = fold over event log).                        *)
ReplayMatchesLive ==
  writer /\ ~refused /\ buf = <<>> /\ ~torn => Replay = state

(* Without write errors fewer than FLUSH_EVERY_N events are still in       *)
(* memory, so that a crash costs no more (ADR-003).                        *)
LossIsBounded ==
  writer /\ faults = 0 => Len(received) - Len(file) < FLUSH_EVERY_N

(* Once an event is on disk nothing takes it away or puts another before   *)
(* it, and events reach the disk in the order they were logged: the        *)
(* promise of DurableLog.                                                  *)
Durable == INSTANCE DurableLog
             WITH Event <- Inputs, log <- file \o buf, kept <- Len(file)
ImplementsDurableLog == Durable!Spec

=============================================================================
