----------------------------- MODULE MidiClock -----------------------------
(***************************************************************************)
(* MIDI clock: the tempo follower on an input port (midi/clock_in.rs), the *)
(* tick generator on an output port (midi/clock_out.rs), and the           *)
(* SharedClock (audio/clock.rs) they meet in with the control loop.  main  *)
(* opens the input first and the output only without it.  Time and tempo   *)
(* are integers; Minute is a minute's length times the tempo's unit.       *)
(***************************************************************************)
EXTENDS BeatGrid, SequencesExt

CONSTANTS
  None,
  NonFinite,         \* NaN and the infinities
  Minute,
  TICKS_PER_BEAT, SMOOTHING_WINDOW, BPM_DEADBAND,
  MIN_PLAUSIBLE_BPM, MAX_PLAUSIBLE_BPM,
  MIN_TICK_PERIOD, MAX_TICK_PERIOD,
  SPIN_FLOOR,        \* the end of a wait that is spun and not slept
  Tempos,            \* what SetMasterBpm events carry
  MaxTime,           \* bound: time
  MaxBytes,          \* bound: bytes received
  MaxSets            \* bound: SetMasterBpm events

MidiClockConstants ==
  /\ {Minute, TICKS_PER_BEAT, SMOOTHING_WINDOW, BPM_DEADBAND, MIN_PLAUSIBLE_BPM,
      MIN_TICK_PERIOD} \subseteq Nat \ {0}
  /\ {MAX_PLAUSIBLE_BPM, MAX_TICK_PERIOD, SPIN_FLOOR, MaxTime, MaxBytes, MaxSets} \subseteq Nat
  /\ MIN_TICK_PERIOD <= MAX_TICK_PERIOD
  /\ Tempos \subseteq Int \cup {NonFinite} /\ NonFinite \notin Int /\ None \notin Int

VARIABLES
  now,
  bpm, source,       \* SharedClock
  input,             \* MidiClockIn: "none", "open" or "closed"
  follower,          \* its ClockInState
  byte,              \* the byte its callback is in the middle of
  output,            \* MidiClockOut: "none", "open", "joining" or "closed"
  worker,            \* its thread
  deadline, period,  \* the worker's next_deadline and the period behind it
  sent,              \* what went to the output port, and when
  ticks,             \* history: times of the Clock bytes since Start
  set_since,         \* history: the control loop has set bpm since the follower did
  received, sets     \* how many bytes and tempo events there were

clock_vars == <<bpm, source>>
in_vars == <<input, follower, byte, ticks, received>>
out_vars == <<output, worker, deadline, period, sent>>
vars == <<now, clock_vars, in_vars, out_vars, set_since, sets>>

Stopped(last) ==
  [running |-> FALSE, beat_anchor |-> None, ticks_in_beat |-> 0, window |-> <<>>,
   last_emitted_bpm |-> last]

\* spawn_midi_clock_in_if_enabled, then _out_: a port may be missing, not be
\* asked for, or fail to open.
Init ==
  /\ now = 0 /\ bpm = 120 /\ source = "internal"
  /\ input \in {"none", "open"}
  /\ output \in IF input = "open" THEN {"none"} ELSE {"none", "open"}
  /\ follower = Stopped(None) /\ byte = None /\ ticks = <<>>
  /\ worker = (IF output = "open" THEN "start" ELSE "done")
  /\ deadline = 0 /\ period = 0 /\ sent = <<>>
  /\ set_since = FALSE /\ received = 0 /\ sets = 0

(* SharedClock::set_master_bpm, from a SetMasterBpm event. *)
SetMasterBpm(b) ==
  /\ sets < MaxSets /\ sets' = sets + 1
  /\ bpm' = IF b # NonFinite /\ b > 0 THEN b ELSE bpm
  /\ set_since' = (set_since \/ bpm' # bpm)
  /\ UNCHANGED <<now, source, in_vars, out_vars>>

(* Past the bound time passes only for a worker that is being waited for. *)
Pass ==
  /\ now < MaxTime \/ (output = "joining" /\ now < deadline /\ now < MaxTime + MAX_TICK_PERIOD)
  /\ now' = now + 1
  /\ UNCHANGED <<clock_vars, in_vars, out_vars, set_since, sets>>
-----------------------------------------------------------------------------
bpm_from_beat_duration(d) ==
  IF d > 0 /\ Minute \div d \in MIN_PLAUSIBLE_BPM..MAX_PLAUSIBLE_BPM THEN Minute \div d ELSE None

smooth_bpm(window) == FoldLeft(+, 0, window) \div Len(window)

Distance(a, b) == IF a < b THEN b - a ELSE a - b

\* The deadband lies around what was last emitted, and around the live tempo
\* only before that.
should_emit(smoothed, last) ==
  Distance(smoothed, IF last = None THEN bpm ELSE last) >= BPM_DEADBAND

Slide(window, b) ==
  IF Len(window) = SMOOTHING_WINDOW THEN Append(Tail(window), b) ELSE Append(window, b)

\* Mutant: the beat that was just measured is not the anchor of the next.
BeatDone_drifts(f) ==
  LET b == bpm_from_beat_duration(now - f.beat_anchor)
  IN [f EXCEPT !.beat_anchor = None, !.ticks_in_beat = 0,
               !.window = IF b = None THEN @ ELSE Slide(@, b)]

(* The tick that completes a beat; an implausible beat is left out. *)
BeatDone(f) ==
  LET b == bpm_from_beat_duration(now - f.beat_anchor)
  IN [f EXCEPT !.beat_anchor = now, !.ticks_in_beat = 0,
               !.window = IF b = None THEN @ ELSE Slide(@, b)]

Measures(f) == f.running /\ f.beat_anchor # None /\ f.ticks_in_beat + 1 >= TICKS_PER_BEAT

process_byte(f, b) ==
  CASE b = "start" -> [Stopped(f.last_emitted_bpm) EXCEPT !.running = TRUE]
    [] b = "stop" -> Stopped(f.last_emitted_bpm)
    [] b = "clock" /\ f.running /\ f.beat_anchor = None -> [f EXCEPT !.beat_anchor = now, !.ticks_in_beat = 0]
    [] b = "clock" /\ Measures(f) -> BeatDone(f)
    [] b = "clock" /\ f.running /\ f.beat_anchor # None /\ ~Measures(f) ->
         [f EXCEPT !.ticks_in_beat = @ + 1]
    [] OTHER -> f

Smoothed(f, b) ==
  LET g == process_byte(f, b)
  IN IF b = "clock" /\ Measures(f) /\ bpm_from_beat_duration(now - f.beat_anchor) # None
     THEN smooth_bpm(g.window) ELSE None

\* The callback gets a byte: first the source, in an atomic of its own, ...
FlipSource(b) ==
  /\ input = "open" /\ byte = None
  /\ received < MaxBytes /\ received' = received + 1
  /\ byte' = b
  /\ source' = CASE b = "start" -> "midi_in" [] b = "stop" -> "internal" [] OTHER -> source
  /\ UNCHANGED <<now, bpm, input, follower, ticks, out_vars, set_since, sets>>

\* Mutant: the deadband moves along with tempos that were not emitted.
Follow_creeps ==
  /\ byte # None
  /\ LET s == Smoothed(follower, byte)
         f == process_byte(follower, byte)
     IN /\ IF s # None /\ should_emit(s, follower.last_emitted_bpm)
             THEN bpm' = s /\ set_since' = FALSE
             ELSE UNCHANGED <<bpm, set_since>>
        /\ follower' = IF s # None THEN [f EXCEPT !.last_emitted_bpm = s] ELSE f
  /\ ticks' = CASE byte \in {"start", "stop"} -> <<>>
                [] byte = "clock" /\ follower.running -> Append(ticks, now)
                [] OTHER -> ticks
  /\ byte' = None
  /\ UNCHANGED <<now, source, input, received, out_vars, sets>>

(* ... then the state and the tempo, under its lock. *)
Follow ==
  /\ byte # None
  /\ LET s == Smoothed(follower, byte)
         f == process_byte(follower, byte)
     IN IF s # None /\ should_emit(s, follower.last_emitted_bpm)
        THEN /\ bpm' = s /\ set_since' = FALSE
             /\ follower' = [f EXCEPT !.last_emitted_bpm = s]
        ELSE follower' = f /\ UNCHANGED <<bpm, set_since>>
  /\ ticks' = CASE byte \in {"start", "stop"} -> <<>>
                [] byte = "clock" /\ follower.running -> Append(ticks, now)
                [] OTHER -> ticks
  /\ byte' = None
  /\ UNCHANGED <<now, source, input, received, out_vars, sets>>

\* Drop closes the port and waits for the callback.
DropInput ==
  /\ input = "open" /\ byte = None
  /\ input' = "closed"
  /\ UNCHANGED <<now, clock_vars, follower, byte, ticks, received, out_vars, set_since, sets>>
-----------------------------------------------------------------------------
tick_period_for_bpm(b) == Clamp(Minute \div (b * TICKS_PER_BEAT), MIN_TICK_PERIOD, MAX_TICK_PERIOD)

Send(msg) == sent' = Append(sent, [msg |-> msg, at |-> now])
WorkerOnly == UNCHANGED <<now, clock_vars, in_vars, output, set_since, sets>>

\* Mutant: the flag is raised after the join.
Cancelled_late == output = "closed"

Cancelled == output \in {"joining", "closed"}

SendStart ==
  /\ worker = "start"
  /\ Send("start") /\ worker' = "loop" /\ deadline' = now
  /\ UNCHANGED period /\ WorkerOnly

\* Mutant: a late worker keeps its old deadline and catches up.
NextTick_catchesUp ==
  /\ worker = "loop"
  /\ IF Cancelled THEN worker' = "stop" /\ UNCHANGED <<deadline, period>>
     ELSE /\ period' = tick_period_for_bpm(bpm)
          /\ deadline' = deadline + period'
          /\ worker' = "wait"
  /\ UNCHANGED sent /\ WorkerOnly

\* A deadline that has passed already is moved to now.
NextTick ==
  /\ worker = "loop"
  /\ IF Cancelled THEN worker' = "stop" /\ UNCHANGED <<deadline, period>>
     ELSE /\ period' = tick_period_for_bpm(bpm)
          /\ deadline' = IF deadline + period' <= now THEN now ELSE deadline + period'
          /\ worker' = "wait"
  /\ UNCHANGED sent /\ WorkerOnly

\* Sleep, then spin, which a cancellation ends; then look at the flag again.
Wake ==
  /\ worker = "wait"
  /\ now >= deadline \/ (Cancelled /\ now >= deadline - SPIN_FLOOR)
  /\ worker' = IF Cancelled THEN "stop" ELSE "send"
  /\ UNCHANGED <<deadline, period, sent>> /\ WorkerOnly

SendTick ==
  /\ worker = "send"
  /\ Send("clock") /\ worker' = "loop"
  /\ UNCHANGED <<deadline, period>> /\ WorkerOnly

SendStop ==
  /\ worker = "stop"
  /\ Send("stop") /\ worker' = "done"
  /\ UNCHANGED <<deadline, period>> /\ WorkerOnly

\* Drop raises the flag, ...
DropOutput ==
  /\ output = "open"
  /\ output' = "joining"
  /\ UNCHANGED <<now, clock_vars, in_vars, worker, deadline, period, sent, set_since, sets>>

\* Mutant: the handle is dropped without waiting for the worker.
JoinWorker_detached ==
  /\ output = "joining"
  /\ Send("stop") /\ output' = "closed"
  /\ UNCHANGED <<now, clock_vars, in_vars, worker, deadline, period, set_since, sets>>

\* ... joins the worker and sends another Stop.
JoinWorker ==
  /\ output = "joining" /\ worker = "done"
  /\ Send("stop") /\ output' = "closed"
  /\ UNCHANGED <<now, clock_vars, in_vars, worker, deadline, period, set_since, sets>>

WorkerStep == SendStart \/ NextTick \/ Wake \/ SendTick \/ SendStop

Next ==
  \/ \E b \in Tempos : SetMasterBpm(b)
  \/ Pass
  \/ \E b \in {"start", "stop", "clock"} : FlipSource(b)
  \/ Follow \/ DropInput
  \/ WorkerStep \/ DropOutput \/ JoinWorker

(* Time passes, and the worker and the thread that drops its handle run. *)
Spec ==
  /\ Init /\ [][Next]_vars
  /\ WF_vars(Pass) /\ WF_vars(WorkerStep) /\ WF_vars(JoinWorker)
-----------------------------------------------------------------------------
(* The tempo stays a number the tick period can be derived from, and the   *)
(* window no longer than it may be.                                        *)
TypeOK ==
  /\ now \in Nat /\ bpm \in Nat \ {0} /\ source \in {"internal", "midi_in"}
  /\ input \in {"none", "open", "closed"} /\ output \in {"none", "open", "joining", "closed"}
  /\ byte \in {None, "start", "stop", "clock", "other"}
  /\ follower.running \in BOOLEAN /\ follower.beat_anchor \in {None} \cup 0..now
  /\ follower.ticks_in_beat \in 0..(TICKS_PER_BEAT - 1)
  /\ Len(follower.window) <= SMOOTHING_WINDOW
  /\ worker \in {"start", "loop", "wait", "send", "stop", "done"}

(* The lengths of the whole beats among the ticks since Start. *)
Beats(at) == [i \in 1..((Len(at) - 1) \div TICKS_PER_BEAT) |->
               at[i * TICKS_PER_BEAT + 1] - at[(i - 1) * TICKS_PER_BEAT + 1]]

Tempi(at) == [i \in DOMAIN Beats(at) |-> bpm_from_beat_duration(Beats(at)[i])]

\* A window holds the last plausible ones of n tempi, the k-th last k-th last.
Shows(window, tempi, n) ==
  LET Plausible == {i \in 1..n : tempi[i] # None}
      FromLast(i) == Cardinality({j \in Plausible : j >= i})
  IN /\ Len(window) = IF Cardinality(Plausible) < SMOOTHING_WINDOW
                      THEN Cardinality(Plausible) ELSE SMOOTHING_WINDOW
     /\ \A i \in Plausible : FromLast(i) <= Len(window) =>
          window[Len(window) + 1 - FromLast(i)] = tempi[i]

(* What is smoothed is exactly the last plausible beats since Start, each  *)
(* from its first tick to the first of the next, none from before a Stop   *)
(* or a second Start, and none counted twice or skipped.                   *)
WindowIsLastBeats == Shows(follower.window, Tempi(ticks), Len(Tempi(ticks)))

(* Unless somebody else set the tempo, the clock stays within the deadband *)
(* of what the last beats say.                                             *)
ClockWithinDeadband ==
  follower.window # <<>> /\ ~set_since => Distance(bpm, smooth_bpm(follower.window)) < BPM_DEADBAND

(* The output port sees Start once and first, then ticks, and after a Stop *)
(* nothing but a Stop; its handle is not gone before the last one.         *)
PortProtocol ==
  /\ \A i \in DOMAIN sent :
       /\ (sent[i].msg = "start") = (i = 1)
       /\ sent[i].msg = "stop" => \A j \in i..Len(sent) : sent[j].msg = "stop"
  /\ output = "closed" => sent # <<>> /\ sent[Len(sent)].msg = "stop" /\ worker = "done"

(* A late worker does not make up for lost ticks: of any three ticks in a  *)
(* row the last is a period after the first.                               *)
NoCatchUp ==
  [][ SendTick /\ Len(sent) >= 3 => now - sent[Len(sent) - 1].at >= period ]_vars

(* Dropping the output ends although its worker may be asleep. *)
DropEnds == output = "joining" ~> output = "closed"
=============================================================================
