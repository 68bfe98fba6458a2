---------------------------- MODULE AudioCallback ----------------------------
(***************************************************************************)
(* engine/src/audio/io.rs, perf.rs, clock.rs and the meters of limiter.rs, *)
(* sidechain.rs and mixer.rs: the device's callback on the audio thread,   *)
(* the atomics it leaves its clock, its render times and the two gain      *)
(* reductions in, and the bridge that reads them for every state_changed   *)
(* notice (bridge/rpc.rs).  A gain reduction is 0 or -1, a sound is over   *)
(* the threshold or not.  Counts and sums that only grow, and that only a  *)
(* gauge reads, are left out; the clock is as narrow as CounterWidth.      *)
(***************************************************************************)
EXTENDS Integers, Sequences, TLC

CONSTANTS
  Devices,          \* device lists a host may have, each name's fragments
  Fragment,         \* what HYPEHOUSE_OUTPUT_DEVICE asks for
  CallbackFrames,   \* frames a host may ask for in one callback
  MAX_MONO_FRAMES,  \* 4096
  Durations,        \* how long a callback may take
  CounterWidth,     \* 2^64
  RingCapacity,
  MaxCommands,      \* bound: commands sent
  None

CallbackConstants ==
  /\ CallbackFrames \subseteq Nat \ {0} /\ MAX_MONO_FRAMES \in Nat \ {0}
  /\ Durations \subseteq Nat \ {0} /\ CounterWidth \in Nat \ {0, 1}
  /\ RingCapacity \in Nat \ {0} /\ MaxCommands \in Nat /\ None \notin Nat

VARIABLES
  device,        \* the one chosen at start-up, and how; None if there is none
  commands, sent,  \* the command ring, and how many were pushed
  limiter,       \* enabled, and what it last told its meter
  sidechain,     \* enabled, whether the trigger's envelope is over, its meter
  frame,         \* SharedClock::frame
  callback,      \* the callback at work: frames left and where it is
  peak,          \* max_render_ns_window
  reader,        \* the bridge's snapshot under way: where it is, what it read
  owed           \* history: the longest callback since the peak was last taken

vars == <<device, commands, sent, limiter, sidechain, frame, callback, peak, reader, owed>>
audio_vars == <<limiter, sidechain, frame, callback, owed>>

Max2(a, b) == IF a > b THEN a ELSE b
Min2(a, b) == IF a < b THEN a ELSE b
Wrapped(n) == n % CounterWidth

\* The first device with the fragment in its name, else the host's default,
\* the first; without one, start-up fails.
pick_output_device(names, fragment) ==
  LET with == {i \in DOMAIN names : fragment \in names[i]}
  IN IF names = <<>> THEN None
     ELSE IF fragment = None THEN [index |-> 1, how |-> "Default"]
     ELSE IF with = {} THEN [index |-> 1, how |-> "Fallback"]
     ELSE [index |-> CHOOSE i \in with : \A j \in with : i <= j, how |-> "Matched"]

Running == device # None

Init ==
  /\ \E names \in Devices, fragment \in {None, Fragment} : device = pick_output_device(names, fragment)
  /\ commands = <<>> /\ sent = 0
  /\ limiter = [enabled |-> TRUE, gr |-> 0]
  /\ sidechain = [enabled |-> FALSE, over |-> FALSE, gr |-> 0]
  /\ frame = 0 /\ callback = [step |-> "wait", left |-> 0]
  /\ peak = 0 /\ reader = [step |-> "idle"] /\ owed = 0

-----------------------------------------------------------------------------
(* The control thread: a switch of the limiter or the sidechain. *)

Push(what, on) ==
  /\ Running /\ sent < MaxCommands /\ Len(commands) < RingCapacity
  /\ commands' = Append(commands, [what |-> what, on |-> on]) /\ sent' = sent + 1
  /\ UNCHANGED <<device, audio_vars, peak, reader>>

-----------------------------------------------------------------------------
(* The callback: chunk by chunk, every command in the ring, a render, the  *)
(* clock; then the render time.                                            *)

Enter(n) ==
  /\ Running /\ callback.step = "wait"
  /\ callback' = [step |-> "drain", left |-> n]
  /\ UNCHANGED <<device, commands, sent, limiter, sidechain, frame, peak, reader, owed>>

Last(what, now) ==
  LET ons == SelectSeq(commands, LAMBDA c : c.what = what)
  IN IF ons = <<>> THEN now ELSE ons[Len(ons)].on

Drain ==
  /\ callback.step = "drain"
  /\ limiter' = [limiter EXCEPT !.enabled = Last("limiter", @)]
  /\ sidechain' = [sidechain EXCEPT
       !.enabled = Last("sidechain", @),
       !.over = @ /\ \A i \in DOMAIN commands : commands[i].what = "sidechain" => commands[i].on]
  /\ commands' = <<>>
  /\ callback' = [callback EXCEPT !.step = "render"]
  /\ UNCHANGED <<device, sent, frame, peak, reader, owed>>

Reduction(over) == IF over THEN -1 ELSE 0

LimiterAfter(over) ==
  IF limiter.enabled THEN [limiter EXCEPT !.gr = Reduction(over)] ELSE [limiter EXCEPT !.gr = 0]

SidechainAfter(over) ==
  IF sidechain.enabled
  THEN [sidechain EXCEPT !.over = over, !.gr = Reduction(over)] ELSE [sidechain EXCEPT !.gr = 0]

Render ==
  /\ callback.step = "render"
  /\ \E loud, triggered \in BOOLEAN :
       /\ limiter' = LimiterAfter(loud)
       /\ sidechain' = SidechainAfter(triggered)
  /\ LET chunk == Min2(callback.left, MAX_MONO_FRAMES)
     IN /\ frame' = Wrapped(frame + chunk)
        /\ callback' = [left |-> callback.left - chunk,
                        step |-> IF callback.left = chunk THEN "record" ELSE "drain"]
  /\ UNCHANGED <<device, commands, sent, peak, reader, owed>>

record_render_ns ==
  /\ callback.step = "record"
  /\ \E ns \in Durations : peak' = Max2(peak, ns) /\ owed' = Max2(owed, ns)
  /\ callback' = [step |-> "wait", left |-> 0]
  /\ UNCHANGED <<device, commands, sent, limiter, sidechain, frame, reader>>

-----------------------------------------------------------------------------
(* The bridge: submit_event_kind reads the meters, then the counters one   *)
(* by one under the handle's mutex, and sends what it has read.  (The live *)
(* wiring of main.rs forwards events instead and sends no such notice.)    *)

ReadMeters ==
  /\ reader.step = "idle"
  /\ reader' = [step |-> "peak", limiter |-> limiter.gr, sidechain |-> sidechain.gr]
  /\ UNCHANGED <<device, commands, sent, audio_vars, peak>>

\* Mutant: the peak is read and cleared in two steps.
TakePeak_loadThenStore ==
  \/ /\ reader.step = "peak"
     /\ reader' = [reader EXCEPT !.step = "clear"] @@ [peak |-> peak]
     /\ owed' = 0 /\ UNCHANGED peak
  \/ /\ reader.step = "clear"
     /\ peak' = 0 /\ reader' = [step |-> "idle"] /\ UNCHANGED owed

TakePeak ==
  /\ reader.step = "peak"
  /\ peak' = 0 /\ reader' = [step |-> "idle"] /\ owed' = 0

\* The rest of the snapshot and the notice.
snapshot ==
  /\ TakePeak
  /\ UNCHANGED <<device, commands, sent, limiter, sidechain, frame, callback>>

-----------------------------------------------------------------------------
Callback ==
  \/ \E n \in CallbackFrames : Enter(n)
  \/ Drain \/ Render \/ record_render_ns

Next ==
  \/ \E what \in {"limiter", "sidechain"}, on \in BOOLEAN : Push(what, on)
  \/ Callback \/ ReadMeters \/ snapshot

(* The device keeps calling back. *)
Spec == Init /\ [][Next]_vars /\ WF_vars(Callback)

-----------------------------------------------------------------------------
(* No slow callback escapes the gauge: whatever the audio thread does      *)
(* between two steps of a snapshot, the window holds the longest callback  *)
(* since the peak was last taken, for the next notice to report            *)
(* (perf.rs, snapshot).                                                    *)
NoPeakLost == peak = owed

=============================================================================
