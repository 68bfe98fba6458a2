----------------------------- MODULE TimeStretch -----------------------------
(***************************************************************************)
(* engine/src/audio/pitch_tempo.rs and wsola.rs: the pitch and tempo knobs *)
(* of one deck.  Sound is abstracted to counts of frames: what a stretcher *)
(* holds is where its two cursors stand in its ring, and a block handed    *)
(* back to the mixer is, frame by frame, sound of this call, silence, or   *)
(* what an earlier call left in the scratch.                               *)
(***************************************************************************)
EXTENDS Integers, Sequences

CONSTANTS
  WINDOW, HOP_OUT, SEARCH, RING_LEN,   \* 1024, 512, 256 and 6656 frames
  CHUNK_FRAMES,                        \* what a resampler takes per call, 256
  SCRATCH_CAPACITY,                    \* of the second stage's output, 1088
  Blocks,                              \* lengths of the mixer's blocks, to 256
  Tempos, Pitches,                     \* what the knobs are set to
  NonFinite,
  MaxFrames                            \* bound: frames fed to a stretcher

TimeStretchConstants ==
  /\ WINDOW \in Nat \ {0} /\ HOP_OUT \in 1..WINDOW /\ SEARCH \in 0..WINDOW
  /\ RING_LEN \in Nat \ {0} /\ CHUNK_FRAMES \in Nat \ {0}
  /\ SCRATCH_CAPACITY \in Nat \ {0}
  /\ Tempos \cup Pitches \subseteq Int \cup {NonFinite}
  /\ Blocks \subseteq Nat \ {0} /\ MaxFrames \in Nat /\ NonFinite \notin Int

VARIABLES
  last_tempo_ratio, last_pitch_semitones,   \* in half-octaves of ratio
  wsola,      \* per channel: cursors w and r, hop, pending frames;
              \* history `fed`: frames it was given since it was last reset
  call,       \* the call of process at work: where it is, frames in and out
  block,      \* the last block handed to the mixer
  widest      \* history: the widest hop the knobs have asked for

vars == <<last_tempo_ratio, last_pitch_semitones, wsola, call, block, widest>>

Channels == {"left", "right"}
Min2(a, b) == IF a < b THEN a ELSE b
NonNegative(n) == IF n < 0 THEN 0 ELSE n
Repeat(n, x) == [i \in 1..n |-> x]

\* The factor of e half-octaves, the odd ones rounded; n frames times it.
Factor == [e \in -4..4 |->
  LET up == <<3, 4, 6, 8>>
  IN IF e = 0 THEN [by |-> 2, over |-> 2]
     ELSE IF e > 0 THEN [by |-> up[e], over |-> 2] ELSE [by |-> 2, over |-> up[-e]]]
Scaled(n, e) == (2 * n * Factor[e].by + Factor[e].over) \div (2 * Factor[e].over)

\* rubato's count may be one frame off the ratio when a call crosses a boundary.
Resampled(n, e) == {k \in Scaled(n, e) - 1 .. Scaled(n, e) + 1 : k >= 0}

clamp_tempo_ratio(t) == IF t = NonFinite THEN 0 ELSE IF t < -2 THEN -2 ELSE IF t > 2 THEN 2 ELSE t
clamp_pitch_semitones(st) == clamp_tempo_ratio(st)

New == [w |-> 0, r |-> 0, hop |-> HOP_OUT, pending |-> 0, fed |-> 0]

Cleared(s) == [New EXCEPT !.hop = s.hop]

Idle == [step |-> "idle", frames |-> 0, written |-> [c \in Channels |-> 0], target |-> 0]

Init ==
  /\ last_tempo_ratio = 0 /\ last_pitch_semitones = 0
  /\ wsola = [c \in Channels |-> New]
  /\ call = Idle /\ block = << >> /\ widest = HOP_OUT

-----------------------------------------------------------------------------
(* The knobs. *)

set_tempo_ratio(t) ==
  /\ call.step = "idle"
  /\ last_tempo_ratio' = clamp_tempo_ratio(t)
  /\ UNCHANGED <<last_pitch_semitones, wsola, call, block, widest>>

set_pitch_semitones(st) ==
  /\ call.step = "idle"
  /\ last_pitch_semitones' = clamp_pitch_semitones(st)
  /\ UNCHANGED <<last_tempo_ratio, wsola, call, block, widest>>

\* The hop stays: the next call that is no bypass sets it.
reset ==
  /\ call.step = "idle"
  /\ last_tempo_ratio' = 0 /\ last_pitch_semitones' = 0
  /\ wsola' = [c \in Channels |-> Cleared(wsola[c])]
  /\ UNCHANGED <<call, block, widest>>

is_bypass == last_tempo_ratio = 0 /\ last_pitch_semitones = 0
UseWsola == last_tempo_ratio # 0 /\ last_pitch_semitones # 0

\* set_ratio of tempo * 2^(-pitch): the hop is divided by it.
HopIn ==
  LET raw == Scaled(HOP_OUT, last_pitch_semitones - last_tempo_ratio)
  IN IF raw < 1 THEN 1 ELSE Min2(raw, 8 * HOP_OUT)

Retuned == [c \in Channels |-> [wsola[c] EXCEPT !.hop = HopIn]]

-----------------------------------------------------------------------------
(* apply_pitch_tempo: n frames of the cascade back into the mixer's slice. *)

\* Mutant: the whole block is copied from the scratch.
BlockOf_unpadded(n, target) ==
  Repeat(Min2(n, target), "sound") \o Repeat(target - Min2(n, target), "stale")

BlockOf(n, target) ==
  Repeat(Min2(n, target), "sound") \o Repeat(target - Min2(n, target), "silence")

Bypass(target) ==
  /\ call.step = "idle" /\ is_bypass
  /\ block' = Repeat(target, "sound")
  /\ UNCHANGED <<last_tempo_ratio, last_pitch_semitones, wsola, call, widest>>

(* One knob alone: two resamplers, each taking CHUNK_FRAMES whatever the   *)
(* mixer or the first stage had for it, the rest being zeros.              *)
TwoResamplers(target) ==
  /\ call.step = "idle" /\ ~is_bypass /\ ~UseWsola
  /\ \E mid \in Resampled(CHUNK_FRAMES, -last_pitch_semitones),
        out \in Resampled(CHUNK_FRAMES, last_pitch_semitones - last_tempo_ratio) :
       block' = BlockOf(IF mid = 0 THEN 0 ELSE Min2(out, SCRATCH_CAPACITY), target)
  /\ wsola' = Retuned
  /\ widest' = IF HopIn > widest THEN HopIn ELSE widest
  /\ UNCHANGED <<last_tempo_ratio, last_pitch_semitones, call>>

-----------------------------------------------------------------------------
(* Both knobs: the first stage's frames go to each channel's stretcher,    *)
(* left then right; a stretcher refills, drains, and emits hop by hop.     *)

compact_ring(s) == [s EXCEPT !.w = s.w - s.r, !.r = 0]

Refills(s, n) == n > 0 /\ n < RING_LEN /\ s.w + n > RING_LEN

refill_input_ring(s, n) ==
  IF n >= RING_LEN THEN [s EXCEPT !.w = RING_LEN, !.r = 0, !.fed = @ + n]
  ELSE LET c == IF Refills(s, n) THEN compact_ring(s) ELSE s
           overflow == NonNegative(c.w + n - RING_LEN)
       IN [c EXCEPT !.w = NonNegative(c.w - overflow) + n,
                    !.r = NonNegative(c.r - overflow), !.fed = @ + n]

\* `in_ring_w - in_ring_r` is below zero: the engine aborts.
Underflows(s) == s.r > s.w

(* Refill and drain of channel c, given the stretchers and the call then. *)
Enter(c, st, now) ==
  IF Refills(st[c], now.frames) /\ Underflows(st[c])
  THEN /\ wsola' = st
       /\ call' = [now EXCEPT !.step = "panicked"]
  ELSE LET s == refill_input_ring(st[c], now.frames)
           out == Min2(s.pending, SCRATCH_CAPACITY)
       IN /\ wsola' = [st EXCEPT ![c] = [s EXCEPT !.pending = @ - out]]
          /\ call' = [now EXCEPT !.step = c, !.written[c] = out]

Stretch(target) ==
  /\ call.step = "idle" /\ UseWsola
  /\ widest' = IF HopIn > widest THEN HopIn ELSE widest
  /\ \E n \in Resampled(CHUNK_FRAMES, -last_pitch_semitones) :
       /\ wsola["left"].fed + n <= MaxFrames
       /\ IF n = 0
          THEN /\ wsola' = Retuned /\ block' = BlockOf(0, target) /\ UNCHANGED call
          ELSE Enter("left", Retuned, [Idle EXCEPT !.frames = n, !.target = target]) /\ UNCHANGED block
  /\ UNCHANGED <<last_tempo_ratio, last_pitch_semitones>>

\* Mutant: a hop's worth of sound is enough to go on.
HasFrame_oneHop(s) == s.pending = 0 /\ NonNegative(s.w - s.r) >= HOP_OUT

HasFrame(s) ==
  s.pending = 0 /\ NonNegative(s.w - s.r) >= WINDOW + SEARCH

\* The stretcher after a frame: `room` of it went to the caller.  The best
\* match moves what is copied, not the cursor.
Advanced(s, room) ==
  [s EXCEPT !.pending = HOP_OUT - Min2(HOP_OUT, room), !.r = @ + s.hop]

(* One synthesis frame from the best match. *)
Synthesise(c) ==
  /\ call.step = c /\ HasFrame(wsola[c])
  /\ LET room == SCRATCH_CAPACITY - call.written[c]
         s == Advanced(wsola[c], room)
         far == s.r > RING_LEN \div 2
     IN /\ wsola' = [wsola EXCEPT ![c] = IF far /\ ~Underflows(s) THEN compact_ring(s) ELSE s]
        /\ call' = [call EXCEPT !.written[c] = @ + Min2(HOP_OUT, room),
                                !.step = IF far /\ Underflows(s) THEN "panicked" ELSE c]
  /\ UNCHANGED <<last_tempo_ratio, last_pitch_semitones, block, widest>>

LeftDone ==
  /\ call.step = "left" /\ ~HasFrame(wsola["left"])
  /\ Enter("right", wsola, call)
  /\ UNCHANGED <<last_tempo_ratio, last_pitch_semitones, block, widest>>

RightDone ==
  /\ call.step = "right" /\ ~HasFrame(wsola["right"])
  /\ block' = BlockOf(Min2(call.written["left"], call.written["right"]), call.target)
  /\ call' = Idle
  /\ UNCHANGED <<last_tempo_ratio, last_pitch_semitones, wsola, widest>>

-----------------------------------------------------------------------------
Next ==
  \/ \E t \in Tempos : set_tempo_ratio(t)
  \/ \E st \in Pitches : set_pitch_semitones(st)
  \/ reset
  \/ \E target \in Blocks : Bypass(target) \/ TwoResamplers(target) \/ Stretch(target)
  \/ \E c \in Channels : Synthesise(c)
  \/ LeftDone \/ RightDone

Spec == Init /\ [][Next]_vars

-----------------------------------------------------------------------------
(* The engine aborts in a stretcher only once the knobs have asked for a   *)
(* hop longer than the sound it waits for before it takes a frame: else    *)
(* the read cursor cannot overtake the write cursor, whatever the order of *)
(* calls, resets and knob turns, and the subtraction in compact_ring is    *)
(* safe.                                                                   *)
PanicsOnlyOverreaching == call.step = "panicked" => widest > WINDOW + SEARCH

(* wsola.rs:662, wsola_at_extreme_ratio_doesnt_panic: no setting of the    *)
(* two knobs makes it panic.                                               *)
NeverPanics == call.step # "panicked"

(* The two channels of a deck never drift apart.  A call gets the same     *)
(* number of frames from each, so that the minimum it emits leaves no      *)
(* frame of either behind, and between calls they have taken and still owe *)
(* the same number.  The comment there has the counts differ where the     *)
(* channels find different best matches; a match moves what is copied, not *)
(* how much (pitch_tempo.rs, process, the comment at 447; wsola.rs).       *)
ChannelsInStep ==
  LET count(c) == [w |-> wsola[c].w, r |-> wsola[c].r, pending |-> wsola[c].pending]
  IN /\ call.step = "idle" => count("left") = count("right")
     /\ call.step = "right" /\ ~HasFrame(wsola["right"]) =>
          call.written["left"] = call.written["right"]

(* A block the mixer gets back has the length it asked for, and after the  *)
(* sound of this call nothing but silence: never what an earlier, longer   *)
(* call left in the scratch.                                               *)
BlocksAreFresh ==
  /\ \A i \in 1..Len(block) : block[i] # "stale"
  /\ block # << >> => Len(block) \in Blocks
=============================================================================
