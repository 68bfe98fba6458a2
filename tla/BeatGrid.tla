------------------------------ MODULE BeatGrid ------------------------------
(***************************************************************************)
(* The pure arithmetic behind the bar-aware auto-loop of the engine's      *)
(* reducer (engine/src/state.rs).  Times are integer milliseconds, as in   *)
(* the code.  A beat lasts MinuteMs / bpm milliseconds; the code holds it  *)
(* as a float, here it stays the exact fraction, so every ceiling and      *)
(* rounding below is the exact one the code approximates.                  *)
(***************************************************************************)
EXTENDS Integers, Sequences

MinuteMs == 60000
BeatsPerBar == 4

Clamp(x, lo, hi) == IF x < lo THEN lo ELSE IF x > hi THEN hi ELSE x

CeilDiv(a, b)  == (a + b - 1) \div b
RoundDiv(a, b) == (2 * a + b) \div (2 * b)

LOOP_BAR_PRESETS == <<1, 2, 4, 8, 16>>

\* Walk the presets pairwise and keep the nearer bound, the lower on a tie.
clamp_loop_bars(bars) ==
  IF bars <= 1 THEN 1
  ELSE IF bars >= 16 THEN 16
  ELSE LET w == CHOOSE i \in 1..4 : /\ LOOP_BAR_PRESETS[i] <= bars
                                    /\ bars <= LOOP_BAR_PRESETS[i + 1]
           lo == LOOP_BAR_PRESETS[w]
           hi == LOOP_BAR_PRESETS[w + 1]
       IN IF bars - lo <= hi - bars THEN lo ELSE hi

\* Mutant: the bar before the playhead instead of the one ahead.
GridDownbeat_floor(pos, anchor, bpm) ==
  IF pos <= anchor THEN anchor
  ELSE LET bar == BeatsPerBar * MinuteMs
           n   == ((pos - anchor) * bpm) \div bar
       IN RoundDiv(anchor * bpm + n * bar, bpm)

\* The grid's own downbeat: bars counted from the anchor, so it needs bpm > 0.
GridDownbeat(pos, anchor, bpm) ==
  IF pos <= anchor THEN anchor
  ELSE LET bar == BeatsPerBar * MinuteMs
           n   == CeilDiv((pos - anchor) * bpm, bar)
       IN RoundDiv(anchor * bpm + n * bar, bpm)

\* The analysed downbeats win; past the last one the grid takes over.
next_downbeat_at_or_after_ms(pos, anchor, bpm, downbeats) ==
  LET later == {i \in DOMAIN downbeats : downbeats[i] >= pos}
  IN IF later # {}
     THEN downbeats[CHOOSE i \in later : \A j \in later : i <= j]
     ELSE GridDownbeat(pos, anchor, bpm)

loop_length_ms(bars, bpm) == RoundDiv(bars * BeatsPerBar * MinuteMs, bpm)
=============================================================================
