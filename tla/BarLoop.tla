------------------------------- MODULE BarLoop -------------------------------
(***************************************************************************)
(* A deck whose DJ asks for bar loops: the reducer's SetLoopBars           *)
(* (engine/src/state.rs) with the bar snapping and the preset clamp of     *)
(* BeatGrid, checked against what the two helpers promise.  The playhead   *)
(* and the track change only between loops, so that a loop can be compared *)
(* with the position it was asked at.                                      *)
(***************************************************************************)
EXTENDS EngineState

CONSTANTS
  Grids,      \* DeckLoad events: a tempo, an anchor and the analysed downbeats
  Positions,  \* where the playhead may be cued, ms
  Requests    \* bars the DJ may ask for

\* The analyzer's output, sorted (ui/src/components/CueCountdown.tsx).
Ascending(s) == \A i, j \in DOMAIN s : i <= j => s[i] <= s[j]

BarLoopConstants ==
  /\ Grids \subseteq LoadEvent /\ \A ev \in Grids : Ascending(ev.downbeats_ms)
  /\ Positions \subseteq Nat /\ Requests \subseteq Nat

VARIABLES
  deck,       \* the reducer's Deck
  asked       \* the bars of the loop under way, None when there is none

vars == <<deck, asked>>

Init == deck = DefaultDeck /\ asked = None

Load(ev) == asked = None /\ deck' = DeckLoad(deck, ev) /\ UNCHANGED asked

Cue(ms) == asked = None /\ deck' = [deck EXCEPT !.position_ms = ms] /\ UNCHANGED asked

Ask(bars) ==
  /\ deck' = SetLoopBars(deck, [kind |-> "SetLoopBars", deck |-> "A", bars |-> bars])
  /\ asked' = IF deck'.loop_active THEN bars ELSE None

LeaveLoop == asked # None /\ deck' = LoopExit(deck) /\ asked' = None

Next ==
  \/ \E ev \in Grids : Load(ev)
  \/ \E ms \in Positions : Cue(ms)
  \/ \E bars \in Requests : Ask(bars)
  \/ LeaveLoop

Spec == Init /\ [][Next]_vars
-----------------------------------------------------------------------------
(* Bar line n of the analytic grid, scaled by the tempo to stay exact. *)
ScaledBar(n) == deck.beat_grid_anchor_ms * deck.bpm + n * BeatsPerBar * MinuteMs
ScaledNow == deck.position_ms * deck.bpm

(* The bar line at or after the playhead with none between the two. *)
NextBar(n) == ScaledBar(n) >= ScaledNow /\ (n = 0 \/ ScaledBar(n - 1) < ScaledNow)
MaxBar == ScaledNow \div (BeatsPerBar * MinuteMs) + 1

(* The loop starts at the first analysed downbeat the playhead has not     *)
(* passed; past the last of them, at the next bar of the analytic grid to  *)
(* the nearest millisecond, and never behind the playhead (state.rs,       *)
(* next_downbeat_at_or_after_ms).                                          *)
LoopStartsAtNextDownbeat ==
  deck.loop_active =>
    LET ahead == {deck.downbeats[i] : i \in DOMAIN deck.downbeats}
                   \ 0..(deck.position_ms - 1)
        start == deck.loop_in_ms
    IN /\ start >= deck.position_ms
       /\ IF ahead # {}
          THEN start \in ahead /\ \A b \in ahead : start <= b
          ELSE \E n \in 0..MaxBar :
                 /\ NextBar(n)
                 /\ 2 * start * deck.bpm - deck.bpm <= 2 * ScaledBar(n)
                 /\ 2 * ScaledBar(n) < 2 * start * deck.bpm + deck.bpm

(* The loop is as long as the preset nearest to the bars asked for, the    *)
(* shorter of two equally near, to the nearest millisecond (state.rs,      *)
(* clamp_loop_bars and SetLoopBars).                                       *)
LoopHasNearestPreset ==
  deck.loop_active =>
    LET Distance(b) == IF b > asked THEN b - asked ELSE asked - b
        length == deck.loop_out_ms - deck.loop_in_ms
    IN \E p \in {1, 2, 4, 8, 16} :
         /\ \A q \in {1, 2, 4, 8, 16} \ {p} :
              Distance(p) < Distance(q) \/ (Distance(p) = Distance(q) /\ p < q)
         /\ 2 * length * deck.bpm - deck.bpm <= 2 * p * BeatsPerBar * MinuteMs
         /\ 2 * p * BeatsPerBar * MinuteMs < 2 * length * deck.bpm + deck.bpm
=============================================================================
