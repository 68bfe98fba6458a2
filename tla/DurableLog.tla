----------------------------- MODULE DurableLog -----------------------------
(***************************************************************************)
(* What a session's event log promises (ADR-003, engine/src/persistence):  *)
(* events accepted for the log keep their order, a growing prefix of them  *)
(* is on disk for good, and the end of a process costs at most the part    *)
(* that was not.                                                           *)
(***************************************************************************)
EXTENDS Naturals, Sequences

CONSTANT Event

VARIABLES
  log,    \* the events accepted for the session under way, in order
  kept    \* how many of them are on disk

vars == <<log, kept>>

Init == log = <<>> /\ kept = 0

Open == log' = <<>> /\ kept' = 0

Accept ==
  /\ \E ev \in Event : log' = Append(log, ev)
  /\ kept' \in kept..Len(log')

Persist ==
  /\ log' = log
  /\ kept' \in kept..Len(log)

Lose ==
  /\ log' = SubSeq(log, 1, kept')
  /\ kept' \in kept..Len(log)

Next == Open \/ Accept \/ Persist \/ Lose

Spec == Init /\ [][Next]_vars
=============================================================================
