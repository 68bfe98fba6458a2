---------------------------- MODULE SessionStore ----------------------------
(***************************************************************************)
(* The directories under the persistence root: one per engine process,     *)
(* with its event log (EventLog) and its master.wav.  Booting makes one    *)
(* and sweeps old ones (engine/src/main.rs, persistence/retention.rs);     *)
(* the bridge lists and replays them (persistence/sessions.rs).  Session   *)
(* ids are numbered in the order they are minted.                          *)
(***************************************************************************)
EXTENDS EventLog

CONSTANTS
  Policies,      \* RetentionPolicy values the environment may set
  ListLimit,     \* LIST_SESSIONS_DEFAULT_LIMIT
  MaxSessions,   \* bound: processes started
  MaxNow         \* bound: the wall clock

ASSUME SessionStoreAssumption ==
  /\ Policies \subseteq [max_age : Nat, min_keep : Nat]
  /\ ListLimit \in Nat /\ MaxSessions \in Nat /\ MaxNow \in Nat

VARIABLES
  now,    \* the wall clock, in days
  dirs,   \* session id -> what its directory holds
  id,     \* the session of the process under way
  swept   \* the boot of this process has done its retention sweep

store_vars == <<vars, now, dirs, id, swept>>
dir_vars == <<now, dirs, id, swept>>

StoreInit == Init /\ now = 0 /\ dirs = <<>> /\ id = 0 /\ swept = TRUE

(* The directory as the file system shows it; the live session's log is    *)
(* the file EventLog is writing.                                           *)
Dir(s) == IF s = id /\ dirs[s].log
          THEN [dirs[s] EXCEPT !.lines = Len(file), !.torn = torn] ELSE dirs[s]
Archived == [s \in DOMAIN dirs |-> Dir(s)]

\* main: the recorder makes the directory and master.wav, then EventLog::new
\* the log; either may be disabled or fail.  A recorder that fails after it
\* has made the file leaves it empty.
StoreBoot(open, wav) ==
  /\ id < MaxSessions
  /\ Boot(open)
  /\ id' = id + 1
  /\ dirs' = IF ~open /\ wav = None THEN Archived
             ELSE LET new == [born |-> now, log |-> open, lines |-> 0, torn |-> FALSE, wav |-> wav]
                  IN [s \in DOMAIN dirs \cup {id + 1} |-> IF s = id + 1 THEN new ELSE Dir(s)]
  /\ swept' = FALSE
  /\ UNCHANGED now

(* Directories the sweep may take: not among the min_keep newest.  Ties in *)
(* mtime fall as the directory happens to be read.                         *)
Floors(p) ==
  {F \in SUBSET DOMAIN dirs :
     /\ Cardinality(F) = IF p.min_keep < Cardinality(DOMAIN dirs) THEN p.min_keep
                         ELSE Cardinality(DOMAIN dirs)
     /\ \A s \in F, t \in DOMAIN dirs \ F : dirs[s].born >= dirs[t].born}

\* Mutant: the age is compared the wrong way round.
Stale_young(s, p) == dirs[s].born > now - p.max_age

\* Of sessions born max_age days ago some are past it by the hour, some not.
Stale(s, p) == dirs[s].born <= now - p.max_age

\* prune_sessions; some directories are not old enough by the hour, or
\* cannot be removed, and stay.
Sweep(p) ==
  /\ phase = "running" /\ ~swept
  /\ \E F \in Floors(p) : \E gone \in SUBSET {s \in DOMAIN dirs \ F : Stale(s, p)} :
       dirs' = [s \in DOMAIN dirs \ gone |-> dirs[s]]
  /\ swept' = TRUE
  /\ UNCHANGED <<vars, now, id>>

\* HYPEHOUSE_LOG_RETENTION_DISABLED.
SweepDisabled ==
  /\ phase = "running" /\ ~swept
  /\ swept' = TRUE
  /\ UNCHANGED <<vars, now, dirs, id>>

LogStep ==
  /\ \/ \E ev \in Inputs : swept /\ Receive(ev)
     \/ Crash \/ Unwind \/ Shutdown
  /\ UNCHANGED dir_vars

\* Days pass, and the clock may be set back.
SetClock(t) == phase # "running" /\ now' = t /\ UNCHANGED <<vars, dirs, id, swept>>

StoreNext ==
  \/ \E open \in BOOLEAN, wav \in {None, 0, 44} : StoreBoot(open, wav)
  \/ \E p \in Policies : Sweep(p)
  \/ SweepDisabled
  \/ LogStep
  \/ \E t \in 0..MaxNow : SetClock(t)

StoreSpec == StoreInit /\ [][StoreNext]_store_vars
-----------------------------------------------------------------------------
(* sessions.rs.  A session starts with its first parsable line; a torn     *)
(* line counts as an event all the same.                                   *)
Summary(s) ==
  LET d == Dir(s)
  IN [id |-> s,
      started_at |-> IF d.lines > 0 THEN d.born ELSE None,
      event_count |-> d.lines + IF d.torn THEN 1 ELSE 0,
      has_recording |-> d.wav \notin {None, 0}]

\* Mutant: the oldest first.
ListedBefore_oldest(a, b) ==
  \/ a.started_at = None /\ (b.started_at # None \/ a.id > b.id)
  \/ a.started_at # None /\ b.started_at # None /\ a.started_at < b.started_at

\* The comparison of list_sessions_in, as it is written.
ListedBefore(a, b) ==
  \/ a.started_at = None /\ (b.started_at # None \/ a.id > b.id)
  \/ a.started_at # None /\ b.started_at # None /\ a.started_at > b.started_at

(* The orders sort_by may leave them in: ties stay as the directory        *)
(* happens to be read.                                                     *)
Sortings ==
  {l \in [1..Cardinality(DOMAIN dirs) -> {Summary(s) : s \in DOMAIN dirs}] :
     /\ \A s \in DOMAIN dirs : \E i \in DOMAIN l : l[i] = Summary(s)
     /\ \A i, j \in DOMAIN l : i < j => ~ListedBefore(l[j], l[i])}

\* The truncation at the end of list_sessions_in.
Listed(l) == SubSeq(l, 1, Clamp(Len(l), 0, ListLimit))

(* Every session directory there is belongs to a process that was started. *)
StoreTypeOK ==
  /\ TypeOK
  /\ now \in 0..MaxNow /\ id \in 0..MaxSessions /\ swept \in BOOLEAN
  /\ DOMAIN dirs \subseteq 1..id
  /\ \A s \in DOMAIN dirs : dirs[s].born \in Nat /\ dirs[s].lines \in Nat

(* The sweep of a boot takes only sessions as old as the age limit, leaves *)
(* the min_keep newest, and never takes the session being recorded while   *)
(* the age limit is at least a day; a limit of 0 days may take it          *)
(* (retention.rs, ADR-003).                                                *)
SweepSparesNewestAndCurrent ==
  [][\A p \in Policies : Sweep(p) =>
       LET gone == DOMAIN dirs \ DOMAIN dirs'
           newer(s) == {t \in DOMAIN dirs' : dirs[t].born >= dirs[s].born}
       IN \A s \in gone : /\ now - dirs[s].born >= p.max_age
                          /\ Cardinality(newer(s)) >= p.min_keep
                          /\ p.max_age > 0 => s # id]_store_vars

(* What a list of sessions is cut off behind.  Sessions with events stand  *)
(* newest first, and one that is left out is no newer than any that is     *)
(* listed; but all of them stand behind every session without events, the  *)
(* latest of those in front, so that ListLimit sessions without events     *)
(* leave no room for any other.  Nothing is left out while there is room.  *)
(* (sessions.rs sorts and truncates; its comments promise the most recent  *)
(* sessions, those without a start last.)                                  *)
ListIsCutInOrder ==
  LET begun(s) == Dir(s).lines > 0
      behind(s, t) == IF begun(t) THEN begun(s) /\ dirs[s].born <= dirs[t].born
                                  ELSE begun(s) \/ s < t
  IN /\ Sortings # {}
     /\ \A l \in Sortings :
          LET list   == Listed(l)
              listed == {list[i].id : i \in DOMAIN list}
          IN /\ \A i, j \in DOMAIN list : i < j => behind(list[j].id, list[i].id)
             /\ \A s \in DOMAIN dirs \ listed :
                  Len(list) = ListLimit /\ \A t \in listed : behind(s, t)

(* The log is what was folded, in order, its replay is the live state, a   *)
(* crash costs fewer events than a flush interval (EventLog), and the list *)
(* of sessions shows those without events, then the others newest first,   *)
(* as far as it goes.                                                      *)
LogIsTrue ==
  StoreTypeOK /\ LogIsWhatWasFolded /\ ReplayMatchesLive /\ LossIsBounded /\ ListIsCutInOrder
=============================================================================
