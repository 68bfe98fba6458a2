-------------------------------- MODULE Shell --------------------------------
(***************************************************************************)
(* tauri/src/main.rs, sidecar.rs, commands.rs and updater.rs: the desktop  *)
(* app.  It spawns the engine as a child process, whose handle, a          *)
(* ChildGuard, threads may clone and drop, and looks for updates on a      *)
(* thread of its own.  In the build at hand the fetch is a placeholder     *)
(* that always fails and the check runs without the user's consent given.  *)
(***************************************************************************)
EXTENDS Integers, FiniteSets

CONSTANTS
  Threads,     \* threads that may hold a clone of the guard, besides the app
  Versions,    \* of releases: major, minor, patch as one number, and the rank
               \* of what follows a dash, Release if nothing does
  Release,
  Malformed,
  MaxClones    \* bound: clones made

ShellConstants ==
  /\ "app" \notin Threads /\ IsFiniteSet(Threads) /\ MaxClones \in Nat
  /\ Versions \subseteq [core : Nat, pre : 0..Release] /\ Release \in Nat /\ Malformed \notin Versions

VARIABLES
  app,       \* boot, up, exiting, gone (by itself) or crashed
  child,     \* none, running, exited but not waited for, or reaped
  inner,     \* whether the guard's Option still holds the child
  guard,     \* per holder: none, held, or where its drop is
  clones,
  raced,     \* history: a drop left the child to a holder already dropping
  updater    \* the check under way, or what the last one answered

vars == <<app, child, inner, guard, clones, raced, updater>>
Holders == {"app"} \cup Threads

NoCheck == [step |-> "idle", listening |-> TRUE, current |-> Malformed, answer |-> "none", offer |-> Malformed]

Init ==
  /\ app = "boot" /\ child = "none" /\ inner = FALSE
  /\ guard = [h \in Holders |-> "none"] /\ clones = 0 /\ raced = FALSE
  /\ updater = NoCheck

-----------------------------------------------------------------------------
(* main: the engine or nothing.  Threads act until the process has ended. *)

Alive == app \in {"up", "exiting"}

spawn ==
  /\ app = "boot"
  /\ \/ /\ app' = "up" /\ child' = "running" /\ inner' = TRUE
        /\ guard' = [guard EXCEPT !["app"] = "held"]
     \/ app' = "gone" /\ UNCHANGED <<child, inner, guard>>
  /\ UNCHANGED <<clones, raced, updater>>

clone(h, new) ==
  /\ Alive /\ guard[h] = "held" /\ guard[new] = "none" /\ clones < MaxClones
  /\ guard' = [guard EXCEPT ![new] = "held"] /\ clones' = clones + 1
  /\ UNCHANGED <<app, child, inner, raced, updater>>

EngineExits ==
  /\ child = "running" /\ child' = "exited"
  /\ UNCHANGED <<app, inner, guard, clones, raced, updater>>

\* The last window closes: the runtime drops its state.
LastWindowCloses ==
  /\ app = "up" /\ app' = "exiting"
  /\ UNCHANGED <<child, inner, guard, clones, raced, updater>>

\* tauri's run fails: process::exit, which runs no Drop.
RuntimeCrashes ==
  /\ app = "up" /\ app' = "crashed"
  /\ guard' = [h \in Holders |-> "none"]
  /\ UNCHANGED <<child, inner, clones, raced, updater>>

\* main returns once the runtime has dropped its own handle; that ends the
\* process, wherever other threads are with theirs.  A kill that is caught
\* half-way is one that was not made.
Exit ==
  /\ app = "exiting" /\ guard["app"] = "none"
  /\ app' = "gone"
  /\ UNCHANGED <<child, inner, guard, clones, raced, updater>>

-----------------------------------------------------------------------------
(* The guard.  Under its mutex the child is taken, killed and waited for.  *)

TakeAndKill ==
  IF inner THEN inner' = FALSE /\ child' = "reaped" ELSE UNCHANGED <<inner, child>>

kill_now(h) ==
  /\ Alive /\ guard[h] = "held" /\ TakeAndKill
  /\ UNCHANGED <<app, guard, clones, raced, updater>>

strong_count == Cardinality({h \in Holders : guard[h] # "none"})

\* Mutants: every clone's drop kills; the count is taken for one without
\* one's own.
LooksLast_always == TRUE
LooksLast_withoutOwn == strong_count = 0

LooksLast == strong_count = 1

(* Drop: a look at the count, and only the last one kills; the count goes  *)
(* down after that, when the field is dropped.                             *)
DropLook(h) ==
  /\ Alive /\ guard[h] = "held"
  /\ h = "app" => app = "exiting"
  /\ guard' = [guard EXCEPT ![h] = IF LooksLast THEN "killing" ELSE "releasing"]
  /\ raced' = \/ raced
              \/ /\ ~LooksLast
                 /\ {g \in Holders \ {h} : guard[g] # "none"} # {}
                 /\ \A g \in Holders \ {h} : guard[g] # "held"
  /\ UNCHANGED <<app, child, inner, clones, updater>>

DropKill(h) ==
  /\ Alive /\ guard[h] = "killing" /\ TakeAndKill
  /\ guard' = [guard EXCEPT ![h] = "releasing"]
  /\ UNCHANGED <<app, clones, raced, updater>>

release(h) ==
  /\ Alive /\ guard[h] = "releasing"
  /\ guard' = [guard EXCEPT ![h] = "none"]
  /\ UNCHANGED <<app, child, inner, clones, raced, updater>>

-----------------------------------------------------------------------------
(* A look for updates.  What follows a dash is not compared.               *)

is_newer_semver(candidate, current) == candidate.core > current.core

check_async(opt_in, current) ==
  /\ app = "up" /\ updater.step = "idle"
  /\ updater' = [NoCheck EXCEPT !.step = IF opt_in THEN "fetch" ELSE "tell", !.current = current,
                                !.answer = IF opt_in THEN "none" ELSE "Disabled"]
  /\ UNCHANGED <<app, child, inner, guard, clones, raced>>

(* check_blocking: the manifest, if it arrives and can be read.            *)
Fetch ==
  /\ Alive /\ updater.step = "fetch"
  /\ \/ \E error \in {"Network", "BadManifest", "BadVersion"} :
          updater' = [updater EXCEPT !.step = "tell", !.answer = error]
     \/ \E v \in Versions :
          updater' = [updater EXCEPT !.step = "tell", !.offer = v,
                        !.answer = IF is_newer_semver(v, updater.current) THEN "available" ELSE "current"]
  /\ UNCHANGED <<app, child, inner, guard, clones, raced>>

\* A receiver that hung up is told nothing.
Tell ==
  /\ Alive /\ updater.step = "tell"
  /\ updater' = IF updater.listening THEN [updater EXCEPT !.step = "idle"] ELSE NoCheck
  /\ UNCHANGED <<app, child, inner, guard, clones, raced>>

HangUp ==
  /\ Alive /\ updater.step # "idle" /\ updater.listening
  /\ updater' = [updater EXCEPT !.listening = FALSE]
  /\ UNCHANGED <<app, child, inner, guard, clones, raced>>

-----------------------------------------------------------------------------
Next ==
  \/ spawn \/ EngineExits \/ LastWindowCloses \/ RuntimeCrashes \/ Exit
  \/ \E h \in Holders, new \in Threads : clone(h, new)
  \/ \E h \in Holders : kill_now(h) \/ DropLook(h) \/ DropKill(h) \/ release(h)
  \/ \E opt_in \in BOOLEAN, current \in Versions : check_async(opt_in, current)
  \/ Fetch \/ Tell \/ HangUp

Spec == Init /\ [][Next]_vars

-----------------------------------------------------------------------------
(* The engine outlives the app in three cases only: the runtime crashed,   *)
(* which skips every Drop; main returned while a thread still held a clone *)
(* or was about to kill for it, and the app's own drop had counted it; or  *)
(* the last two handles were dropped at the same time, and each saw the    *)
(* other still counted.  Else it is killed and waited for, whatever clones *)
(* there were and in whatever order they went (sidecar.rs, Drop for        *)
(* ChildGuard; main.rs promises that the drop at exit kills the engine).   *)
OrphanOnlyForCause ==
  /\ app = "gone" /\ child \in {"running", "exited"} =>
       raced \/ \E h \in Threads : guard[h] \in {"held", "killing"}
  /\ child = "reaped" <=> child # "none" /\ ~inner

(* Dropping one clone does not take the engine away from another that is   *)
(* still held.                                                             *)
DropSparesTheOthers ==
  \A h \in Holders : guard[h] = "killing" => \A g \in Holders \ {h} : guard[g] = "none"

(* What is offered is an upgrade by the order of versions, in which a      *)
(* release follows its previews, though the code compares numbers only     *)
(* (updater.rs, is_newer_semver).                                          *)
OffersAreUpgrades ==
  updater.answer = "available" =>
    \/ updater.offer.core > updater.current.core
    \/ updater.offer.core = updater.current.core /\ updater.offer.pre > updater.current.pre
=============================================================================
