--------------------------- MODULE UpdateJournal ---------------------------
(***************************************************************************)
(* The journaled replacement of the installed files by the update helper   *)
(* (crates/update/src/apply.rs, journal.rs and the part of                 *)
(* windows_apply.rs that drives them): backups, durable intents, the       *)
(* two-step replacement of a file, the health verdict, the rollback, and   *)
(* the recovery another helper makes from the journal and the disk.        *)
(*                                                                         *)
(* What can go wrong around it is part of the model: the helper dies       *)
(* between any two steps; a store of the journal fails with the disk       *)
(* unchanged or already advanced; a file step or a stop of the child       *)
(* fails; another program replaces or deletes an owned file, changes one   *)
(* the update leaves alone, or moves the install directory.                *)
(*                                                                         *)
(* Contents are "old", "new", "missing" and "foreign"; the identity (size  *)
(* and hash) of a file decides which of them the code sees.  Only one      *)
(* helper works at a time: UpdateHandshake shows how the leases ensure it. *)
(***************************************************************************)
EXTENDS Integers, FiniteSets

CONSTANTS
  N,            \* the number of steps of the plan, in order
  Added,        \* the steps that add a file
  Removed,      \* the steps that remove one; every other step replaces a file
  MaxDisturbed, \* bound: how often other programs interfere
  MaxCrashes,   \* bound: how often a helper dies
  MaxFaults     \* bound: how many stores and file operations fail

Steps == 1 .. N

ASSUME StepsAssumption ==
  /\ N \in Nat \ {0}
  /\ Added \subseteq Steps /\ Removed \subseteq Steps
  /\ Added \cap Removed = {}

ASSUME BoundsAssumption ==
  MaxDisturbed \in Nat /\ MaxCrashes \in Nat /\ MaxFaults \in Nat

VARIABLES
  file,      \* file[i]: the installed file of step i
  backup,    \* backup[i]: its copy in the transaction-private area
  unchanged, \* whether the owned files outside the plan are the signed ones
  rooted,    \* whether the install root still is the directory first opened
  jrn,       \* the journal on disk
  mem,       \* the journal the running helper holds
  pc,        \* where the helper is
  stage,     \* which call of recover a failure would reach
  at,        \* the step being backed up or replaced
  plan,      \* plan[i]: what a rollback action expects at i, "none" if no action
  child,     \* the limited-health child
  touched,   \* the steps whose file another program has changed
  disturbs, crashes, faults  \* how much of each bound is used up

disk == <<file, backup, unchanged, rooted>>
work == <<stage, at, plan>>
used == <<disturbs, crashes, faults>>
vars == <<file, backup, unchanged, rooted, jrn, mem, pc, stage, at, plan,
          child, touched, disturbs, crashes, faults>>

Contents == {"old", "new", "missing", "foreign"}
OldId == [i \in Steps |-> IF i \in Added THEN "missing" ELSE "old"]
NewId == [i \in Steps |-> IF i \in Removed THEN "missing" ELSE "new"]

-----------------------------------------------------------------------------
(* The journal. *)

Live == {"prepared", "authorized", "applying", "awaiting", "rolling_back"}
Terminal == {"committed", "rolled_back", "required"}
Phases == Live \cup Terminal \cup {"none"}

\* Phase::may_follow.
MayFollow(p, q) ==
  \/ <<p, q>> \in { <<"prepared", "authorized">>, <<"prepared", "rolled_back">>,
                    <<"authorized", "applying">>, <<"authorized", "rolled_back">>,
                    <<"applying", "awaiting">>, <<"applying", "rolling_back">>,
                    <<"awaiting", "committed">>, <<"awaiting", "rolling_back">>,
                    <<"rolling_back", "rolled_back">> }
  \/ p \in Live /\ q = "required"

StepStates == {"planned", "intent", "applied", "restored"}

\* A journal with its phase moved, or one of its steps.
WithPhase(j, p) == [j EXCEPT !.phase = p]
WithStep(j, i, s) == [j EXCEPT !.step[i] = s]

NoJournal == [phase |-> "none", step |-> [i \in Steps |-> "planned"], gen |-> 0]

\* Mutated: the journal on disk is not compared before a store.
StaleUnchecked == FALSE

\* Someone else's change, or one this writer was told had failed, is on disk.
Stale == jrn.gen # mem.gen

\* DurableJournal::persist: the disk is read again, a journal that is no longer
\* the one in memory is refused, and a store that reports failure may or may
\* not have reached the disk. The helper goes on at ok, or at bad.
Persist(next, ok, bad) ==
  LET stored == [next EXCEPT !.gen = mem.gen + 1] IN
  \/ /\ ~Stale
     /\ jrn' = stored /\ mem' = stored /\ pc' = ok
     /\ UNCHANGED faults
  \/ /\ ~Stale /\ faults < MaxFaults
     /\ jrn' \in {jrn, stored} /\ pc' = bad
     /\ faults' = faults + 1
     /\ UNCHANGED mem
  \/ /\ Stale
     /\ pc' = bad
     /\ UNCHANGED <<jrn, mem, faults>>

\* advance_phase, from a state in which the move is allowed.
Advance(p, ok, bad) ==
  /\ MayFollow(mem.phase, p)
  /\ Persist(WithPhase(mem, p), ok, bad)

-----------------------------------------------------------------------------
(* What the helper sees of the disk. An observation fails when the install
   root is no longer the directory it was. *)

AllOld == \A i \in Steps : file[i] = OldId[i]
AllNew == \A i \in Steps : file[i] = NewId[i]

\* Mutated: an emptied path is taken for another program's change.
EmptiedRefused(i) == FALSE

\* A path left empty between the two steps of a replacement, with its backup.
Emptied(i) == i \notin Added /\ file[i] = "missing" /\ backup[i] = "old"

Recoverable(i) ==
  \/ file[i] = OldId[i]
  \/ Emptied(i)
  \/ file[i] = NewId[i] /\ (i \in Added \/ backup[i] = "old")

\* The action decide_recovery plans for a step: what it expects to find.
ActionFor(i) == IF file[i] = OldId[i] THEN "none" ELSE file[i]

\* Mutated: a rollback does not wait for the child.
RequiresChildExitNever == FALSE

\* require_child_exit: the new version may be running.
RequiresChildExit == mem.phase = "awaiting"

\* decide_recovery.
Decision ==
  CASE mem.phase = "required" -> "required"
    [] mem.phase = "committed" ->
         IF AllNew /\ unchanged THEN "keep_new" ELSE "required"
    [] mem.phase \in {"rolled_back", "prepared", "authorized"} ->
         IF AllOld /\ unchanged THEN "keep_old" ELSE "required"
    [] OTHER ->
         IF \E i \in Steps : ~Recoverable(i) THEN "required"
         ELSE IF \E i \in Steps : file[i] # OldId[i] THEN "roll_back"
         ELSE IF unchanged THEN "keep_old" ELSE "required"

-----------------------------------------------------------------------------
Init ==
  /\ file = OldId
  /\ backup = [i \in Steps |-> "missing"]
  /\ unchanged = TRUE /\ rooted = TRUE
  /\ jrn = NoJournal /\ mem = NoJournal
  /\ pc = "off" /\ stage = "apply" /\ at = 1
  /\ plan = [i \in Steps |-> "none"]
  /\ child = "none"
  /\ touched = {}
  /\ disturbs = 0 /\ crashes = 0 /\ faults = 0

(* -- preparing and applying: apply_owned_files, apply, run_steps ---------- *)

\* verify_and_plan found every file in its installed state; the journal is
\* created, and only once.
Begin ==
  /\ pc = "off" /\ jrn.phase = "none"
  /\ rooted /\ AllOld /\ unchanged
  /\ jrn' = [NoJournal EXCEPT !.phase = "prepared"]
  /\ mem' = jrn'
  /\ pc' = "check" /\ stage' = "apply"
  /\ UNCHANGED <<disk, at, plan, child, touched, used>>

\* The relocation record cannot be written, or a file has changed since it was
\* planned: nothing was touched, and the prepared journal is settled.
RefuseApply ==
  /\ pc = "check"
  /\ \/ ~rooted \/ ~AllOld
     \/ faults < MaxFaults
  /\ faults' = IF rooted /\ AllOld THEN faults + 1 ELSE faults
  /\ pc' = "recover" /\ stage' = "retry"
  /\ UNCHANGED <<disk, jrn, mem, at, plan, child, touched, disturbs, crashes>>

Authorize ==
  /\ pc = "check" /\ rooted /\ AllOld
  /\ Advance("authorized", "authorized", "refused")
  /\ UNCHANGED <<disk, work, child, touched, disturbs, crashes>>

StartApplying ==
  /\ pc = "authorized"
  /\ Advance("applying", "backup", "refused")
  /\ at' = 1
  /\ UNCHANGED <<disk, stage, plan, child, touched, disturbs, crashes>>

\* apply returned an error before its steps: apply_owned_files settles it.
Refused ==
  /\ pc = "refused"
  /\ pc' = "recover" /\ stage' = "retry"
  /\ UNCHANGED <<disk, jrn, mem, at, plan, child, touched, used>>

\* The helper goes to the next step of a loop, or leaves the loop.
NextOr(here, after) ==
  IF at = N THEN pc' = after /\ at' = 1 ELSE pc' = here /\ at' = at + 1

\* Every backup is made before the first file is touched; the live file must
\* be the old one before the copy, and the copy is verified after it.
MakeBackup ==
  /\ pc = "backup"
  /\ \/ /\ at \in Added
        /\ NextOr("backup", "intend")
        /\ UNCHANGED <<backup, faults>>
     \/ /\ at \notin Added /\ rooted /\ file[at] = "old"
        /\ backup' = [backup EXCEPT ![at] = "old"]
        /\ pc' = "backed_up"
        /\ UNCHANGED <<at, faults>>
     \/ /\ at \notin Added /\ rooted /\ file[at] = "old" /\ faults < MaxFaults
        /\ \E b \in {backup[at], "damaged"} : backup' = [backup EXCEPT ![at] = b]
        /\ faults' = faults + 1
        /\ pc' = "recover"
        /\ UNCHANGED at
     \/ /\ at \notin Added /\ (~rooted \/ file[at] # "old")
        /\ pc' = "recover"
        /\ UNCHANGED <<backup, at, faults>>
  /\ UNCHANGED <<file, unchanged, rooted, jrn, mem, stage, plan, child, touched,
                 disturbs, crashes>>

RecheckBackedUp ==
  /\ pc = "backed_up"
  /\ IF rooted /\ file[at] = "old"
     THEN NextOr("backup", "intend")
     ELSE pc' = "recover" /\ UNCHANGED at
  /\ UNCHANGED <<disk, jrn, mem, stage, plan, child, touched, used>>

\* Mutated: the intent is not stored.
RecordIntentInMemory ==
  /\ pc = "intend"
  /\ pc' = "bind" /\ mem' = WithStep(mem, at, "intent")
  /\ UNCHANGED <<disk, jrn, work, child, touched, used>>

\* The intent is durable before the file is touched.
RecordIntent ==
  /\ pc = "intend"
  /\ Persist(WithStep(mem, at, "intent"), "bind", "recover")
  /\ UNCHANGED <<disk, work, child, touched, disturbs, crashes>>

\* ensure_live_old and bind_target: the very file verified is held open, so no
\* one else can replace it; a path that must be absent cannot be held.
BindTarget ==
  /\ pc = "bind"
  /\ pc' = IF rooted /\ file[at] = OldId[at] THEN "bound" ELSE "recover"
  /\ UNCHANGED <<disk, jrn, mem, work, child, touched, used>>

\* place, first half: the verified file is moved aside through its handle.
MoveAside ==
  /\ pc = "bound" /\ at \notin Added \cup Removed /\ rooted
  /\ file' = [file EXCEPT ![at] = "missing"]
  /\ pc' = "aside"
  /\ UNCHANGED <<backup, unchanged, rooted, jrn, mem, work, child, touched, used>>

\* place, second half: a move that replaces nothing. When it fails the old
\* file is moved back, which may fail as well.
MoveIn ==
  /\ pc = "aside"
  /\ \/ /\ file[at] = "missing"
        /\ file' = [file EXCEPT ![at] = "new"]
        /\ pc' = "placed"
        /\ UNCHANGED faults
     \/ /\ file[at] = "missing" /\ faults < MaxFaults
        /\ \E c \in {"old", "missing"} : file' = [file EXCEPT ![at] = c]
        /\ faults' = faults + 1
        /\ pc' = "recover"
     \/ /\ file[at] # "missing"
        /\ pc' = "recover"
        /\ UNCHANGED <<file, faults>>
  /\ UNCHANGED <<backup, unchanged, rooted, jrn, mem, work, child, touched,
                 disturbs, crashes>>

\* A removal moves the verified file out of the directory; the failure of its
\* durable half leaves it moved. An addition replaces nothing.
RemoveOrAdd ==
  /\ pc = "bound" /\ at \in Added \cup Removed /\ rooted
  /\ \/ /\ at \in Removed \/ file[at] = "missing"
        /\ file' = [file EXCEPT ![at] = NewId[at]]
        /\ pc' = "placed"
        /\ UNCHANGED faults
     \/ /\ faults < MaxFaults
        /\ \/ UNCHANGED file
           \/ at \in Removed /\ file' = [file EXCEPT ![at] = "missing"]
        /\ faults' = faults + 1
        /\ pc' = "recover"
     \/ /\ at \in Added /\ file[at] # "missing"
        /\ pc' = "recover"
        /\ UNCHANGED <<file, faults>>
  /\ UNCHANGED <<backup, unchanged, rooted, jrn, mem, work, child, touched,
                 disturbs, crashes>>

\* Any change of a file checks the root first.
ChangeRefused ==
  /\ pc = "bound" /\ ~rooted
  /\ pc' = "recover"
  /\ UNCHANGED <<disk, jrn, mem, work, child, touched, used>>

RecordApplied ==
  /\ pc = "placed"
  /\ Persist(WithStep(mem, at, "applied"), "next", "recover")
  /\ UNCHANGED <<disk, work, child, touched, disturbs, crashes>>

NextStep ==
  /\ pc = "next"
  /\ NextOr("intend", "verify")
  /\ UNCHANGED <<disk, jrn, mem, stage, plan, child, touched, used>>

\* Every file must be the new one, and the others the signed ones, before the
\* new version is allowed to run.
VerifyApplied ==
  /\ pc = "verify"
  /\ \/ /\ rooted /\ AllNew /\ unchanged
        /\ Advance("awaiting", "launch", "recover")
     \/ /\ ~(rooted /\ AllNew /\ unchanged)
        /\ pc' = "recover"
        /\ UNCHANGED <<jrn, mem, faults>>
  /\ UNCHANGED <<disk, work, child, touched, disturbs, crashes>>

(* -- health: apply_and_settle, conclude_with_child, conclude_health ------- *)

\* The child is started, or it is a failed child that can never be healthy.
Launch ==
  /\ pc = "launch"
  /\ child' \in {"waiting", "none"}
  /\ pc' = "health" /\ stage' = "health"
  /\ UNCHANGED <<disk, jrn, mem, at, plan, touched, used>>

\* Only a healthy child takes the helper on to the commit; the install is
\* compared with the plan once more first.
AwaitHealthy ==
  /\ pc = "health"
  /\ \/ child = "waiting" /\ pc' = "before_commit"
     \/ pc' = "recover"
  /\ UNCHANGED <<disk, jrn, mem, work, child, touched, used>>

VerifyBeforeCommit ==
  /\ pc = "before_commit"
  /\ \/ /\ rooted /\ AllNew /\ unchanged
        /\ pc' = "commit"
        /\ UNCHANGED <<child, faults>>
     \/ /\ ~(rooted /\ AllNew /\ unchanged)
        /\ \/ child' = "none" /\ pc' = "recover" /\ UNCHANGED faults
           \/ faults < MaxFaults /\ faults' = faults + 1 /\ pc' = "require"
              /\ UNCHANGED child
  /\ UNCHANGED <<disk, jrn, mem, work, touched, disturbs, crashes>>

\* Durable first: the child hears of the commit only once it is on disk.
Commit ==
  /\ pc = "commit"
  /\ Advance("committed", "notify", "recover")
  /\ UNCHANGED <<disk, work, child, touched, disturbs, crashes>>

SendCommit ==
  /\ pc = "notify"
  /\ child' = IF child = "waiting" THEN "released" ELSE child
  /\ pc' = "seal"
  /\ UNCHANGED <<disk, jrn, mem, work, touched, used>>

(* -- recovery: recover, settle_old, perform, require ---------------------- *)

\* A call of recover ends: without an error the helper is done; with one,
\* apply_owned_files calls it once more, and every other caller gives up.
Done == IF stage \in {"retry", "health"} THEN "seal" ELSE "end"
Failed == IF stage = "apply" THEN "retry" ELSE Done

\* An observation or a store failed and recover returned its error.
RecoverAgain ==
  /\ pc = "retry"
  /\ pc' = "recover" /\ stage' = "retry"
  /\ UNCHANGED <<disk, jrn, mem, at, plan, child, touched, used>>

\* Decide from the journal in memory and the disk.
Recover ==
  /\ pc = "recover"
  /\ \/ /\ rooted /\ Decision = "keep_new"
        /\ pc' = Done /\ UNCHANGED <<plan, child, faults>>
     \/ /\ rooted /\ Decision = "keep_old"
        /\ pc' = "settle" /\ UNCHANGED <<plan, child, faults>>
     \/ /\ rooted /\ Decision = "required"
        /\ pc' = "require" /\ UNCHANGED <<plan, child, faults>>
     \/ /\ rooted /\ Decision = "roll_back"
        /\ \/ /\ plan' = [i \in Steps |-> ActionFor(i)]
              /\ child' = IF RequiresChildExit THEN "none" ELSE child
              /\ pc' = "roll_back"
              /\ UNCHANGED faults
           \/ /\ RequiresChildExit /\ stage = "health"
              /\ faults < MaxFaults /\ faults' = faults + 1
              /\ pc' = "require"
              /\ UNCHANGED <<plan, child>>
     \/ /\ ~rooted
        /\ pc' = Failed /\ UNCHANGED <<plan, child, faults>>
  /\ UNCHANGED <<disk, jrn, mem, stage, at, touched, disturbs, crashes>>

\* settle_old: the disk is at the old version, only the journal moves.
SettleOld ==
  /\ pc = "settle"
  /\ \/ /\ mem.phase \in {"prepared", "authorized", "rolling_back"}
        /\ Advance("rolled_back", Done, Failed)
     \/ /\ mem.phase \in {"applying", "awaiting"}
        /\ Advance("rolling_back", "settle", Failed)
     \/ /\ mem.phase \in Terminal
        /\ pc' = Done
        /\ UNCHANGED <<jrn, mem, faults>>
  /\ UNCHANGED <<disk, work, child, touched, disturbs, crashes>>

\* require: best effort, the outcome is the same whether it is stored or not.
Require ==
  /\ pc = "require"
  /\ \/ Advance("required", Done, Done)
     \/ mem.phase \in Terminal /\ pc' = Done /\ UNCHANGED <<jrn, mem, faults>>
  /\ UNCHANGED <<disk, work, child, touched, disturbs, crashes>>

BeginRollback ==
  /\ pc = "roll_back"
  /\ \/ /\ mem.phase \in {"applying", "awaiting"}
        /\ Advance("rolling_back", "check_intents", Failed)
     \/ /\ mem.phase = "rolling_back"
        /\ pc' = "check_intents"
        /\ UNCHANGED <<jrn, mem, faults>>
  /\ UNCHANGED <<disk, work, child, touched, disturbs, crashes>>

\* The whole rollback is refused if any file to undo has no recorded intent.
CheckIntents ==
  /\ pc = "check_intents"
  /\ pc' = IF \E i \in Steps : plan[i] # "none" /\ mem.step[i] = "planned"
           THEN "require" ELSE "undo"
  /\ UNCHANGED <<disk, jrn, mem, work, child, touched, used>>

\* Actions are performed from the last step to the first.
IsNextUndo(i) == plan[i] # "none" /\ \A k \in Steps : k > i => plan[k] = "none"

\* The file is checked again, its backup too, and the file is bound.
CheckUndo ==
  /\ pc = "undo"
  /\ \E i \in Steps :
       /\ IsNextUndo(i)
       /\ at' = i
       /\ pc' = IF ~rooted THEN Failed
                ELSE IF file[i] = plan[i] /\ (i \in Added \/ backup[i] = "old")
                     THEN "undo_bound" ELSE "require"
  /\ UNCHANGED <<disk, jrn, mem, stage, plan, child, touched, used>>

\* restore and remove. A restored file goes through place like a new one; an
\* absent path is not held, and what has appeared there is not replaced.
UndoInPlace ==
  /\ pc = "undo_bound" /\ rooted
  /\ at \in Added \/ plan[at] = "missing"
  /\ \/ /\ file[at] = plan[at]
        /\ file' = [file EXCEPT ![at] = OldId[at]]
        /\ pc' = "undone"
        /\ UNCHANGED faults
     \/ /\ file[at] = plan[at] /\ faults < MaxFaults
        /\ \/ UNCHANGED file
           \/ at \in Added /\ file' = [file EXCEPT ![at] = "missing"]
        /\ faults' = faults + 1
        /\ pc' = Failed
     \/ /\ file[at] # plan[at]
        /\ pc' = Failed
        /\ UNCHANGED <<file, faults>>
  /\ UNCHANGED <<backup, unchanged, rooted, jrn, mem, work, child, touched,
                 disturbs, crashes>>

UndoAside ==
  /\ pc = "undo_bound" /\ rooted
  /\ at \notin Added /\ plan[at] = "new"
  /\ file' = [file EXCEPT ![at] = "missing"]
  /\ pc' = "undo_aside"
  /\ UNCHANGED <<backup, unchanged, rooted, jrn, mem, work, child, touched, used>>

UndoIn ==
  /\ pc = "undo_aside"
  /\ \/ /\ file[at] = "missing"
        /\ file' = [file EXCEPT ![at] = "old"]
        /\ pc' = "undone"
        /\ UNCHANGED faults
     \/ /\ file[at] = "missing" /\ faults < MaxFaults
        /\ \E c \in {"new", "missing"} : file' = [file EXCEPT ![at] = c]
        /\ faults' = faults + 1
        /\ pc' = Failed
     \/ /\ file[at] # "missing"
        /\ pc' = Failed
        /\ UNCHANGED <<file, faults>>
  /\ UNCHANGED <<backup, unchanged, rooted, jrn, mem, work, child, touched,
                 disturbs, crashes>>

UndoRefused ==
  /\ pc = "undo_bound" /\ ~rooted
  /\ pc' = Failed
  /\ UNCHANGED <<disk, jrn, mem, work, child, touched, used>>

RecordRestored ==
  /\ pc = "undone"
  /\ \/ /\ mem.step[at] \in {"intent", "applied"}
        /\ Persist(WithStep(mem, at, "restored"), "undo_next", Failed)
     \/ /\ mem.step[at] = "restored"
        /\ pc' = "undo_next"
        /\ UNCHANGED <<jrn, mem, faults>>
  /\ UNCHANGED <<disk, work, child, touched, disturbs, crashes>>

NextUndo ==
  /\ pc = "undo_next"
  /\ plan' = [plan EXCEPT ![at] = "none"]
  /\ pc' = IF \E i \in Steps : plan'[i] # "none" THEN "undo" ELSE "undone_all"
  /\ UNCHANGED <<disk, jrn, mem, stage, at, child, touched, used>>

\* The disk is judged once more before the rollback is called complete.
ConcludeRollback ==
  /\ pc = "undone_all"
  /\ \/ /\ rooted /\ Decision = "keep_old"
        /\ Advance("rolled_back", Done, Failed)
     \/ /\ rooted /\ Decision # "keep_old"
        /\ pc' = "require"
        /\ UNCHANGED <<jrn, mem, faults>>
     \/ /\ ~rooted
        /\ pc' = Failed
        /\ UNCHANGED <<jrn, mem, faults>>
  /\ UNCHANGED <<disk, work, child, touched, disturbs, crashes>>

\* seal_if_root_lost.
Seal ==
  /\ pc = "seal"
  /\ \/ ~rooted /\ Advance("required", "end", "end")
     \/ /\ rooted \/ mem.phase \in Terminal
        /\ pc' = "end"
        /\ UNCHANGED <<jrn, mem, faults>>
  /\ UNCHANGED <<disk, work, child, touched, disturbs, crashes>>

\* The helper ends. What it remembers is gone, and a child it still owns is
\* ended with it.
End ==
  /\ pc = "end"
  /\ pc' = "off" /\ mem' = NoJournal
  /\ at' = 1 /\ plan' = [i \in Steps |-> "none"] /\ stage' = "apply"
  /\ child' = IF child = "waiting" THEN "none" ELSE child
  /\ UNCHANGED <<disk, jrn, touched, used>>

(* -- the helper's death, the next helper, the child alone ----------------- *)

Crash ==
  /\ pc # "off" /\ crashes < MaxCrashes
  /\ crashes' = crashes + 1
  /\ pc' = "off" /\ mem' = NoJournal
  /\ at' = 1 /\ plan' = [i \in Steps |-> "none"] /\ stage' = "apply"
  /\ UNCHANGED <<disk, jrn, child, touched, disturbs, faults>>

\* A child whose helper is gone reads the journal: it starts normally only if
\* the commit is there, and ends otherwise.
ChildEof ==
  /\ child = "waiting" /\ pc = "off"
  /\ child' = IF jrn.phase = "committed" THEN "released" ELSE "none"
  /\ UNCHANGED <<disk, jrn, mem, pc, work, touched, used>>

\* The phases in which scan_pending calls a transaction pending.
PendingPhases == Live

\* The startup gate found the journal unfinished and a recovery helper opens
\* it, once nothing of the application is running.
StartRecovery ==
  /\ pc = "off" /\ jrn.phase \in PendingPhases /\ child = "none"
  /\ mem' = jrn
  /\ pc' = "recover" /\ stage' = "startup"
  /\ UNCHANGED <<disk, jrn, at, plan, child, touched, used>>

(* -- other programs ------------------------------------------------------- *)

\* While a verified file is held its name cannot be given to another; an
\* absent path, or one emptied by a replacement, can be taken.
Held(i) == /\ at = i /\ file[i] # "missing"
           /\ pc \in {"bound", "undo_bound"}

DisturbFile ==
  /\ jrn.phase # "none" /\ disturbs < MaxDisturbed
  /\ \E i \in Steps, c \in {"foreign", "missing"} :
       /\ ~Held(i)
       /\ file' = [file EXCEPT ![i] = c]
       /\ touched' = touched \cup {i}
  /\ disturbs' = disturbs + 1
  /\ UNCHANGED <<backup, unchanged, rooted, jrn, mem, pc, work, child, crashes,
                 faults>>

DisturbUnchanged ==
  /\ jrn.phase # "none" /\ disturbs < MaxDisturbed /\ unchanged
  /\ unchanged' = FALSE
  /\ disturbs' = disturbs + 1
  /\ UNCHANGED <<file, backup, rooted, jrn, mem, pc, work, child, touched,
                 crashes, faults>>

\* A directory with an open file in it is not renamed.
MoveRoot ==
  /\ pc \notin {"aside", "undo_aside"} /\ \A i \in Steps : ~Held(i)
  /\ \/ rooted /\ disturbs < MaxDisturbed /\ disturbs' = disturbs + 1
     \/ ~rooted /\ UNCHANGED disturbs
  /\ rooted' = ~rooted
  /\ UNCHANGED <<file, backup, unchanged, jrn, mem, pc, work, child, touched,
                 crashes, faults>>

-----------------------------------------------------------------------------
Apply == \/ RefuseApply \/ Authorize \/ StartApplying \/ Refused
         \/ MakeBackup \/ RecheckBackedUp \/ RecordIntent \/ BindTarget
         \/ MoveAside \/ MoveIn \/ RemoveOrAdd \/ ChangeRefused
         \/ RecordApplied \/ NextStep \/ VerifyApplied

Health == Launch \/ AwaitHealthy \/ VerifyBeforeCommit \/ Commit \/ SendCommit

Recovery == \/ RecoverAgain \/ Recover \/ SettleOld \/ Require
            \/ BeginRollback \/ CheckIntents \/ CheckUndo
            \/ UndoInPlace \/ UndoAside \/ UndoIn \/ UndoRefused
            \/ RecordRestored \/ NextUndo \/ ConcludeRollback
            \/ Seal \/ End

Helper == Apply \/ Health \/ Recovery

Others == DisturbFile \/ DisturbUnchanged \/ MoveRoot

Next == Begin \/ Helper \/ Crash \/ ChildEof \/ StartRecovery \/ Others

Spec == Init /\ [][Next]_vars

\* A running helper goes on, a child whose pipe closed reads the journal, and
\* as long as an update is unfinished somebody starts the application again.
Fairness == WF_vars(Helper) /\ WF_vars(ChildEof) /\ WF_vars(StartRecovery)

FairSpec == Spec /\ Fairness

-----------------------------------------------------------------------------
(* Properties. *)

Journals == [phase : Phases, step : [Steps -> StepStates], gen : Nat]

Places == {"off", "check", "authorized", "refused", "backup", "backed_up",
           "intend", "bind", "bound", "aside", "placed", "next", "verify",
           "launch", "health", "before_commit", "commit", "notify", "recover",
           "retry", "settle", "require", "roll_back", "check_intents", "undo",
           "undo_bound", "undo_aside", "undone", "undo_next", "undone_all",
           "seal", "end"}

\* The type of the state: what the journal, the disk and the helper can hold.
TypeOK ==
  /\ file \in [Steps -> Contents]
  /\ backup \in [Steps -> {"missing", "old", "damaged"}]
  /\ unchanged \in BOOLEAN /\ rooted \in BOOLEAN
  /\ jrn \in Journals /\ mem \in Journals
  /\ pc \in Places
  /\ stage \in {"apply", "retry", "health", "startup"}
  /\ at \in Steps
  /\ plan \in [Steps -> Contents \cup {"none"}]
  /\ child \in {"none", "waiting", "released"}
  /\ touched \subseteq Steps
  /\ disturbs \in 0 .. MaxDisturbed
  /\ crashes \in 0 .. MaxCrashes
  /\ faults \in 0 .. MaxFaults

\* A file is changed only after its intent is durable (run_steps): whatever the
\* helper's death leaves behind, a step the journal on disk calls planned still
\* has its old file, unless another program took it.
IntentComesFirst ==
  \A i \in Steps \ touched :
    jrn.step[i] = "planned" => file[i] = OldId[i]

\* No file of the old version can be lost (the backup loop of run_steps comes
\* before the first intent): from the first durable intent on, every old file
\* of the plan has a good copy, even those not reached yet.
OldVersionIsCopied ==
  (\E i \in Steps : jrn.step[i] # "planned") =>
    \A k \in Steps \ Added : backup[k] = "old"

\* The write-ahead rule, which makes every rollback possible.
WriteAhead == TypeOK /\ IntentComesFirst /\ OldVersionIsCopied

\* Deaths alone never end in RecoveryRequired: only another program's change, or
\* a failure reported to the helper, costs the user a manual recovery
\* (decide_recovery accepts every state a death leaves).  That the update then
\* ends is EveryUpdateSettles.
DeathIsRecovered ==
  jrn.phase = "required" => disturbs > 0 \/ faults > 0

\* No file of the installation is changed under a running new version: the
\* child is gone before the rollback touches anything (conclude_health,
\* recover), and after the commit nothing is touched.
NoChangeUnderTheChild ==
  [][file' # file /\ disturbs' = disturbs => child = "none"]_vars

\* What an update promises: see InstallUpdate.
Verdict ==
  CASE jrn.phase = "committed" -> "kept_new"
    [] jrn.phase = "rolled_back" -> "kept_old"
    [] jrn.phase = "required" -> "required"
    [] OTHER -> "pending"

Promise == INSTANCE InstallUpdate
             WITH Files <- Steps, OldOf <- OldId, NewOf <- NewId,
                  content <- file, disturbed <- touched, verdict <- Verdict

\* The promise is kept at every step (apply, conclude_health, recover), and an
\* unfinished update is settled in the end, however often its helper died, once
\* the installation stays where it was opened (startup_gate recovers it).
EveryUpdateSettles == <>[]rooted => (jrn.phase \in Live ~> jrn.phase \in Terminal)
KeepsPromise == Promise!ASpec /\ EveryUpdateSettles
=============================================================================
