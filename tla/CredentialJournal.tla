------------------------- MODULE CredentialJournal -------------------------
(* The key of a custom AI provider, the settings that name it and the       *)
(* journal between the two (crates/ai: connect.rs, credential_journal.rs,   *)
(* settings.rs, and the worker of service.rs that calls them).  The key     *)
(* lives in the system's credential store under a fresh reference; the      *)
(* settings file holds the reference.  Replacing or deleting the key        *)
(* changes both, with a journal entry before the first step and its removal *)
(* after the last, so that a recovery can finish what a crash or a failure  *)
(* interrupts.                                                              *)
(*                                                                          *)
(* The processes of Hane share the files.  The owner lock admits one of     *)
(* them to the settings and to the runtime, but goes with the runtime's     *)
(* child, which may die at any time; the settings lock is held shared by a  *)
(* turn and asked for exclusively, without waiting, by everything that      *)
(* writes.                                                                  *)
(*                                                                          *)
(* Abstracted: of the settings, the revision, the generation and the        *)
(* reference; Custom is the active connection; reads do not fail; a         *)
(* runtime's stop is confirmed.  The journal is the set of its operations:  *)
(* which of several a recovery takes first is left open.                    *)
EXTENDS Naturals

CONSTANTS
    Procs,      \* processes of Hane
    NoProc,     \* nobody holds the owner lock
    Creds,      \* references CredentialRef::generate may return
    NoCred,     \* credential_ref: None
    MaxRev,     \* bound on the settings' revision
    MaxFaults,  \* bound on failing stores, keys and children
    MaxCrashes  \* bound on deaths of a process

ASSUME CredentialAssumption ==
    /\ NoProc \notin Procs
    /\ NoCred \notin Creds
    /\ MaxRev \in Nat /\ MaxFaults \in Nat /\ MaxCrashes \in Nat

VARIABLES
    settings,  \* the settings file, as a reader sees it
    ops,       \* the journal's operations
    secrets,   \* references the credential store has a key for
    drawn,     \* references generated so far
    owner,     \* holder of the owner lock
    pc,        \* what the worker of each process does
    job,       \* the credential operation or recovery it is in
    view,      \* the snapshot of each process: AiSnapshot
    seen,      \* the settings its settings page shows
    rt,        \* its runtime: the child and the settings it was made for
    faults,    \* faults so far
    crashes    \* deaths so far

files == <<settings, ops, secrets, drawn>>
vars == <<settings, ops, secrets, drawn, owner, pc, job, view, seen,
          rt, faults, crashes>>

Ref == Creds \cup {NoCred}
Settings == [rev : 0 .. MaxRev, gen : 0 .. MaxRev, ref : Ref]
Operation == [kind : {"update", "delete"}, new : Ref, old : Ref]
Default == [rev |-> 0, gen |-> 0, ref |-> NoCred]
NoOperation == [kind |-> "update", new |-> NoCred, old |-> NoCred]
NoJob == [op |-> NoOperation, todo |-> {}, cur |-> Default, left |-> FALSE]
NoRuntime == [up |-> FALSE, made |-> FALSE, gen |-> 0, ref |-> NoCred]
FreshView == [ownership |-> "unknown", cached |-> Default,
              recovery |-> FALSE, doubt |-> FALSE]

Writing == {"set", "swap", "undo", "mark", "clean", "complete"}
Recovering == {"recover", "recoverSwap", "recoverDelete", "recoverComplete"}
Exclusive == Writing \cup Recovering
Pcs == {"down", "idle", "reacquire", "turn"} \cup Exclusive

Ownerships == {"unknown", "owned", "elsewhere", "unavailable"}
Job == [op : Operation, todo : SUBSET Operation, cur : Settings, left : BOOLEAN]
View == [ownership : Ownerships, cached : Settings, recovery : BOOLEAN, doubt : BOOLEAN]
Runtime == [up : BOOLEAN, made : BOOLEAN, gen : 0 .. MaxRev, ref : Ref]

TypeOK ==
    /\ settings \in Settings
    /\ ops \subseteq Operation
    /\ secrets \subseteq drawn /\ drawn \subseteq Creds
    /\ owner \in Procs \cup {NoProc}
    /\ pc \in [Procs -> Pcs]
    /\ job \in [Procs -> Job]
    /\ view \in [Procs -> View]
    /\ seen \in [Procs -> Settings]
    /\ rt \in [Procs -> Runtime]
    /\ faults \in 0 .. MaxFaults /\ crashes \in 0 .. MaxCrashes

Init ==
    /\ settings = Default
    /\ ops = {}
    /\ secrets = {} /\ drawn = {}
    /\ owner = NoProc
    /\ pc = [p \in Procs |-> "idle"]
    /\ job = [p \in Procs |-> NoJob]
    /\ view = [p \in Procs |-> FreshView]
    /\ seen = [p \in Procs |-> Default]
    /\ rt = [p \in Procs |-> NoRuntime]
    /\ faults = 0 /\ crashes = 0

-----------------------------------------------------------------------------
(* Steps that may fail, and what the files are after them.                  *)

\* How a step ended; anything but "ok" is one of the bounded faults.
Outcome(o) ==
    IF o = "ok" THEN UNCHANGED faults
    ELSE faults < MaxFaults /\ faults' = faults + 1

\* Replacing one of the two files of the directory: not done, done, or done
\* while the sync of the directory failed.
Replace(o, newSettings, newOps) ==
    /\ Outcome(o)
    /\ settings' = IF o = "failed" THEN settings ELSE newSettings
    /\ ops' = IF o = "failed" THEN ops ELSE newOps

Replaced == {"ok", "failed", "unsynced"}

\* The credential store deletes a key; a refusal may still have deleted it.
DeleteKey(o, c) ==
    /\ Outcome(o)
    /\ secrets' \in IF o = "ok" THEN {secrets \ {c}} ELSE {secrets, secrets \ {c}}

\* The journal without the operation that has just been completed.
Without(op) == {o \in ops : ~(o.new = op.new /\ o.old = op.old)}

\* Mutant: the lock is only asked against other writers.
MayWriteDespiteTurns(p) == \A q \in Procs \ {p} : pc[q] \notin Exclusive

\* The exclusive settings lock: not taken while a turn holds it shared, or
\* another process exclusively.
MayWrite(p) == \A q \in Procs \ {p} : pc[q] \notin Exclusive \cup {"turn"}

\* The owner lock, by the worker's guard or by the runtime with its child.
Owns(p) == owner = p
ActionsAllowed(p) == view[p].ownership = "owned" /\ ~view[p].recovery
SaveAllowed(p) ==
    /\ view[p].ownership = "owned"
    /\ ~view[p].recovery \/ view[p].doubt

\* PersistenceState::NotCommitted; whether a recovery is required stays.
NotCommitted(p) == [view[p] EXCEPT !.doubt = FALSE]

\* The end of a command without a word to the runtime.
Finish(p, v) ==
    /\ view' = [view EXCEPT ![p] = v]
    /\ pc' = [pc EXCEPT ![p] = "idle"]
    /\ job' = [job EXCEPT ![p] = NoJob]
    /\ UNCHANGED <<rt, owner>>

\* stop_runtime_for_recovery: the runtime's end releases the owner lock, and
\* the worker asks for it again.
FinishStopped(p, v) ==
    IF rt[p].up
    THEN /\ view' = [view EXCEPT ![p] = v]
         /\ pc' = [pc EXCEPT ![p] = "reacquire"]
         /\ job' = [job EXCEPT ![p] = NoJob]
         /\ rt' = [rt EXCEPT ![p].up = FALSE]
         /\ owner' = NoProc
    ELSE Finish(p, v)

\* A settings replacement that reported success: the settings are shown, and
\* a running runtime gets them, stops or fails.
FinishPersisted(p, saved) ==
    LET v == [view[p] EXCEPT !.cached = saved, !.recovery = FALSE, !.doubt = FALSE]
        affected == view[p].cached.gen # saved.gen /\ rt[p].up
    IN IF ~affected THEN Finish(p, v) /\ UNCHANGED faults
       ELSE IF saved.ref \notin secrets THEN FinishStopped(p, v) /\ UNCHANGED faults
       ELSE /\ view' = [view EXCEPT ![p] = v]
            /\ pc' = [pc EXCEPT ![p] = "idle"]
            /\ job' = [job EXCEPT ![p] = NoJob]
            /\ \E o \in {"ok", "failed"} :
                  /\ Outcome(o)
                  /\ rt' = [rt EXCEPT ![p] = [up |-> o = "ok", made |-> TRUE,
                                              gen |-> saved.gen, ref |-> saved.ref]]
                  /\ owner' = IF o = "ok" THEN owner ELSE NoProc

CleanupPending(p, saved) ==
    [view[p] EXCEPT !.cached = saved, !.recovery = TRUE, !.doubt = FALSE]
InDoubt(p) ==
    [view[p] EXCEPT !.cached = settings', !.recovery = TRUE, !.doubt = TRUE]

\* Reacquire: the worker asks for the owner lock its runtime has released.
Reacquire(p) ==
    /\ pc[p] = "reacquire"
    /\ pc' = [pc EXCEPT ![p] = "idle"]
    /\ IF owner \in {NoProc, p}
       THEN owner' = p /\ view' = [view EXCEPT ![p].ownership = "owned"]
       ELSE view' = [view EXCEPT ![p].ownership = "elsewhere"] /\ UNCHANGED owner
    /\ UNCHANGED <<files, job, seen, rt, faults, crashes>>

-----------------------------------------------------------------------------
(* OpenSettings: take the owner lock and recover the journal.               *)

Open(p) ==
    /\ pc[p] = "idle"
    /\ UNCHANGED <<files, rt, seen, faults, crashes>>
    /\ \/ /\ owner \notin {NoProc, p}
          /\ view' = [view EXCEPT ![p].ownership = "elsewhere"]
          /\ UNCHANGED <<owner, pc, job>>
       \/ /\ owner \in {NoProc, p}
          /\ owner' = p
          /\ IF MayWrite(p)
             THEN /\ pc' = [pc EXCEPT ![p] = "recover"]
                  /\ job' = [job EXCEPT ![p] = [NoJob EXCEPT !.todo = ops, !.cur = settings]]
                  /\ UNCHANGED view
             ELSE /\ view' = [view EXCEPT ![p].ownership = "unavailable"]
                  /\ UNCHANGED <<pc, job>>

RecoveryFailed(p) == Finish(p, [view[p] EXCEPT !.ownership = "unavailable"])

\* Mutant: an update whose settings were replaced is taken back.
JudgeBackwards(op, cur) ==
    IF op.kind = "update" THEN "deleteNew"
    ELSE IF cur = op.old THEN "swap" ELSE "deleteOld"

\* What is left to do of an operation, judged by the reference that the
\* settings name.
Judge(op, cur) ==
    CASE op.kind = "update" /\ cur = op.new -> "deleteOld"
      [] op.kind = "update" /\ cur # op.new /\ cur = op.old -> "deleteNew"
      [] op.kind = "delete" /\ cur = op.old -> "swap"
      [] op.kind = "delete" /\ cur # op.old /\ cur = NoCred -> "deleteOld"
      [] OTHER -> "diagnose"

\* Mutant: what could not be deleted is completed all the same.
CompleteOperationAnyway(p, op) ==
    /\ pc' = [pc EXCEPT ![p] = "recoverComplete"]
    /\ UNCHANGED job

\* The operation is left in the journal, for the reason the outcome counts.
LeaveOperation(p, op) ==
    /\ job' = [job EXCEPT ![p] = [@ EXCEPT !.todo = job[p].todo \ {op}, !.left = TRUE]]
    /\ pc' = [pc EXCEPT ![p] = "recover"]

\* The next operation, judged by the reference read at the start.
RecoverNext(p) ==
    /\ pc[p] = "recover"
    /\ \E op \in job[p].todo :
          LET verdict == Judge(op, job[p].cur.ref) IN
          IF verdict = "diagnose" THEN LeaveOperation(p, op)
          ELSE /\ pc' = [pc EXCEPT ![p] = IF verdict = "swap" THEN "recoverSwap"
                                          ELSE "recoverDelete"]
               /\ job' = [job EXCEPT ![p].op = op]
    /\ UNCHANGED <<files, owner, view, seen, rt, faults, crashes>>

\* A deletion whose settings were not replaced: drop the reference now.
RecoverSwap(p) ==
    /\ pc[p] = "recoverSwap" /\ settings.rev < MaxRev
    /\ \E o \in Replaced :
          LET cur == job[p].cur IN
          /\ Replace(o, [rev |-> cur.rev + 1, gen |-> cur.gen + 1, ref |-> NoCred], ops)
          /\ CASE o = "ok" ->
                     /\ pc' = [pc EXCEPT ![p] = "recoverDelete"]
                     /\ UNCHANGED <<job, view, rt, owner>>
               [] o = "unsynced" ->
                     LeaveOperation(p, job[p].op) /\ UNCHANGED <<view, rt, owner>>
               [] o = "failed" -> RecoveryFailed(p)
    /\ UNCHANGED <<secrets, drawn, seen, crashes>>

\* The key on the side that lost.
RecoverDelete(p) ==
    /\ pc[p] = "recoverDelete"
    /\ LET op == job[p].op
           target == IF Judge(op, job[p].cur.ref) = "deleteNew" THEN op.new ELSE op.old
           done == pc' = [pc EXCEPT ![p] = "recoverComplete"] /\ UNCHANGED job
       IN IF target = NoCred THEN done /\ UNCHANGED <<secrets, faults>>
          ELSE \E o \in {"ok", "failed"} :
                  /\ DeleteKey(o, target)
                  /\ IF o = "ok" THEN done ELSE LeaveOperation(p, op)
    /\ UNCHANGED <<settings, ops, drawn, owner, view, seen, rt, crashes>>

RecoverComplete(p) ==
    /\ pc[p] = "recoverComplete"
    /\ \E o \in Replaced :
          /\ Replace(o, settings, Without(job[p].op))
          /\ IF o = "ok"
             THEN /\ job' = [job EXCEPT ![p].todo = @ \ {job[p].op}]
                  /\ pc' = [pc EXCEPT ![p] = "recover"]
                  /\ UNCHANGED <<view, rt, owner>>
             ELSE RecoveryFailed(p)
    /\ UNCHANGED <<secrets, drawn, seen, crashes>>

\* The list is done: the settings are read again and shown.
Recovered(p) ==
    /\ pc[p] = "recover" /\ job[p].todo = {}
    /\ LET pending == job[p].left \/ ops # {} IN
       Finish(p, [ownership |-> "owned", cached |-> settings,
                  recovery |-> pending \/ view[p].doubt,
                  doubt |-> ~pending /\ view[p].doubt])
    /\ UNCHANGED <<files, seen, faults, crashes>>

-----------------------------------------------------------------------------
(* Saves.                                                                   *)

\* What every command with a write asks first, and the answer without one.
Refused(p) ==
    \/ ~Owns(p) /\ Finish(p, NotCommitted(p))
    \/ Owns(p) /\ ~MayWrite(p) /\ Finish(p, NotCommitted(p))
    \/ /\ Owns(p) /\ MayWrite(p) /\ ops # {}
       /\ \E shown \in {settings, view[p].cached} :
             \* only a credential command leaves the snapshot as it is
             /\ shown = settings \/ ActionsAllowed(p)
             /\ Finish(p, [view[p] EXCEPT !.cached = shown, !.recovery = TRUE, !.doubt = FALSE])
    \/ /\ Owns(p) /\ MayWrite(p) /\ ops = {} /\ settings.rev # seen[p].rev
       /\ Finish(p, [NotCommitted(p) EXCEPT !.cached = settings])
    \/ /\ Owns(p) /\ MayWrite(p) /\ ops = {} /\ settings.rev = seen[p].rev
       /\ settings.ref # seen[p].ref
       /\ Finish(p, NotCommitted(p))

\* Mutant: the revision is not compared.
AdmittedUnseen(p) == Owns(p) /\ MayWrite(p) /\ ops = {}

Admitted(p) ==
    /\ Owns(p) /\ MayWrite(p) /\ ops = {}
    /\ settings.rev = seen[p].rev /\ settings.ref = seen[p].ref

\* Everything but the key: a name, or something the runtime needs.
SaveSettings(p) ==
    /\ pc[p] = "idle" /\ SaveAllowed(p)
    /\ settings.rev < MaxRev
    /\ Admitted(p)
    /\ \E o \in Replaced, affecting \in {0, 1} :
          LET saved == [settings EXCEPT !.rev = @ + 1, !.gen = @ + affecting] IN
          CASE o = "ok" ->
                 /\ settings' = saved
                 /\ FinishPersisted(p, saved)
            [] o = "unsynced" ->
                 /\ settings' = saved /\ Outcome(o)
                 /\ FinishStopped(p, InDoubt(p))
            [] o = "failed" ->
                 /\ UNCHANGED settings /\ Outcome(o)
                 /\ Finish(p, NotCommitted(p))
    /\ UNCHANGED <<ops, secrets, drawn, seen, crashes>>

\* A save or a credential command that ends before it writes anything.
RefuseSave(p) ==
    /\ pc[p] = "idle" /\ SaveAllowed(p)
    /\ Refused(p)
    /\ UNCHANGED <<files, seen, faults, crashes>>

\* update_custom_credential_detailed, delete_custom_credential_detailed: the
\* operation enters the journal before anything else happens.
BeginOperation(p, op) ==
    /\ pc[p] = "idle" /\ ActionsAllowed(p)
    /\ settings.rev < MaxRev
    /\ Admitted(p)
    /\ \E o \in Replaced :
          /\ Replace(o, settings, ops \cup {op})
          /\ IF o = "ok"
             THEN /\ pc' = [pc EXCEPT ![p] = IF op.kind = "update" THEN "set" ELSE "swap"]
                  /\ job' = [job EXCEPT ![p].op = op]
                  /\ UNCHANGED <<view, rt, owner>>
             ELSE Finish(p, NotCommitted(p))
    /\ UNCHANGED <<secrets, seen, crashes>>

UpdateCredential(p) ==
    \E c \in Creds \ drawn :
        /\ drawn' = drawn \cup {c}
        /\ BeginOperation(p, [kind |-> "update", new |-> c, old |-> seen[p].ref])

DeleteCredential(p) ==
    /\ seen[p].ref # NoCred
    /\ BeginOperation(p, [kind |-> "delete", new |-> NoCred, old |-> seen[p].ref])
    /\ UNCHANGED drawn

\* The new key is stored under its new reference; a refusal may have stored it.
SetKey(p) ==
    /\ pc[p] = "set"
    /\ \E o \in {"ok", "failed"} :
          /\ Outcome(o)
          /\ secrets' \in IF o = "ok" THEN {secrets \cup {job[p].op.new}}
                          ELSE {secrets, secrets \cup {job[p].op.new}}
          /\ IF o = "ok"
             THEN pc' = [pc EXCEPT ![p] = "swap"] /\ UNCHANGED <<view, job, rt, owner>>
             ELSE Finish(p, NotCommitted(p))
    /\ UNCHANGED <<settings, ops, drawn, seen, crashes>>

\* The settings that name the new key, or none.
SwapSettings(p) ==
    /\ pc[p] = "swap"
    /\ \E o \in Replaced :
          /\ Replace(o, [rev |-> settings.rev + 1, gen |-> settings.gen + 1,
                         ref |-> job[p].op.new], ops)
          /\ CASE o = "ok" ->
                    pc' = [pc EXCEPT ![p] = "mark"] /\ UNCHANGED <<view, job, rt, owner>>
               [] o = "unsynced" -> FinishStopped(p, InDoubt(p))
               [] o = "failed" /\ job[p].op.kind = "update" ->
                    pc' = [pc EXCEPT ![p] = "undo"] /\ UNCHANGED <<view, job, rt, owner>>
               [] o = "failed" /\ job[p].op.kind = "delete" ->
                    Finish(p, NotCommitted(p))
    /\ UNCHANGED <<secrets, drawn, seen, crashes>>

\* The settings kept the old reference: the new key goes, if it can.
UndoKey(p) ==
    /\ pc[p] = "undo"
    /\ \E o \in {"ok", "failed"} : DeleteKey(o, job[p].op.new)
    /\ Finish(p, NotCommitted(p))
    /\ UNCHANGED <<settings, ops, drawn, seen, crashes>>

\* mark_settings_swapped: the entry's state changes, which recovery ignores.
MarkSwapped(p) ==
    /\ pc[p] = "mark"
    /\ \E o \in Replaced :
          /\ Replace(o, settings, ops)
          /\ IF o = "ok"
             THEN pc' = [pc EXCEPT ![p] = "clean"] /\ UNCHANGED <<view, job, rt, owner>>
             ELSE FinishStopped(p, CleanupPending(p, settings))
    /\ UNCHANGED <<secrets, drawn, seen, crashes>>

\* The key nothing names any more.
DeleteOldKey(p) ==
    /\ pc[p] = "clean"
    /\ LET old == job[p].op.old
           done == pc' = [pc EXCEPT ![p] = "complete"] /\ UNCHANGED <<view, job, rt, owner>>
       IN IF old = NoCred THEN done /\ UNCHANGED <<secrets, faults>>
          ELSE \E o \in {"ok", "failed"} :
                  /\ DeleteKey(o, old)
                  /\ IF o = "ok" THEN done
                     ELSE FinishStopped(p, CleanupPending(p, settings))
    /\ UNCHANGED <<settings, ops, drawn, seen, crashes>>

CompleteOperation(p) ==
    /\ pc[p] = "complete"
    /\ \/ /\ ops' = Without(job[p].op)
          /\ FinishPersisted(p, settings)
       \/ \E o \in {"failed", "unsynced"} :
             /\ Replace(o, settings, Without(job[p].op))
             /\ FinishStopped(p, CleanupPending(p, settings))
    /\ UNCHANGED <<settings, secrets, drawn, seen, crashes>>

-----------------------------------------------------------------------------
(* Turns, probes and the runtime.                                           *)

\* The runtime was made for the cached settings.
Fits(p) == rt[p].made /\ rt[p].gen = view[p].cached.gen

\* An existing runtime is given other settings, unless the worker holds the
\* owner lock for the next one.
Reconfigures(p) == rt[p].made /\ ~Fits(p) /\ ~(Owns(p) /\ ~rt[p].up)

\* ensure_runtime: the runtime for the cached settings, started or restarted
\* where it is not running for them.  It ends up and owning, or down.
EnsureRuntime(p) ==
    LET c == view[p].cached
        fits == Fits(p)
        with == IF fits THEN rt[p] ELSE [rt[p] EXCEPT !.made = TRUE, !.gen = c.gen, !.ref = c.ref]
    IN \/ /\ rt[p].up /\ fits
          /\ UNCHANGED <<rt, owner, faults>>
       \/ /\ ~(rt[p].up /\ fits) /\ owner \in {NoProc, p}
          /\ \E o \in {"ok", "failed"} :
                /\ Outcome(o)
                /\ rt' = [rt EXCEPT ![p] = [with EXCEPT !.up = o = "ok"]]
                /\ owner' = IF o = "ok" THEN p ELSE NoProc
       \/ /\ ~(rt[p].up /\ fits) /\ owner \notin {NoProc, p}
          /\ rt' = [rt EXCEPT ![p] = [with EXCEPT !.up = FALSE]]
          /\ UNCHANGED <<owner, faults>>

\* A turn or a probe: under the shared lock, with the generation on the disk
\* the one the runtime is ready for.
StartTurn(p) ==
    /\ pc[p] = "idle" /\ ActionsAllowed(p)
    /\ view[p].cached.ref \in secrets
    /\ EnsureRuntime(p)
    /\ IF rt'[p].up
       THEN /\ pc' = IF /\ \A q \in Procs \ {p} : pc[q] \notin Exclusive
                        /\ settings.gen = view[p].cached.gen
                        /\ rt'[p].gen = view[p].cached.gen
                     THEN [pc EXCEPT ![p] = "turn"] ELSE pc
            /\ UNCHANGED view
       ELSE /\ view' = IF Reconfigures(p) THEN view
                       ELSE [view EXCEPT ![p].ownership = "unknown"]
            /\ UNCHANGED pc
    /\ UNCHANGED <<files, job, seen, crashes>>

EndTurn(p) ==
    /\ pc[p] = "turn"
    /\ pc' = [pc EXCEPT ![p] = "idle"]
    /\ UNCHANGED <<files, owner, job, view, seen, rt, faults, crashes>>

\* The child dies; its runtime lets the owner lock go.
ChildDies(p) ==
    /\ rt[p].up /\ pc[p] \in {"idle", "turn"}
    /\ Outcome("died")
    /\ rt' = [rt EXCEPT ![p].up = FALSE]
    /\ owner' = NoProc
    /\ UNCHANGED <<files, pc, job, view, seen, crashes>>

-----------------------------------------------------------------------------
(* The settings page, and processes.                                        *)

\* The page takes the snapshot over when it hears of a change.
ShowSettings(p) ==
    /\ pc[p] # "down" /\ seen[p] # view[p].cached
    /\ seen' = [seen EXCEPT ![p] = view[p].cached]
    /\ UNCHANGED <<files, owner, pc, job, view, rt, faults, crashes>>

\* A process dies, at any step, or is quit; its locks and its child go.
Die(p) ==
    /\ pc[p] # "down" /\ crashes < MaxCrashes
    /\ crashes' = crashes + 1
    /\ pc' = [pc EXCEPT ![p] = "down"]
    /\ job' = [job EXCEPT ![p] = NoJob]
    /\ view' = [view EXCEPT ![p] = FreshView]
    /\ seen' = [seen EXCEPT ![p] = Default]
    /\ rt' = [rt EXCEPT ![p] = NoRuntime]
    /\ owner' = IF Owns(p) THEN NoProc ELSE owner
    /\ UNCHANGED <<files, faults>>

Launch(p) ==
    /\ pc[p] = "down"
    /\ pc' = [pc EXCEPT ![p] = "idle"]
    /\ UNCHANGED <<files, owner, job, view, seen, rt, faults, crashes>>

Step(p) ==
    \/ Open(p) \/ RecoverNext(p) \/ RecoverSwap(p) \/ RecoverDelete(p)
    \/ RecoverComplete(p) \/ Recovered(p)
    \/ SaveSettings(p) \/ RefuseSave(p)
    \/ UpdateCredential(p) \/ DeleteCredential(p)
    \/ SetKey(p) \/ SwapSettings(p) \/ UndoKey(p)
    \/ MarkSwapped(p) \/ DeleteOldKey(p) \/ CompleteOperation(p)
    \/ Reacquire(p) \/ StartTurn(p) \/ EndTurn(p) \/ ChildDies(p)
    \/ ShowSettings(p) \/ Die(p) \/ Launch(p)

Next == \E p \in Procs : Step(p)

Spec == Init /\ [][Next]_vars

-----------------------------------------------------------------------------
(* Properties.                                                              *)

\* The key the settings name is in the credential store, whatever failed and
\* whoever died: deletions follow the settings (connect.rs, recover).
NamedKeyExists == settings.ref \in secrets \cup {NoCred}

\* Every other key is named by an operation of the journal, so that a
\* recovery will remove it: no key is ever forgotten in the system's store
\* (begin comes before set, complete after delete).
KeysAreTracked ==
    secrets \subseteq {settings.ref} \cup
        UNION {{op.new, op.old} : op \in ops}

\* A recovery always finds the settings on one side of the operation: there
\* is never a second operation, and left_for_diagnosis does not happen.
RecoveryCanJudge ==
    /\ \A op, other \in ops : op = other
    /\ \A op \in ops :
          IF op.kind = "update" THEN settings.ref \in {op.new, op.old}
          ELSE settings.ref \in {op.old, NoCred}

\* What the journal owes the settings and the system's store.
JournalIsSound == TypeOK /\ KeysAreTracked /\ RecoveryCanJudge

\* While a turn holds the shared lock the settings stay those its runtime
\* was made for, and while the child lives its key is the one they name,
\* although the owner lock may have gone to another process with a child that
\* died (with_generation_checked_lock).
TurnKeepsItsSettings ==
    \A p \in Procs : pc[p] = "turn" =>
        /\ settings.gen = rt[p].gen
        /\ rt[p].ref = settings.ref

\* Settings are only replaced by the owner, and over settings its page has
\* shown, although another process may have had the owner lock in between
\* (expected_revision); only the recovery drops a reference unseen.
NoBlindSave ==
    [][settings' # settings =>
          \E p \in Procs :
             /\ Owns(p)
             /\ \/ pc[p] = "recoverSwap"
                \/ settings.rev = seen[p].rev /\ settings.ref = seen[p].ref]_vars
=============================================================================
