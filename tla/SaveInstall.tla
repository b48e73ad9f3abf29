---------------------------- MODULE SaveInstall ----------------------------
(***************************************************************************)
(* How one save reaches the disk: crates/session/src/service.rs,           *)
(* `atomic_write_checked`, `install_checked_with`, `restore_displaced` and *)
(* `recover_displaced_file`, for a single target path.                     *)
(*                                                                         *)
(* A file object is [ino, data]: two names of one object share its ino.    *)
(* `path` is the object the target path names, `displaced` the set of      *)
(* names .{stem}.hane-displaced-{pid}-{n}.tmp next to it.  External        *)
(* programs replace, rewrite in place and delete the target at any moment; *)
(* processes may die at any moment.                                        *)
(***************************************************************************)
EXTENDS Naturals, FiniteSets

CONSTANTS Savers,       \* threads that save to the path (one per process)
          Loaders,      \* threads that open or check the path
          Pids,         \* process ids
          PidOf,        \* the process of each thread
          Inos,         \* file identities the disk can hand out
          Data,         \* what a file can hold
          NoFile,       \* nothing at the path
          NoData,       \* the `data` of a missing file
          Guards,       \* overwrite guards the jobs may carry
          Pinning,      \* hard links work and prove identity (Unix)
          MaxAttempts,  \* MAX_INSTALL_ATTEMPTS
          MaxStuck      \* bound: names left behind that could not be removed

Threads == Savers \union Loaders

ASSUME ThreadsAssumption ==
    /\ Savers \intersect Loaders = {}
    /\ PidOf \in [Threads -> Pids]
    /\ \A s, r \in Savers : PidOf[s] = PidOf[r] => s = r

ASSUME DataAssumption ==
    /\ NoFile \notin [ino : Inos, data : Data]
    /\ NoData \notin Data
    /\ NoFile \notin Inos

ASSUME AttemptsAssumption == MaxAttempts \in Nat \ {0} /\ MaxStuck \in Nat

\* What a guard asks of the version it may replace: "force" asks nothing,
\* "free" asks that there is none (ExpectStamp(None), and ExpectContent of a
\* session that never knew a stamp), any other guard is the baseline content.
ASSUME GuardsAssumption ==
    /\ Guards \subseteq {"force", "free"} \union Data
    /\ "none" \notin Guards

ASSUME PinningAssumption == Pinning \in BOOLEAN

VARIABLES path,       \* the file at the target, or NoFile
          displaced,  \* names of set-aside versions: [pid, file, kind]
          alive,      \* is the process running
          pc,         \* step of each thread
          attempt,    \* round of install_checked_with
          guard,      \* guard of the thread's job
          temp,       \* the durable temporary file of the thread's job
          aside,      \* ino the thread set aside in this round, or NoFile
          found,      \* the name the thread's recovery scan picked, or NoFile
          late,       \* history: the target changed after the last look at it
          result      \* how the last job of the thread ended

disk == <<path, displaced>>
vars == <<path, displaced, alive, pc, attempt, guard, temp, aside, found,
          late, result>>

Files == [ino : Inos, data : Data]

\* What a set-aside name stands for (history): a second name of the version
\* at the path, the only name of a version moved away from the path, a version
\* already replaced whose name was not removed yet, or a name that could not be
\* removed.
Kinds == {"pinned", "moved", "replaced", "stuck"}
Displaced == [pid : Pids, file : Files, kind : Kinds]

SaveSteps == {"scan", "restoreOld", "write", "install", "pinned", "checked",
              "verified", "cleanup", "absent", "vacant", "moved", "accepted",
              "restore"}
Steps == SaveSteps \union {"idle", "dead", "loadScan", "loadRestore"}

TypeOK ==
    /\ path \in Files \union {NoFile}
    /\ displaced \subseteq Displaced
    /\ alive \in [Pids -> BOOLEAN]
    /\ pc \in [Threads -> Steps]
    /\ attempt \in [Savers -> 1..MaxAttempts]
    /\ guard \in [Savers -> Guards \union {"force"}]
    /\ temp \in [Savers -> Files \union {NoFile}]
    /\ aside \in [Savers -> Inos \union {NoFile}]
    /\ found \in [Threads -> [pid : Pids, ino : Inos] \union {NoFile}]
    /\ late \in [Savers -> BOOLEAN]
    /\ result \in [Savers -> {"none", "saved", "conflict", "io"}]

(***************************************************************************)
(* Helpers                                                                 *)
(***************************************************************************)

DataAt(file) == IF file = NoFile THEN NoData ELSE file.data

\* check_overwrite_guard and check_content_guard on the version found.
Accepts(g, data) ==
    \/ g = "force"
    \/ g = "free" /\ data = NoData
    \/ g = data

\* The identities some name or some durable temporary file still holds: the
\* disk never hands one of these out again.
HeldInos ==
    {d.file.ino : d \in displaced}
    \union (IF path = NoFile THEN {} ELSE {path.ino})
    \union {temp[s].ino : s \in {r \in Savers : temp[r] # NoFile}}

\* The names thread t's process made for the version t set aside this round.
Own(t) == {d \in displaced :
             d.pid = PidOf[t] /\ d.file.ino = aside[t] /\ d.kind # "stuck"}

Stuck(t) == {[pid |-> d.pid, file |-> d.file, kind |-> "stuck"] : d \in Own(t)}

\* What `check(&aside)` reads: nothing when another process took the name.
AsideData(t) == IF Own(t) = {} THEN NoData
                ELSE (CHOOSE d \in Own(t) : TRUE).file.data

\* The target changed under the savers in `window`: they have not seen it.
MarkLate(window) == [s \in Savers |-> late[s] \/ pc[s] \in window]
MarkLateExcept(t, window) ==
    [s \in Savers |-> late[s] \/ (s # t /\ pc[s] \in window)]

SawObject == {"verified"}             \* a later replacement goes unnoticed
SawContent == {"checked", "verified"} \* a later in-place write goes unnoticed

Goto(t, step) == pc' = [pc EXCEPT ![t] = step]

\* The temporary file of a failed job is removed (or never was installed).
FinishSeen(t, how, seen) ==
    /\ Goto(t, "idle")
    /\ result' = [result EXCEPT ![t] = how]
    /\ temp' = [temp EXCEPT ![t] = NoFile]
    /\ aside' = [aside EXCEPT ![t] = NoFile]
    /\ attempt' = [attempt EXCEPT ![t] = 1]
    /\ late' = [seen EXCEPT ![t] = FALSE]
    /\ guard' = [guard EXCEPT ![t] = "force"]

Finish(t, how) == FinishSeen(t, how, late)

\* Mutated: the rounds are not counted.
RetryUncounted(t) ==
    /\ Goto(t, "install")
    /\ aside' = [aside EXCEPT ![t] = NoFile]
    /\ late' = [late EXCEPT ![t] = FALSE]
    /\ UNCHANGED <<attempt, guard, temp, result>>

\* `continue`: another round, or ExternalChange after the last one.
Retry(t) ==
    IF attempt[t] < MaxAttempts
    THEN /\ Goto(t, "install")
         /\ attempt' = [attempt EXCEPT ![t] = @ + 1]
         /\ aside' = [aside EXCEPT ![t] = NoFile]
         /\ late' = [late EXCEPT ![t] = FALSE]
         /\ UNCHANGED <<guard, temp, result>>
    ELSE Finish(t, "conflict")

\* `check` refuses data the guard does not accept; a guard that has to read
\* the file also fails when the read does.
Refuses(g, data, how) ==
    \/ how = "conflict" /\ ~Accepts(g, data)
    \/ how = "io" /\ g \notin {"force", "free"}

jobVars == <<attempt, guard, temp, aside, late, result>>

Init ==
    /\ path \in Files \union {NoFile}
    /\ displaced = {}
    /\ alive = [p \in Pids |-> TRUE]
    /\ pc = [t \in Threads |-> "idle"]
    /\ attempt = [s \in Savers |-> 1]
    /\ guard = [s \in Savers |-> "force"]
    /\ temp = [s \in Savers |-> NoFile]
    /\ aside = [s \in Savers |-> NoFile]
    /\ found = [t \in Threads |-> NoFile]
    /\ late = [s \in Savers |-> FALSE]
    /\ result = [s \in Savers |-> "none"]

(***************************************************************************)
(* recover_displaced_file, run first by every load and every save          *)
(***************************************************************************)

\* The scan returns false when the path exists, when a name of this process
\* is found, and unless exactly one candidate is left.
RecoveryCandidate(t, d) ==
    /\ path = NoFile
    /\ \A e \in displaced : e.pid # PidOf[t]
    /\ displaced = {d}

Name(d) == [pid |-> d.pid, ino |-> d.file.ino]

ScanFor(t, restoring, otherwise) ==
    /\ \/ \E d \in displaced :
            /\ RecoveryCandidate(t, d)
            /\ found' = [found EXCEPT ![t] = Name(d)]
            /\ Goto(t, restoring)
       \/ /\ ~ \E d \in displaced : RecoveryCandidate(t, d)
          /\ Goto(t, otherwise)
          /\ UNCHANGED found
    /\ UNCHANGED <<disk, alive, jobVars>>

\* rename_file_without_replace(only, path): refused when a file has appeared
\* at the path or the candidate is gone meanwhile.
RenameBack(t) ==
    \/ \E d \in displaced :
         /\ path = NoFile
         /\ found[t] = Name(d)
         /\ path' = d.file
         /\ displaced' = displaced \ {d}
         /\ late' = MarkLate(SawObject)
    \/ /\ path # NoFile \/ \A d \in displaced : found[t] # Name(d)
       /\ UNCHANGED <<disk, late>>

RestoreFor(t, next) ==
    /\ RenameBack(t)
    /\ Goto(t, next)
    /\ found' = [found EXCEPT ![t] = NoFile]
    /\ UNCHANGED <<alive, attempt, guard, temp, aside, result>>

\* load_verified
BeginLoad(t) ==
    /\ t \in Loaders
    /\ pc[t] = "idle"
    /\ Goto(t, "loadScan")
    /\ UNCHANGED <<disk, alive, jobVars, found>>

LoadScan(t) == pc[t] = "loadScan" /\ ScanFor(t, "loadRestore", "idle")

LoadRestore(t) == pc[t] = "loadRestore" /\ RestoreFor(t, "idle")

(***************************************************************************)
(* atomic_write_checked                                                    *)
(***************************************************************************)

\* OsFileService::save_checked checks the path once before it writes.
BeginSave(t, g) ==
    /\ t \in Savers
    /\ pc[t] = "idle"
    /\ \/ /\ Accepts(g, DataAt(path))
          /\ Goto(t, "scan")
          /\ guard' = [guard EXCEPT ![t] = g]
          /\ result' = [result EXCEPT ![t] = "none"]
       \/ \E how \in {"conflict", "io"} :
            /\ Refuses(g, DataAt(path), how)
            /\ result' = [result EXCEPT ![t] = how]
            /\ UNCHANGED <<pc, guard>>
    /\ UNCHANGED <<disk, alive, attempt, temp, aside, found, late>>

\* The write starts with a recovery scan, which looks at the path again.
SaveScan(t) == pc[t] = "scan" /\ ScanFor(t, "restoreOld", "write")

SaveRestoreOld(t) == pc[t] = "restoreOld" /\ RestoreFor(t, "write")

\* The temporary file is written, flushed and synced under a fresh identity.
WriteTemporary(t, data) ==
    /\ pc[t] = "write"
    /\ \E ino \in Inos \ HeldInos :
         temp' = [temp EXCEPT ![t] = [ino |-> ino, data |-> data]]
    /\ Goto(t, "install")
    /\ UNCHANGED <<disk, alive, attempt, guard, aside, found, late, result>>

\* Disk full, directory at the path, parent gone: the write, the move aside
\* or the install onto a free name fails with nothing moved.
WriteFails(t) ==
    /\ pc[t] \in {"write", "install", "vacant"}
    /\ Finish(t, "io")
    /\ UNCHANGED <<disk, alive, found>>

(***************************************************************************)
(* install_checked_with                                                    *)
(***************************************************************************)

\* remove_file(&aside), whose failure is ignored: the name then stays for good.
DropAside(t) ==
    \/ displaced' = displaced \ Own(t)
    \/ /\ Cardinality({d \in displaced : d.kind = "stuck"}) < MaxStuck
       /\ displaced' = (displaced \ Own(t)) \union Stuck(t)

SetAside(t, kind) == [pid |-> PidOf[t], file |-> path, kind |-> kind]

\* hard_link(path, aside)
Pin(t) ==
    /\ pc[t] = "install"
    /\ Pinning
    /\ path # NoFile
    /\ displaced' = displaced \union {SetAside(t, "pinned")}
    /\ aside' = [aside EXCEPT ![t] = path.ino]
    /\ Goto(t, "pinned")
    /\ UNCHANGED <<path, alive, attempt, guard, temp, found, late, result>>

\* rename_file_without_replace(path, aside), where links are unavailable
MoveAside(t) ==
    /\ pc[t] = "install"
    /\ ~Pinning
    /\ path # NoFile
    /\ displaced' = displaced \union {SetAside(t, "moved")}
    /\ aside' = [aside EXCEPT ![t] = path.ino]
    /\ path' = NoFile
    /\ Goto(t, "moved")
    /\ UNCHANGED <<alive, attempt, guard, temp, found, late, result>>

FindAbsent(t) ==
    /\ pc[t] = "install"
    /\ path = NoFile
    /\ Goto(t, "absent")
    /\ UNCHANGED <<disk, alive, jobVars, found>>

\* check(path)? of the NotFound arms: it judges whatever is there by now.
CheckAbsent(t) ==
    /\ pc[t] = "absent"
    /\ \/ /\ Accepts(guard[t], DataAt(path))
          /\ Goto(t, "vacant")
          /\ UNCHANGED jobVars
       \/ \E how \in {"conflict", "io"} :
            Refuses(guard[t], DataAt(path), how) /\ Finish(t, how)
    /\ UNCHANGED <<disk, alive, found>>

\* rename_file_without_replace(temporary, path) onto a free name
InstallVacant(t) ==
    /\ pc[t] = "vacant"
    /\ IF path = NoFile
       THEN path' = temp[t] /\ FinishSeen(t, "saved", MarkLate(SawObject))
       ELSE Retry(t) /\ UNCHANGED path
    /\ UNCHANGED <<displaced, alive, found>>

\* check(&aside) of the pin: a refusal only drops the second name.
CheckPinned(t) ==
    /\ pc[t] = "pinned"
    /\ \/ /\ Accepts(guard[t], AsideData(t))
          /\ Goto(t, "checked")
          /\ UNCHANGED <<displaced, jobVars>>
       \/ \E how \in {"conflict", "io"} :
            /\ Refuses(guard[t], AsideData(t), how)
            /\ DropAside(t)
            /\ Finish(t, how)
    /\ UNCHANGED <<path, alive, found>>

\* same_file(path, &aside): false as soon as either name is gone.
SameFile(t) == path # NoFile /\ path.ino = aside[t] /\ Own(t) # {}

\* Mutated: the pinned version is taken for the one at the path.
VerifyPinnedUnseen(t) ==
    /\ pc[t] = "checked"
    /\ Goto(t, "verified")
    /\ UNCHANGED <<disk, jobVars, alive, found>>

VerifyPinned(t) ==
    /\ pc[t] = "checked"
    /\ IF SameFile(t)
       THEN /\ Goto(t, "verified")
            /\ UNCHANGED <<displaced, jobVars>>
       ELSE /\ DropAside(t)
            /\ Retry(t)
    /\ UNCHANGED <<path, alive, found>>

Replaced(t) ==
    {[pid |-> d.pid, file |-> d.file, kind |-> "replaced"] : d \in Own(t)}

\* fs::rename(temporary, path): replaces whatever the path names by now.
InstallPinned(t) ==
    /\ pc[t] = "verified"
    /\ path' = temp[t]
    /\ temp' = [temp EXCEPT ![t] = NoFile]
    /\ displaced' = (displaced \ Own(t)) \union Replaced(t)
    /\ late' = MarkLateExcept(t, SawObject)
    /\ Goto(t, "cleanup")
    /\ UNCHANGED <<alive, attempt, guard, aside, found, result>>

InstallPinnedFails(t) ==
    /\ pc[t] = "verified"
    /\ DropAside(t)
    /\ Finish(t, "io")
    /\ UNCHANGED <<path, alive, found>>

\* Mutated: only the check before the write decides.
CheckMovedSkipped(t) ==
    /\ pc[t] = "moved"
    /\ Goto(t, "accepted")
    /\ UNCHANGED <<disk, alive, jobVars, found>>

\* check(&aside) of the moved version
CheckMoved(t) ==
    /\ pc[t] = "moved"
    /\ \/ /\ Accepts(guard[t], AsideData(t))
          /\ Goto(t, "accepted")
          /\ UNCHANGED result
       \/ \E how \in {"conflict", "io"} :
            /\ Refuses(guard[t], AsideData(t), how)
            /\ Goto(t, "restore")
            /\ result' = [result EXCEPT ![t] = how]
    /\ UNCHANGED <<disk, alive, attempt, guard, temp, aside, found, late>>

\* Mutated: a plain rename, which replaces.
InstallMovedReplacing(t) ==
    /\ pc[t] = "accepted"
    /\ path' = temp[t]
    /\ temp' = [temp EXCEPT ![t] = NoFile]
    /\ displaced' = (displaced \ Own(t)) \union Replaced(t)
    /\ Goto(t, "cleanup")
    /\ UNCHANGED <<attempt, guard, aside, late, result, alive, found>>

\* rename_file_without_replace(temporary, path) after the move
InstallMoved(t) ==
    /\ pc[t] = "accepted"
    /\ IF path = NoFile
       THEN /\ path' = temp[t]
            /\ temp' = [temp EXCEPT ![t] = NoFile]
            /\ displaced' = (displaced \ Own(t)) \union Replaced(t)
            /\ Goto(t, "cleanup")
            /\ UNCHANGED <<attempt, guard, aside, late, result>>
       ELSE /\ DropAside(t)
            /\ Retry(t)
            /\ UNCHANGED path
    /\ UNCHANGED <<alive, found>>

InstallMovedFails(t) ==
    /\ pc[t] = "accepted"
    /\ Goto(t, "restore")
    /\ result' = [result EXCEPT ![t] = "io"]
    /\ UNCHANGED <<disk, alive, attempt, guard, temp, aside, found, late>>

\* Mutated: the version is dropped when it cannot be put back.
RestoreMovedOrDrop(t) ==
    /\ pc[t] = "restore"
    /\ IF path = NoFile THEN \E d \in Own(t) : path' = d.file ELSE UNCHANGED path
    /\ displaced' = displaced \ Own(t)
    /\ Finish(t, result[t])
    /\ UNCHANGED <<alive, found>>

\* restore_displaced: put back unless another file took the path; then the
\* version stays at its aside name and the failure becomes an I/O error.
RestoreMoved(t) ==
    /\ pc[t] = "restore"
    /\ IF path = NoFile /\ Own(t) # {}
       THEN \E d \in Own(t) :
              /\ path' = d.file
              /\ displaced' = displaced \ {d}
              /\ Finish(t, result[t])
       ELSE Finish(t, "io") /\ UNCHANGED disk
    /\ UNCHANGED <<alive, found>>

\* remove_file(&aside) after the install
RemoveAside(t) ==
    /\ pc[t] = "cleanup"
    /\ DropAside(t)
    /\ Finish(t, "saved")
    /\ UNCHANGED <<path, alive, found>>

(***************************************************************************)
(* Environment                                                             *)
(***************************************************************************)

\* Another program replaces the file atomically, or creates it.
ExternalReplace(data) ==
    /\ \E ino \in Inos \ HeldInos : path' = [ino |-> ino, data |-> data]
    /\ late' = MarkLate(SawObject)
    /\ UNCHANGED <<displaced, alive, pc, attempt, guard, temp, aside, found, result>>

\* Another program writes into the existing file, under all its names.
ExternalRewrite(data) ==
    /\ path # NoFile
    /\ path' = [ino |-> path.ino, data |-> data]
    /\ displaced' = {IF d.file.ino = path.ino
                     THEN [pid |-> d.pid, file |-> path', kind |-> d.kind]
                     ELSE d : d \in displaced}
    /\ late' = MarkLate(SawContent)
    /\ UNCHANGED <<alive, pc, attempt, guard, temp, aside, found, result>>

ExternalDelete ==
    /\ path # NoFile
    /\ path' = NoFile
    /\ UNCHANGED <<displaced, alive, pc, jobVars, found>>

\* The process dies between any two steps; its set-aside names stay.
Crash(p) ==
    /\ alive[p]
    /\ alive' = [alive EXCEPT ![p] = FALSE]
    /\ pc' = [t \in Threads |-> IF PidOf[t] = p THEN "dead" ELSE pc[t]]
    /\ temp' = [s \in Savers |-> IF PidOf[s] = p THEN NoFile ELSE temp[s]]
    /\ UNCHANGED <<disk, attempt, guard, aside, found, late, result>>

Save(t) ==
    \/ SaveScan(t)
    \/ SaveRestoreOld(t)
    \/ \E data \in Data : WriteTemporary(t, data)
    \/ WriteFails(t)
    \/ Pin(t) \/ MoveAside(t) \/ FindAbsent(t)
    \/ CheckAbsent(t) \/ InstallVacant(t)
    \/ CheckPinned(t) \/ VerifyPinned(t)
    \/ InstallPinned(t) \/ InstallPinnedFails(t)
    \/ CheckMoved(t) \/ InstallMoved(t) \/ InstallMovedFails(t)
    \/ RestoreMoved(t)
    \/ RemoveAside(t)

Load(t) == LoadScan(t) \/ LoadRestore(t)

External ==
    \/ \E data \in Data : ExternalReplace(data) \/ ExternalRewrite(data)
    \/ ExternalDelete

Next ==
    \/ \E t \in Savers : Save(t) \/ \E g \in Guards : BeginSave(t, g)
    \/ \E t \in Loaders : Load(t) \/ BeginLoad(t)
    \/ External
    \/ \E p \in Pids : Crash(p)

Fairness == \A t \in Savers : WF_vars(Save(t))

Spec == Init /\ [][Next]_vars
FairSpec == Spec /\ Fairness

(***************************************************************************)
(* The inductive invariant behind the action properties                    *)
(***************************************************************************)

\* Names of one object show the same content, and a temporary file is an
\* object of its own.
ObjectsAgree ==
    /\ \A d \in displaced :
         path # NoFile /\ d.file.ino = path.ino => d.file = path
    /\ \A d, e \in displaced : d.file.ino = e.file.ino => d.file = e.file
    /\ \A s \in Savers : temp[s] # NoFile =>
         /\ path # NoFile => path.ino # temp[s].ino
         /\ \A d \in displaced : d.file.ino # temp[s].ino
         /\ \A r \in Savers :
              temp[r] # NoFile /\ temp[r].ino = temp[s].ino => r = s

\* Without pins a set-aside object has exactly one name.
MovedObjectsAreGone ==
    ~Pinning =>
      /\ \A d \in displaced : path # NoFile => d.file.ino # path.ino
      /\ \A d, e \in displaced : d.file.ino = e.file.ino => d = e

\* A job that still believes it may replace what it saw has judged it.
SeenBy(s) ==
    /\ pc[s] \in {"pinned", "checked", "verified"} => Pinning
    /\ pc[s] \in {"moved", "accepted", "restore"} => ~Pinning
    /\ pc[s] = "checked" /\ ~late[s] =>
         \A d \in Own(s) : Accepts(guard[s], d.file.data)
    /\ pc[s] = "verified" /\ ~late[s] /\ path # NoFile =>
         Accepts(guard[s], path.data)
    /\ pc[s] = "accepted" =>
         \A d \in Own(s) : Accepts(guard[s], d.file.data)

SeenIsJudged == \A s \in Savers : SeenBy(s)

\* What a running save relies on between its last look at the disk and its
\* install, in both builds.
InstallInv == ObjectsAgree /\ MovedObjectsAreGone /\ SeenIsJudged

\* The disk is as well formed as that, for every thread (install_checked).
DiskIsSound == TypeOK /\ InstallInv

(***************************************************************************)
(* Properties                                                              *)
(***************************************************************************)

\* The step in which t's new version replaces a version on the disk, and the
\* versions it replaces: what the path names under a pin, what was moved aside
\* otherwise.
Installs(t) == pc[t] \in {"verified", "accepted"} /\ pc'[t] = "cleanup"
Replaces(t) == IF pc[t] = "verified" THEN {path} \ {NoFile}
               ELSE {d.file : d \in Own(t)}
ReplacesJudged(t) == \A file \in Replaces(t) : Accepts(guard[t], file.data)

\* install_checked: a save only replaces a version its guard has accepted,
\* unless that version arrived after the last look at the target.
ReplacesJudgedUnlessLate ==
    [][\A t \in Savers : Installs(t) /\ ~late[t] => ReplacesJudged(t)]_vars

\* install_checked's comment: it installs "without ever replacing a version
\* that was not checked".
ReplacesOnlyJudged ==
    [][\A t \in Savers : Installs(t) => ReplacesJudged(t)]_vars

\* restore_displaced: a version that was moved away from the path loses its
\* last name only by returning to the path or because the job that moved it
\* has accepted it; a crash, a refusal or a foreign file never costs it.
MovedVersionsAreKept ==
    [][\A d \in displaced :
         d.kind = "moved" /\ d \notin displaced' =>
            \/ path' = d.file
            \/ \E s \in Savers : d \in Own(s) /\ Accepts(guard[s], d.file.data)
      ]_vars

\* recover_displaced_file leaves the names of its own process alone: a
\* running save's moved version is only put back by that save or by another
\* process.
OwnMoveNotUndone ==
    [][\A t \in Loaders, d \in displaced :
         pc[t] = "loadRestore" /\ pc'[t] = "idle" /\ d.pid = PidOf[t]
            => d \in displaced']_vars

\* What a save or a recovery moves about is neither lost nor taken from it.
VersionsAreKept == MovedVersionsAreKept /\ OwnMoveNotUndone

\* recover_displaced_file's comment: it restores the version of a process
\* that "died between moving it aside and installing the new one".
RecoversOnlyInterruptedMoves ==
    [][\A d \in displaced \ displaced' :
         path = NoFile /\ path' = d.file => d.kind = "moved"]_vars

\* install_checked_with gives up after MAX_INSTALL_ATTEMPTS rounds: every
\* save ends, however often other programs touch the file, or its process dies.
EverySaveEnds ==
    \A t \in Savers : pc[t] \in SaveSteps ~> pc[t] \in {"idle", "dead"}

(***************************************************************************)
(* The abstract save, for the build that moves the old version aside       *)
(***************************************************************************)

\* A version in the hands of a running save still counts as the file.
InHand == UNION {{d.file.data : d \in Own(s)} :
                   s \in {r \in Savers : pc[r] \in {"moved", "accepted", "restore"}}}

FileOfPath ==
    IF path # NoFile THEN path.data
    ELSE IF InHand # {} THEN CHOOSE data \in InHand : TRUE
    ELSE NoData

JobOf(s) == IF pc[s] \in SaveSteps \ {"cleanup"} THEN guard[s] ELSE "none"

Checked == INSTANCE CheckedSave
             WITH file <- FileOfPath, job <- [s \in Savers |-> JobOf(s)]

\* Move-aside, check, install and restore together are one compare-and-swap
\* on the file a reader finds, and no step of a save is an unchecked change of
\* the file, as those of other programs are.
ImplementsCheckedSave ==
    /\ Checked!Spec
    /\ [][(\E t \in Savers : Save(t)) =>
            Checked!SaverNext
            \/ UNCHANGED <<FileOfPath, [s \in Savers |-> JobOf(s)]>>]_vars
=============================================================================
