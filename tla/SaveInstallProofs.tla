------------------------- MODULE SaveInstallProofs -------------------------
(***************************************************************************)
(* Proofs about SaveInstall, for every number of processes, threads, file  *)
(* identities and contents.                                                *)
(***************************************************************************)
EXTENDS SaveInstall, TLAPS

\* Every thread runs in one process, and no process runs two saves: the process
\* id in a displaced_path name tells whose set-aside version it is.
LEMMA ThreadFacts == /\ Savers \subseteq Threads
                     /\ Loaders \subseteq Threads
                     /\ \A t \in Threads : PidOf[t] \in Pids
                     /\ \A s, r \in Savers : PidOf[s] = PidOf[r] => s = r
                     /\ \A t \in Loaders : t \notin Savers
  BY ThreadsAssumption DEF Threads

JobTypes ==
    /\ pc \in [Threads -> Steps]
    /\ attempt \in [Savers -> 1..MaxAttempts]
    /\ guard \in [Savers -> Guards \union {"force"}]
    /\ temp \in [Savers -> Files \union {NoFile}]
    /\ aside \in [Savers -> Inos \union {NoFile}]
    /\ late \in [Savers -> BOOLEAN]
    /\ result \in [Savers -> {"none", "saved", "conflict", "io"}]

\* The end of a job and the next round keep the types of the job's state.
LEMMA FinishTypes ==
  ASSUME TypeOK, NEW t \in Savers, NEW how \in {"none", "saved", "conflict", "io"},
         NEW seen \in [Savers -> BOOLEAN], FinishSeen(t, how, seen)
  PROVE  JobTypes'
<1>1. t \in Threads /\ 1 \in 1..MaxAttempts
  BY ThreadFacts, AttemptsAssumption
<1> QED
  BY <1>1 DEF TypeOK, JobTypes, FinishSeen, Goto, Steps

\* `continue` in install_checked_with, and giving up after the last round, keep
\* the types of the job's state.
LEMMA RetryTypes ==
  ASSUME TypeOK, NEW t \in Savers, Retry(t)
  PROVE  JobTypes'
<1>1. t \in Threads
  BY ThreadFacts
<1>2. CASE attempt[t] < MaxAttempts
  <2>1. attempt[t] + 1 \in 1..MaxAttempts
    BY <1>2, AttemptsAssumption DEF TypeOK
  <2> QED
    BY <1>1, <1>2, <2>1 DEF TypeOK, JobTypes, Retry, Goto, Steps, SaveSteps
<1>3. CASE ~(attempt[t] < MaxAttempts)
  <2>1. FinishSeen(t, "conflict", late) /\ late \in [Savers -> BOOLEAN]
    BY <1>3 DEF Retry, Finish, TypeOK
  <2> QED
    BY <2>1, FinishTypes
<1> QED
  BY <1>2, <1>3

\* Marking the jobs that missed a change of the target keeps the type of `late`.
LEMMA MarkTypes ==
  ASSUME TypeOK
  PROVE  /\ \A window : MarkLate(window) \in [Savers -> BOOLEAN]
         /\ \A window, t : MarkLateExcept(t, window) \in [Savers -> BOOLEAN]
  BY DEF TypeOK, MarkLate, MarkLateExcept

\* The scan of recover_displaced_file keeps every type.
LEMMA ScanTypes ==
  ASSUME TypeOK, NEW t \in Threads, NEW restoring \in Steps, NEW otherwise \in Steps,
         ScanFor(t, restoring, otherwise)
  PROVE  TypeOK'
<1>1. \A d \in displaced : Name(d) \in [pid : Pids, ino : Inos]
  BY DEF TypeOK, Displaced, Files, Name
<1>2. /\ UNCHANGED <<path, displaced, alive, attempt, guard, temp, aside, late, result>>
      /\ found' \in [Threads -> [pid : Pids, ino : Inos] \union {NoFile}]
      /\ pc' \in [Threads -> Steps]
  BY <1>1 DEF TypeOK, ScanFor, Goto, disk, jobVars
<1> QED
  BY <1>2 DEF TypeOK

\* Every step keeps the types.
LEMMA TypeStep == TypeOK /\ [Next]_vars => TypeOK'
<1> SUFFICES ASSUME TypeOK, [Next]_vars PROVE TypeOK'
  OBVIOUS
<1>0. ASSUME NEW t \in Threads, SaveScan(t) \/ LoadScan(t) PROVE TypeOK'
  <2>1. {"restoreOld", "write", "loadRestore", "idle"} \subseteq Steps
    BY DEF Steps, SaveSteps
  <2>2. CASE ScanFor(t, "restoreOld", "write")
    BY <2>1, <2>2, ScanTypes
  <2>3. CASE ScanFor(t, "loadRestore", "idle")
    BY <2>1, <2>3, ScanTypes
  <2> QED
    BY <1>0, <2>2, <2>3 DEF SaveScan, LoadScan
<1> USE ThreadFacts, AttemptsAssumption
<1> USE DEF TypeOK, Displaced, Files, Steps, SaveSteps, Kinds, Goto, jobVars, disk
<1>1. ASSUME NEW t \in Savers, Save(t) PROVE TypeOK'
  <2>1. CASE SaveScan(t)
    BY <1>0, <2>1
  <2>2. CASE SaveRestoreOld(t)
    BY <2>2, MarkTypes DEF SaveRestoreOld, RestoreFor, RenameBack
  <2>3. ASSUME NEW data \in Data, WriteTemporary(t, data) PROVE TypeOK'
    BY <2>3 DEF WriteTemporary
  <2>4. CASE WriteFails(t)
    BY <2>4 DEF WriteFails, Finish, FinishSeen
  <2>5. CASE Pin(t)
    BY <2>5 DEF Pin, SetAside
  <2>6. CASE MoveAside(t)
    BY <2>6 DEF MoveAside, SetAside
  <2>7. CASE FindAbsent(t)
    BY <2>7 DEF FindAbsent
  <2>8. CASE CheckAbsent(t)
    <3>1. CASE Goto(t, "vacant") /\ UNCHANGED <<disk, alive, found, jobVars>>
      BY <3>1
    <3>2. CASE /\ \E how \in {"conflict", "io"} : Finish(t, how)
               /\ UNCHANGED <<disk, alive, found>>
      BY <3>2, FinishTypes DEF Finish, JobTypes
    <3> QED
      BY <2>8, <3>1, <3>2 DEF CheckAbsent
  <2>9. CASE InstallVacant(t)
    BY <2>9, FinishTypes, RetryTypes, MarkTypes DEF InstallVacant, JobTypes
  <2>10. CASE CheckPinned(t)
    BY <2>10, FinishTypes DEF CheckPinned, DropAside, Stuck, Own, Finish, JobTypes
  <2>11. CASE VerifyPinned(t)
    BY <2>11, RetryTypes DEF VerifyPinned, DropAside, Stuck, Own, JobTypes
  <2>12. CASE InstallPinned(t)
    BY <2>12, MarkTypes DEF InstallPinned, Own, Replaced, JobTypes
  <2>13. CASE InstallPinnedFails(t)
    BY <2>13, FinishTypes DEF InstallPinnedFails, DropAside, Stuck, Own, Finish, JobTypes
  <2>14. CASE CheckMoved(t)
    BY <2>14 DEF CheckMoved
  <2>15. CASE InstallMoved(t)
    BY <2>15, RetryTypes DEF InstallMoved, DropAside, Stuck, Own, Replaced, JobTypes
  <2>16. CASE InstallMovedFails(t)
    BY <2>16 DEF InstallMovedFails
  <2>17. CASE RestoreMoved(t)
    BY <2>17, FinishTypes DEF RestoreMoved, Own, Finish, JobTypes
  <2>18. CASE RemoveAside(t)
    BY <2>18, FinishTypes DEF RemoveAside, DropAside, Stuck, Own, Finish, JobTypes
  <2> QED
    BY <1>1, <2>1, <2>2, <2>3, <2>4, <2>5, <2>6, <2>7, <2>8, <2>9, <2>10, <2>11,
       <2>12, <2>13, <2>14, <2>15, <2>16, <2>17, <2>18 DEF Save
<1>2. ASSUME NEW t \in Savers, NEW g \in Guards, BeginSave(t, g) PROVE TypeOK'
  BY <1>2 DEF BeginSave
<1>3. ASSUME NEW t \in Loaders, Load(t) \/ BeginLoad(t) PROVE TypeOK'
  <2>1. CASE BeginLoad(t)
    BY <2>1 DEF BeginLoad
  <2>2. CASE LoadScan(t)
    BY <1>0, <2>2
  <2>3. CASE LoadRestore(t)
    BY <2>3, MarkTypes DEF LoadRestore, RestoreFor, RenameBack
  <2> QED
    BY <1>3, <2>1, <2>2, <2>3 DEF Load
<1>4. CASE External
  <2>1. ASSUME NEW data \in Data, ExternalReplace(data) PROVE TypeOK'
    BY <2>1, MarkTypes DEF ExternalReplace
  <2>2. ASSUME NEW data \in Data, ExternalRewrite(data) PROVE TypeOK'
    <3>1. path' \in Files
      BY <2>2 DEF ExternalRewrite
    <3>2. displaced' \subseteq Displaced
      BY <2>2, <3>1 DEF ExternalRewrite
    <3> QED
      BY <2>2, <3>1, <3>2, MarkTypes DEF ExternalRewrite
  <2>3. CASE ExternalDelete
    BY <2>3 DEF ExternalDelete
  <2> QED
    BY <1>4, <2>1, <2>2, <2>3 DEF External
<1>5. ASSUME NEW p \in Pids, Crash(p) PROVE TypeOK'
  BY <1>5 DEF Crash
<1>6. CASE UNCHANGED vars
  BY <1>6 DEF vars
<1> QED
  BY <1>1, <1>2, <1>3, <1>4, <1>5, <1>6 DEF Next

\* Every value of the state keeps its type, for every instance.
THEOREM TypeCorrect == Spec => []TypeOK
<1>1. Init => TypeOK
  BY ThreadFacts, AttemptsAssumption DEF Init, TypeOK, Steps
<1> QED
  BY <1>1, TypeStep, PTL DEF Spec

(***************************************************************************)
(* What a step can do to the disk and to the temporary files               *)
(***************************************************************************)

\* Names disappear, or nothing happens to them.
Shrink ==
    /\ path' \in {path, NoFile}
    /\ displaced' \subseteq displaced
    /\ \A s \in Savers : temp'[s] \in {temp[s], NoFile}

NewTemporary ==
    /\ UNCHANGED disk
    /\ \E t \in Savers, file \in Files :
         file.ino \notin HeldInos /\ temp' = [temp EXCEPT ![t] = file]

SetsAside ==
    /\ path # NoFile
    /\ UNCHANGED temp
    /\ \E t \in Savers, kind \in Kinds :
         displaced' = displaced \union {SetAside(t, kind)}
    /\ path' = IF Pinning THEN path ELSE NoFile

Drops(t) ==
    /\ DropAside(t)
    /\ UNCHANGED path
    /\ \A s \in Savers : temp'[s] \in {temp[s], NoFile}

Install(t) ==
    /\ path' = temp[t]
    /\ temp' = [temp EXCEPT ![t] = NoFile]
    /\ displaced' \in {displaced, (displaced \ Own(t)) \union Replaced(t)}

PutBack ==
    /\ path = NoFile
    /\ \E d \in displaced : path' = d.file /\ displaced' = displaced \ {d}
    /\ \A s \in Savers : temp'[s] \in {temp[s], NoFile}

NewFile ==
    /\ \E file \in Files : file.ino \notin HeldInos /\ path' = file
    /\ UNCHANGED <<displaced, temp>>

Rewrite == (\E data \in Data : ExternalRewrite(data))

DiskStep ==
    \/ Shrink \/ NewTemporary \/ SetsAside \/ PutBack \/ NewFile \/ Rewrite
    \/ \E t \in Savers : Install(t) \/ Drops(t)

\* Every step of install_checked_with, of the recovery and of other programs
\* changes the disk in one of the ways DiskStep lists.
LEMMA DiskSteps == TypeOK /\ [Next]_vars => DiskStep
<1> SUFFICES ASSUME TypeOK, [Next]_vars PROVE DiskStep
  OBVIOUS
<1> USE DEF DiskStep, disk, jobVars
<1>1. ASSUME NEW t \in Savers, Save(t) PROVE DiskStep
  <2> USE DEF Finish, FinishSeen, Retry, TypeOK
  <2>1. CASE SaveScan(t)
    BY <2>1 DEF SaveScan, ScanFor, Shrink
  <2>2. CASE SaveRestoreOld(t)
    BY <2>2 DEF SaveRestoreOld, RestoreFor, RenameBack, PutBack, Shrink
  <2>3. ASSUME NEW data \in Data, WriteTemporary(t, data) PROVE DiskStep
    <3>1. PICK ino \in Inos \ HeldInos :
            temp' = [temp EXCEPT ![t] = [ino |-> ino, data |-> data]]
      BY <2>3 DEF WriteTemporary
    <3>2. [ino |-> ino, data |-> data] \in Files
      BY DEF Files
    <3> QED
      BY <2>3, <3>1, <3>2 DEF WriteTemporary, NewTemporary
  <2>4. CASE WriteFails(t) \/ FindAbsent(t) \/ CheckAbsent(t)
    BY <2>4 DEF WriteFails, FindAbsent, CheckAbsent, Shrink
  <2>5. CASE Pin(t)
    BY <2>5 DEF Pin, SetsAside, Kinds
  <2>6. CASE MoveAside(t)
    BY <2>6 DEF MoveAside, SetsAside, Kinds
  <2>7. CASE InstallVacant(t)
    BY <2>7 DEF InstallVacant, Install, Shrink
  <2>8. CASE CheckPinned(t) \/ VerifyPinned(t) \/ InstallPinnedFails(t) \/ RemoveAside(t)
    BY <2>8 DEF CheckPinned, VerifyPinned, InstallPinnedFails, RemoveAside, Drops, Shrink
  <2>9. CASE InstallPinned(t)
    BY <2>9 DEF InstallPinned, Install
  <2>10. CASE CheckMoved(t) \/ InstallMovedFails(t)
    BY <2>10 DEF CheckMoved, InstallMovedFails, Shrink
  <2>11. CASE InstallMoved(t)
    BY <2>11 DEF InstallMoved, Install, Drops
  <2>12. CASE RestoreMoved(t)
    BY <2>12 DEF RestoreMoved, Own, PutBack, Shrink
  <2> QED
    BY <1>1, <2>1, <2>2, <2>3, <2>4, <2>5, <2>6, <2>7, <2>8, <2>9, <2>10, <2>11,
       <2>12 DEF Save
<1>2. ASSUME NEW t \in Savers, NEW g \in Guards, BeginSave(t, g) PROVE DiskStep
  BY <1>2 DEF BeginSave, Shrink
<1>3. ASSUME NEW t \in Loaders, Load(t) \/ BeginLoad(t) PROVE DiskStep
  BY <1>3 DEF Load, BeginLoad, LoadScan, LoadRestore, ScanFor, RestoreFor, RenameBack,
              Shrink, PutBack
<1>4. CASE External
  <2>1. ASSUME NEW data \in Data, ExternalReplace(data) PROVE DiskStep
    <3>1. PICK ino \in Inos \ HeldInos : path' = [ino |-> ino, data |-> data]
      BY <2>1 DEF ExternalReplace
    <3>2. path' \in Files /\ path'.ino \notin HeldInos
      BY <3>1 DEF Files
    <3> QED
      BY <2>1, <3>2 DEF ExternalReplace, NewFile
  <2>2. CASE \E data \in Data : ExternalRewrite(data)
    BY <2>2 DEF Rewrite
  <2>3. CASE ExternalDelete
    BY <2>3 DEF ExternalDelete, Shrink
  <2> QED
    BY <1>4, <2>1, <2>2, <2>3 DEF External
<1>5. ASSUME NEW p \in Pids, Crash(p) PROVE DiskStep
  BY <1>5 DEF Crash, Shrink
<1>6. CASE UNCHANGED vars
  BY <1>6 DEF vars, Shrink
<1> QED
  BY <1>1, <1>2, <1>3, <1>4, <1>5, <1>6 DEF Next

\* Names of one object keep agreeing: nothing links an object under a
\* different content, and new objects are really new.
LEMMA AgreeStep ==
  ASSUME TypeOK, TypeOK', ObjectsAgree, DiskStep
  PROVE  ObjectsAgree'
<1> USE DEF ObjectsAgree
<1>1. CASE Shrink
  BY <1>1 DEF Shrink, TypeOK
<1>2. CASE NewTemporary
  <2>1. PICK t \in Savers, file \in Files :
          file.ino \notin HeldInos /\ temp' = [temp EXCEPT ![t] = file]
    BY <1>2 DEF NewTemporary
  <2>2. /\ path # NoFile => path.ino # file.ino
        /\ \A d \in displaced : d.file.ino # file.ino
        /\ \A r \in Savers : temp[r] # NoFile => temp[r].ino # file.ino
    BY <2>1 DEF HeldInos
  <2> QED
    BY <1>2, <2>1, <2>2 DEF NewTemporary, disk, TypeOK
<1>3. CASE SetsAside
  BY <1>3 DEF SetsAside, SetAside
<1>4. ASSUME NEW t \in Savers, Install(t) PROVE ObjectsAgree'
  <2>1. \A d \in displaced' : \E e \in displaced : d.file = e.file
    BY <1>4 DEF Install, Replaced, Own
  <2>2. path' = temp[t] /\ temp' = [temp EXCEPT ![t] = NoFile]
    BY <1>4 DEF Install
  <2>3. /\ \A d \in displaced' :
             path' # NoFile /\ d.file.ino = path'.ino => d.file = path'
        /\ \A d, e \in displaced' : d.file.ino = e.file.ino => d.file = e.file
    BY <2>1, <2>2
  <2>4. ASSUME NEW s \in Savers, temp'[s] # NoFile
        PROVE  /\ path' # NoFile => path'.ino # temp'[s].ino
               /\ \A d \in displaced' : d.file.ino # temp'[s].ino
               /\ \A r \in Savers :
                    temp'[r] # NoFile /\ temp'[r].ino = temp'[s].ino => r = s
    <3>1. /\ s # t /\ temp'[s] = temp[s]
          /\ \A r \in Savers : temp'[r] # NoFile => r # t /\ temp'[r] = temp[r]
      BY <2>2, <2>4 DEF TypeOK
    <3> QED
      BY <2>1, <2>2, <2>4, <3>1
  <2> QED
    BY <2>3, <2>4
<1>8. ASSUME NEW t \in Savers, Drops(t) PROVE ObjectsAgree'
  <2>1. \A d \in displaced' : \E e \in displaced : d.file = e.file
    BY <1>8 DEF Drops, DropAside, Stuck, Own
  <2> QED
    BY <1>8, <2>1 DEF Drops, TypeOK
<1>5. CASE PutBack
  BY <1>5 DEF PutBack
<1>6. CASE NewFile
  <2>1. /\ path'.ino \notin HeldInos
        /\ UNCHANGED <<displaced, temp>>
    BY <1>6 DEF NewFile
  <2> QED
    BY <2>1 DEF HeldInos
<1>7. CASE Rewrite
  <2>1. /\ path # NoFile
        /\ path'.ino = path.ino
        /\ UNCHANGED temp
        /\ \A d \in displaced' : \E e \in displaced :
             /\ d.file.ino = e.file.ino
             /\ e.file.ino = path.ino => d.file = path'
             /\ e.file.ino # path.ino => d = e
    BY <1>7 DEF Rewrite, ExternalRewrite
  <2> QED
    BY <2>1
<1> QED
  BY <1>1, <1>2, <1>3, <1>4, <1>5, <1>6, <1>7, <1>8 DEF DiskStep

\* Without pins, a set-aside object keeps exactly one name.
LEMMA GoneStep ==
  ASSUME TypeOK, TypeOK', ObjectsAgree, MovedObjectsAreGone, DiskStep
  PROVE  MovedObjectsAreGone'
<1> SUFFICES ASSUME ~Pinning PROVE MovedObjectsAreGone'
  BY DEF MovedObjectsAreGone
<1> USE DEF MovedObjectsAreGone
<1>1. CASE Shrink
  BY <1>1 DEF Shrink
<1>2. CASE NewTemporary
  BY <1>2 DEF NewTemporary, disk
<1>3. CASE SetsAside
  BY <1>3 DEF SetsAside, SetAside
<1>4. ASSUME NEW t \in Savers, Install(t) PROVE MovedObjectsAreGone'
  <2>1. \A d \in displaced' : \E e \in displaced : d.file = e.file
    BY <1>4 DEF Install, Replaced, Own
  <2>2. path' # NoFile => \A d \in displaced' : d.file.ino # path'.ino
    BY <1>4, <2>1 DEF Install, ObjectsAgree
  <2>3. \A d, e \in displaced' : d.file.ino = e.file.ino => d = e
    BY <1>4 DEF Install, Replaced, Own
  <2> QED
    BY <2>2, <2>3
<1>8. ASSUME NEW t \in Savers, Drops(t) PROVE MovedObjectsAreGone'
  <2>1. \A d \in displaced' : \E e \in displaced : d.file = e.file
    BY <1>8 DEF Drops, DropAside, Stuck, Own
  <2>2. \A d, e \in displaced' : d.file.ino = e.file.ino => d = e
    BY <1>8 DEF Drops, DropAside, Stuck, Own
  <2> QED
    BY <1>8, <2>1, <2>2 DEF Drops
<1>5. CASE PutBack
  BY <1>5 DEF PutBack
<1>6. CASE NewFile
  BY <1>6 DEF NewFile, HeldInos
<1>7. CASE Rewrite
  <2>1. displaced' = displaced /\ path'.ino = path.ino /\ path # NoFile
    BY <1>7 DEF Rewrite, ExternalRewrite
  <2> QED
    BY <2>1
<1> QED
  BY <1>1, <1>2, <1>3, <1>4, <1>5, <1>6, <1>7, <1>8 DEF DiskStep

(***************************************************************************)
(* What a saver saw stays judged                                           *)
(***************************************************************************)

\* A step of somebody else: it leaves the job of s alone, and marks it late
\* when it changes what s has already looked at.
Undisturbed(s) ==
    /\ pc'[s] = pc[s] /\ guard'[s] = guard[s] /\ aside'[s] = aside[s]
    /\ late[s] => late'[s]
    /\ pc[s] = "verified" /\ ~late'[s] /\ path' # NoFile => path' = path
    /\ \/ \A d \in displaced' : d.pid = PidOf[s] => d \in displaced
       \/ Pinning /\ (pc[s] \in SawContent => late'[s])

\* A step that leaves s's thread, its set-aside names and the version it has
\* judged alone, or is marked as unseen, keeps what s knows of the disk.
LEMMA UndisturbedKeeps ==
  ASSUME TypeOK, NEW s \in Savers, SeenBy(s), Undisturbed(s)
  PROVE  SeenBy(s)'
<1>1. CASE \A d \in displaced' : d.pid = PidOf[s] => d \in displaced
  <2>1. \A d \in Own(s)' : d \in Own(s)
    BY <1>1 DEF Own, Undisturbed
  <2> QED
    BY <2>1 DEF SeenBy, Undisturbed, Accepts, TypeOK
<1>2. CASE Pinning /\ (pc[s] \in SawContent => late'[s])
  BY <1>2 DEF SeenBy, Undisturbed, SawContent
<1> QED
  BY <1>1, <1>2 DEF Undisturbed

\* A save, a load, an external write or a crash of another process is such a
\* step for s.
LEMMA OtherSavers ==
  ASSUME TypeOK, InstallInv, NEW t \in Savers, NEW s \in Savers, s # t,
         Save(t) \/ \E g \in Guards : BeginSave(t, g)
  PROVE  Undisturbed(s)
<1> USE DEF Undisturbed, TypeOK, disk, jobVars, Goto, SawObject
<1>1. s \in Threads /\ t \in Threads /\ PidOf[s] # PidOf[t]
  BY ThreadFacts
<1>2. ~Pinning => pc[s] # "verified"
  BY DEF InstallInv, SeenIsJudged, SeenBy
<1>3. \A how, seen : FinishSeen(t, how, seen) /\ seen \in [Savers -> BOOLEAN] =>
        /\ pc'[s] = pc[s] /\ guard'[s] = guard[s] /\ aside'[s] = aside[s]
        /\ late'[s] = seen[s]
  BY <1>1 DEF FinishSeen
<1>4. Retry(t) => /\ pc'[s] = pc[s] /\ guard'[s] = guard[s]
                  /\ aside'[s] = aside[s] /\ late'[s] = late[s]
  BY <1>1, <1>3 DEF Retry, Finish
<1>5. CASE \/ SaveScan(t) \/ WriteFails(t) \/ FindAbsent(t) \/ CheckAbsent(t)
           \/ \E data \in Data : WriteTemporary(t, data)
           \/ \E g \in Guards : BeginSave(t, g)
  BY <1>1, <1>3, <1>5 DEF SaveScan, ScanFor, Finish, WriteFails, FindAbsent,
       CheckAbsent, WriteTemporary, BeginSave
<1>6. CASE SaveRestoreOld(t)
  BY <1>1, <1>6 DEF SaveRestoreOld, RestoreFor, RenameBack, MarkLate
<1>7. CASE Pin(t)
  BY <1>1, <1>7 DEF Pin, SetAside
<1>8. CASE MoveAside(t)
  BY <1>1, <1>2, <1>8 DEF MoveAside, SetAside
<1>9. CASE InstallVacant(t)
  <2>1. MarkLate(SawObject) \in [Savers -> BOOLEAN]
    BY MarkTypes DEF TypeOK
  <2>2. CASE path = NoFile
    BY <1>1, <1>3, <1>9, <2>1, <2>2 DEF InstallVacant, MarkLate
  <2>3. CASE path # NoFile
    BY <1>4, <1>9, <2>3 DEF InstallVacant
  <2> QED
    BY <2>2, <2>3
<1>10. CASE CheckPinned(t) \/ InstallPinnedFails(t) \/ RemoveAside(t)
  BY <1>1, <1>3, <1>10 DEF CheckPinned, InstallPinnedFails, RemoveAside, Finish,
       DropAside, Stuck, Own
<1>11. CASE VerifyPinned(t)
  BY <1>1, <1>4, <1>11 DEF VerifyPinned, DropAside, Stuck, Own
<1>12. CASE InstallPinned(t)
  <2>1. \A d \in displaced' : d.pid = PidOf[s] => d \in displaced
    BY <1>1, <1>12 DEF InstallPinned, Replaced, Own
  <2>2. late'[s] = (late[s] \/ pc[s] = "verified")
    BY <1>12 DEF InstallPinned, MarkLateExcept
  <2> QED
    BY <1>1, <1>12, <2>1, <2>2 DEF InstallPinned
<1>13. CASE CheckMoved(t) \/ InstallMovedFails(t)
  BY <1>1, <1>13 DEF CheckMoved, InstallMovedFails
<1>14. CASE InstallMoved(t)
  <2>1. pc[t] = "accepted"
    BY <1>14 DEF InstallMoved
  <2>2. ~Pinning
    BY <2>1 DEF InstallInv, SeenIsJudged, SeenBy
  <2> QED
    BY <1>1, <1>2, <1>4, <1>14, <2>2 DEF InstallMoved, Replaced, DropAside, Stuck, Own
<1>15. CASE RestoreMoved(t)
  <2>1. pc[t] = "restore"
    BY <1>15 DEF RestoreMoved
  <2>2. ~Pinning
    BY <2>1 DEF InstallInv, SeenIsJudged, SeenBy
  <2> QED
    BY <1>1, <1>2, <1>3, <1>15, <2>2 DEF RestoreMoved, Own, Finish
<1> QED
  BY <1>5, <1>6, <1>7, <1>8, <1>9, <1>10, <1>11, <1>12, <1>13, <1>14, <1>15 DEF Save

\* A load with its recovery, or another program, is such a step as well.
LEMMA Others ==
  ASSUME TypeOK, InstallInv, NEW s \in Savers,
         \/ External
         \/ \E t \in Loaders : Load(t) \/ BeginLoad(t)
         \/ UNCHANGED vars
  PROVE  Undisturbed(s)
<1> USE DEF Undisturbed, TypeOK, disk, jobVars, Goto, SawObject
<1>1. CASE \E data \in Data : ExternalReplace(data)
  BY <1>1 DEF ExternalReplace, MarkLate
<1>2. ASSUME NEW data \in Data, ExternalRewrite(data) PROVE Undisturbed(s)
  <2>1. pc'[s] = pc[s] /\ guard'[s] = guard[s] /\ aside'[s] = aside[s]
    BY <1>2 DEF ExternalRewrite
  <2>2. /\ late[s] => late'[s]
        /\ pc[s] \in SawContent => late'[s]
    BY <1>2 DEF ExternalRewrite, MarkLate, SawContent
  <2>3. CASE Pinning
    BY <2>1, <2>2, <2>3 DEF SawContent
  <2>4. CASE ~Pinning
    <3>1. displaced' = displaced
      BY <1>2, <2>4 DEF ExternalRewrite, InstallInv, MovedObjectsAreGone
    <3> QED
      BY <2>1, <2>2, <3>1 DEF SawContent
  <2> QED
    BY <2>3, <2>4
<1>3. CASE ExternalDelete
  BY <1>3 DEF ExternalDelete
<1>4. ASSUME NEW t \in Loaders, Load(t) \/ BeginLoad(t) PROVE Undisturbed(s)
  <2>1. s \in Threads /\ t \in Threads /\ s # t
    BY ThreadFacts
  <2> QED
    BY <1>4, <2>1 DEF Load, BeginLoad, LoadScan, LoadRestore, ScanFor, RestoreFor,
         RenameBack, MarkLate
<1>5. CASE UNCHANGED vars
  BY <1>5 DEF vars
<1> QED
  BY <1>1, <1>2, <1>3, <1>4, <1>5 DEF External

\* A saver's own step: it trusts only what it has just judged.
LEMMA OwnStep ==
  ASSUME TypeOK, InstallInv, NEW t \in Savers,
         Save(t) \/ \E g \in Guards : BeginSave(t, g)
  PROVE  SeenBy(t)'
<1> USE DEF SeenBy, TypeOK, Goto, disk, jobVars
<1>1. t \in Threads
  BY ThreadFacts
<1>2. SeenBy(t)
  BY DEF InstallInv, SeenIsJudged
<1>3. \A how, seen : FinishSeen(t, how, seen) => SeenBy(t)'
  BY <1>1 DEF FinishSeen
<1>4. Retry(t) => SeenBy(t)'
  BY <1>1, <1>3 DEF Retry, Finish
<1>5. CASE \/ WriteFails(t) \/ FindAbsent(t) \/ CheckAbsent(t) \/ SaveRestoreOld(t)
           \/ \E data \in Data : WriteTemporary(t, data)
           \/ \E g \in Guards : BeginSave(t, g)
           \/ SaveScan(t)
  BY <1>1, <1>3, <1>5 DEF SaveScan, ScanFor, Finish, WriteFails, FindAbsent,
       CheckAbsent, WriteTemporary, BeginSave, SaveRestoreOld, RestoreFor
<1>6. CASE Pin(t) \/ MoveAside(t)
  BY <1>1, <1>6 DEF Pin, MoveAside
<1>7. CASE InstallVacant(t)
  BY <1>3, <1>4, <1>7 DEF InstallVacant
<1>8. \A d, e \in Own(t) : d.file = e.file
  BY DEF Own, InstallInv, ObjectsAgree
<1>9. Accepts(guard[t], AsideData(t)) =>
        \A d \in Own(t) : Accepts(guard[t], d.file.data)
  BY <1>8 DEF AsideData
<1>10. CASE CheckPinned(t)
  <2>1. CASE \E how : Finish(t, how)
    BY <1>3, <2>1 DEF Finish
  <2>2. CASE /\ Accepts(guard[t], AsideData(t)) /\ Goto(t, "checked")
             /\ UNCHANGED <<displaced, jobVars>>
    BY <1>1, <1>2, <1>9, <1>10, <2>2 DEF CheckPinned, Own
  <2> QED
    BY <1>10, <2>1, <2>2 DEF CheckPinned
<1>11. CASE VerifyPinned(t)
  <2>1. CASE SameFile(t)
    <3>1. PICK d \in Own(t) : TRUE
      BY <2>1 DEF SameFile
    <3>2. d.file = path
      BY <2>1, <3>1 DEF SameFile, Own, InstallInv, ObjectsAgree
    <3>3. ~late[t] => Accepts(guard[t], path.data)
      BY <1>2, <1>11, <3>2 DEF VerifyPinned
    <3> QED
      BY <1>1, <1>2, <1>11, <2>1, <3>3 DEF VerifyPinned
  <2>2. CASE ~SameFile(t)
    BY <1>4, <1>11, <2>2 DEF VerifyPinned
  <2> QED
    BY <2>1, <2>2
<1>12. CASE InstallPinned(t) \/ InstallPinnedFails(t) \/ RemoveAside(t)
  BY <1>1, <1>3, <1>12 DEF InstallPinned, InstallPinnedFails, RemoveAside, Finish
<1>13. CASE CheckMoved(t)
  BY <1>1, <1>2, <1>9, <1>13 DEF CheckMoved, Own
<1>14. CASE InstallMoved(t) \/ InstallMovedFails(t) \/ RestoreMoved(t)
  BY <1>1, <1>2, <1>3, <1>4, <1>14 DEF InstallMoved, InstallMovedFails, RestoreMoved,
       Finish
<1> QED
  BY <1>5, <1>6, <1>7, <1>10, <1>11, <1>12, <1>13, <1>14 DEF Save

\* Every step keeps what the saves of install_checked_with know of the disk.
LEMMA JudgedStep ==
  ASSUME TypeOK, InstallInv, [Next]_vars
  PROVE  SeenIsJudged'
<1> SUFFICES ASSUME NEW s \in Savers PROVE SeenBy(s)'
  BY DEF SeenIsJudged
<1>1. SeenBy(s)
  BY DEF InstallInv, SeenIsJudged
<1>2. ASSUME NEW t \in Savers, Save(t) \/ \E g \in Guards : BeginSave(t, g)
      PROVE SeenBy(s)'
  BY <1>1, <1>2, OtherSavers, OwnStep, UndisturbedKeeps
<1>3. CASE \/ External
           \/ \E t \in Loaders : Load(t) \/ BeginLoad(t)
           \/ UNCHANGED vars
  BY <1>1, <1>3, Others, UndisturbedKeeps
<1>4. ASSUME NEW p \in Pids, Crash(p) PROVE SeenBy(s)'
  <2>1. CASE PidOf[s] = p
    BY <1>4, <2>1, ThreadFacts DEF Crash, SeenBy
  <2>2. CASE PidOf[s] # p
    <3>1. Undisturbed(s)
      BY <1>4, <2>2, ThreadFacts DEF Crash, Undisturbed, disk
    <3> QED
      BY <1>1, <3>1, UndisturbedKeeps
  <2> QED
    BY <2>1, <2>2
<1> QED
  BY <1>2, <1>3, <1>4 DEF Next

\* Types and InstallInv together are inductive.
LEMMA Invariance == Spec => [](TypeOK /\ InstallInv)
<1>1. Init => InstallInv
  BY ThreadFacts DEF Init, InstallInv, ObjectsAgree, MovedObjectsAreGone, SeenIsJudged,
       SeenBy
<1>2. TypeOK /\ InstallInv /\ [Next]_vars => InstallInv'
  BY TypeStep, DiskSteps, AgreeStep, GoneStep, JudgedStep DEF InstallInv
<1> QED
  BY <1>1, <1>2, TypeCorrect, PTL DEF Spec

\* What a running save believes about the disk is true until its install, for
\* every number of processes and files.
THEOREM InstallInvariant == Spec => []DiskIsSound
<1>1. TypeOK /\ InstallInv => DiskIsSound
  BY DEF DiskIsSound
<1> QED
  BY <1>1, Invariance, PTL

\* A save replaces only a version its guard accepted, unless that version came
\* after the last look: on every platform and with any number of savers.
THEOREM LateVersionsAside == Spec => ReplacesJudgedUnlessLate
<1>1. TypeOK /\ InstallInv =>
        \A t \in Savers : Installs(t) /\ ~late[t] => ReplacesJudged(t)
  BY DEF InstallInv, SeenIsJudged, SeenBy, Installs, ReplacesJudged, Replaces
<1> QED
  BY <1>1, Invariance, PTL DEF ReplacesJudgedUnlessLate

\* Where hard links do not work the old version is moved aside, and there the
\* comment on install_checked holds without exception.
THEOREM MoveAsideReplacesJudged ==
  ASSUME ~Pinning
  PROVE  Spec => ReplacesOnlyJudged
<1>1. TypeOK /\ InstallInv =>
        \A t \in Savers : Installs(t) => ReplacesJudged(t)
  BY DEF InstallInv, SeenIsJudged, SeenBy, Installs, ReplacesJudged, Replaces
<1> QED
  BY <1>1, Invariance, PTL DEF ReplacesOnlyJudged

(***************************************************************************)
(* What is set aside is not lost                                           *)
(***************************************************************************)

\* Hard links leave the version at the path, so no version is ever moved.
LinksMoveNothing == Pinning => \A d \in displaced : d.kind # "moved"

\* A save that has installed its file has marked what it had moved as replaced.
CleansReplaced(s) == pc[s] = "cleanup" => \A d \in Own(s) : d.kind # "moved"

\* A recovery never picks a name of its own process.
PicksOthers(t) == pc[t] \in {"restoreOld", "loadRestore"} => found[t].pid # PidOf[t]

MovesFit ==
    /\ LinksMoveNothing
    /\ \A s \in Savers : CleansReplaced(s)
    /\ \A t \in Threads : PicksOthers(t)

\* Every step of install_checked_with that sets a version aside under a hard link leaves
\* it at the path, and nothing else makes such a name.
LEMMA LinksStep ==
  ASSUME TypeOK, InstallInv, LinksMoveNothing, Next
  PROVE  LinksMoveNothing'
<1> SUFFICES ASSUME Pinning, \A d \in displaced : d.kind # "moved"
             PROVE  \A d \in displaced' : d.kind # "moved"
  BY DEF LinksMoveNothing
<1> USE DEF disk
<1>1. ASSUME NEW t \in Savers, Save(t) PROVE \A d \in displaced' : d.kind # "moved"
  <2>1. CASE displaced' \subseteq displaced
    BY <2>1
  <2>2. CASE Pin(t)
    BY <2>2 DEF Pin, SetAside
  <2>3. CASE InstallPinned(t) \/ InstallMoved(t)
    BY <2>3 DEF InstallPinned, InstallMoved, Replaced, DropAside, Stuck
  <2>4. CASE MoveAside(t)
    BY <2>4 DEF MoveAside
  <2>5. CASE \/ SaveScan(t) \/ SaveRestoreOld(t) \/ WriteFails(t) \/ FindAbsent(t)
             \/ \E data \in Data : WriteTemporary(t, data)
    BY <2>1, <2>5 DEF SaveScan, ScanFor, SaveRestoreOld, RestoreFor, RenameBack,
         WriteFails, FindAbsent, WriteTemporary
  <2>6. CASE \/ CheckAbsent(t) \/ InstallVacant(t) \/ CheckMoved(t)
             \/ InstallMovedFails(t) \/ RestoreMoved(t)
    BY <2>1, <2>6 DEF CheckAbsent, InstallVacant, CheckMoved, InstallMovedFails,
         RestoreMoved
  <2>7. CASE \/ CheckPinned(t) \/ VerifyPinned(t) \/ InstallPinnedFails(t)
             \/ RemoveAside(t)
    BY <2>7 DEF CheckPinned, VerifyPinned, InstallPinnedFails, RemoveAside, DropAside, Stuck
  <2> QED
    BY <1>1, <2>2, <2>3, <2>4, <2>5, <2>6, <2>7 DEF Save
<1>2. CASE \/ \E t \in Savers, g \in Guards : BeginSave(t, g)
           \/ \E t \in Loaders : Load(t) \/ BeginLoad(t)
           \/ \E p \in Pids : Crash(p)
  BY <1>2 DEF BeginSave, Load, BeginLoad, LoadScan, LoadRestore, ScanFor, RestoreFor,
       RenameBack, Crash
<1>3. CASE External
  BY <1>3 DEF External, ExternalReplace, ExternalRewrite, ExternalDelete
<1> QED
  BY <1>1, <1>2, <1>3 DEF Next

\* A step of somebody else makes no name of a moved version for s.
LEMMA CleansKeeps ==
  ASSUME TypeOK, LinksMoveNothing', NEW s \in Savers, CleansReplaced(s), Undisturbed(s)
  PROVE  CleansReplaced(s)'
<1>1. CASE \A d \in displaced' : d.pid = PidOf[s] => d \in displaced
  BY <1>1 DEF CleansReplaced, Own, Undisturbed
<1>2. CASE Pinning
  BY <1>2 DEF CleansReplaced, Own, LinksMoveNothing
<1> QED
  BY <1>1, <1>2 DEF Undisturbed

\* A save comes to its clean-up by an install, which marks what it replaced.
LEMMA CleansOwn ==
  ASSUME TypeOK, NEW t \in Savers, Save(t) \/ \E g \in Guards : BeginSave(t, g)
  PROVE  CleansReplaced(t)'
<1>1. CASE pc'[t] # "cleanup"
  BY <1>1 DEF CleansReplaced
<1>2. CASE InstallPinned(t) \/ InstallMoved(t)
  <2>1. ASSUME displaced' = (displaced \ Own(t)) \union Replaced(t), aside' = aside
        PROVE  \A d \in Own(t)' : d.kind # "moved"
    BY <2>1 DEF Own, Replaced
  <2>2. \/ displaced' = (displaced \ Own(t)) \union Replaced(t) /\ aside' = aside
        \/ Retry(t)
    BY <1>2 DEF InstallPinned, InstallMoved
  <2> QED
    BY <1>1, <2>1, <2>2, ThreadFacts
       DEF CleansReplaced, Retry, Finish, FinishSeen, Goto, TypeOK
<1>3. CASE ~InstallPinned(t) /\ ~InstallMoved(t)
  <2>1. t \in Threads /\ pc \in [Threads -> Steps]
    BY ThreadFacts DEF TypeOK
  <2>2. pc'[t] # "cleanup"
    <3> USE <2>1 DEF Goto, Finish, FinishSeen, Retry, jobVars
    <3>1. CASE \/ SaveScan(t) \/ SaveRestoreOld(t) \/ WriteFails(t) \/ FindAbsent(t)
               \/ \E data \in Data : WriteTemporary(t, data)
               \/ \E g \in Guards : BeginSave(t, g)
      BY <3>1 DEF SaveScan, ScanFor, SaveRestoreOld, RestoreFor,
           WriteFails, FindAbsent, WriteTemporary, BeginSave
    <3>2. CASE \/ CheckAbsent(t) \/ InstallVacant(t) \/ CheckPinned(t) \/ VerifyPinned(t)
               \/ InstallPinnedFails(t) \/ CheckMoved(t) \/ InstallMovedFails(t)
               \/ RestoreMoved(t) \/ RemoveAside(t) \/ Pin(t) \/ MoveAside(t)
      BY <3>2 DEF CheckAbsent, InstallVacant, CheckPinned, VerifyPinned,
           InstallPinnedFails, CheckMoved, InstallMovedFails, RestoreMoved, RemoveAside,
           Pin, MoveAside
    <3> QED
      BY <1>3, <3>1, <3>2 DEF Save
  <2> QED
    BY <1>1, <2>2
<1> QED
  BY <1>2, <1>3

\* The scan of a recovery picks the name of another process, and keeps its pick.
LEMMA PicksStep ==
  ASSUME TypeOK, NEW t \in Threads, PicksOthers(t), Next
  PROVE  PicksOthers(t)'
<1> USE DEF TypeOK, Goto, disk, jobVars
<1>1. ASSUME pc'[t] \notin {"restoreOld", "loadRestore"} PROVE PicksOthers(t)'
  BY <1>1 DEF PicksOthers
<1>2. ASSUME pc'[t] = pc[t], found'[t] = found[t] PROVE PicksOthers(t)'
  BY <1>2 DEF PicksOthers
<1>3. ASSUME NEW r \in Threads, NEW restoring, NEW otherwise, ScanFor(r, restoring, otherwise),
             otherwise \notin {"restoreOld", "loadRestore"}
      PROVE  PicksOthers(t)'
  <2>1. ASSUME NEW d \in displaced, RecoveryCandidate(r, d),
               found' = [found EXCEPT ![r] = Name(d)], Goto(r, restoring)
        PROVE  PicksOthers(t)'
    <3>1. d.pid # PidOf[r] /\ Name(d).pid = d.pid
      BY <2>1 DEF RecoveryCandidate, Name
    <3> QED
      BY <1>2, <2>1, <3>1 DEF PicksOthers
  <2>2. CASE Goto(r, otherwise) /\ UNCHANGED found
    BY <1>1, <1>2, <1>3, <2>2
  <2> QED
    BY <1>3, <2>1, <2>2 DEF ScanFor
<1>4. ASSUME NEW r \in Threads, NEW next, RestoreFor(r, next),
             next \notin {"restoreOld", "loadRestore"}
      PROVE  PicksOthers(t)'
  BY <1>1, <1>2, <1>4 DEF RestoreFor
<1>5. ASSUME NEW r \in Savers, Save(r) \/ \E g \in Guards : BeginSave(r, g)
      PROVE  PicksOthers(t)'
  <2>1. r \in Threads
    BY ThreadFacts
  <2>2. ASSUME NEW how, NEW seen, FinishSeen(r, how, seen), UNCHANGED found
        PROVE  PicksOthers(t)'
    BY <1>1, <1>2, <2>1, <2>2 DEF FinishSeen
  <2>3. ASSUME Retry(r), UNCHANGED found PROVE PicksOthers(t)'
    BY <1>1, <1>2, <2>1, <2>2, <2>3 DEF Retry, Finish
  <2>4. CASE SaveScan(r)
    BY <1>3, <2>1, <2>2, <2>4 DEF SaveScan, Finish
  <2>5. CASE SaveRestoreOld(r)
    BY <1>4, <2>1, <2>5 DEF SaveRestoreOld
  <2>6. CASE WriteFails(r) \/ CheckAbsent(r)
    BY <1>1, <1>2, <2>1, <2>2, <2>6 DEF WriteFails, CheckAbsent, Finish
  <2>7. CASE \/ FindAbsent(r) \/ Pin(r) \/ MoveAside(r)
             \/ \E data \in Data : WriteTemporary(r, data)
             \/ \E g \in Guards : BeginSave(r, g)
    BY <1>1, <1>2, <2>1, <2>7 DEF FindAbsent, Pin, MoveAside, WriteTemporary, BeginSave
  <2>8. CASE InstallVacant(r) \/ InstallPinnedFails(r) \/ VerifyPinned(r)
    BY <1>1, <1>2, <2>1, <2>2, <2>3, <2>8
       DEF InstallVacant, InstallPinnedFails, VerifyPinned, Finish
  <2>9. CASE CheckPinned(r) \/ InstallPinned(r)
    BY <1>1, <1>2, <2>1, <2>2, <2>9 DEF CheckPinned, InstallPinned, Finish
  <2>10. CASE RestoreMoved(r) \/ RemoveAside(r)
    BY <1>1, <1>2, <2>1, <2>2, <2>10 DEF RestoreMoved, RemoveAside, Finish
  <2>11. CASE CheckMoved(r) \/ InstallMoved(r) \/ InstallMovedFails(r)
    BY <1>1, <1>2, <2>1, <2>3, <2>11 DEF CheckMoved, InstallMoved, InstallMovedFails
  <2> QED
    BY <1>5, <2>4, <2>5, <2>6, <2>7, <2>8, <2>9, <2>10, <2>11 DEF Save
<1>6. ASSUME NEW r \in Loaders, Load(r) \/ BeginLoad(r) PROVE PicksOthers(t)'
  <2>1. r \in Threads
    BY ThreadFacts
  <2> QED
    BY <1>1, <1>2, <1>3, <1>4, <1>6, <2>1 DEF Load, BeginLoad, LoadScan, LoadRestore
<1>7. CASE External
  BY <1>2, <1>7 DEF External, ExternalReplace, ExternalRewrite, ExternalDelete
<1>8. ASSUME NEW p \in Pids, Crash(p) PROVE PicksOthers(t)'
  BY <1>1, <1>2, <1>8 DEF Crash
<1> QED
  BY <1>5, <1>6, <1>7, <1>8 DEF Next

\* Every step keeps what is known of the names of moved versions.
LEMMA MovesStep == TypeOK /\ InstallInv /\ MovesFit /\ [Next]_vars => MovesFit'
<1> SUFFICES ASSUME TypeOK, InstallInv, MovesFit, [Next]_vars PROVE MovesFit'
  OBVIOUS
<1>1. CASE Next
  <2>1. LinksMoveNothing'
    BY <1>1, LinksStep DEF MovesFit
  <2>2. ASSUME NEW s \in Savers PROVE CleansReplaced(s)'
    <3>1. CleansReplaced(s)
      BY DEF MovesFit
    <3>2. ASSUME NEW t \in Savers, Save(t) \/ \E g \in Guards : BeginSave(t, g)
          PROVE  CleansReplaced(s)'
      BY <2>1, <3>1, <3>2, OtherSavers, CleansKeeps, CleansOwn
    <3>3. CASE External \/ \E t \in Loaders : Load(t) \/ BeginLoad(t)
      BY <2>1, <3>1, <3>3, Others, CleansKeeps
    <3>4. ASSUME NEW p \in Pids, Crash(p) PROVE CleansReplaced(s)'
      BY <3>1, <3>4, ThreadFacts DEF Crash, CleansReplaced, Own, disk, TypeOK
    <3> QED
      BY <1>1, <3>2, <3>3, <3>4 DEF Next
  <2> QED
    BY <1>1, <2>1, <2>2, PicksStep DEF MovesFit
<1>2. CASE UNCHANGED vars
  BY <1>2 DEF vars, MovesFit, LinksMoveNothing, CleansReplaced, PicksOthers, Own
<1> QED
  BY <1>1, <1>2

\* What takes a moved version's last name away: its return to the path, or the save that
\* had moved it and accepts it.
Released(d) ==
    \/ path' = d.file
    \/ \E s \in Savers : d \in Own(s) /\ Accepts(guard[s], d.file.data)

\* restore_displaced, recover_displaced_file and the install release a moved version only
\* so; no other step takes a name of one.
LEMMA ReleasedStep ==
  ASSUME TypeOK, InstallInv, MovesFit, [Next]_vars,
         NEW d \in displaced, d.kind = "moved", d \notin displaced'
  PROVE  Released(d)
<1> USE DEF disk
<1>1. ~Pinning
  BY DEF MovesFit, LinksMoveNothing
<1>2. CASE UNCHANGED vars
  BY <1>2 DEF vars
<1>3. ASSUME NEW t \in Threads, RenameBack(t) PROVE Released(d)
  BY <1>3 DEF RenameBack, Released
<1>4. ASSUME NEW t \in Savers, Save(t) PROVE Released(d)
  <2>1. SeenBy(t) /\ CleansReplaced(t) /\ t \in Threads
    BY ThreadFacts DEF InstallInv, SeenIsJudged, MovesFit
  <2>2. ~CheckPinned(t) /\ ~VerifyPinned(t) /\ ~InstallPinned(t) /\ ~InstallPinnedFails(t)
    BY <1>1, <2>1 DEF SeenBy, CheckPinned, VerifyPinned, InstallPinned, InstallPinnedFails
  <2>3. ~RemoveAside(t)
    BY <2>1 DEF RemoveAside, DropAside, CleansReplaced
  <2>4. CASE SaveRestoreOld(t)
    BY <1>3, <2>1, <2>4 DEF SaveRestoreOld, RestoreFor
  <2>5. CASE InstallMoved(t)
    BY <2>1, <2>5 DEF InstallMoved, DropAside, SeenBy, Released
  <2>6. CASE RestoreMoved(t)
    BY <2>6 DEF RestoreMoved, Released
  <2>7. CASE \/ SaveScan(t) \/ WriteFails(t) \/ Pin(t) \/ MoveAside(t) \/ FindAbsent(t)
             \/ CheckAbsent(t) \/ InstallVacant(t) \/ CheckMoved(t) \/ InstallMovedFails(t)
             \/ \E data \in Data : WriteTemporary(t, data)
    BY <2>7 DEF SaveScan, ScanFor, WriteFails, Pin, MoveAside, FindAbsent, CheckAbsent,
         InstallVacant, CheckMoved, InstallMovedFails, WriteTemporary
  <2> QED
    BY <1>4, <2>2, <2>3, <2>4, <2>5, <2>6, <2>7 DEF Save
<1>5. ASSUME NEW t \in Loaders, Load(t) \/ BeginLoad(t) PROVE Released(d)
  BY <1>3, <1>5, ThreadFacts DEF Load, BeginLoad, LoadScan, LoadRestore, ScanFor, RestoreFor
<1>6. CASE External
  <2>1. ASSUME NEW data \in Data, ExternalRewrite(data) PROVE FALSE
    <3>1. d.file.ino # path.ino
      BY <1>1, <2>1 DEF ExternalRewrite, InstallInv, MovedObjectsAreGone
    <3> QED
      BY <2>1, <3>1 DEF ExternalRewrite
  <2> QED
    BY <1>6, <2>1 DEF External, ExternalReplace, ExternalDelete
<1>7. CASE \/ \E t \in Savers, g \in Guards : BeginSave(t, g)
           \/ \E p \in Pids : Crash(p)
  BY <1>7 DEF BeginSave, Crash
<1> QED
  BY <1>2, <1>4, <1>5, <1>6, <1>7 DEF Next

\* A save moves no other thread.
LEMMA PlaceStays ==
  ASSUME TypeOK, NEW r \in Savers, NEW t \in Threads, t # r,
         Save(r) \/ \E g \in Guards : BeginSave(r, g)
  PROVE  pc'[t] = pc[t]
<1> USE ThreadFacts DEF TypeOK, Goto, jobVars
<1>1. \A how, seen : FinishSeen(r, how, seen) => pc'[t] = pc[t]
  BY DEF FinishSeen
<1>2. Retry(r) => pc'[t] = pc[t]
  BY <1>1 DEF Retry, Finish
<1>3. CASE \/ SaveScan(r) \/ SaveRestoreOld(r) \/ WriteFails(r) \/ FindAbsent(r)
           \/ \E data \in Data : WriteTemporary(r, data)
           \/ \E g \in Guards : BeginSave(r, g)
  BY <1>1, <1>3 DEF SaveScan, ScanFor, SaveRestoreOld, RestoreFor, WriteFails,
       FindAbsent, WriteTemporary, BeginSave, Finish
<1>4. CASE \/ CheckAbsent(r) \/ InstallVacant(r) \/ CheckPinned(r) \/ VerifyPinned(r)
           \/ InstallPinned(r) \/ InstallPinnedFails(r)
  BY <1>1, <1>2, <1>4 DEF CheckAbsent, InstallVacant, CheckPinned, VerifyPinned,
       InstallPinned, InstallPinnedFails, Finish
<1>5. CASE \/ Pin(r) \/ MoveAside(r) \/ CheckMoved(r) \/ InstallMoved(r)
           \/ InstallMovedFails(r) \/ RestoreMoved(r) \/ RemoveAside(r)
  BY <1>1, <1>2, <1>5 DEF Pin, MoveAside, CheckMoved, InstallMoved, InstallMovedFails,
       RestoreMoved, RemoveAside, Finish
<1> QED
  BY <1>3, <1>4, <1>5 DEF Save

\* The step of a load's recovery leaves the names of its own process alone.
LEMMA OwnNamesStay ==
  ASSUME TypeOK, MovesFit, [Next]_vars, NEW t \in Loaders, NEW d \in displaced,
         pc[t] = "loadRestore", pc'[t] = "idle", d.pid = PidOf[t]
  PROVE  d \in displaced'
<1> USE DEF TypeOK, Goto, disk, jobVars
<1>1. t \in Threads /\ t \notin Savers
  BY ThreadFacts
<1>2. found[t].pid # PidOf[t]
  BY <1>1 DEF MovesFit, PicksOthers
<1>3. CASE LoadRestore(t)
  <2>1. found[t] # Name(d)
    BY <1>2 DEF Name
  <2> QED
    BY <1>3, <2>1 DEF LoadRestore, RestoreFor, RenameBack
<1>4. ASSUME pc'[t] = pc[t] PROVE FALSE
  BY <1>4
<1>5. ASSUME NEW r \in Savers, Save(r) \/ \E g \in Guards : BeginSave(r, g)
      PROVE  FALSE
  BY <1>1, <1>4, <1>5, PlaceStays
<1>6. ASSUME NEW r \in Loaders, Load(r) \/ BeginLoad(r), ~LoadRestore(t) PROVE FALSE
  <2>1. r \in Threads
    BY ThreadFacts
  <2>2. r # t
    BY <1>6 DEF Load, BeginLoad, LoadScan
  <2>3. pc'[t] = pc[t]
    BY <1>1, <1>6, <2>1, <2>2 DEF Load, BeginLoad, LoadScan, LoadRestore, ScanFor, RestoreFor
  <2> QED
    BY <1>4, <2>3
<1>7. CASE External
  BY <1>4, <1>7 DEF External, ExternalReplace, ExternalRewrite, ExternalDelete
<1>8. ASSUME NEW p \in Pids, Crash(p) PROVE FALSE
  BY <1>1, <1>4, <1>8 DEF Crash
<1>9. CASE UNCHANGED vars
  BY <1>4, <1>9 DEF vars
<1> QED
  BY <1>3, <1>5, <1>6, <1>7, <1>8, <1>9 DEF Next

\* What the names of moved versions tell is true in every reachable state.
LEMMA MovesAlwaysFit == Spec => []MovesFit
<1>1. Init => MovesFit
  BY ThreadFacts DEF Init, MovesFit, LinksMoveNothing, CleansReplaced, PicksOthers
<1> QED
  BY <1>1, MovesStep, Invariance, PTL DEF Spec

\* Neither a crash nor a refusal, a foreign file or the recovery of another process costs a
\* version that a save has moved away from the path, and no recovery takes a running save's
\* version from it: with any number of processes, saves and recoveries at once.
THEOREM MovedVersionsSurvive == Spec => VersionsAreKept
<1>1. TypeOK /\ InstallInv /\ MovesFit /\ [Next]_vars =>
        [\A d \in displaced :
           d.kind = "moved" /\ d \notin displaced' =>
              \/ path' = d.file
              \/ \E s \in Savers : d \in Own(s) /\ Accepts(guard[s], d.file.data)]_vars
  BY ReleasedStep DEF Released
<1>2. TypeOK /\ MovesFit /\ [Next]_vars =>
        [\A t \in Loaders, d \in displaced :
           pc[t] = "loadRestore" /\ pc'[t] = "idle" /\ d.pid = PidOf[t]
              => d \in displaced']_vars
  BY OwnNamesStay
<1> QED
  BY <1>1, <1>2, Invariance, MovesAlwaysFit, PTL
     DEF Spec, VersionsAreKept, MovedVersionsAreKept, OwnMoveNotUndone

(***************************************************************************)
(* One save at a time is a compare-and-swap                                *)
(***************************************************************************)

\* Where links do not pin, and one thread at most saves: other processes open the file,
\* recover it and change it as they like.
OneMover == ~Pinning /\ \A s, r \in Savers : s = r

\* Whoever is about to install has written its file, and a recovery by the one saver
\* finds only its own names, so it moves nothing.
WriteFits(s) ==
    /\ pc[s] \in {"install", "absent", "vacant", "moved", "accepted"} => temp[s] # NoFile
    /\ pc[s] # "restoreOld"
    /\ \A d \in displaced : d.pid = PidOf[s]
WritesFit == \A s \in Savers : WriteFits(s)

\* Every step keeps it: a name is made for the saver, a temporary file goes with its job.
LEMMA WritesStep ==
  ASSUME OneMover, TypeOK, InstallInv, WritesFit, [Next]_vars
  PROVE  WritesFit'
<1> SUFFICES ASSUME NEW s \in Savers PROVE WriteFits(s)'
  BY DEF WritesFit
<1> USE DEF TypeOK, Goto, disk, jobVars
<1>0. /\ s \in Threads /\ WriteFits(s) /\ \A r \in Savers : r = s
      /\ \A r \in Loaders : r \in Threads /\ r # s
  BY ThreadFacts DEF WritesFit, OneMover
<1>1. ASSUME pc'[s] = pc[s], temp'[s] = temp[s],
             \A d \in displaced' : \E e \in displaced : d.pid = e.pid
      PROVE  WriteFits(s)'
  BY <1>0, <1>1 DEF WriteFits
<1>2. ASSUME pc'[s] \in {"idle", "dead", "scan", "write", "cleanup", "restore"},
             \A d \in displaced' : d.pid = PidOf[s] \/ d \in displaced
      PROVE  WriteFits(s)'
  BY <1>0, <1>2 DEF WriteFits
<1>3. ASSUME pc[s] \in {"install", "absent", "vacant", "moved", "accepted"},
             pc'[s] # "restoreOld", temp' = temp,
             \A d \in displaced' : d.pid = PidOf[s] \/ d \in displaced
      PROVE  WriteFits(s)'
  BY <1>0, <1>3 DEF WriteFits
<1>4. \A how, seen : FinishSeen(s, how, seen) => pc'[s] = "idle"
  BY <1>0 DEF FinishSeen
<1>5. Retry(s) => \/ pc'[s] = "idle"
                  \/ pc'[s] = "install" /\ temp' = temp
  <2>1. Finish(s, "conflict") => pc'[s] = "idle"
    BY <1>4 DEF Finish
  <2> QED
    BY <1>0, <2>1 DEF Retry
<1>6. ASSUME Save(s) PROVE WriteFits(s)'
  <2>1. SeenBy(s)
    BY DEF InstallInv, SeenIsJudged
  <2>2. /\ ~Pin(s) /\ ~CheckPinned(s) /\ ~VerifyPinned(s) /\ ~InstallPinned(s)
        /\ ~InstallPinnedFails(s) /\ ~SaveRestoreOld(s)
    BY <1>0, <2>1 DEF OneMover, SeenBy, WriteFits, Pin, CheckPinned, VerifyPinned,
         InstallPinned, InstallPinnedFails, SaveRestoreOld
  <2>3. CASE SaveScan(s)
    <3>1. \A d \in displaced : ~RecoveryCandidate(s, d)
      BY <1>0 DEF WriteFits, RecoveryCandidate
    <3>2. pc'[s] \in {"idle", "write"} /\ displaced' = displaced
      BY <1>0, <1>4, <2>3, <3>1 DEF SaveScan, ScanFor, Finish
    <3> QED
      BY <1>2, <3>2
  <2>4. ASSUME NEW data \in Data, WriteTemporary(s, data) PROVE WriteFits(s)'
    <3>1. pc'[s] = "install" /\ displaced' = displaced
      BY <1>0, <2>4 DEF WriteTemporary
    <3>2. PICK ino \in Inos : temp'[s] = [ino |-> ino, data |-> data]
      BY <2>4 DEF WriteTemporary
    <3>3. temp'[s] # NoFile
      BY <3>2, DataAssumption
    <3> QED
      BY <1>0, <3>1, <3>3 DEF WriteFits
  <2>5. CASE WriteFails(s) \/ RemoveAside(s) \/ RestoreMoved(s)
    <3>1. /\ pc'[s] = "idle"
          /\ \A d \in displaced' : d.pid = PidOf[s] \/ d \in displaced
      BY <1>4, <2>5 DEF WriteFails, RemoveAside, RestoreMoved, Finish, DropAside, Stuck, Own
    <3> QED
      BY <1>2, <3>1
  <2>6. CASE MoveAside(s) \/ FindAbsent(s)
    <3>1. /\ pc[s] = "install" /\ pc'[s] # "restoreOld" /\ temp' = temp
          /\ \A d \in displaced' : d.pid = PidOf[s] \/ d \in displaced
      BY <1>0, <2>6 DEF MoveAside, FindAbsent, SetAside
    <3> QED
      BY <1>3, <3>1
  <2>7. CASE CheckAbsent(s) \/ InstallMovedFails(s) \/ CheckMoved(s)
    <3>1. displaced' = displaced
      BY <2>7 DEF CheckAbsent, InstallMovedFails, CheckMoved
    <3>2. \/ pc'[s] \in {"idle", "restore"}
          \/ pc[s] = "absent" /\ pc'[s] = "vacant" /\ temp' = temp
          \/ pc[s] = "moved" /\ pc'[s] = "accepted" /\ temp' = temp
      BY <1>0, <1>4, <2>7 DEF CheckAbsent, InstallMovedFails, CheckMoved, Finish
    <3> QED
      BY <1>2, <1>3, <3>1, <3>2
  <2>8. CASE InstallVacant(s) \/ InstallMoved(s)
    <3>1. \A d \in displaced' : d.pid = PidOf[s] \/ d \in displaced
      BY <2>8 DEF InstallVacant, InstallMoved, Replaced, DropAside, Stuck, Own
    <3>2. \/ pc'[s] \in {"idle", "cleanup"}
          \/ pc[s] \in {"vacant", "accepted"} /\ pc'[s] = "install" /\ temp' = temp
      BY <1>0, <1>4, <1>5, <2>8 DEF InstallVacant, InstallMoved
    <3> QED
      BY <1>2, <1>3, <3>1, <3>2
  <2> QED
    BY <1>6, <2>2, <2>3, <2>4, <2>5, <2>6, <2>7, <2>8 DEF Save
<1>7. ASSUME NEW g \in Guards, BeginSave(s, g) PROVE WriteFits(s)'
  BY <1>0, <1>2, <1>7 DEF BeginSave
<1>8. ASSUME NEW r \in Loaders, Load(r) \/ BeginLoad(r) PROVE WriteFits(s)'
  <2>1. pc'[s] = pc[s] /\ temp' = temp /\ displaced' \subseteq displaced
    BY <1>0, <1>8 DEF Load, BeginLoad, LoadScan, LoadRestore, ScanFor, RestoreFor, RenameBack
  <2> QED
    BY <1>1, <2>1
<1>9. CASE External
  <2>1. /\ pc' = pc /\ temp' = temp
        /\ \A d \in displaced' : \E e \in displaced : d.pid = e.pid
    BY <1>9 DEF External, ExternalReplace, ExternalRewrite, ExternalDelete
  <2> QED
    BY <1>1, <2>1
<1>10. ASSUME NEW p \in Pids, Crash(p) PROVE WriteFits(s)'
  BY <1>0, <1>1, <1>2, <1>10 DEF Crash
<1>11. CASE UNCHANGED vars
  BY <1>1, <1>11 DEF vars
<1> QED
  BY <1>0, <1>6, <1>7, <1>8, <1>9, <1>10, <1>11 DEF Next

\* The saver has moved the version at the path away and not yet installed its own.
Hand(s) == pc[s] \in {"moved", "accepted", "restore"}

\* What a reader finds, or the running save has in hand, is one version.
FileFits ==
    /\ FileOfPath \in Data \union {NoData}
    /\ path # NoFile => FileOfPath = path.data
    /\ \A s \in Savers : path = NoFile =>
         /\ (~Hand(s) \/ Own(s) = {}) => FileOfPath = NoData
         /\ Hand(s) => \A d \in Own(s) : FileOfPath = d.file.data

\* The version in hand has one name, so the mapping picks that one.
LEMMA FileIsOne == OneMover /\ TypeOK /\ InstallInv => FileFits
<1> SUFFICES ASSUME OneMover, TypeOK, InstallInv PROVE FileFits
  OBVIOUS
<1>1. InHand \subseteq Data
  <2>1. \A s \in Savers : \A d \in Own(s) : d.file.data \in Data
    BY DEF Own, TypeOK, Displaced, Files
  <2> QED
    BY <2>1 DEF InHand
<1>2. FileOfPath \in Data \union {NoData}
  BY <1>1 DEF FileOfPath, TypeOK, Files
<1>3. path # NoFile => FileOfPath = path.data
  BY DEF FileOfPath
<1>4. ASSUME NEW s \in Savers, path = NoFile
      PROVE  /\ (~Hand(s) \/ Own(s) = {}) => FileOfPath = NoData
             /\ Hand(s) => \A d \in Own(s) : FileOfPath = d.file.data
  <2>1. \A d, e \in Own(s) : d = e
    BY DEF Own, OneMover, InstallInv, MovedObjectsAreGone
  <2>2. CASE ~Hand(s) \/ Own(s) = {}
    <3>1. \A v : v \notin InHand
      BY <2>2 DEF InHand, Hand, OneMover
    <3>2. FileOfPath = NoData
      BY <1>4, <3>1 DEF FileOfPath
    <3> QED
      BY <2>2, <3>2
  <2>3. ASSUME Hand(s), NEW d \in Own(s) PROVE FileOfPath = d.file.data
    <3>1. \A v : v \in InHand <=> v = d.file.data
      BY <2>1, <2>3 DEF InHand, Hand, OneMover
    <3>2. (CHOOSE v \in InHand : TRUE) = d.file.data /\ InHand # {}
      BY <3>1
    <3> QED
      BY <1>4, <3>2 DEF FileOfPath
  <2> QED
    BY <2>2, <2>3
<1> QED
  BY <1>2, <1>3, <1>4 DEF FileFits

\* The jobs of the abstract save.
Job == [s \in Savers |-> JobOf(s)]

\* A running save has a guard.
LEMMA JobIs ==
  ASSUME TypeOK, NEW s \in Savers
  PROVE  /\ Job[s] = JobOf(s)
         /\ pc[s] \in SaveSteps \ {"cleanup"} <=> JobOf(s) # "none"
         /\ JobOf(s) # "none" => JobOf(s) = guard[s]
  BY GuardsAssumption DEF Job, JobOf, TypeOK

\* Where the one saver's job goes on, all jobs do.
LEMMA JobGoesOn ==
  ASSUME OneMover, NEW s \in Savers, JobOf(s)' = JobOf(s)
  PROVE  Job' = Job
  BY DEF OneMover, Job

\* A job that ends has failed, or has installed what it may.
LEMMA JobEnds ==
  ASSUME OneMover, NEW s \in Savers, JobOf(s)' = "none", JobOf(s) # "none"
  PROVE  /\ FileOfPath' = FileOfPath => Checked!Fail(s)
         /\ FileOfPath' \in Data
              /\ (Accepts(JobOf(s), FileOfPath) \/ FileOfPath = NoData)
            => Checked!Commit(s)
<1>1. Job[s] = JobOf(s) /\ Job' = [Job EXCEPT ![s] = "none"]
  BY DEF OneMover, Job
<1> QED
  BY <1>1 DEF Job, Checked!Fail, Checked!Commit, Checked!Accepts, Accepts

\* A step that leaves the path alone, and what is in hand, leaves the version.
LEMMA FileStays ==
  ASSUME FileFits, FileFits', NEW s \in Savers, path' = path,
         \/ path # NoFile
         \/ ~Hand(s) /\ ~Hand(s)'
         \/ Hand(s) /\ Hand(s)' /\ Own(s)' = Own(s)
         \/ Own(s) = {} /\ ~Hand(s)'
  PROVE  FileOfPath' = FileOfPath
<1>1. CASE path # NoFile
  BY <1>1 DEF FileFits
<1>2. CASE path = NoFile /\ (~Hand(s) \/ Own(s) = {}) /\ ~Hand(s)'
  BY <1>2 DEF FileFits
<1>3. CASE path = NoFile /\ Hand(s) /\ Hand(s)' /\ Own(s)' = Own(s)
  BY <1>3 DEF FileFits
<1> QED
  BY <1>1, <1>2, <1>3

\* What the end of a round does to the job.
LEMMA RoundEnds ==
  ASSUME TypeOK, NEW s \in Savers
  PROVE  /\ \A how, seen : FinishSeen(s, how, seen) => pc'[s] = "idle"
         /\ Retry(s) => \/ pc'[s] = "idle"
                        \/ pc'[s] = "install" /\ guard' = guard
<1>1. \A how, seen : FinishSeen(s, how, seen) => pc'[s] = "idle"
  BY ThreadFacts DEF FinishSeen, Goto, TypeOK
<1>2. Finish(s, "conflict") => pc'[s] = "idle"
  BY <1>1 DEF Finish
<1> QED
  BY <1>1, <1>2, ThreadFacts DEF Retry, Goto, TypeOK

\* Every step of atomic_write_checked is a commit, a failure, or nothing a reader of the
\* file could see.
LEMMA SaveIsChecked ==
  ASSUME OneMover, TypeOK, TypeOK', InstallInv, InstallInv', WritesFit, WritesFit',
         FileFits, FileFits', NEW s \in Savers, Save(s)
  PROVE  Checked!SaverNext \/ UNCHANGED <<FileOfPath, Job>>
<1> DEFINE Goal == Checked!SaverNext \/ UNCHANGED <<FileOfPath, Job>>
<1> USE DEF Goto, disk, jobVars
<1>0. /\ s \in Threads /\ pc \in [Threads -> Steps] /\ WriteFits(s) /\ SeenBy(s)
      /\ \A step : pc' = [pc EXCEPT ![s] = step] => pc'[s] = step
  BY ThreadFacts DEF TypeOK, WritesFit, InstallInv, SeenIsJudged
<1>1. ASSUME FileOfPath' = FileOfPath, JobOf(s)' = JobOf(s) PROVE Goal
  BY <1>1, JobGoesOn
<1>2. ASSUME FileOfPath' = FileOfPath, JobOf(s) # "none", JobOf(s)' = "none" PROVE Goal
  BY <1>2, JobEnds DEF Checked!SaverNext
<1>3. ASSUME FileOfPath' \in Data, JobOf(s) # "none", JobOf(s)' = "none",
             Accepts(guard[s], FileOfPath) \/ FileOfPath = NoData
      PROVE  Goal
  BY <1>3, JobEnds, JobIs DEF Checked!SaverNext
<1> HIDE DEF Goal
<1>4. ASSUME FileOfPath' = FileOfPath, pc[s] \in SaveSteps \ {"cleanup"},
             \/ pc'[s] = "idle"
             \/ pc'[s] \in SaveSteps \ {"cleanup"} /\ guard' = guard
      PROVE  Goal
  <2>1. JobOf(s) = guard[s] /\ JobOf(s) # "none"
    BY <1>4, JobIs
  <2>2. JobOf(s)' = "none" \/ JobOf(s)' = JobOf(s)
    BY <1>4, <2>1 DEF JobOf, SaveSteps
  <2> QED
    BY <1>1, <1>2, <1>4, <2>1, <2>2
<1>5. /\ ~Pin(s) /\ ~CheckPinned(s) /\ ~VerifyPinned(s) /\ ~InstallPinned(s)
      /\ ~InstallPinnedFails(s) /\ ~SaveRestoreOld(s)
  BY <1>0 DEF OneMover, SeenBy, WriteFits, Pin, CheckPinned, VerifyPinned,
       InstallPinned, InstallPinnedFails, SaveRestoreOld
<1>6. ASSUME UNCHANGED path, ~Hand(s), pc[s] \in SaveSteps \ {"cleanup"},
             \/ pc'[s] = "idle"
             \/ pc'[s] \in SaveSteps \ {"cleanup"} /\ guard' = guard /\ ~Hand(s)'
      PROVE  Goal
  <2>1. ~Hand(s)'
    BY <1>6 DEF Hand
  <2> QED
    BY <1>4, <1>6, <2>1, FileStays
<1>7. ASSUME SaveScan(s) PROVE Goal
  <2>1. \A d \in displaced : ~RecoveryCandidate(s, d)
    BY <1>0 DEF WriteFits, RecoveryCandidate
  <2>2. /\ pc[s] = "scan" /\ UNCHANGED path
        /\ pc'[s] = "idle" \/ (pc'[s] = "write" /\ guard' = guard)
    BY <1>0, <1>7, <2>1, RoundEnds DEF SaveScan, ScanFor, Finish
  <2> QED
    BY <1>6, <2>2 DEF SaveSteps, Hand
<1>8. ASSUME \/ WriteFails(s) \/ FindAbsent(s) \/ CheckAbsent(s)
             \/ \E data \in Data : WriteTemporary(s, data)
      PROVE  Goal
  <2>1. /\ pc[s] \in {"write", "install", "vacant", "absent"} /\ UNCHANGED path
        /\ \/ pc'[s] = "idle"
           \/ pc'[s] \in {"install", "absent", "vacant"} /\ guard' = guard
    BY <1>0, <1>8, RoundEnds DEF WriteFails, FindAbsent, CheckAbsent, WriteTemporary, Finish
  <2> QED
    BY <1>6, <2>1 DEF SaveSteps, Hand
<1>9. ASSUME MoveAside(s) PROVE Goal
  <2>1. /\ pc[s] = "install" /\ pc'[s] = "moved" /\ guard' = guard /\ path # NoFile
        /\ path' = NoFile
    BY <1>0, <1>9 DEF MoveAside
  <2>2. SetAside(s, "moved") \in Own(s)' /\ SetAside(s, "moved").file = path
    BY <1>9 DEF MoveAside, SetAside, Own, TypeOK
  <2>3. FileOfPath' = path.data
    BY <2>1, <2>2 DEF FileFits, Hand
  <2> QED
    BY <1>4, <2>1, <2>3 DEF SaveSteps, FileFits
<1>10. ASSUME InstallVacant(s) PROVE Goal
  <2>1. pc[s] = "vacant" /\ ~Hand(s)
    BY <1>10 DEF InstallVacant, Hand
  <2>2. CASE path = NoFile
    <3>1. path' = temp[s] /\ temp[s] # NoFile /\ pc'[s] = "idle"
      BY <1>0, <1>10, <2>1, <2>2, RoundEnds DEF InstallVacant, WriteFits
    <3>2. FileOfPath' \in Data /\ FileOfPath = NoData
      BY <2>1, <2>2, <3>1 DEF FileFits, TypeOK, Files
    <3> QED
      BY <1>3, <2>1, <3>1, <3>2, JobIs DEF JobOf, SaveSteps
  <2>3. CASE path # NoFile
    <3>1. /\ UNCHANGED path
          /\ pc'[s] = "idle" \/ (pc'[s] = "install" /\ guard' = guard)
      BY <1>10, <2>3, RoundEnds DEF InstallVacant
    <3> QED
      BY <1>6, <2>1, <3>1 DEF SaveSteps, Hand
  <2> QED
    BY <2>2, <2>3
<1>11. ASSUME CheckMoved(s) \/ InstallMovedFails(s) PROVE Goal
  <2>1. /\ pc[s] \in {"moved", "accepted"} /\ pc'[s] \in {"accepted", "restore"}
        /\ guard' = guard /\ UNCHANGED <<path, displaced, aside>>
    BY <1>0, <1>11 DEF CheckMoved, InstallMovedFails
  <2>2. Hand(s) /\ Hand(s)' /\ Own(s)' = Own(s)
    BY <2>1 DEF Hand, Own
  <2> QED
    BY <1>4, <2>1, <2>2, FileStays DEF SaveSteps
<1>12. ASSUME InstallMoved(s) PROVE Goal
  <2>1. pc[s] = "accepted" /\ Hand(s)
    BY <1>12 DEF InstallMoved, Hand
  <2>2. CASE path = NoFile
    <3>1. path' = temp[s] /\ temp[s] # NoFile /\ pc'[s] = "cleanup"
      BY <1>0, <1>12, <2>1, <2>2 DEF InstallMoved, WriteFits
    <3>2. FileOfPath' \in Data
      BY <3>1 DEF FileFits, TypeOK, Files
    <3>3. Accepts(guard[s], FileOfPath) \/ FileOfPath = NoData
      <4>1. CASE Own(s) = {}
        BY <2>2, <4>1 DEF FileFits
      <4>2. ASSUME NEW d \in Own(s) PROVE Accepts(guard[s], FileOfPath)
        <5>1. FileOfPath = d.file.data /\ Accepts(guard[s], d.file.data)
          BY <1>0, <2>1, <2>2, <4>2 DEF FileFits, SeenBy
        <5> QED
          BY <5>1
      <4> QED
        BY <4>1, <4>2
    <3> QED
      BY <1>3, <2>1, <3>1, <3>2, <3>3, JobIs DEF JobOf, SaveSteps
  <2>3. CASE path # NoFile
    <3>1. /\ UNCHANGED path
          /\ pc'[s] = "idle" \/ (pc'[s] = "install" /\ guard' = guard)
      BY <1>12, <2>3, RoundEnds DEF InstallMoved
    <3>2. FileOfPath' = FileOfPath
      BY <2>3, <3>1, FileStays
    <3> QED
      BY <1>4, <2>1, <3>1, <3>2 DEF SaveSteps
  <2> QED
    BY <2>2, <2>3
<1>13. ASSUME RestoreMoved(s) PROVE Goal
  <2>1. pc[s] = "restore" /\ Hand(s) /\ pc'[s] = "idle"
    BY <1>13, RoundEnds DEF RestoreMoved, Hand, Finish
  <2>2. CASE path = NoFile /\ Own(s) # {}
    <3>1. PICK d \in Own(s) : path' = d.file
      BY <1>13, <2>2 DEF RestoreMoved
    <3>2. d.file # NoFile
      BY DataAssumption DEF Own, TypeOK, Displaced, Files
    <3>3. FileOfPath = d.file.data /\ FileOfPath' = d.file.data
      BY <2>1, <2>2, <3>1, <3>2 DEF FileFits
    <3> QED
      BY <1>4, <2>1, <3>3 DEF SaveSteps
  <2>3. CASE ~(path = NoFile /\ Own(s) # {})
    <3>1. UNCHANGED path
      BY <1>13, <2>3 DEF RestoreMoved
    <3>2. ~Hand(s)'
      BY <2>1 DEF Hand
    <3>3. FileOfPath' = FileOfPath
      BY <2>3, <3>1, <3>2, FileStays
    <3> QED
      BY <1>4, <2>1, <3>3 DEF SaveSteps
  <2> QED
    BY <2>2, <2>3
<1>14. ASSUME RemoveAside(s) PROVE Goal
  <2>1. pc[s] = "cleanup" /\ pc'[s] = "idle" /\ UNCHANGED path
    BY <1>14, RoundEnds DEF RemoveAside, Finish
  <2>2. ~Hand(s) /\ ~Hand(s)'
    BY <2>1 DEF Hand
  <2>3. JobOf(s)' = JobOf(s)
    BY <2>1 DEF JobOf, SaveSteps
  <2> QED
    BY <1>1, <2>1, <2>2, <2>3, FileStays
<1>15. Goal
  BY <1>5, <1>7, <1>8, <1>9, <1>10, <1>11, <1>12, <1>13, <1>14 DEF Save
<1> QED
  BY <1>15 DEF Goal

\* Where no saver moves, no job does.
LEMMA JobStays ==
  ASSUME \A s \in Savers : pc'[s] = pc[s] /\ guard'[s] = guard[s]
  PROVE  Job' = Job
  BY DEF Job, JobOf

\* Every step is one of the abstract save, or nothing to it: what other programs and
\* recoveries do to the file is theirs, and a process that dies leaves what it had or
\* nothing at the path.
LEMMA StepIsChecked ==
  ASSUME OneMover, TypeOK, TypeOK', InstallInv, InstallInv', WritesFit, WritesFit',
         FileFits, FileFits', Next
  PROVE  Checked!Next \/ UNCHANGED <<FileOfPath, Job>>
<1>1. ASSUME \A s \in Savers : pc'[s] = pc[s] /\ guard'[s] = guard[s]
      PROVE  Checked!OthersNext
  BY <1>1, JobStays DEF FileFits, Checked!OthersNext, Job
<1>2. ASSUME NEW s \in Savers, Save(s)
      PROVE  Checked!SaverNext \/ UNCHANGED <<FileOfPath, Job>>
  BY <1>2, SaveIsChecked
<1>3. ASSUME NEW s \in Savers, NEW g \in Guards, BeginSave(s, g)
      PROVE  Checked!Begin(s, g) \/ UNCHANGED <<FileOfPath, Job>>
  <2>0. CASE UNCHANGED <<pc, path>>
    <3>1. JobOf(s)' = JobOf(s)
      BY <1>3, <2>0 DEF BeginSave, JobOf, SaveSteps
    <3>2. ~Hand(s) /\ ~Hand(s)'
      BY <1>3, <2>0 DEF BeginSave, Hand
    <3> QED
      BY <2>0, <3>1, <3>2, JobGoesOn, FileStays
  <2> SUFFICES ASSUME ~UNCHANGED <<pc, path>> PROVE Checked!Begin(s, g)
    BY <2>0
  <2>1. /\ s \in Threads /\ pc[s] = "idle" /\ pc'[s] = "scan" /\ path' = path
        /\ guard'[s] = g
    BY <1>3, ThreadFacts DEF BeginSave, Goto, disk, TypeOK
  <2>2. FileOfPath' = FileOfPath
    BY <2>1, FileStays DEF Hand
  <2>3. JobOf(s) = "none" /\ JobOf(s)' = g
    BY <2>1 DEF JobOf, SaveSteps
  <2>4. Job[s] = "none" /\ Job' = [Job EXCEPT ![s] = g]
    BY <2>3 DEF Job, OneMover
  <2> QED
    BY <2>2, <2>4 DEF Checked!Begin, Job
<1>4. ASSUME NEW t \in Loaders, Load(t) \/ BeginLoad(t) PROVE Checked!OthersNext
  <2>1. t \in Threads /\ \A s \in Savers : s \in Threads /\ s # t
    BY ThreadFacts
  <2>2. \A s \in Savers : pc'[s] = pc[s] /\ guard'[s] = guard[s]
    BY <1>4, <2>1 DEF Load, BeginLoad, LoadScan, LoadRestore, ScanFor, RestoreFor, Goto,
         jobVars, TypeOK
  <2> QED
    BY <1>1, <2>2
<1>5. ASSUME External PROVE Checked!OthersNext
  BY <1>1, <1>5 DEF External, ExternalReplace, ExternalRewrite, ExternalDelete, jobVars
<1>6. ASSUME NEW p \in Pids, Crash(p)
      PROVE  \/ Checked!OthersNext \/ UNCHANGED <<FileOfPath, Job>>
             \/ \E s \in Savers : Checked!Interrupt(s)
  <2>1. ASSUME \A s \in Savers : PidOf[s] # p PROVE Checked!OthersNext
    BY <1>1, <1>6, <2>1, ThreadFacts DEF Crash, TypeOK
  <2>2. ASSUME NEW s \in Savers, PidOf[s] = p
        PROVE  Checked!Interrupt(s) \/ UNCHANGED <<FileOfPath, Job>>
    <3>1. pc'[s] = "dead" /\ path' = path
      BY <1>6, <2>2, ThreadFacts DEF Crash, disk
    <3>2. JobOf(s)' = "none" /\ ~Hand(s)'
      BY <3>1 DEF JobOf, Hand, SaveSteps
    <3>3. CASE JobOf(s) = "none"
      <4>1. ~Hand(s)
        BY <3>3, JobIs DEF Hand, SaveSteps
      <4> QED
        BY <3>1, <3>2, <3>3, <4>1, FileStays, JobGoesOn
    <3>4. CASE JobOf(s) # "none"
      <4>1. FileOfPath' \in {FileOfPath, NoData}
        BY <3>1, <3>2 DEF FileFits
      <4>2. Job[s] # "none" /\ Job' = [Job EXCEPT ![s] = "none"]
        BY <3>2, <3>4 DEF Job, OneMover
      <4> QED
        BY <4>1, <4>2 DEF Checked!Interrupt, Job
    <3> QED
      BY <3>3, <3>4
  <2> QED
    BY <2>1, <2>2
<1>7. CASE \E t \in Savers : Save(t) \/ \E g \in Guards : BeginSave(t, g)
  BY <1>2, <1>3, <1>7 DEF Checked!Next, Checked!SaverNext
<1> QED
  BY <1>4, <1>5, <1>6, <1>7 DEF Next, Checked!Next

\* What the one saver knows of its own file holds in every reachable state.
LEMMA WritesAlwaysFit ==
  ASSUME OneMover
  PROVE  Spec => []WritesFit
<1>1. Init => WritesFit
  BY ThreadFacts DEF Init, WritesFit, WriteFits
<1> QED
  BY <1>1, WritesStep, Invariance, PTL DEF Spec

\* Move-aside, check, install and restore together are one compare-and-swap: atomic_write_
\* checked does what save_checked promises, and no step of a save changes what a reader
\* finds but a commit; with one saver, any number of processes that open and recover the
\* file, and other programs that change it at every step.
THEOREM SaveIsCompareAndSwap ==
  ASSUME OneMover
  PROVE  Spec => ImplementsCheckedSave
<1>1. Init => Checked!Init
  <2>1. ASSUME Init PROVE FileOfPath \in Data \union {NoData}
    <3>1. \A v : v \notin InHand
      BY <2>1, ThreadFacts DEF Init, InHand
    <3> QED
      BY <2>1, <3>1 DEF Init, FileOfPath, Files
  <2>2. ASSUME Init PROVE [s \in Savers |-> JobOf(s)] = [s \in Savers |-> "none"]
    BY <2>2, ThreadFacts DEF Init, JobOf, SaveSteps
  <2> QED
    BY <2>1, <2>2 DEF Checked!Init
<1> DEFINE Sound == TypeOK /\ InstallInv /\ WritesFit /\ FileFits
<1>2. Sound /\ Sound' /\ [Next]_vars
        => [Checked!Next]_<<FileOfPath, [s \in Savers |-> JobOf(s)]>>
  <2>1. ASSUME UNCHANGED vars PROVE UNCHANGED <<FileOfPath, [s \in Savers |-> JobOf(s)]>>
    BY <2>1 DEF vars, FileOfPath, InHand, Own, JobOf
  <2> QED
    BY <2>1, StepIsChecked DEF Job
<1>3. Sound /\ Sound' /\ [Next]_vars
        => [(\E t \in Savers : Save(t)) =>
              Checked!SaverNext
              \/ UNCHANGED <<FileOfPath, [s \in Savers |-> JobOf(s)]>>]_vars
  BY SaveIsChecked DEF Job
<1>4. TypeOK /\ InstallInv => FileFits
  BY FileIsOne
<1> QED
  BY <1>1, <1>2, <1>3, <1>4, Invariance, WritesAlwaysFit, PTL
     DEF Spec, ImplementsCheckedSave, Checked!Spec
=============================================================================
