-------------------------- MODULE DocumentSession --------------------------
(***************************************************************************)
(* One open document: the session that owns its text, revision, accepted   *)
(* baseline, save slot and external-change state (crates/session), driven  *)
(* by the view that runs its background jobs (crates/ui).                  *)
(*                                                                         *)
(* The UI thread executes one handler at a time, so every handler is one   *)
(* action.  Everything that leaves the UI thread is a job that runs and    *)
(* reports in its own time: a write or rename (jobs), a read of the file   *)
(* after a notification (checks), the read that follows a confirmed        *)
(* discard (verifies), a load (opening) and a move to the Trash (trash).   *)
(* Other programs change the disk at any moment.                           *)
(*                                                                         *)
(* A guarded write is one atomic step here: that the file service can make *)
(* its check and its replacement look atomic is what module SaveInstall    *)
(* is about.                                                               *)
(***************************************************************************)
EXTENDS Integers, FiniteSets

CONSTANTS
  Paths,        \* the file names in play
  Contents,     \* the texts a document or a file can hold
  NoPath,       \* the path of an untitled document
  NoFile,       \* in place of a content: the file is missing
  UserActions,  \* what the environment of this instance may do, from Moves
  Budget        \* how many such things it does in one behaviour

Moves == {"edit", "compose", "save", "saveAs", "createNew", "rename", "overwrite",
          "reload", "open", "switch", "recheck", "trash", "external", "faults"}

ASSUME SessionAssumption ==
  /\ NoPath \notin Paths
  /\ NoFile \notin Contents
  /\ UserActions \subseteq Moves
  /\ Budget \in Nat

VARIABLES
  disk,      \* what each path holds
  ses,       \* the DocumentSession
  jobs,      \* writes and renames handed to the background executor
  checks,    \* reads started by an external check
  verifies,  \* reads started by a confirmed discard
  prompt,    \* the resolution dialog on screen
  armed,     \* an autosave timer that is still current
  deferred,  \* the timer of a held-back reload
  notice,    \* a watcher batch, or the first check of a new path, is owed
  active,    \* this document's tab is the selected one
  opening,   \* a load into this session
  trash,     \* a move of this session's file to the Trash
  problem,   \* the save problem shown for this document
  budget,    \* moves the environment has left
  known,     \* history: versions this document was read from, saved or confirmed over
  tried,     \* history: the last revision whose write, or refusal, was reported
  stirred,   \* history: the external version or document moved since the last answer
  cut        \* history: what a check found, or owed, was forgotten

vars == <<disk, ses, jobs, checks, verifies, prompt, armed, deferred, notice, active,
          opening, trash, problem, budget, known, tried, stirred, cut>>

Versions == Contents \cup {NoFile}
Kinds == {"none", "overwrite", "reload"}

Approvals == [kind : Kinds, gen : Nat, rev : Nat, shown : Versions, serial : Nat]
NoApproval == [kind |-> "none", gen |-> 0, rev |-> 0, shown |-> NoFile, serial |-> 0]

Tickets == [gen : Nat, seq : Nat, rev : Nat]
NoTicket == [gen |-> 0, seq |-> 0, rev |-> 0]   \* sequences start at 1

Intents == [kind : {"none", "current", "to", "createNew", "confirmed"},
            path : Paths \cup {NoPath}, approval : Approvals]
NoIntent == [kind |-> "none", path |-> NoPath, approval |-> NoApproval]
Current == [NoIntent EXCEPT !.kind = "current"]
To(p) == [NoIntent EXCEPT !.kind = "to", !.path = p]
CreateNew(p) == [NoIntent EXCEPT !.kind = "createNew", !.path = p]
Confirmed(a) == [NoIntent EXCEPT !.kind = "confirmed", !.approval = a]

Sessions ==
  [path : Paths \cup {NoPath}, text : Contents, rev : Nat, saved : Nat, gen : Nat,
   ime : BOOLEAN, baseline : Versions, present : BOOLEAN,
   external : {"inSync", "changed", "missing", "unverifiable"}, seen : Versions,
   seq : Nat, inFlight : Tickets, pending : Intents, saves : Nat,
   checking : BOOLEAN, recheck : BOOLEAN, serial : Nat, live : Nat, verify : Nat]

Jobs == [kind : {"save", "confirmed", "rename"}, ticket : Tickets, path : Paths,
         doc : Contents, forced : BOOLEAN, expects : Versions,
         status : {"running", "done", "conflict", "failed"}, to : Paths]
Reads == {"reading", "read", "unreadable"}
Checks == [gen : Nat, rev : Nat, saves : Nat, path : Paths, read : Reads,
           found : Versions, after : Nat]
Verifies == [approval : Approvals, gen : Nat, rev : Nat, path : Paths, read : Reads,
             found : Versions, after : Nat]
Prompts == [kind : Kinds, gen : Nat, rev : Nat, shown : Versions]
NoPrompt == [kind |-> "none", gen |-> 0, rev |-> 0, shown |-> NoFile]
Idle == [stage |-> "idle", path |-> NoPath, found |-> NoFile]
Tasks == [stage : {"idle", "running", "done"}, path : Paths \cup {NoPath}, found : Versions]

-----------------------------------------------------------------------------
(* The session: pure functions from a session to a session, named for the  *)
(* methods of DocumentSession they stand for.                              *)

IsDirty(s) == s.rev # s.saved
Tracked(s) == s.path # NoPath
SaveInFlight(s) == s.inFlight # NoTicket

NewSession(p, c, b) ==
  [path |-> p, text |-> c, rev |-> 0, saved |-> 0, gen |-> 0, ime |-> FALSE,
   baseline |-> b, present |-> TRUE, external |-> "inSync", seen |-> NoFile,
   seq |-> 0, inFlight |-> NoTicket, pending |-> NoIntent, saves |-> 0,
   checking |-> FALSE, recheck |-> FALSE, serial |-> 0, live |-> 0, verify |-> 0]

ResetExternalTracking(s) ==
  [s EXCEPT !.external = "inSync", !.seen = NoFile, !.checking = FALSE,
            !.recheck = FALSE, !.live = 0]

ReplaceWithDisk(s, c) ==
  ResetExternalTracking(
    [s EXCEPT !.text = c, !.rev = 0, !.saved = 0, !.gen = @ + 1, !.ime = FALSE,
              !.baseline = c, !.present = TRUE, !.pending = NoIntent])

Adopt(s, p, c) == [ReplaceWithDisk(s, c) EXCEPT !.path = p, !.inFlight = NoTicket]

\* What there is to resolve: nothing, or the version seen, or a missing file.
CurrentExternal(s) ==
  CASE s.external = "changed" -> {s.seen}
    [] s.external = "missing" -> {NoFile}
    [] s.external = "inSync" -> IF s.present THEN {} ELSE {NoFile}
    [] s.external = "unverifiable" -> {}

ApprovalIsCurrent(s, a, kind) ==
  /\ a.kind = kind
  /\ s.live = a.serial /\ a.serial # 0
  /\ a.gen = s.gen /\ a.rev = s.rev
  /\ a.shown \in CurrentExternal(s)

\* Mutated: an approval survives another external version.
SetExternalOnly(s, state, c) == [s EXCEPT !.external = state, !.seen = c]

SetExternal(s, state, c) ==
  LET same == /\ state = s.external
              /\ state # "unverifiable"
              /\ state = "changed" => c = s.seen
  IN  [s EXCEPT !.external = state, !.seen = c, !.live = IF same THEN @ ELSE 0]

ApproveResolution(s) == [s EXCEPT !.serial = @ + 1, !.live = s.serial + 1]
Approval(s, kind, shown) ==
  [kind |-> kind, gen |-> s.gen, rev |-> s.rev, shown |-> shown, serial |-> s.serial]

\* The save slot is taken, by a write (start_write) or a rename (begin_rename).
NextTicket(s) == [gen |-> s.gen, seq |-> s.seq + 1, rev |-> s.rev]
TakeSlot(s) == [s EXCEPT !.seq = @ + 1, !.inFlight = NextTicket(s)]
ReleaseSlot(s) == [s EXCEPT !.inFlight = NoTicket]

\* Mutated: a version once noticed may be replaced by the next ordinary save.
GuardBySeen(s) == IF s.external = "changed" THEN s.seen ELSE s.baseline

ContentGuard(s) == s.baseline

\* The write a granted request starts.  Save As over another file is forced:
\* the dialog that named the target asked about replacing it.
WriteJob(s, i) ==
  LET to == IF i.kind \in {"to", "createNew"} THEN i.path ELSE s.path
  IN  [kind |-> IF i.kind = "confirmed" THEN "confirmed" ELSE "save",
       ticket |-> NextTicket(s), path |-> to, doc |-> s.text,
       forced |-> i.kind = "to" /\ i.path # s.path,
       expects |-> CASE i.kind = "createNew" -> NoFile
                     [] i.kind = "confirmed" -> s.seen
                     [] OTHER -> ContentGuard(s),
       status |-> "running", to |-> to]

\* What a request means right now.  A request with nothing to write, or whose
\* approval has expired, is answered with a message and forgotten.
ApprovalExpired(s, i) ==
  /\ i.kind = "confirmed" /\ ~SaveInFlight(s)
  /\ ~(Tracked(s) /\ ApprovalIsCurrent(s, i.approval, "overwrite"))

RequestRefused(s, i) ==
  \/ i.kind = "none"
  \/ i.kind = "current" /\ ~Tracked(s)
  \/ ApprovalExpired(s, i)

\* Mutated: a request that meets a running write is dropped, not queued.
AfterRequestUnqueued(s, i) ==
  IF RequestRefused(s, i) \/ SaveInFlight(s) THEN s
  ELSE [TakeSlot(s) EXCEPT !.live = IF i.kind = "confirmed" THEN 0 ELSE @]

AfterRequest(s, i) ==
  IF RequestRefused(s, i) THEN s
  ELSE IF SaveInFlight(s) THEN [s EXCEPT !.pending = i]
  ELSE [TakeSlot(s) EXCEPT !.live = IF i.kind = "confirmed" THEN 0 ELSE @]

JobsOfRequest(s, i) ==
  IF RequestRefused(s, i) \/ SaveInFlight(s) THEN {} ELSE {WriteJob(s, i)}

TakePending(s) == [s EXCEPT !.pending = NoIntent]

\* Mutated: the whole document counts as saved, edited meanwhile or not.
FinishedSaveAll(s, j) ==
  IF j.status = "done"
  THEN [ReleaseSlot(s) EXCEPT
          !.path = j.path, !.baseline = j.doc, !.present = TRUE, !.saves = @ + 1,
          !.external = "inSync", !.seen = NoFile, !.saved = s.rev]
  ELSE ReleaseSlot(s)

FinishedSave(s, j) ==
  LET landed == [ReleaseSlot(s) EXCEPT
                   !.path = j.path, !.baseline = j.doc, !.present = TRUE,
                   !.saves = @ + 1, !.external = "inSync", !.seen = NoFile,
                   !.live = IF s.external = "inSync" THEN @ ELSE 0,
                   !.saved = IF s.rev = j.ticket.rev THEN s.rev ELSE @]
  IN  IF j.status = "done" THEN landed ELSE ReleaseSlot(s)

\* A title or inline rename landed: the session follows its file.
FollowRename(s, j) ==
  IF j.status = "done" /\ s.path = j.path
  THEN [s EXCEPT !.path = j.to, !.present = TRUE] ELSE s

\* Mutated: a request that meets a running check leaves no trace.
BeginCheckUnlessRunning(s) == IF Tracked(s) THEN [s EXCEPT !.checking = TRUE] ELSE s

BeginExternalCheck(s) ==
  IF ~Tracked(s) THEN s
  ELSE IF s.checking THEN [s EXCEPT !.recheck = TRUE]
  ELSE [s EXCEPT !.checking = TRUE]

ChecksStarted(s) ==
  IF ~Tracked(s) \/ s.checking THEN {}
  ELSE {[gen |-> s.gen, rev |-> s.rev, saves |-> s.saves, path |-> s.path,
         read |-> "reading", found |-> NoFile, after |-> 0]}

\* Mutated: an unchanged revision is taken for an unedited document.
CanReplaceSameRevision(s, c) == s.rev = c.rev /\ ~s.ime /\ ~SaveInFlight(s)

CanReplace(s, c) ==
  /\ ~IsDirty(s) /\ s.rev = c.rev
  /\ ~s.ime /\ ~SaveInFlight(s)

\* The tickets a finished read is held against.
\* Mutated: saves made during the read are not asked about.
CheckIsOfPath(s, c) == c.path = s.path

CheckIsCurrent(s, c) == c.path = s.path /\ c.saves = s.saves

FileRead(r) == r.read = "read" /\ r.found # NoFile

\* A read that found no text: the file is gone, or could not be read.
ObserveFailure(s, r) ==
  IF r.read = "unreadable" THEN SetExternal(s, "unverifiable", NoFile)
  ELSE [SetExternal(s, "missing", NoFile) EXCEPT !.present = FALSE]
ObserveBaseline(s) == [SetExternal(s, "inSync", NoFile) EXCEPT !.present = TRUE]
ObserveChange(s, c) == [SetExternal(s, "changed", c) EXCEPT !.present = TRUE]

FinishedCheck(s, c) ==
  LET free == [s EXCEPT !.checking = FALSE]
  IN  IF ~CheckIsCurrent(s, c) THEN [free EXCEPT !.recheck = @ \/ c.path = s.path]
      ELSE IF ~FileRead(c) THEN ObserveFailure(free, c)
      ELSE IF c.found = s.baseline THEN ObserveBaseline(free)
      ELSE IF CanReplace(s, c) THEN ReplaceWithDisk(free, c.found)
      ELSE ObserveChange(free, c.found)

VerifyIsCurrent(s, v) ==
  /\ s.verify = v.approval.serial /\ s.gen = v.gen
  /\ s.path = v.path /\ s.rev = v.rev

FinishedVerify(s, v) ==
  LET free == [s EXCEPT !.verify = 0]
  IN  IF s.ime \/ SaveInFlight(s) THEN free
      ELSE IF ~FileRead(v) THEN ObserveFailure(free, v)
      ELSE IF ApprovalIsCurrent(s, v.approval, "reload") /\ v.approval.shown = v.found
      THEN ReplaceWithDisk(free, v.found)
      ELSE ObserveChange(free, v.found)

-----------------------------------------------------------------------------
(* The handlers.  Each works on the session it reads, s, and says what     *)
(* becomes of the session, of the jobs and of the timers.                  *)

Spend(move) == move \in UserActions /\ budget > 0 /\ budget' = budget - 1

\* schedule_autosave: every call retires the timer of the previous one.
AutosaveDue(s) == Tracked(s) /\ IsDirty(s)

\* start_external_check, on top of the session s.
StartCheckFrom(s) == ses' = BeginExternalCheck(s) /\ checks' = checks \cup ChecksStarted(s)

\* save_session, on top of the session s and the jobs js.
SaveFrom(s, i, js) == ses' = AfterRequest(s, i) /\ jobs' = js \cup JobsOfRequest(s, i)

\* The request that waited behind a job runs when the job has reported.
RunPending(s, js) == SaveFrom(TakePending(s), s.pending, js)

\* A request that waited and has expired is reported for the document as it is.
Reported(s, r) == tried' = IF ApprovalExpired(s, s.pending) THEN s.rev ELSE r

\* The document was replaced: nothing recorded for the old one applies.
NewDocument(c) ==
  /\ armed' = FALSE /\ deferred' = FALSE /\ problem' = "none"
  /\ known' = {c} /\ tried' = 0

\* Typing, pasting, undoing: any command that leaves another text or another
\* revision of the same one.
Edit(c) ==
  /\ Spend("edit") /\ active
  /\ ses' = [ses EXCEPT !.text = c, !.rev = @ + 1]
  /\ armed' = AutosaveDue(ses')
  /\ UNCHANGED <<disk, jobs, checks, verifies, prompt, deferred, notice, active, opening,
                 trash, problem, known, tried>>

\* An input method marks text: the marked text is already in the buffer.
Compose(c) ==
  /\ Spend("compose") /\ active
  /\ ses' = [ses EXCEPT !.text = c, !.rev = @ + 1, !.ime = TRUE]
  /\ armed' = AutosaveDue(ses')
  /\ UNCHANGED <<disk, jobs, checks, verifies, prompt, deferred, notice, active, opening,
                 trash, problem, known, tried>>

\* The composition is confirmed as it stands.
EndCompose ==
  /\ ses.ime
  /\ ses' = [ses EXCEPT !.ime = FALSE]
  /\ UNCHANGED <<disk, jobs, checks, verifies, prompt, armed, deferred, notice, active,
                 opening, trash, problem, budget, known, tried>>

\* The debounce ends.  It saves the document it was armed for only while that
\* tab is selected, and waits for a composition to end.
AutosaveFires ==
  /\ armed
  /\ IF active /\ ~ses.ime THEN SaveFrom(ses, Current, jobs) ELSE UNCHANGED <<ses, jobs>>
  /\ armed' = (active /\ ses.ime /\ AutosaveDue(ses))
  /\ UNCHANGED <<disk, checks, verifies, prompt, deferred, notice, active, opening, trash,
                 problem, budget, known, tried>>

RequestSave(i) ==
  /\ SaveFrom(ses, i, jobs)
  /\ UNCHANGED <<disk, checks, verifies, prompt, armed, deferred, notice, active, opening,
                 trash, problem, known, tried>>

Save == Spend("save") /\ active /\ RequestSave(Current)
SaveAs(p) == Spend("saveAs") /\ RequestSave(To(p))

\* The first write of an untitled note, at a name probed a moment before.
AutoName(p) ==
  /\ Spend("createNew")
  /\ ~Tracked(ses) /\ ~SaveInFlight(ses)
  /\ RequestSave(CreateNew(p))

-----------------------------------------------------------------------------
(* Writes and renames.                                                     *)

Noticed(p) == notice' = (notice \/ p = ses.path)

\* The worker: guard, write and replace, as one step of the file service.
RunWrite(j) ==
  /\ j.kind # "rename" /\ j.status = "running"
  /\ IF j.forced \/ disk[j.path] = j.expects
     THEN /\ disk' = [disk EXCEPT ![j.path] = j.doc]
          /\ jobs' = (jobs \ {j}) \cup {[j EXCEPT !.status = "done"]}
          /\ Noticed(j.path)
     ELSE /\ jobs' = (jobs \ {j}) \cup {[j EXCEPT !.status = "conflict"]}
          /\ UNCHANGED <<disk, notice>>
  /\ UNCHANGED <<ses, checks, verifies, prompt, armed, deferred, active, opening, trash,
                 problem, budget, known, tried>>

\* The disk is full, the folder is gone, the file cannot be read.
JobFails(j) ==
  /\ Spend("faults") /\ j.status = "running"
  /\ jobs' = (jobs \ {j}) \cup {[j EXCEPT !.status = "failed"]}
  /\ UNCHANGED <<disk, ses, checks, verifies, prompt, armed, deferred, notice, active,
                 opening, trash, problem, known, tried>>

\* The outcome of a write, and then the request that waited behind it.
FinishSave(j) ==
  /\ j.kind # "rename" /\ j.status # "running"
  /\ j.ticket.gen = ses.gen /\ ses.inFlight = j.ticket
  /\ LET done == FinishedSave(ses, j)
         looked == IF j.status = "conflict" THEN BeginExternalCheck(done) ELSE done
     IN  /\ RunPending(looked, jobs \ {j})
         /\ checks' = checks \cup (IF j.status = "conflict" THEN ChecksStarted(done) ELSE {})
         /\ armed' = IF j.status = "done" /\ IsDirty(done) /\ active
                     THEN AutosaveDue(done) ELSE armed
         /\ notice' = (notice \/ done.path # ses.path)
         /\ Reported(looked, j.ticket.rev)
  /\ problem' = CASE j.status = "done" -> "none"
                  [] j.status = "conflict" -> "conflict"
                  [] j.status = "failed" -> "failed"
  /\ known' = IF j.status = "done" THEN known \cup {j.doc} ELSE known
  /\ UNCHANGED <<disk, verifies, prompt, deferred, active, opening, trash, budget>>

\* A title or inline rename reserves the slot; if it is taken, it is skipped.
BeginRename ==
  /\ Spend("rename") /\ Tracked(ses) /\ ~SaveInFlight(ses)
  /\ ses' = TakeSlot(ses)
  /\ jobs' = jobs \cup {[WriteJob(ses, Current) EXCEPT !.kind = "rename"]}
  /\ UNCHANGED <<disk, checks, verifies, prompt, armed, deferred, notice, active, opening,
                 trash, problem, known, tried>>

\* The worker picks a free name and moves the file to it, or finds none.
RunRename(j) ==
  /\ j.kind = "rename" /\ j.status = "running"
  /\ \/ \E to \in Paths :
          /\ disk[to] = NoFile /\ disk[j.path] # NoFile
          /\ disk' = [disk EXCEPT ![to] = disk[j.path], ![j.path] = NoFile]
          /\ jobs' = (jobs \ {j}) \cup {[j EXCEPT !.status = "done", !.to = to]}
          /\ Noticed(j.path)
     \/ /\ disk[j.path] = NoFile \/ \A to \in Paths : disk[to] # NoFile
        /\ jobs' = (jobs \ {j}) \cup {[j EXCEPT !.status = "failed"]}
        /\ UNCHANGED <<disk, notice>>
  /\ UNCHANGED <<ses, checks, verifies, prompt, armed, deferred, active, opening, trash,
                 problem, budget, known, tried>>

FinishRename(j) ==
  /\ j.kind = "rename" /\ j.status # "running"
  /\ j.ticket.gen = ses.gen /\ ses.inFlight = j.ticket
  /\ LET done == ReleaseSlot(FollowRename(ses, j))
     IN  /\ RunPending(done, jobs \ {j})
         /\ notice' = (notice \/ done.path # ses.path)
         /\ Reported(done, tried)
  /\ UNCHANGED <<disk, checks, verifies, prompt, armed, deferred, active, opening, trash,
                 problem, budget, known>>

-----------------------------------------------------------------------------
(* External changes: notification, read, result.                           *)

\* The watcher's batch, or the first check of a newly watched path.
DeliverNotice ==
  /\ notice /\ notice' = FALSE
  /\ StartCheckFrom(ses)
  /\ UNCHANGED <<disk, jobs, verifies, prompt, armed, deferred, active, opening, trash,
                 problem, budget, known, tried>>

\* The window came back to the front, or "check again" was chosen.
Recheck ==
  /\ Spend("recheck")
  /\ StartCheckFrom(ses)
  /\ UNCHANGED <<disk, jobs, verifies, prompt, armed, deferred, notice, active, opening,
                 trash, problem, known, tried>>

\* Writes of this session that have reached the disk (history, for a read).
WritesLanded ==
  ses.saves + Cardinality({j \in jobs : j.kind # "rename" /\ j.status = "done"})

ReadForCheck(c) ==
  /\ c.read = "reading"
  /\ checks' = (checks \ {c}) \cup
       {[c EXCEPT !.read = "read", !.found = disk[c.path], !.after = WritesLanded]}
  /\ UNCHANGED <<disk, ses, jobs, verifies, prompt, armed, deferred, notice, active, opening,
                 trash, problem, budget, known, tried>>

CheckFails(c) ==
  /\ Spend("faults") /\ c.read = "reading"
  /\ checks' = (checks \ {c}) \cup {[c EXCEPT !.read = "unreadable", !.after = WritesLanded]}
  /\ UNCHANGED <<disk, ses, jobs, verifies, prompt, armed, deferred, notice, active, opening,
                 trash, problem, known, tried>>

\* A result for a document that was replaced meanwhile touches nothing.
DropCheck(c) ==
  /\ c.read # "reading" /\ c.gen # ses.gen
  /\ checks' = checks \ {c}
  /\ UNCHANGED <<disk, ses, jobs, verifies, prompt, armed, deferred, notice, active, opening,
                 trash, problem, budget, known, tried>>

\* Conflict and unverifiable are notices about the disk; a failed write is not.
ClearExternalProblem == IF problem = "failed" THEN problem ELSE "none"

\* The problem shown once the session knows s.external of the disk.
\* Mutated: a conflict is shown only when a save runs into it.
ProblemOnSaveOnly(s) ==
  CASE s.external \in {"inSync", "missing"} -> ClearExternalProblem
    [] s.external = "unverifiable" -> "unverifiable"
    [] s.external = "changed" -> problem

ProblemFor(s) ==
  CASE s.external \in {"inSync", "missing"} -> ClearExternalProblem
    [] s.external = "unverifiable" -> "unverifiable"
    [] s.external = "changed" -> IF IsDirty(s) THEN "conflict" ELSE problem

FinishCheck(c) ==
  /\ c.read # "reading" /\ c.gen = ses.gen
  /\ LET found == FinishedCheck(ses, c)
         idle == [found EXCEPT !.recheck = FALSE]
     IN  /\ ses' = IF found.recheck THEN BeginExternalCheck(idle) ELSE idle
         /\ checks' = (checks \ {c}) \cup
                       (IF found.recheck THEN ChecksStarted(idle) ELSE {})
         /\ \/ found.gen # ses.gen /\ NewDocument(c.found)
            \/ /\ found.gen = ses.gen
               /\ deferred' = (deferred \/ (/\ CheckIsCurrent(ses, c) /\ ~IsDirty(ses)
                                           /\ found.external = "changed"))
               /\ problem' = IF CheckIsCurrent(ses, c) THEN ProblemFor(found) ELSE problem
               /\ UNCHANGED <<armed, known, tried>>
  /\ UNCHANGED <<disk, jobs, verifies, prompt, notice, active, opening, trash, budget>>

\* The reload of an unedited document was held back; look again.
DeferredFires ==
  /\ deferred /\ deferred' = FALSE
  /\ IF ses.external = "changed" /\ ~IsDirty(ses)
     THEN StartCheckFrom(ses) ELSE UNCHANGED <<ses, checks>>
  /\ UNCHANGED <<disk, jobs, verifies, prompt, armed, notice, active, opening, trash, problem,
                 budget, known, tried>>

-----------------------------------------------------------------------------
(* The two destructive resolutions.                                        *)

\* The question is put about the version the session knows of now.
Ask(kind) ==
  /\ Spend(kind) /\ active /\ prompt = NoPrompt
  /\ IF kind = "reload" THEN ses.external = "changed" ELSE CurrentExternal(ses) # {}
  /\ prompt' = [kind |-> kind, gen |-> ses.gen, rev |-> ses.rev, shown |-> ses.seen]
  /\ UNCHANGED <<disk, ses, jobs, checks, verifies, armed, deferred, notice, active, opening,
                 trash, problem, known, tried>>

\* Cancelled, or the answer no longer fits what was asked.
AnswerFits ==
  /\ prompt.gen = ses.gen /\ prompt.rev = ses.rev
  /\ prompt.shown \in CurrentExternal(ses)

Cancel ==
  /\ prompt # NoPrompt /\ prompt' = NoPrompt
  /\ UNCHANGED <<disk, ses, jobs, checks, verifies, armed, deferred, notice, active, opening,
                 trash, problem, budget, known, tried>>

ConfirmOverwrite ==
  /\ prompt.kind = "overwrite" /\ AnswerFits
  /\ LET asked == ApproveResolution(ses)
     IN  SaveFrom(asked, Confirmed(Approval(asked, "overwrite", prompt.shown)), jobs)
  /\ prompt' = NoPrompt /\ known' = known \cup {prompt.shown}
  /\ UNCHANGED <<disk, checks, verifies, armed, deferred, notice, active, opening, trash,
                 problem, budget, tried>>

\* begin_confirmed_reload: the answer is followed by another read of the file.
ConfirmReload ==
  /\ prompt.kind = "reload" /\ AnswerFits
  /\ LET asked == ApproveResolution(ses)
         approval == Approval(asked, "reload", prompt.shown)
         starts == /\ ~ses.ime /\ ~SaveInFlight(ses)
                   /\ ses.external = "changed" /\ Tracked(ses)
     IN  /\ ses' = IF starts THEN [asked EXCEPT !.verify = asked.serial] ELSE asked
         /\ verifies' = verifies \cup
              (IF starts THEN {[approval |-> approval, gen |-> ses.gen, rev |-> ses.rev,
                                path |-> ses.path, read |-> "reading", found |-> NoFile,
                                after |-> 0]}
               ELSE {})
  /\ prompt' = NoPrompt
  /\ UNCHANGED <<disk, jobs, checks, armed, deferred, notice, active, opening, trash, problem,
                 budget, known, tried>>

ReadForVerify(v) ==
  /\ v.read = "reading"
  /\ verifies' = (verifies \ {v}) \cup
       {[v EXCEPT !.read = "read", !.found = disk[v.path], !.after = WritesLanded]}
  /\ UNCHANGED <<disk, ses, jobs, checks, prompt, armed, deferred, notice, active, opening,
                 trash, problem, budget, known, tried>>

VerifyFails(v) ==
  /\ Spend("faults") /\ v.read = "reading"
  /\ verifies' = (verifies \ {v}) \cup {[v EXCEPT !.read = "unreadable"]}
  /\ UNCHANGED <<disk, ses, jobs, checks, prompt, armed, deferred, notice, active, opening,
                 trash, problem, known, tried>>

\* Another document, path, revision or request: nothing is discarded.
DropVerify(v) ==
  /\ v.read # "reading" /\ ~VerifyIsCurrent(ses, v)
  /\ verifies' = verifies \ {v}
  /\ UNCHANGED <<disk, ses, jobs, checks, prompt, armed, deferred, notice, active, opening,
                 trash, problem, budget, known, tried>>

FinishVerify(v) ==
  /\ v.read # "reading" /\ VerifyIsCurrent(ses, v)
  /\ ses' = FinishedVerify(ses, v)
  /\ verifies' = verifies \ {v}
  /\ \/ ses'.gen # ses.gen /\ NewDocument(v.found)
     \/ /\ ses'.gen = ses.gen
        /\ problem' = IF ses.ime \/ SaveInFlight(ses) THEN problem ELSE ProblemFor(ses')
        /\ UNCHANGED <<armed, deferred, known, tried>>
  /\ UNCHANGED <<disk, jobs, checks, prompt, notice, active, opening, trash, budget>>

-----------------------------------------------------------------------------
(* Opening another file into this session, tabs, the Trash, other programs. *)

\* Only a document with nothing to lose is offered to another file.
StartOpen(p) ==
  /\ Spend("open") /\ active /\ ~IsDirty(ses)
  /\ p # ses.path /\ opening = Idle
  /\ opening' = [Idle EXCEPT !.stage = "running", !.path = p]
  /\ UNCHANGED <<disk, ses, jobs, checks, verifies, prompt, armed, deferred, notice, active,
                 trash, problem, known, tried>>

LoadFile ==
  /\ opening.stage = "running"
  /\ opening' = [opening EXCEPT !.stage = "done", !.found = disk[opening.path]]
  /\ UNCHANGED <<disk, ses, jobs, checks, verifies, prompt, armed, deferred, notice, active,
                 trash, problem, budget, known, tried>>

\* The session is looked at again when the load lands.  latest: no newer open
\* was asked for elsewhere; an older one does not replace what is on screen.
\* Mutated: only unsaved edits are looked for.
OpenMeetsEdits(latest) ==
  opening.found = NoFile \/ IsDirty(ses) \/ (active /\ ~latest)

OpenIsRefused(latest) ==
  opening.found = NoFile \/ IsDirty(ses) \/ SaveInFlight(ses) \/ (active /\ ~latest)

FinishOpen(latest) ==
  /\ opening.stage = "done" /\ opening' = Idle
  /\ IF OpenIsRefused(latest)
     THEN UNCHANGED <<ses, notice, active>> /\ UNCHANGED <<armed, deferred, problem, known, tried>>
     ELSE /\ ses' = Adopt(ses, opening.path, opening.found)
          /\ NewDocument(opening.found)
          /\ notice' = (notice \/ opening.path # ses.path)
          /\ active' = (active \/ latest)
  /\ UNCHANGED <<disk, jobs, checks, verifies, prompt, trash, budget>>

SwitchTab ==
  /\ Spend("switch") /\ active' = ~active
  /\ UNCHANGED <<disk, ses, jobs, checks, verifies, prompt, armed, deferred, notice, opening,
                 trash, problem, known, tried>>

\* The sidebar moves this session's file to the Trash, refused while it has
\* unsaved edits or a write in flight.
StartTrash ==
  /\ Spend("trash") /\ trash = Idle
  /\ Tracked(ses) /\ ~IsDirty(ses) /\ ~SaveInFlight(ses)
  /\ trash' = [Idle EXCEPT !.stage = "running", !.path = ses.path]
  /\ UNCHANGED <<disk, ses, jobs, checks, verifies, prompt, armed, deferred, notice, active,
                 opening, problem, known, tried>>

MoveToTrash ==
  /\ trash.stage = "running"
  /\ IF disk[trash.path] = NoFile
     THEN trash' = Idle /\ UNCHANGED <<disk, notice>>
     ELSE /\ disk' = [disk EXCEPT ![trash.path] = NoFile]
          /\ trash' = [trash EXCEPT !.stage = "done"]
          /\ Noticed(trash.path)
  /\ UNCHANGED <<ses, jobs, checks, verifies, prompt, armed, deferred, active, opening,
                 problem, budget, known, tried>>

\* apply_file_event(Deleted): the document stays, marked missing.
FinishTrash ==
  /\ trash.stage = "done" /\ trash' = Idle
  /\ ses' = IF ses.path = trash.path THEN [ses EXCEPT !.present = FALSE] ELSE ses
  /\ UNCHANGED <<disk, jobs, checks, verifies, prompt, armed, deferred, notice, active,
                 opening, problem, budget, known, tried>>

\* Another program writes or removes a file.
ExternalChange(p, v) ==
  /\ Spend("external") /\ disk[p] # v
  /\ disk' = [disk EXCEPT ![p] = v]
  /\ Noticed(p)
  /\ UNCHANGED <<ses, jobs, checks, verifies, prompt, armed, deferred, active, opening, trash,
                 problem, known, tried>>

-----------------------------------------------------------------------------
Init ==
  /\ disk \in [Paths -> Versions]
  /\ \/ \E p \in Paths :
          disk[p] # NoFile /\ ses = NewSession(p, disk[p], disk[p]) /\ notice = TRUE
     \/ \E c \in Contents : ses = NewSession(NoPath, c, NoFile) /\ notice = FALSE
  /\ jobs = {} /\ checks = {} /\ verifies = {}
  /\ prompt = NoPrompt /\ opening = Idle /\ trash = Idle
  /\ armed = FALSE /\ deferred = FALSE /\ active = TRUE /\ problem = "none"
  /\ budget = Budget
  /\ known = {ses.baseline} /\ tried = 0 /\ stirred = FALSE /\ cut = FALSE

UserStep ==
  \/ \E c \in Contents : Edit(c) \/ Compose(c)
  \/ EndCompose \/ Save \/ Recheck \/ BeginRename \/ SwitchTab \/ StartTrash
  \/ \E p \in Paths : SaveAs(p) \/ AutoName(p) \/ StartOpen(p)
  \/ \E kind \in {"overwrite", "reload"} : Ask(kind)
  \/ Cancel \/ ConfirmOverwrite \/ ConfirmReload

WorkerStep ==
  \/ \E j \in jobs : RunWrite(j) \/ RunRename(j) \/ JobFails(j)
  \/ \E c \in checks : ReadForCheck(c) \/ CheckFails(c)
  \/ \E v \in verifies : ReadForVerify(v) \/ VerifyFails(v)
  \/ LoadFile \/ MoveToTrash

ViewStep ==
  \/ AutosaveFires \/ DeferredFires \/ DeliverNotice
  \/ \E j \in jobs : FinishSave(j) \/ FinishRename(j)
  \/ \E c \in checks : DropCheck(c) \/ FinishCheck(c)
  \/ \E v \in verifies : DropVerify(v) \/ FinishVerify(v)
  \/ \E latest \in BOOLEAN : FinishOpen(latest)
  \/ FinishTrash

Step ==
  \/ UserStep \/ WorkerStep \/ ViewStep
  \/ \E p \in Paths, v \in Versions : ExternalChange(p, v)

\* Since the last answer, did the document, or what is known of the disk, move?
Stir ==
  IF ses'.serial # ses.serial THEN FALSE
  ELSE \/ stirred
       \/ CurrentExternal(ses') # CurrentExternal(ses)
       \/ ses'.rev # ses.rev \/ ses'.gen # ses.gen

\* Was a follow-up forgotten by a reload, or a version read after this session's
\* write landed judged before that write reported, with no check started since?
Cut ==
  IF \E c \in checks' \ checks : c.read = "reading" THEN FALSE
  ELSE \/ cut
       \/ ses.recheck /\ ses'.gen # ses.gen
       \/ \E c \in checks \ checks' : c.read # "reading" /\ c.after > ses.saves

Next == Step /\ stirred' = Stir /\ cut' = Cut

Spec == Init /\ [][Next]_vars

\* The executor runs every write, rename and read it was given, timers end, and
\* the view applies every result.  The user and other programs owe nothing.
Fairness ==
  /\ WF_vars(Next /\ AutosaveFires)
  /\ WF_vars(Next /\ DeferredFires)
  /\ WF_vars(Next /\ DeliverNotice)
  /\ WF_vars(Next /\ \E j \in jobs : RunWrite(j) \/ RunRename(j))
  /\ WF_vars(Next /\ \E j \in jobs : FinishSave(j) \/ FinishRename(j))
  /\ WF_vars(Next /\ \E c \in checks : ReadForCheck(c))
  /\ WF_vars(Next /\ \E c \in checks : DropCheck(c) \/ FinishCheck(c))

FairSpec == Spec /\ Fairness

-----------------------------------------------------------------------------
(* Properties.                                                             *)

\* Every variable has its type.
TypeOK ==
  /\ disk \in [Paths -> Versions]
  /\ ses \in Sessions
  /\ jobs \subseteq Jobs /\ checks \subseteq Checks /\ verifies \subseteq Verifies
  /\ prompt \in Prompts /\ opening \in Tasks /\ trash \in Tasks
  /\ armed \in BOOLEAN /\ deferred \in BOOLEAN /\ notice \in BOOLEAN /\ active \in BOOLEAN
  /\ problem \in {"none", "conflict", "failed", "unverifiable"}
  /\ budget \in Nat
  /\ known \subseteq Versions /\ tried \in Nat /\ stirred \in BOOLEAN /\ cut \in BOOLEAN

\* One slot serialises writes and renames: no two jobs run at once, and the job
\* that runs is the one the session of this very document is waiting for.  So
\* a result never meets a document it was not taken from.
SlotInv ==
  /\ \A j, k \in jobs : j = k
  /\ \A j \in jobs : j.ticket = ses.inFlight /\ j.ticket.gen = ses.gen
  /\ SaveInFlight(ses) => jobs # {}
  /\ ses.pending # NoIntent => SaveInFlight(ses)

\* At most one check of the current document is out, the session waits for
\* exactly that one, and a follow-up is owed only while it is: otherwise the
\* document would never be looked at again.
CheckSlotInv ==
  /\ ses.checking => \E c \in checks : c.gen = ses.gen
  /\ \A c, d \in checks : c.gen = ses.gen /\ d.gen = ses.gen => c = d /\ ses.checking
  /\ ses.recheck => ses.checking

\* One write or rename, and one check, at a time.
OneAtATime == SlotInv /\ CheckSlotInv

\* A document shown as saved holds exactly the version it was last read from
\* or written as, whatever was typed, saved and reloaded meanwhile.
CleanIsBaseline ==
  Tracked(ses) /\ ~IsDirty(ses) => ses.text = ses.baseline

\* No step replaces a document that has unsaved edits, except the reload the
\* user confirmed for this revision, which brings the version then shown.
NoSilentLoss ==
  [][ses'.gen # ses.gen /\ IsDirty(ses)
       => \E v \in verifies :
            /\ v.approval.rev = ses.rev /\ v.approval.gen = ses.gen
            /\ v.approval.shown = ses'.text /\ v.found = ses'.text
            /\ ~stirred]_vars

\* A write that was not forced by a Save As dialog replaces only a version this
\* document came from, saved, or was confirmed over.
ReplacesOnlyKnown ==
  [][\A j \in jobs : RunWrite(j) /\ ~j.forced /\ disk' # disk
       => disk[j.path] \in known \cup {NoFile}]_vars

\* A confirmed overwrite writes the document as it was when the answer was given,
\* and starts only if neither the document nor what is known of the disk has moved
\* since, not even there and back.  An answer about a missing file outlives the file
\* coming back and going to the Trash again: that write then replaces nothing.
ApprovalHolds ==
  [][\A j \in jobs' \ jobs : j.kind = "confirmed" /\ j.status = "running"
       => /\ j.doc = ses.text
          /\ ~stirred' \/ ("trash" \in UserActions /\ j.expects = NoFile)]_vars

\* An automatic reload never puts back a version read before one of this
\* session's own writes.
NoReloadPastOwnWrite ==
  [][\A c \in checks : FinishCheck(c) /\ ses'.gen # ses.gen
       => c.after = WritesLanded]_vars

\* Nothing is on its way that could still change what the session knows.
Settled ==
  /\ ~notice /\ ~deferred /\ jobs = {} /\ trash = Idle /\ verifies = {}
  /\ \A c \in checks : c.gen # ses.gen

\* What the session says about the disk, once nothing is on its way.
ViewIsCurrent ==
  CASE ses.external = "inSync" -> disk[ses.path] = (IF ses.present THEN ses.baseline ELSE NoFile)
    [] ses.external = "changed" -> disk[ses.path] = ses.seen
    [] ses.external = "missing" -> disk[ses.path] = NoFile
    [] ses.external = "unverifiable" -> TRUE
SettledViewIsCurrent == Settled /\ Tracked(ses) /\ ~cut => ViewIsCurrent

\* Unsaved edits over a version nobody has accepted, and no save on its way:
\* the conflict is shown, with the choices that resolve it, or the failure of
\* the write that was to resolve it (finish_save, the outcome of a check).
ConflictIsShown ==
  ses.external = "changed" /\ IsDirty(ses) /\ ~armed /\ ~SaveInFlight(ses)
    => problem \in {"conflict", "failed"}

\* A save that had to wait for the slot is not forgotten in the queue, and the
\* edits of a selected document come to a write of their revision, whatever was
\* running when they were made (run_pending, the autosave timer).
EditsAreTried ==
  /\ ses.pending # NoIntent ~> ses.pending = NoIntent
  /\ Tracked(ses) /\ IsDirty(ses) ~> ~IsDirty(ses) \/ tried = ses.rev

\* Once nobody writes any more, what the session says of the disk is true.
LearnsTheDisk == <>[](Tracked(ses) /\ ~cut => ViewIsCurrent)

-----------------------------------------------------------------------------
(* What a comment of the code says, and does not hold.                     *)

\* session.rs:206, "one more follows it": a request folded into a running check
\* is followed by a check of its own.
FollowUpRuns ==
  [][ses.recheck /\ ~ses'.recheck
       => \E c \in checks' \ checks : c.gen = ses'.gen /\ c.read = "reading"]_vars
=============================================================================
