--------------------------- MODULE UpdateHandshake ---------------------------
(***************************************************************************)
(* The processes of an update and the three leases between them            *)
(* (crates/update/src/platform/lease.rs, helper.rs, health.rs, startup.rs, *)
(* crates/app/src/update_gate.rs): applications that start, edit, ask for  *)
(* an update and quit; the helper that waits for them, replaces the files, *)
(* starts the new version as its limited child and commits or rolls back;  *)
(* the helper a start sends to finish an interrupted update; the sweep of  *)
(* what was abandoned.                                                     *)
(*                                                                         *)
(* Any process may die between two steps and the operating system then     *)
(* releases its leases and closes its pipes; every wait may time out.      *)
(*                                                                         *)
(* The file steps and the journal's own steps are those of UpdateJournal;  *)
(* here an installation is one version, or a mixture while it is changed.  *)
(***************************************************************************)
EXTENDS Integers, FiniteSets

CONSTANTS
  Apps,       \* application processes; one that ended may be launched again
  Patient,    \* those that wait for the gate without a limit
  Helpers,    \* helper processes
  None,       \* no process
  MaxTxns,    \* bound: how many updates are asked for
  MaxLaunches,\* bound: how often an application is started or starts again
  MaxTroubles \* bound: how many processes die, and stores and file steps fail

ASSUME ProcessesAssumption ==
  /\ Patient \subseteq Apps
  /\ Apps \cap Helpers = {} /\ None \notin Apps \cup Helpers

ASSUME BoundsAssumption ==
  /\ MaxTxns \in Nat \ {0} /\ MaxLaunches \in Nat
  /\ MaxTroubles \in Nat

Txns == 1 .. MaxTxns
Mixed == -1
Versions == 0 .. MaxTxns

VARIABLES
  app,       \* app[a]: an application process
  helper,    \* helper[h]: a helper process
  lease,     \* who holds transaction, startup and runtime exclusively
  shared,    \* who holds runtime shared
  staged,    \* the transactions whose private directory exists
  journal,   \* journal[t]: the phase of the journal in it
  capability,\* the transactions that admit the child created for them
  source,    \* source[t]: the version t updates from
  installed, \* the version on disk, or Mixed
  next, launches, troubles

files == <<staged, journal, capability, source, installed>>
used == <<next, launches, troubles>>
leases == <<lease, shared>>
vars == <<app, helper, lease, shared, staged, journal, capability, source,
          installed, next, launches, troubles>>

Kinds == {"transaction", "startup", "runtime"}
Procs == Apps \cup Helpers

Off == [pc |-> "off", image |-> 0, waited |-> FALSE, again |-> FALSE,
        restarted |-> FALSE, txn |-> 0, helper |-> None, told |-> "nothing"]

Idle == [pc |-> "off", mode |-> "prepare", txn |-> 0, parent |-> None,
         heard |-> "nothing", report |-> "none", child |-> None,
         healthy |-> FALSE, behind |-> FALSE, launched |-> FALSE]

-----------------------------------------------------------------------------
(* The leases: Coordination::try_acquire, Lease. *)

Free(k) == lease[k] = None
NobodyRuns == Free("runtime") /\ shared = {}

Take(k, p) == lease' = [lease EXCEPT ![k] = p]

\* What is left of the leases when a process lets go of some kinds of them.
Released(p, kinds) ==
  [k \in Kinds |-> IF k \in kinds /\ lease[k] = p THEN None ELSE lease[k]]

(* Journals: scan_pending, check_latest_terminal. *)

Live == {"prepared", "applying", "awaiting", "rolling_back"}
Pending == {t \in Txns : journal[t] \in Live}
Receipts == {t \in Txns : journal[t] \in {"committed", "rolled_back"}}

\* The version a receipt says is installed.
Claims(t) == IF journal[t] = "committed" THEN t ELSE source[t]

\* A journal that needs a person, more than one of a kind, or a receipt that is
\* not what is on disk.
Stops == \/ \E t \in Txns : journal[t] = "required"
         \/ Cardinality(Pending) > 1
         \/ Pending = {} /\ Cardinality(Receipts) > 1
         \/ Pending = {} /\ \E t \in Receipts : Claims(t) # installed

Settled == ~Stops /\ Pending = {}

-----------------------------------------------------------------------------
Init ==
  /\ app = [a \in Apps |-> Off]
  /\ helper = [h \in Helpers |-> Idle]
  /\ lease = [k \in Kinds |-> None] /\ shared = {}
  /\ staged = {}
  /\ journal = [t \in Txns |-> "none"]
  /\ capability = {}
  /\ source = [t \in Txns |-> 0]
  /\ installed = 0
  /\ next = 1 /\ launches = 0 /\ troubles = 0

(* -- what one step of a process changes of the others --------------------- *)

Trouble == troubles < MaxTroubles /\ troubles' = troubles + 1

Move(a, place) == app' = [app EXCEPT ![a].pc = place]
Edits(a) == app' = [app EXCEPT ![a] = [Off EXCEPT !.pc = "editing",
                                                  !.image = app[a].image]]
Goto(h, place) == helper' = [helper EXCEPT ![h].pc = place]

\* The pipes to an application that ended are closed, and an answer it did not
\* read is lost.
Orphaned(a) ==
  [h \in Helpers |->
     LET s == helper[h] IN
     IF a \in Apps /\ app[a].helper = h /\ s.pc = "off" THEN Idle
     ELSE [s EXCEPT
             !.parent = IF @ = a THEN None ELSE @,
             !.heard = IF a # None /\ s.parent = a /\ @ = "nothing" THEN "closed" ELSE @,
             !.child = IF @ = a THEN None ELSE @]]

AppEnds(a) ==
  /\ app' = [app EXCEPT ![a] = Off]
  /\ helper' = Orphaned(a)
  /\ lease' = Released(a, Kinds) /\ shared' = shared \ {a}

\* What is left of a helper that ended is its answer, until the application
\* has read it.
Gone(h, report) ==
  [Idle EXCEPT !.report = IF \E a \in Apps : app[a].helper = h THEN report ELSE "none"]

\* A directory is removed only if no journal was ever written in it.
DiscardUnstarted(t) ==
  IF journal[t] = "none"
  THEN staged' = staged \ {t} /\ capability' = capability \ {t}
  ELSE UNCHANGED <<staged, capability>>

(* -- an application starts: detect_child, the sweep, the gate ------------- *)

\* While the files are a mixture, the executable is either version's.
Loadable == IF installed # Mixed THEN {installed}
            ELSE UNION {{source[t], t} : t \in Pending}

\* A process no helper created matches no capability and goes to the gate.
Launch(a) ==
  /\ app[a].pc = "off" /\ launches < MaxLaunches
  /\ \E v \in Loadable :
       app' = [app EXCEPT ![a] = [Off EXCEPT !.pc = "sweep", !.image = v]]
  /\ launches' = launches + 1
  /\ UNCHANGED <<helper, leases, files, next, troubles>>

Created(a) == \E h \in Helpers : helper[h].child = a

\* The one capability there is names this process: its creator, or the process
\* itself. A creator that died is not always found again.
Admitted(a) == /\ app[a].txn \in capability
               /\ capability = {app[a].txn}

\* detect_with: an application without a capability is no child, nor is one whose
\* capability is stale because nobody holds the transaction lease.
Detect(a) ==
  /\ app[a].pc = "entry"
  /\ \/ /\ ~Admitted(a) \/ ~Created(a)
        /\ app' = [app EXCEPT ![a] = [@ EXCEPT !.pc = "sweep", !.txn = 0]]
        /\ UNCHANGED capability
     \/ /\ Admitted(a) /\ Free("transaction")
        /\ capability' = {}
        /\ app' = [app EXCEPT ![a] = [@ EXCEPT !.pc = "sweep", !.txn = 0]]
     \/ /\ Admitted(a) /\ ~Free("transaction")
        /\ Move(a, "taking")
        /\ UNCHANGED capability
  /\ UNCHANGED <<helper, leases, staged, journal, source, installed, used>>

\* take_capability: the capability is consumed once; the check and the rename
\* are not one step.
TakeCapability(a) ==
  /\ app[a].pc = "taking"
  /\ \/ /\ app[a].txn \notin capability
        /\ AppEnds(a)
        /\ UNCHANGED capability
     \/ /\ app[a].txn \in capability
        /\ capability' = capability \ {app[a].txn}
        /\ Move(a, "taken")
        /\ UNCHANGED <<helper, leases>>
  /\ UNCHANGED <<staged, journal, source, installed, used>>

\* The child keeps a share of the runtime lease from here on, or ends.
JoinRuntime(a) ==
  /\ app[a].pc = "taken"
  /\ \/ /\ Free("runtime")
        /\ shared' = shared \cup {a}
        /\ Move(a, "limited")
        /\ UNCHANGED <<helper, lease>>
     \/ /\ ~Free("runtime")
        /\ AppEnds(a)
  /\ UNCHANGED <<capability, staged, journal, source, installed, used>>

\* sweep_abandoned_transactions asks for the leases in their order and acts only
\* with all three.
SweepMayTake(k) == Free(k) /\ (k = "runtime" => shared = {})

\* Mutated: the transaction lease alone is enough for the sweep.
SweepStepAlone(a) ==
  /\ app[a].pc = "sweep"
  /\ IF SweepMayTake("transaction")
     THEN Take("transaction", a) /\ Move(a, "sweeping")
     ELSE Move(a, "gate") /\ UNCHANGED lease
  /\ UNCHANGED <<helper, shared, files, used>>

SweepStep(a) ==
  /\ \/ /\ app[a].pc = "sweep" /\ SweepMayTake("transaction")
        /\ Take("transaction", a)
        /\ Move(a, "sweep2")
     \/ /\ app[a].pc = "sweep2"
        /\ SweepMayTake("startup") /\ SweepMayTake("runtime")
        /\ lease' = [k \in Kinds |-> a]
        /\ Move(a, "sweeping")
     \/ /\ \/ app[a].pc = "sweep" /\ ~SweepMayTake("transaction")
           \/ /\ app[a].pc = "sweep2"
              /\ ~(SweepMayTake("startup") /\ SweepMayTake("runtime"))
        /\ lease' = Released(a, Kinds)
        /\ Move(a, "gate")
  /\ UNCHANGED <<helper, shared, files, used>>

\* Only directories without any trace of a journal are removed.
Sweep(a) ==
  /\ app[a].pc = "sweeping"
  /\ staged' = {t \in staged : journal[t] # "none"}
  /\ capability' = capability \cap staged'
  /\ lease' = Released(a, Kinds)
  /\ Move(a, "gate")
  /\ UNCHANGED <<helper, shared, journal, source, installed, used>>

\* startup_gate: the gate is held while the journals are read.
TakeGate(a) ==
  /\ app[a].pc = "gate" /\ Free("startup")
  /\ Take("startup", a)
  /\ Move(a, "scan")
  /\ UNCHANGED <<helper, shared, files, used>>

\* A gate found closed is noticed before it is waited for
\* (take_gate_observing_waits); every attempt sweeps again.
NoticeUpdate(a) ==
  /\ app[a].pc = "gate" /\ ~Free("startup")
  /\ a \in Patient \/ ~app[a].waited
  /\ app' = [app EXCEPT ![a] = [@ EXCEPT !.pc = "sweep", !.waited = TRUE, !.again = FALSE]]
  /\ UNCHANGED <<helper, leases, files, used>>

\* UpdateInProgress, the answer to a launch that does not wait any longer.
GiveUpWaiting(a) ==
  /\ a \notin Patient
  /\ app[a].pc = "gate" /\ ~Free("startup") /\ app[a].waited
  /\ AppEnds(a)
  /\ UNCHANGED <<files, used>>

\* Nothing is pending, and the receipt is what is on disk.
Admits == Settled

ScanAdmit(a) ==
  /\ app[a].pc = "scan" /\ Admits
  /\ \/ /\ Free("runtime")
        /\ lease' = Released(a, {"startup"}) /\ shared' = shared \cup {a}
        /\ Move(a, "admitted")
        /\ UNCHANGED helper
     \/ /\ ~Free("runtime") /\ (a \in Patient \/ ~app[a].waited)
        /\ lease' = Released(a, {"startup"})
        /\ app' = [app EXCEPT ![a] = [@ EXCEPT !.pc = "sweep", !.waited = TRUE,
                              !.again = FALSE]]
        /\ UNCHANGED <<helper, shared>>
     \/ /\ ~Free("runtime") /\ a \notin Patient /\ app[a].waited
        /\ AppEnds(a)
  /\ UNCHANGED <<files, used>>

\* RecoveryRequired: a journal stops the start, or the one attempt to recover
\* has left something pending.
ScanStop(a) ==
  /\ app[a].pc = "scan" /\ ~Admits
  /\ Stops \/ app[a].again
  /\ AppEnds(a)
  /\ UNCHANGED <<files, used>>

Unheard(h) == helper[h].pc = "off" /\ \A a \in Apps : app[a].helper # h

\* The gate is let go before the helper that needs it is started.
ScanRecover(a) ==
  /\ app[a].pc = "scan" /\ ~Admits /\ ~Stops /\ ~app[a].again
  /\ lease' = Released(a, {"startup"})
  /\ \E h \in Helpers, t \in Pending :
       /\ Unheard(h)
       /\ app' = [app EXCEPT ![a] = [@ EXCEPT !.pc = "recovering", !.helper = h]]
       /\ helper' = [helper EXCEPT ![h] =
                       [Idle EXCEPT !.pc = "hello", !.mode = "recover",
                                    !.txn = t, !.parent = a]]
  /\ UNCHANGED <<shared, files, used>>

\* The verdict; a helper that refused, ended or is too slow stops the start,
\* and a slow one is left alone.
Recovered(a) ==
  /\ app[a].pc = "recovering"
  /\ \/ /\ helper[app[a].helper].report = "settled"
        /\ helper[app[a].helper].pc = "off"
        /\ app' = [app EXCEPT ![a] = [@ EXCEPT !.pc = "gate", !.helper = None,
                              !.again = TRUE]]
        /\ helper' = [helper EXCEPT ![app[a].helper] = [@ EXCEPT !.parent = None,
                                    !.report = "none"]]
        /\ UNCHANGED leases
     \/ AppEnds(a)
  /\ UNCHANGED <<files, used>>

\* Mutated: the image is not compared with the disk.
UpToDateIfUnnoticed(a) == ~app[a].waited

\* The running image is the build on disk, and no update was noticed meanwhile.
UpToDate(a) == ~app[a].waited /\ app[a].image = installed

\* enter: checked under the runtime lease. An old image asks to be started
\* again, or on macOS executes the file now on disk in its place, which it does
\* once only if the two still differ.
Enter(a) ==
  /\ app[a].pc = "admitted"
  /\ \/ /\ UpToDate(a)
        /\ Edits(a)
        /\ UNCHANGED <<helper, leases, launches>>
     \/ ~UpToDate(a) /\ AppEnds(a) /\ UNCHANGED launches
     \/ /\ ~UpToDate(a) /\ launches < MaxLaunches
        /\ app[a].image = installed \/ ~app[a].restarted
        /\ app' = [app EXCEPT ![a] = [Off EXCEPT !.pc = "sweep",
                                        !.image = installed, !.restarted = TRUE]]
        /\ shared' = shared \ {a}
        /\ launches' = launches + 1
        /\ UNCHANGED <<helper, lease>>
  /\ UNCHANGED <<files, next, troubles>>

(* -- an application asks for an update: prepare_restart ------------------- *)

PrepareRestart(a) ==
  /\ app[a].pc = "editing" /\ next <= MaxTxns
  /\ \E h \in Helpers :
       /\ Unheard(h)
       /\ app' = [app EXCEPT ![a] = [@ EXCEPT !.pc = "preparing", !.helper = h,
                             !.txn = next]]
       /\ helper' = [helper EXCEPT ![h] =
                       [Idle EXCEPT !.pc = "hello", !.txn = next, !.parent = a]]
  /\ staged' = staged \cup {next}
  /\ source' = [source EXCEPT ![next] = app[a].image]
  /\ next' = next + 1
  /\ UNCHANGED <<leases, journal, capability, installed, launches, troubles>>

\* Prepared came: the application may quit only now, and after its own work.
Authorize(a) ==
  /\ app[a].pc = "preparing"
  /\ helper[app[a].helper].report = "prepared" /\ helper[app[a].helper].pc # "off"
  /\ helper' = [helper EXCEPT ![app[a].helper] = [@ EXCEPT !.heard = "authorized",
                             !.report = "none"]]
  /\ app' = [app EXCEPT ![a] = [@ EXCEPT !.pc = "quitting", !.helper = None,
                             !.txn = 0]]
  /\ UNCHANGED <<leases, files, used>>

\* The helper refused, ended or is given up, before or after Prepared. It is
\* told, and its staging is removed only once it is certainly gone.
Abandon(a) ==
  LET h == app[a].helper IN
  /\ app[a].pc = "preparing"
  /\ helper' = [helper EXCEPT ![h].heard =
                  IF helper[h].pc = "off" THEN @ ELSE "abort"]
  /\ Move(a, "abandoning")
  /\ UNCHANGED <<leases, files, used>>

\* confirm_child_exit: the helper ended, or is ended; or it cannot be told.
ConfirmExit(a) ==
  LET h == app[a].helper IN
  /\ app[a].pc = "abandoning"
  /\ app' = [app EXCEPT ![a] = [@ EXCEPT !.pc = "editing", !.helper = None, !.txn = 0]]
  /\ \/ /\ helper[h].pc = "off"
        /\ helper' = [helper EXCEPT ![h] = Idle]
        /\ DiscardUnstarted(app[a].txn)
        /\ UNCHANGED lease
     \/ /\ helper[h].pc # "off"
        /\ helper' = [helper EXCEPT ![h] = Idle]
        /\ lease' = Released(h, Kinds)
        /\ DiscardUnstarted(app[a].txn)
     \/ /\ helper[h].pc # "off"
        /\ helper' = [helper EXCEPT ![h].parent = None]
        /\ UNCHANGED <<lease, staged, capability>>
  /\ UNCHANGED <<shared, journal, source, installed, used>>

\* An application may be closed whenever it runs normally; the exit the helper
\* waits for is its runtime lease.
Quit(a) ==
  /\ app[a].pc \in {"editing", "quitting"}
  /\ AppEnds(a)
  /\ UNCHANGED <<files, used>>

\* The limited child: its checks pass and it reports itself healthy, or it ends.
Verify(a) ==
  /\ app[a].pc = "limited"
  /\ \/ AppEnds(a)
     \/ /\ Move(a, "reporting")
        /\ helper' = [h \in Helpers |->
                        [helper[h] EXCEPT !.healthy = @ \/ helper[h].child = a]]
        /\ UNCHANGED leases
  /\ UNCHANGED <<files, used>>

\* committed_durably: the journal of the transaction the child was created for.
CommittedDurably(a) == journal[app[a].txn] = "committed"

\* report_healthy: Commit came, or the pipe was closed or the wait is over and
\* the journal decides.
Answered(a) ==
  /\ app[a].pc = "reporting"
  /\ \/ /\ app[a].told = "commit" \/ CommittedDurably(a)
        /\ Edits(a)
        /\ UNCHANGED <<helper, leases>>
     \/ /\ app[a].told # "commit" /\ ~CommittedDurably(a)
        /\ AppEnds(a)
  /\ UNCHANGED <<files, used>>

(* -- the helper's session: run_session ------------------------------------ *)

\* What the application hears of a recovery: a journal that is settled for
\* this helper, or that a person is needed.
Verdict(h) ==
  IF /\ ~helper[h].behind
     /\ journal[helper[h].txn] \in {"none", "committed", "rolled_back"}
  THEN "settled" ELSE "required"

\* The session ends before there is a child, or after it: the leases go.
Ends(h, report) ==
  /\ helper' = [helper EXCEPT ![h] = Gone(h, report)]
  /\ lease' = Released(h, Kinds)
  /\ UNCHANGED <<app, shared>>

Refuse(h) == Ends(h, "refused")

Hello(h) ==
  /\ helper[h].pc = "hello"
  /\ IF Free("transaction")
     THEN Take("transaction", h) /\ Goto(h, "gate") /\ UNCHANGED <<app, shared>>
     ELSE Refuse(h)
  /\ UNCHANGED <<files, used>>

\* acquire_within: startup is polled until gate_timeout.
HelperGate(h) ==
  /\ helper[h].pc = "gate"
  /\ \/ /\ Free("startup")
        /\ Take("startup", h)
        /\ helper' = [helper EXCEPT ![h] =
              [@ EXCEPT !.report = "prepared",
                        !.pc = IF helper[h].mode = "prepare" THEN "prepared"
                               ELSE "recover"]]
        /\ UNCHANGED <<app, shared>>
     \/ ~Free("startup") /\ Refuse(h)
  /\ UNCHANGED <<files, used>>

\* ExitAuthorized; or Abort, a closed pipe, or an authorization that is late.
Heard(h) ==
  /\ helper[h].pc = "prepared" /\ helper[h].heard # "nothing"
  /\ \/ /\ helper[h].heard = "authorized"
        /\ helper' = [helper EXCEPT ![h] = [@ EXCEPT !.pc = "waiting", !.heard = "nothing"]]
        /\ UNCHANGED <<app, leases>>
     \/ Ends(h, "prepared")
  /\ UNCHANGED <<files, used>>

\* Mutated: the helper waits for its parent without a limit.
NeverParentStillRunning(h) == FALSE

\* parent_exit_timeout passed; or any other application still runs.
ParentStillRunning(h) ==
  /\ helper[h].pc = "waiting" /\ ~NobodyRuns
  /\ Ends(h, "prepared")
  /\ UNCHANGED <<files, used>>

\* wait_for_parent_exit: nobody holds runtime, shared or not.
ParentExited(h) ==
  /\ helper[h].pc = "waiting" /\ NobodyRuns
  /\ Take("runtime", h)
  /\ Goto(h, "apply")
  /\ UNCHANGED <<app, shared, files, used>>

(* -- the journal and the files, in the detail UpdateJournal leaves out ----- *)

\* DurableJournal::persist; a store that fails may have reached the disk, and
\* the helper is then behind it: every later store of its own is refused.
Store(h, phase, ok, bad) ==
  LET t == helper[h].txn IN
  \/ /\ ~helper[h].behind
     /\ journal' = [journal EXCEPT ![t] = phase]
     /\ Goto(h, ok)
     /\ UNCHANGED troubles
  \/ /\ ~helper[h].behind /\ Trouble
     /\ \E stored \in BOOLEAN :
          /\ journal' = IF stored THEN [journal EXCEPT ![t] = phase] ELSE journal
          /\ helper' = [helper EXCEPT ![h] = [@ EXCEPT !.pc = bad, !.behind = stored]]
  \/ /\ helper[h].behind
     /\ Goto(h, bad)
     /\ UNCHANGED <<journal, troubles>>

\* What a step of the journal or the files leaves alone.
OnlyJournal == UNCHANGED <<app, leases, staged, capability, source, installed,
                           next, launches>>

\* ensure_prior_receipts_current, and what can fail before it. Nothing was
\* written yet, so the transaction is removed (UnjournaledCleanup).
RefuseApply(h) ==
  /\ helper[h].pc = "apply"
  /\ ~Settled \/ troubles < MaxTroubles
  /\ troubles' = IF Settled THEN troubles + 1 ELSE troubles
  /\ Goto(h, "end")
  /\ DiscardUnstarted(helper[h].txn)
  /\ UNCHANGED <<app, leases, journal, source, installed, next, launches>>

\* retire_prior_receipts, before the journal exists.
RetirePriorReceipts(h) ==
  /\ helper[h].pc = "apply" /\ Settled
  /\ journal' = [t \in Txns |-> IF t \in Receipts THEN "none" ELSE journal[t]]
  /\ staged' = staged \ Receipts
  /\ capability' = capability \ Receipts
  /\ Goto(h, "begin")
  /\ UNCHANGED <<app, leases, source, installed, used>>

\* DurableJournal::create.
Begin(h) ==
  /\ helper[h].pc = "begin"
  /\ Store(h, "prepared", "start", "unstarted")
  /\ OnlyJournal

\* A directory whose journal reached the disk after all stays.
Unstarted(h) ==
  /\ helper[h].pc = "unstarted"
  /\ DiscardUnstarted(helper[h].txn)
  /\ Goto(h, "end")
  /\ UNCHANGED <<app, leases, journal, source, installed, used>>

StartApplying(h) ==
  /\ helper[h].pc = "start"
  /\ Store(h, "applying", "replace", "undo")
  /\ OnlyJournal

ReplaceFiles(h) ==
  /\ helper[h].pc = "replace"
  /\ installed' = Mixed
  /\ Goto(h, "replacing")
  /\ UNCHANGED <<app, leases, staged, journal, capability, source, used>>

FilesReplaced(h) ==
  /\ helper[h].pc = "replacing"
  /\ \/ /\ installed' = helper[h].txn
        /\ Goto(h, "await")
        /\ UNCHANGED troubles
     \/ Trouble /\ Goto(h, "undo") /\ UNCHANGED installed
  /\ UNCHANGED <<app, leases, staged, journal, capability, source, next,
                 launches>>

AwaitHealth(h) ==
  /\ helper[h].pc = "await"
  /\ Store(h, "awaiting", "launch", "undo")
  /\ OnlyJournal

\* ProcessLauncher::launch: runtime goes to the child, whose capability is
\* published before it runs. A failed launch is judged like an unhealthy child.
LaunchChild(h) ==
  /\ helper[h].pc = "launch"
  /\ lease' = Released(h, {"runtime"})
  /\ \/ \E a \in Apps :
          /\ app[a].pc = "off"
          /\ app' = [app EXCEPT ![a] = [Off EXCEPT !.pc = "entry", !.image = installed,
                                                !.txn = helper[h].txn]]
          /\ helper' = [helper EXCEPT ![h] = [@ EXCEPT !.pc = "health", !.child = a,
                                      !.launched = TRUE]]
          /\ capability' = capability \cup {helper[h].txn}
     \/ /\ helper' = [helper EXCEPT ![h] = [@ EXCEPT !.pc = "stop", !.launched = TRUE]]
        /\ UNCHANGED <<app, capability>>
  /\ UNCHANGED <<shared, staged, journal, source, installed, used>>

\* Mutated: an unhealthy child is not stopped before the rollback.
AwaitHealthyOnly(h) ==
  /\ helper[h].pc = "health"
  /\ \/ /\ helper[h].healthy
        /\ helper' = [helper EXCEPT ![h] = [@ EXCEPT !.pc = "commit", !.healthy = FALSE]]
     \/ Goto(h, "undo")
  /\ UNCHANGED <<app, leases, files, used>>

\* await_healthy: the answer, or a child that ended or is too slow.
AwaitHealthy(h) ==
  /\ helper[h].pc = "health"
  /\ \/ /\ helper[h].healthy
        /\ helper' = [helper EXCEPT ![h] = [@ EXCEPT !.pc = "commit", !.healthy = FALSE]]
     \/ Goto(h, "stop")
  /\ UNCHANGED <<app, leases, files, used>>

Commit(h) ==
  /\ helper[h].pc = "commit"
  /\ Store(h, "committed", "notify", "stop")
  /\ OnlyJournal

Tell(h, what) ==
  [a \in Apps |-> IF a = helper[h].child THEN [app[a] EXCEPT !.told = what]
                  ELSE app[a]]

\* Mutated: the child is not detached.
SendCommitAttached(h) ==
  /\ helper[h].pc = "notify"
  /\ app' = Tell(h, "commit")
  /\ Goto(h, "end")
  /\ UNCHANGED <<leases, files, used>>

\* send_commit may fail; the child is detached all the same.
SendCommit(h) ==
  /\ helper[h].pc = "notify"
  /\ \E what \in {"commit", "closed"} : app' = Tell(h, what)
  /\ helper' = [helper EXCEPT ![h] = [@ EXCEPT !.pc = "end", !.child = None]]
  /\ UNCHANGED <<leases, files, used>>

\* stop_and_release_lease: the pipe is closed, the child ends or is killed, and
\* runtime is taken back before any file is touched.
Stop(h) ==
  /\ helper[h].pc = "stop"
  /\ app' = Tell(h, "closed")
  /\ Goto(h, "stopping")
  /\ UNCHANGED <<leases, files, used>>

ChildStopped(h) ==
  LET child == helper[h].child IN
  /\ helper[h].pc = "stopping"
  /\ app' = [a \in Apps |-> IF a = child THEN Off ELSE app[a]]
  /\ lease' = IF child = None THEN lease ELSE Released(child, Kinds)
  /\ shared' = shared \ {child}
  /\ helper' = [Orphaned(child) EXCEPT ![h].pc = "reacquire"]
  /\ UNCHANGED <<files, used>>

\* The child cannot be ended.
StopFailed(h) ==
  /\ helper[h].pc = "stopping" /\ helper[h].child # None
  /\ Trouble
  /\ Goto(h, "require")
  /\ UNCHANGED <<app, leases, files, next, launches>>

Reacquire(h) ==
  /\ helper[h].pc = "reacquire"
  /\ IF NobodyRuns
     THEN Take("runtime", h) /\ Goto(h, "undo")
     ELSE Goto(h, "require") /\ UNCHANGED lease
  /\ UNCHANGED <<app, shared, files, used>>

(* -- recovery ------------------------------------------------------------- *)

\* Mode::Recover: a running application blocks it. A journal that is terminal,
\* or that was never written, needs nothing.
Recover(h) ==
  /\ helper[h].pc = "recover"
  /\ IF NobodyRuns
     THEN /\ Take("runtime", h)
          /\ Goto(h, IF journal[helper[h].txn] \in Live THEN "undo" ELSE "end")
          /\ UNCHANGED <<app, shared>>
     ELSE Ends(h, "blocked")
  /\ UNCHANGED <<files, used>>

\* settle_old, or the first step of a rollback.
Undo(h) ==
  /\ helper[h].pc = "undo"
  /\ \/ /\ journal[helper[h].txn] = "prepared"
        /\ Store(h, "rolled_back", "end", "end")
     \/ /\ journal[helper[h].txn] = "rolling_back" /\ ~helper[h].behind
        /\ Goto(h, "restore")
        /\ UNCHANGED <<journal, troubles>>
     \/ /\ journal[helper[h].txn] # "prepared"
        /\ journal[helper[h].txn] = "rolling_back" => helper[h].behind
        /\ Store(h, "rolling_back", "restore", "end")
  /\ OnlyJournal

\* Nothing is restored that was never changed.
RestoreFiles(h) ==
  /\ helper[h].pc = "restore"
  /\ installed' = IF installed = source[helper[h].txn] THEN installed ELSE Mixed
  /\ Goto(h, "restoring")
  /\ UNCHANGED <<app, leases, staged, journal, capability, source, used>>

FilesRestored(h) ==
  /\ helper[h].pc = "restoring"
  /\ \/ /\ installed' = source[helper[h].txn]
        /\ Goto(h, "restored")
        /\ UNCHANGED troubles
     \/ Trouble /\ Goto(h, "require") /\ UNCHANGED installed
  /\ UNCHANGED <<app, leases, staged, journal, capability, source, next,
                 launches>>

RolledBack(h) ==
  /\ helper[h].pc = "restored"
  /\ Store(h, "rolled_back", "end", "end")
  /\ OnlyJournal

Require(h) ==
  /\ helper[h].pc = "require"
  /\ Store(h, "required", "end", "end")
  /\ OnlyJournal

\* The child the helper still has is killed when the work returns
\* (ProcessChild::drop). Then HeldLeases are dropped in order, runtime last: a
\* start between the two drops finds the gate open and runtime taken. A runtime
\* that was taken back from a child went with the child.
SessionEnds(h) ==
  LET child == helper[h].child
      mine == IF helper[h].launched THEN Kinds ELSE {"transaction", "startup"}
  IN
  /\ helper[h].pc = "end"
  /\ app' = [a \in Apps |-> IF a = child THEN Off ELSE app[a]]
  /\ shared' = shared \ {child}
  /\ lease' = [k \in Kinds |-> IF lease[k] = child \/ (lease[k] = h /\ k \in mine)
                              THEN None ELSE lease[k]]
  /\ helper' = [Orphaned(child) EXCEPT ![h] =
        [@ EXCEPT !.pc = "leaving",
                  !.report = IF helper[h].mode = "recover" THEN Verdict(h)
                             ELSE helper[h].report]]
  /\ UNCHANGED <<files, used>>

Left(h) ==
  /\ helper[h].pc = "leaving"
  /\ Ends(h, helper[h].report)
  /\ UNCHANGED <<files, used>>

(* -- a process dies ------------------------------------------------------- *)

\* The operating system closes the pipes and releases the leases of a helper;
\* its child goes on alone.
HelperDies(h) ==
  /\ helper[h].pc # "off" /\ Trouble
  /\ app' = Tell(h, "closed")
  /\ helper' = [helper EXCEPT ![h] = Gone(h, helper[h].report)]
  /\ lease' = Released(h, Kinds)
  /\ UNCHANGED <<shared, files, next, launches>>

AppDies(a) ==
  /\ app[a].pc # "off" /\ Trouble
  /\ AppEnds(a)
  /\ UNCHANGED <<files, next, launches>>

-----------------------------------------------------------------------------
Starting(a) ==
  \/ Detect(a) \/ TakeCapability(a) \/ JoinRuntime(a)
  \/ SweepStep(a) \/ Sweep(a) \/ TakeGate(a) \/ NoticeUpdate(a)
  \/ GiveUpWaiting(a) \/ ScanAdmit(a) \/ ScanStop(a) \/ ScanRecover(a)
  \/ Recovered(a) \/ Enter(a) \/ Verify(a) \/ Answered(a)

Restarting(a) == Authorize(a) \/ Abandon(a) \/ ConfirmExit(a)

Session(h) == Hello(h) \/ HelperGate(h) \/ Heard(h) \/ ParentExited(h)
              \/ ParentStillRunning(h) \/ SessionEnds(h) \/ Left(h)

Apply(h) == RefuseApply(h) \/ RetirePriorReceipts(h) \/ Begin(h) \/ Unstarted(h)
            \/ StartApplying(h) \/ ReplaceFiles(h) \/ FilesReplaced(h) \/ AwaitHealth(h)

Health(h) == LaunchChild(h) \/ AwaitHealthy(h) \/ Commit(h) \/ SendCommit(h)
             \/ Stop(h) \/ ChildStopped(h) \/ StopFailed(h) \/ Reacquire(h)

Rollback(h) == Recover(h) \/ Undo(h) \/ RestoreFiles(h) \/ FilesRestored(h)
               \/ RolledBack(h) \/ Require(h)

Helping(h) == Session(h) \/ Apply(h) \/ Health(h) \/ Rollback(h)

Next ==
  \/ \E a \in Apps : \/ Launch(a) \/ PrepareRestart(a) \/ Quit(a) \/ AppDies(a)
                     \/ Starting(a) \/ Restarting(a)
  \/ \E h \in Helpers : Helping(h) \/ HelperDies(h)

\* A process that may step does. What a user asks for need not happen. The gate
\* is polled while it is waited for, so a waiting start does not miss every
\* moment at which it is free.
Fairness ==
  /\ \A a \in Apps : WF_vars(Starting(a) \/ Restarting(a)) /\ SF_vars(TakeGate(a))
  /\ \A h \in Helpers : WF_vars(Helping(h))

Spec == Init /\ [][Next]_vars /\ Fairness

-----------------------------------------------------------------------------
AppPlaces == {"off", "entry", "taking", "taken", "sweep", "sweep2", "sweeping", "gate",
              "scan", "recovering", "admitted", "limited", "reporting", "editing",
              "preparing", "abandoning", "quitting"}

HelperPlaces == {"off", "hello", "gate", "prepared", "waiting", "apply", "begin",
                 "unstarted", "start", "replace", "replacing", "await", "launch",
                 "health", "commit", "notify", "stop", "stopping", "reacquire",
                 "recover", "undo", "restore", "restoring", "restored", "require",
                 "end", "leaving"}

\* Every process is at one of its places, every version and phase is one the
\* program knows, and runtime is shared or exclusive, never both.
TypeOK ==
  /\ app \in [Apps -> [pc : AppPlaces, image : Versions, waited : BOOLEAN,
                       again : BOOLEAN, restarted : BOOLEAN, txn : 0 .. MaxTxns,
                       helper : Helpers \cup {None},
                       told : {"nothing", "commit", "closed"}]]
  /\ helper \in [Helpers ->
       [pc : HelperPlaces, mode : {"prepare", "recover"}, txn : 0 .. MaxTxns,
        parent : Apps \cup {None}, child : Apps \cup {None},
        heard : {"nothing", "authorized", "abort", "closed"},
        report : {"none", "prepared", "refused", "settled", "required", "blocked"},
        healthy : BOOLEAN, behind : BOOLEAN, launched : BOOLEAN]]
  /\ lease \in [Kinds -> Procs \cup {None}]
  /\ shared \subseteq Apps /\ (shared = {} \/ Free("runtime"))
  /\ staged \subseteq Txns
  /\ journal \in [Txns -> Live \cup {"none", "committed", "rolled_back", "required"}]
  /\ capability \subseteq staged
  /\ source \in [Txns -> Versions]
  /\ installed \in Versions \cup {Mixed}
  /\ next \in 1 .. MaxTxns + 1 /\ launches \in 0 .. MaxLaunches
  /\ troubles \in 0 .. MaxTroubles

Running == {a \in Apps : app[a].pc \in {"editing", "preparing", "abandoning", "quitting"}}

\* Nobody edits with an image that is not the complete version on disk, or
\* while an update is under way or waits for a person: what startup_gate,
\* update_gate::enter and ChildSession promise together.
EditsOnlySettledVersion ==
  \A a \in Running : /\ installed = app[a].image
                     /\ \A t \in Txns : journal[t] \notin Live \cup {"required"}

\* The files change only under a helper that holds all three leases, so while
\* no application runs, admitted or limited (wait_for_parent_exit,
\* stop_and_release_lease, run_session in Mode::Recover).
FilesChangeAlone ==
  [][installed' # installed =>
       \E h \in Helpers : /\ \A k \in Kinds : lease[k] = h
                          /\ shared = {}
                          /\ Running = {}]_vars

\* A helper whose application did not leave it never finds the directory of its
\* transaction, with its archive and backups, removed by a start, an aborted
\* restart or a later update (sweep_abandoned_transactions, abort_in_place,
\* retire_prior_receipts). A recovery that comes late finds nothing to do.
StagingIsKept ==
  \A h \in Helpers :
    /\ helper[h].pc \notin {"off", "hello", "gate", "recover", "end", "leaving"}
    /\ helper[h].pc = "prepared" => helper[h].heard \in {"nothing", "authorized"}
    => helper[h].txn \in staged

\* At most one journal exists, so a start never has to choose between two
\* (ensure_prior_receipts_current, retire_prior_receipts).
OneJournal == Cardinality({t \in Txns : journal[t] # "none"}) <= 1

\* The records a start reads are well formed and speak of one update, and what
\* an update under way has staged stays.
RecordsAreSound == TypeOK /\ OneJournal /\ StagingIsKept

\* A helper ends a child that has begun to edit only if the commit it was told
\* had failed is on disk (conclude_health, committed_durably).
EditorsAreNotKilled ==
  \A h \in Helpers :
    helper[h].pc \in {"stop", "stopping", "end"} /\ helper[h].child \in Running
      => helper[h].behind

\* Every start ends as an editor or is told why not; one that waits for an
\* update, however long, does not wait for ever (gate_with_open_retry,
\* ParentStillRunning, the limits of every wait of a helper).
EveryStartIsAnswered ==
  \A a \in Apps : app[a].pc \in {"entry", "sweep"} ~> app[a].pc \in {"off", "editing"}
=============================================================================
