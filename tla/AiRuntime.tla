----------------------------- MODULE AiRuntime -----------------------------
(* The runtime of the AI service (crates/ai: runtime.rs, rpc.rs,            *)
(* owner_lock.rs): a coordinator thread that starts, stops and restarts one *)
(* child process, the callers that ask it to, and the calls that reach the  *)
(* child past it.  The coordinator works through a queue, in which reports  *)
(* about the child stand between the callers' commands, and waits for a     *)
(* child's handshake and for its exit while the child dies, its output      *)
(* ends, and callers come and go.  The owner lock of the system keeps other *)
(* processes of Hane from a child of their own; it must outlive a child     *)
(* whose exit could not be confirmed.                                       *)
(*                                                                          *)
(* Abstracted: a configuration is its revision; operation generations, which *)
(* no decision reads that the child's own generation does not settle; the   *)
(* path of the lock; payloads, request identifiers and events;              *)
(* with_owner_lock, which runs a function between two messages.  Closing a  *)
(* transport and changing the status are one step: a call is refused from   *)
(* the first of the two on.                                                 *)
EXTENDS Naturals, Sequences

CONSTANTS
    Callers,   \* threads that hold the AiRuntime
    NoCaller,  \* nobody waits for the outcome
    MaxRev,    \* revisions of the configuration
    Budget,    \* bound on what callers ask
    MaxFaults  \* bound on crashes, lost events and failing steps

ASSUME RuntimeAssumption ==
    /\ NoCaller \notin Callers
    /\ MaxRev \in Nat /\ Budget \in Nat /\ MaxFaults \in Nat

VARIABLES
    shared,   \* SharedState: the published status, revision and transport
    queue,    \* the coordinator's channel
    co,       \* what the coordinator does, and for whom
    current,  \* the generation of the ActiveChild, 0 for None
    gen,      \* the coordinator's child generation
    child,    \* the child spawned as each generation
    lock,     \* who holds the owner lock
    caller,   \* what each thread waits for
    alive,    \* the AiRuntime has not been dropped
    asked,    \* commands and calls so far
    faults    \* faults so far

vars == <<shared, queue, co, current, gen, child, lock, caller, alive,
          asked, faults>>

Revs == 0 .. MaxRev
Gens == 1 .. 2 * Budget
Coalesced == {"start", "restart"}
Commands == Coalesced \cup {"own", "stop", "reconfigure"}
Reports == {"ended", "overflow"}

Shared == [status : {"Stopped", "Starting", "Initializing", "Ready", "Stopping", "Failed"},
           blocked : BOOLEAN, gen : Nat, rev : Revs, transport : {0} \cup Gens]
Message == [kind : Commands \cup Reports \cup {"shutdown"},
            from : Callers \cup {NoCaller}, rev : Revs, gen : {0} \cup Gens]
Coordinator == [pc : {"idle", "acquire", "spawn", "handshake", "publish", "stopping", "gone"},
                cmd : Commands \cup Reports \cup {"cancel", "shutdown"},
                from : Callers \cup {NoCaller}, rev : Revs, config : Revs]
Child == [up : BOOLEAN, rev : Revs, open : BOOLEAN, read : BOOLEAN, lost : BOOLEAN]
Caller == [pc : {"idle", "lead", "sent", "fan", "wait", "holding", "ring", "pending"},
           ask : Commands \cup {"call"}, rev : Revs, core : {0} \cup Gens]

TypeOK ==
    /\ shared \in Shared
    /\ queue \in Seq(Message)
    /\ co \in Coordinator
    /\ current \in {0} \cup Gens /\ gen \in Nat
    /\ child \in [Gens -> Child]
    /\ lock \in {"free", "runtime", "worker", "given", "other"}
    /\ caller \in [Callers -> Caller]
    /\ alive \in BOOLEAN
    /\ asked \in 0 .. Budget /\ faults \in 0 .. MaxFaults

\* A generation without a child has no events to lose.
NoChild == [up |-> FALSE, rev |-> 0, open |-> FALSE, read |-> FALSE, lost |-> TRUE]
NoCall == [pc |-> "idle", ask |-> "stop", rev |-> 0, core |-> 0]

Init ==
    /\ shared = [status |-> "Stopped", blocked |-> FALSE, gen |-> 0, rev |-> 0, transport |-> 0]
    /\ queue = <<>>
    /\ co = [pc |-> "idle", cmd |-> "stop", from |-> NoCaller, rev |-> 0, config |-> 0]
    /\ current = 0 /\ gen = 0
    /\ child = [g \in Gens |-> NoChild]
    /\ lock = "free"
    /\ caller = [c \in Callers |-> NoCall]
    /\ alive = TRUE
    /\ asked = 0 /\ faults = 0

Fault == faults < MaxFaults /\ faults' = faults + 1

-----------------------------------------------------------------------------
(* Callers.                                                                 *)

Asks(c) ==
    /\ alive /\ caller[c].pc = "idle"
    /\ asked < Budget /\ asked' = asked + 1

Enqueue(kind, c, rev, g) ==
    queue' = Append(queue, [kind |-> kind, from |-> c, rev |-> rev, gen |-> g])

\* start_inflight, restart_inflight: set from the leader's call until it takes
\* the waiters.
Leading(a) == \E c \in Callers : caller[c].pc \in {"lead", "sent", "fan"} /\ caller[c].ask = a

\* start, restart: the first caller sends, the others attach to it.
AskWave(c) ==
    /\ Asks(c)
    /\ \E a \in Coalesced :
          caller' = [caller EXCEPT ![c] =
              [NoCall EXCEPT !.pc = IF Leading(a) THEN "wait" ELSE "lead", !.ask = a]]
    /\ UNCHANGED <<shared, queue, co, current, gen, child, lock, alive, faults>>

LeadWave(c) ==
    /\ caller[c].pc = "lead"
    /\ Enqueue(caller[c].ask, c, 0, 0)
    /\ caller' = [caller EXCEPT ![c].pc = "sent"]
    /\ UNCHANGED <<shared, co, current, gen, child, lock, alive, asked, faults>>

\* Mutant: the others wait for an outcome of their own.
FanOutLeader(c) ==
    /\ caller[c].pc = "fan"
    /\ caller' = [caller EXCEPT ![c] = NoCall]
    /\ UNCHANGED <<shared, queue, co, current, gen, child, lock, alive, asked, faults>>

\* The leader has its outcome and hands it to everyone attached by now.
FanOut(c) ==
    /\ caller[c].pc = "fan"
    /\ caller' = [d \in Callers |->
           IF d = c \/ (caller[d].pc = "wait" /\ caller[d].ask = caller[c].ask)
           THEN NoCall ELSE caller[d]]
    /\ UNCHANGED <<shared, queue, co, current, gen, child, lock, alive, asked, faults>>

\* stop, reconfigure: every call is a command of its own.
AskAlone(c) ==
    /\ Asks(c)
    /\ \/ Enqueue("stop", c, 0, 0) /\ caller' = [caller EXCEPT ![c].pc = "sent"]
       \/ \E r \in Revs :
             /\ Enqueue("reconfigure", c, r, 0)
             /\ caller' = [caller EXCEPT ![c] = [@ EXCEPT !.pc = "sent", !.ask = "reconfigure"]]
    /\ UNCHANGED <<shared, co, current, gen, child, lock, alive, faults>>

\* start_with_owner_lock: the caller takes the lock itself, and hands it over.
TakeLock(c) ==
    /\ Asks(c) /\ lock = "free"
    /\ lock' = "given"
    /\ caller' = [caller EXCEPT ![c] = [@ EXCEPT !.pc = "holding", !.ask = "own"]]
    /\ UNCHANGED <<shared, queue, co, current, gen, child, alive, faults>>

HandLockOver(c) ==
    /\ caller[c].pc = "holding"
    /\ Enqueue("own", c, 0, 0)
    /\ caller' = [caller EXCEPT ![c].pc = "sent"]
    /\ UNCHANGED <<shared, co, current, gen, child, lock, alive, asked, faults>>

\* call_for_network_revision: the transport of a runtime that is ready for
\* the caller's revision.
AskCall(c) ==
    /\ Asks(c)
    /\ shared.status = "Ready" /\ shared.transport # 0
    /\ caller' = [caller EXCEPT ![c] = [pc |-> "ring", ask |-> "call",
                                        rev |-> shared.rev, core |-> shared.transport]]
    /\ UNCHANGED <<shared, queue, co, current, gen, child, lock, alive, faults>>

\* RpcCore::call: registered while the core is open, or refused.
Ring(c) ==
    /\ caller[c].pc = "ring"
    /\ \/ /\ child[caller[c].core].open
          /\ caller' = [caller EXCEPT ![c].pc = "pending"]
       \/ caller' = [caller EXCEPT ![c] = NoCall]
    /\ UNCHANGED <<shared, queue, co, current, gen, child, lock, alive, asked, faults>>

\* The response or the timeout.
CallEnds(c) ==
    /\ caller[c].pc = "pending"
    /\ caller' = [caller EXCEPT ![c] = NoCall]
    /\ UNCHANGED <<shared, queue, co, current, gen, child, lock, alive, asked, faults>>

\* shutdown, drop: nobody else holds the AiRuntime.
Shutdown ==
    /\ alive /\ \A c \in Callers : caller[c].pc = "idle"
    /\ alive' = FALSE
    /\ Enqueue("shutdown", NoCaller, 0, 0)
    /\ UNCHANGED <<shared, co, current, gen, child, lock, caller, asked, faults>>

-----------------------------------------------------------------------------
(* The child, its transport and other processes.                            *)

\* Mutant: a request that is pending waits for its response.
Undrained(g) == caller

\* mark_closed: with its core, every request that is pending fails.
Drained(g) == [c \in Callers |->
    IF caller[c].pc = "pending" /\ caller[c].core = g THEN NoCall ELSE caller[c]]

\* A child whose input is closed or that was killed ends, others may crash.
ChildExits(g) ==
    /\ child[g].up
    /\ child' = [child EXCEPT ![g].up = FALSE]
    /\ IF child[g].open THEN Fault ELSE UNCHANGED faults
    /\ UNCHANGED <<shared, queue, co, current, gen, lock, caller, alive, asked>>

\* on_closed; the channel has no bound.
Tell(g) == IF co.pc = "gone" THEN UNCHANGED queue ELSE Enqueue("ended", NoCaller, 0, g)

\* The reader thread ends with the child's output, or by a panic of the
\* handler; it closes the core and tells the coordinator.
ReaderEnds(g) ==
    /\ child[g].read
    /\ IF child[g].up THEN Fault ELSE UNCHANGED faults
    /\ child' = [child EXCEPT ![g] = [@ EXCEPT !.open = FALSE, !.read = FALSE]]
    /\ caller' = Drained(g)
    /\ Tell(g)
    /\ UNCHANGED <<shared, co, current, gen, lock, alive, asked>>

\* A critical notification finds a queue full, reported once for a child; what
\* it has said is forwarded even after its end.
EventsOverflow(g) ==
    /\ ~child[g].lost /\ co.pc # "gone"
    /\ Fault
    /\ child' = [child EXCEPT ![g].lost = TRUE]
    /\ Enqueue("overflow", NoCaller, 0, g)
    /\ UNCHANGED <<shared, co, current, gen, lock, caller, alive, asked>>

\* Another process of Hane takes the owner lock, or lets it go.
OtherProcess ==
    /\ lock' = CASE lock = "free" -> "other" [] lock = "other" -> "free" [] OTHER -> lock
    /\ lock \in {"free", "other"}
    /\ UNCHANGED <<shared, queue, co, current, gen, child, caller, alive, asked, faults>>

-----------------------------------------------------------------------------
(* The coordinator: run_coordinator, handle_lifecycle, do_start and         *)
(* stop_active, from one wait to the next.                                  *)

Status(s, g) == [shared EXCEPT !.status = s, !.blocked = FALSE, !.gen = g]
Finished(c) == [co EXCEPT !.pc = "idle", !.cmd = "stop", !.from = NoCaller, !.rev = 0]

\* The outcome reaches the caller the command came from.
Replied(c) == [d \in Callers |->
    IF d # c THEN caller[d]
    ELSE IF caller[d].ask \in Coalesced THEN [caller[d] EXCEPT !.pc = "fan"] ELSE NoCall]

Reply == co' = Finished(co) /\ caller' = Replied(co.from)

Dequeue ==
    /\ queue' = Tail(queue)
    /\ UNCHANGED <<alive, asked, faults>>

\* do_start, until it asks for the owner lock; a reconfiguration swaps the
\* configuration and the published revision first.
BeginStart(cmd, from, rev, g) ==
    LET r == IF cmd = "reconfigure" THEN rev ELSE co.config IN
    /\ co' = [pc |-> "acquire", cmd |-> cmd, from |-> from, rev |-> rev, config |-> r]
    /\ shared' = [Status("Starting", g) EXCEPT !.rev = IF cmd = "reconfigure" THEN r ELSE @]

\* stop_active, until it waits: the status, the transport, the child's input.
BeginStop(cmd, from, rev, status) ==
    /\ co' = [co EXCEPT !.pc = "stopping", !.cmd = cmd, !.from = from, !.rev = rev]
    /\ shared' = [Status(status, current) EXCEPT !.transport = 0]
    /\ child' = [child EXCEPT ![current].open = FALSE]
    /\ caller' = Drained(current)

\* start, start_with_owner_lock: refused while the last child may still run,
\* which is asked again here; a guard that is not needed is dropped.
TakeStart(m) ==
    /\ Dequeue /\ m.kind \in {"start", "own"}
    /\ IF current # 0 /\ (shared.status = "Ready" \/ child[current].up)
       THEN /\ caller' = Replied(m.from)
            /\ lock' = IF m.kind = "own" /\ lock = "given" THEN "free" ELSE lock
            /\ UNCHANGED <<shared, co, current>>
       ELSE /\ current' = 0
            /\ lock' = IF current = 0 THEN lock ELSE "free"
            /\ BeginStart(m.kind, m.from, 0, gen)
            /\ UNCHANGED caller
    /\ UNCHANGED <<gen, child>>

\* stop, restart, reconfigure, shutdown.
TakeStop(m) ==
    /\ Dequeue /\ m.kind \in {"stop", "restart", "reconfigure", "shutdown"}
    /\ \/ /\ current # 0
          /\ BeginStop(m.kind, m.from, m.rev, "Stopping")
       \/ /\ current = 0 /\ m.kind = "stop"
          /\ caller' = Replied(m.from)
          /\ UNCHANGED <<shared, co, child>>
       \/ /\ current = 0 /\ m.kind = "shutdown"
          /\ co' = [co EXCEPT !.pc = "gone"]
          /\ UNCHANGED <<shared, caller, child>>
       \/ /\ current = 0 /\ m.kind \in {"restart", "reconfigure"}
          /\ BeginStart(m.kind, m.from, m.rev, gen)
          /\ UNCHANGED <<caller, child>>
    /\ UNCHANGED <<current, gen, lock>>

\* Mutant: a report is taken for one about the present child.
ConcernsAny(m) == current # 0

\* A report is about the child the coordinator still has.
Concerns(m) == current # 0 /\ m.gen = current

\* ChildEnded, CriticalEventOverflow.
TakeReport(m) ==
    /\ Dequeue /\ m.kind \in Reports
    /\ IF Concerns(m) THEN BeginStop(m.kind, NoCaller, 0, "Failed")
       ELSE UNCHANGED <<shared, co, child, caller>>
    /\ UNCHANGED <<current, gen, lock>>

\* The owner lock: carried over a reconfiguration, given by the caller, or
\* taken now.
Acquire ==
    /\ co.pc = "acquire"
    /\ \/ /\ \/ lock \in {"runtime", "free"}
             \/ lock = "given" /\ co.cmd = "own"
          /\ lock' = "runtime"
          /\ co' = [co EXCEPT !.pc = "spawn"]
          /\ UNCHANGED <<shared, caller, faults>>
       \/ /\ lock \in {"other", "given"} /\ ~(lock = "given" /\ co.cmd = "own")
          /\ shared' = Status("Stopped", gen)
          /\ Reply
          /\ UNCHANGED <<lock, faults>>
       \/ /\ lock # "runtime" /\ co.cmd # "own" /\ Fault
          /\ shared' = Status("Failed", gen)
          /\ Reply
          /\ UNCHANGED lock
    /\ UNCHANGED <<queue, current, gen, child, alive, asked>>

\* No command spawns twice, and every child is stopped once: the bound on
\* generations is not met.
Spawn ==
    /\ co.pc = "spawn" /\ gen + 1 \in Gens
    /\ gen' = gen + 1
    /\ \/ /\ child' = [child EXCEPT ![gen + 1] =
                 [up |-> TRUE, rev |-> co.config, open |-> TRUE, read |-> TRUE, lost |-> FALSE]]
          /\ shared' = Status("Initializing", gen + 1)
          /\ co' = [co EXCEPT !.pc = "handshake"]
          /\ UNCHANGED <<lock, caller, faults>>
       \/ /\ Fault
          /\ shared' = Status("Failed", gen + 1)
          /\ lock' = "free"
          /\ Reply
          /\ UNCHANGED child
    /\ UNCHANGED <<queue, current, alive, asked>>

\* initialize was answered, and initialized could be sent.
Handshake ==
    /\ co.pc = "handshake" /\ child[gen].open
    /\ current' = gen
    /\ co' = [co EXCEPT !.pc = "publish"]
    /\ UNCHANGED <<shared, queue, gen, child, lock, caller, alive, asked, faults>>

Publish ==
    /\ co.pc = "publish"
    /\ shared' = [Status("Ready", gen) EXCEPT !.transport = gen]
    /\ Reply
    /\ UNCHANGED <<queue, current, gen, child, lock, alive, asked, faults>>

\* It was not: the caller hears of it before the child is stopped.
HandshakeFails ==
    /\ co.pc = "handshake"
    /\ current' = gen
    /\ shared' = Status("Failed", gen)
    /\ co' = [co EXCEPT !.pc = "stopping", !.cmd = "cancel", !.from = NoCaller]
    /\ child' = [child EXCEPT ![gen].open = FALSE]
    /\ caller' = Replied(co.from)
    /\ UNCHANGED <<queue, gen, lock, alive, asked, faults>>

\* The child is confirmed gone.
StopEnds ==
    /\ co.pc = "stopping" /\ ~child[current].up
    /\ current' = 0
    /\ gen' = gen + 1
    /\ lock' = IF co.cmd = "reconfigure" THEN lock ELSE "free"
    /\ \/ /\ co.cmd \in {"restart", "reconfigure"}
          /\ BeginStart(co.cmd, co.from, co.rev, gen + 1)
          /\ UNCHANGED caller
       \/ /\ co.cmd \in {"stop", "shutdown"}
          /\ shared' = Status("Stopped", gen + 1)
          /\ IF co.cmd = "stop" THEN Reply
             ELSE co' = [co EXCEPT !.pc = "gone"] /\ UNCHANGED caller
       \/ /\ co.cmd \in Reports \cup {"cancel"}
          /\ shared' = Status("Failed", gen + 1)
          /\ co' = Finished(co) /\ UNCHANGED caller
    /\ UNCHANGED <<queue, child, alive, asked, faults>>

\* Mutant: the lock goes with the coordinator.
Dropped == "free"

\* spawn_shutdown_cleanup_worker: the lock stays with the child.
HandedToWorker == "worker"

\* Neither the closed input nor the kill has ended the child in time.
StopBlocked ==
    /\ co.pc = "stopping" /\ child[current].up
    /\ shared' = [Status("Failed", current) EXCEPT !.blocked = TRUE]
    /\ IF co.cmd = "shutdown"
       THEN /\ co' = [co EXCEPT !.pc = "gone"]
            /\ lock' = HandedToWorker
            /\ UNCHANGED caller
       ELSE /\ Reply
            /\ UNCHANGED lock
    /\ UNCHANGED <<queue, current, gen, child, alive, asked, faults>>

\* wait_for_confirmation_then_release.
WorkerReleases ==
    /\ lock = "worker" /\ ~child[current].up
    /\ lock' = "free"
    /\ UNCHANGED <<shared, queue, co, current, gen, child, caller, alive, asked, faults>>

TakeMessage ==
    /\ co.pc = "idle" /\ queue # <<>>
    /\ LET m == Head(queue) IN TakeStart(m) \/ TakeStop(m) \/ TakeReport(m)

Coordinate ==
    \/ TakeMessage
    \/ Acquire \/ Spawn \/ Handshake \/ Publish \/ HandshakeFails
    \/ StopEnds \/ StopBlocked

Step(c) ==
    \/ AskWave(c) \/ LeadWave(c) \/ FanOut(c) \/ AskAlone(c) \/ TakeLock(c) \/ HandLockOver(c)
    \/ AskCall(c) \/ Ring(c) \/ CallEnds(c)

Next ==
    \/ Coordinate \/ WorkerReleases \/ Shutdown \/ OtherProcess
    \/ \E c \in Callers : Step(c)
    \/ \E g \in Gens : ChildExits(g) \/ ReaderEnds(g) \/ EventsOverflow(g)

Spec == Init /\ [][Next]_vars

\* The coordinator's waits end by their timeouts, whatever the child does; a
\* thread goes on with what it has begun; the output of a child that is gone
\* ends.  Nobody has to ask for anything.
Fairness ==
    /\ WF_vars(Coordinate) /\ WF_vars(WorkerReleases)
    /\ \A c \in Callers :
          WF_vars(LeadWave(c) \/ FanOut(c) \/ HandLockOver(c) \/ Ring(c) \/ CallEnds(c))
    /\ \A g \in Gens : WF_vars(~child[g].up /\ ReaderEnds(g))

FairSpec == Spec /\ Fairness

-----------------------------------------------------------------------------
(* Properties.                                                              *)

\* A child that may still run has the owner lock behind it, in the hands of
\* the coordinator or of the worker that outlives it: no child of another
\* process, or a second one of this, ever runs beside it.
LockOutlivesChild ==
    /\ TypeOK
    /\ \A g \in Gens : child[g].up =>
          /\ lock = IF co.pc = "gone" THEN "worker" ELSE "runtime"
          /\ \A h \in Gens : child[h].up => h = g

\* A runtime that says it is ready has a child for the revision it names,
\* under its lock; a call that is under way uses a child of its revision and
\* waits only while a response can come; a child that is neither ready nor
\* being worked on blocks the next start.
ReadyServesItsRevision ==
    /\ shared.status = "Ready" =>
          /\ current # 0 /\ shared.transport = current /\ shared.gen = current
          /\ child[current].rev = shared.rev /\ lock = "runtime"
    /\ \A c \in Callers : caller[c].pc \in {"ring", "pending"} =>
          /\ child[caller[c].core].rev = caller[c].rev
          /\ caller[c].pc = "pending" => child[caller[c].core].open
    /\ co.pc \in {"idle", "gone"} /\ current # 0 =>
          shared.blocked \/ (co.pc = "idle" /\ shared.status = "Ready")

\* A ready child is only given up for a command, or because its own output
\* ended or its own events were lost: what a former child left in the queue
\* does nothing.
ReadyLostForCause ==
    [][shared.status = "Ready" /\ shared'.status # "Ready" =>
          \/ co'.cmd \in Commands \cup {"shutdown"}
          \/ co'.cmd = "ended" /\ ~child[current].read
          \/ co'.cmd = "overflow" /\ child[current].lost]_vars

\* Every caller gets an outcome, however the command ends, alone or in a
\* wave, and every call ends; a runtime whose child has ended does not stay
\* ready, without any command.
EveryoneIsAnswered ==
    /\ \A c \in Callers : caller[c].pc # "idle" ~> caller[c].pc = "idle"
    /\ (shared.status = "Ready" /\ ~child[shared.transport].up) ~> shared.status # "Ready"
=============================================================================
