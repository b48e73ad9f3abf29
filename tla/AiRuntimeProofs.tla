-------------------------- MODULE AiRuntimeProofs --------------------------
(* Proofs about AiRuntime: one child at a time, under the owner lock; ready *)
(* only for its revision; stopped only for cause.  For any number of        *)
(* threads, revisions, commands and faults.                                 *)
EXTENDS AiRuntime, SequenceTheorems, TLAPS

\* The child the coordinator works with.
Here == IF co.pc = "handshake" THEN gen ELSE current

\* What the coordinator has in hand at each of its waits.
WorkInv ==
    /\ co.pc \in {"acquire", "spawn", "handshake"} => current = 0
    /\ co.pc \in {"publish", "stopping"} => current # 0
    /\ co.pc = "handshake" => gen \in Gens
    /\ co.pc = "publish" => current = gen
    /\ current <= gen

\* Only that child may run, and the lock is there as long as it may.
LockInv ==
    /\ \A g \in Gens : child[g].up =>
          g = Here /\ lock = IF co.pc = "gone" THEN "worker" ELSE "runtime"
    /\ current # 0 /\ co.pc # "gone" => lock = "runtime"
    /\ co.pc \in {"spawn", "handshake"} => lock = "runtime"

\* The published revision is that of the configuration and of the child.
RevInv ==
    /\ shared.rev = co.config
    /\ current # 0 => child[current].rev = co.config
    /\ co.pc = "handshake" => child[gen].rev = co.config

\* What is published at the coordinator's rest.
StatusInv ==
    /\ shared.status = "Ready" =>
          /\ co.pc = "idle" /\ current # 0
          /\ shared.transport = current /\ shared.gen = current
    /\ co.pc \in {"idle", "gone"} /\ current # 0 =>
          shared.blocked \/ (co.pc = "idle" /\ shared.status = "Ready")

\* A call has a child that was ready once, for the revision of the call.
CallInv ==
    \A c \in Callers : caller[c].pc \in {"ring", "pending"} =>
        /\ caller[c].core \in Gens /\ caller[c].core <= gen
        /\ co.pc = "handshake" => caller[c].core # gen
        /\ child[caller[c].core].rev = caller[c].rev
        /\ caller[c].pc = "pending" => child[caller[c].core].open

\* A leader leads a wave.
LeadInv == \A c \in Callers : caller[c].pc = "lead" => caller[c].ask \in Coalesced

\* A report in the queue is true of a child there has been.
Told(m) == m.kind \in Reports =>
    /\ m.gen \in Gens /\ m.gen <= gen
    /\ m.kind = "ended" => ~child[m.gen].read
    /\ m.kind = "overflow" => child[m.gen].lost

ReportInv ==
    /\ \A g \in Gens : g > gen => child[g] = NoChild
    /\ \A i \in 1 .. Len(queue) : Told(queue[i])

Inv == TypeOK /\ WorkInv /\ LockInv /\ RevInv /\ StatusInv /\ CallInv /\ LeadInv
       /\ ReportInv

-----------------------------------------------------------------------------
(* Facts about the operators of the model.                                  *)

\* Taking a message leaves the messages behind it.
LEMMA HeadFacts ==
    ASSUME queue \in Seq(Message), queue # <<>>
    PROVE  /\ Head(queue) \in Message /\ Tail(queue) \in Seq(Message)
           /\ 1 \in 1 .. Len(queue) /\ Head(queue) = queue[1]
           /\ \A i \in 1 .. Len(Tail(queue)) :
                 i + 1 \in 1 .. Len(queue) /\ Tail(queue)[i] = queue[i + 1]
  BY HeadTailProperties, EmptySeq

\* Sending a message leaves the messages before it.
LEMMA EnqueueFacts ==
    ASSUME queue \in Seq(Message),
           NEW kind \in Commands \cup Reports \cup {"shutdown"},
           NEW c \in Callers \cup {NoCaller}, NEW rev \in Revs, NEW g \in {0} \cup Gens,
           Enqueue(kind, c, rev, g)
    PROVE  /\ queue' \in Seq(Message)
           /\ \A i \in 1 .. Len(queue') :
                 \/ i \in 1 .. Len(queue) /\ queue'[i] = queue[i]
                 \/ queue'[i].kind = kind /\ queue'[i].gen = g
<1> DEFINE m == [kind |-> kind, from |-> c, rev |-> rev, gen |-> g]
<1>1. [kind |-> kind, from |-> c, rev |-> rev, gen |-> g] \in Message
  BY DEF Message
<1>2. m.kind = kind /\ m.gen = g
  OBVIOUS
<1>3. m \in Message /\ queue' = Append(queue, m)
  BY <1>1 DEF Enqueue
<1> HIDE DEF m
<1> QED
  BY <1>2, <1>3, AppendProperties

\* What the steps do to a status, to callers and to the coordinator.
LEMMA StatusFacts ==
    ASSUME shared \in Shared,
           NEW s \in {"Stopped", "Starting", "Initializing", "Ready", "Stopping", "Failed"},
           NEW g \in Nat
    PROVE  /\ Status(s, g) \in Shared
           /\ Status(s, g).status = s /\ Status(s, g).gen = g /\ ~Status(s, g).blocked
           /\ Status(s, g).rev = shared.rev /\ Status(s, g).transport = shared.transport
  BY DEF Status, Shared

\* A caller that waits for nothing.
LEMMA NoCallFacts == NoCall \in Caller /\ NoCall.pc = "idle"
  BY RuntimeAssumption DEF NoCall, Caller, Revs, Commands, Coalesced

\* An outcome only changes what its caller waits for.
LEMMA RepliedFacts ==
    ASSUME caller \in [Callers -> Caller], NEW c
    PROVE  /\ Replied(c) \in [Callers -> Caller]
           /\ \A d \in Callers : Replied(c)[d].pc \in {"ring", "pending"} =>
                 Replied(c)[d] = caller[d]
<1>1. ASSUME NEW d \in Callers
      PROVE  [caller[d] EXCEPT !.pc = "fan"] \in Caller
             /\ [caller[d] EXCEPT !.pc = "fan"].pc = "fan"
  BY DEF Caller
<1> QED
  BY <1>1, NoCallFacts DEF Replied

\* Closing a core ends the calls that are pending on it.
LEMMA DrainedFacts ==
    ASSUME caller \in [Callers -> Caller], NEW g
    PROVE  /\ Drained(g) \in [Callers -> Caller]
           /\ \A d \in Callers : Drained(g)[d].pc \in {"ring", "pending"} =>
                 /\ Drained(g)[d] = caller[d]
                 /\ ~(caller[d].pc = "pending" /\ caller[d].core = g)
  BY NoCallFacts DEF Drained

\* The coordinator comes to rest with the configuration it has.
LEMMA FinishedFacts ==
    ASSUME co \in Coordinator, NEW c
    PROVE  /\ Finished(c) \in Coordinator
           /\ Finished(c).pc = "idle" /\ Finished(c).config = co.config
<1>1. 0 \in Revs /\ "stop" \in Commands
  BY RuntimeAssumption DEF Revs, Commands
<1> QED
  BY <1>1 DEF Finished, Coordinator

Starts == {"start", "own", "restart", "reconfigure"}

\* do_start publishes the revision of the configuration it starts.
LEMMA BeginStartFacts ==
    ASSUME TypeOK, NEW cmd \in Starts, NEW from \in Callers \cup {NoCaller},
           NEW rev \in Revs, NEW g \in Nat, BeginStart(cmd, from, rev, g)
    PROVE  /\ co' \in Coordinator /\ co'.pc = "acquire" /\ co'.cmd = cmd
           /\ shared' \in Shared /\ shared'.status = "Starting"
           /\ shared.rev = co.config => shared'.rev = co'.config
<1> DEFINE r == IF cmd = "reconfigure" THEN rev ELSE co.config
           s == Status("Starting", g)
<1>1. s \in Shared /\ s.status = "Starting" /\ s.rev = shared.rev
  BY StatusFacts DEF TypeOK
<1>2. r \in Revs
  BY DEF TypeOK, Coordinator
<1>3. /\ co' = [pc |-> "acquire", cmd |-> cmd, from |-> from, rev |-> rev, config |-> r]
      /\ shared' = [s EXCEPT !.rev = IF cmd = "reconfigure" THEN r ELSE @]
  BY DEF BeginStart
<1>4. co' \in Coordinator /\ co'.pc = "acquire" /\ co'.cmd = cmd /\ co'.config = r
  BY <1>2, <1>3 DEF Coordinator, Starts, Commands, Coalesced
<1>5. /\ shared' \in Shared /\ shared'.status = "Starting"
      /\ shared'.rev = IF cmd = "reconfigure" THEN r ELSE shared.rev
  <2> HIDE DEF s, r
  <2> QED
    BY <1>1, <1>2, <1>3 DEF Shared
<1> QED
  BY <1>4, <1>5

Stops == {"stop", "restart", "reconfigure", "shutdown"} \cup Reports

\* stop_active closes the child's core, and keeps the configuration.
LEMMA BeginStopFacts ==
    ASSUME TypeOK, current # 0, NEW cmd \in Stops, NEW from \in Callers \cup {NoCaller},
           NEW rev \in Revs, NEW status \in {"Stopping", "Failed"},
           BeginStop(cmd, from, rev, status)
    PROVE  /\ co' \in Coordinator /\ co'.pc = "stopping" /\ co'.cmd = cmd
           /\ co'.config = co.config
           /\ shared' \in Shared /\ shared'.status = status /\ shared'.rev = shared.rev
           /\ child' \in [Gens -> Child]
           /\ \A g \in Gens : /\ child'[g] = [child[g] EXCEPT !.open = child'[g].open]
                              /\ child'[g].rev = child[g].rev /\ child'[g].up = child[g].up
                              /\ child'[g].read = child[g].read /\ child'[g].lost = child[g].lost
                              /\ g # current => child'[g] = child[g]
           /\ caller' = Drained(current) /\ caller' \in [Callers -> Caller]
<1> DEFINE s == Status(status, current)
<1>1. s \in Shared /\ s.status = status /\ s.rev = shared.rev
  BY StatusFacts DEF TypeOK, Gens
<1>2. /\ co' = [co EXCEPT !.pc = "stopping", !.cmd = cmd, !.from = from, !.rev = rev]
      /\ shared' = [s EXCEPT !.transport = 0]
      /\ child' = [child EXCEPT ![current].open = FALSE]
      /\ caller' = Drained(current)
  BY DEF BeginStop
<1>3. shared' \in Shared /\ shared'.status = status /\ shared'.rev = shared.rev
  <2> HIDE DEF s
  <2> QED
    BY <1>1, <1>2 DEF Shared
<1>4. co' \in Coordinator /\ co'.pc = "stopping" /\ co'.cmd = cmd /\ co'.config = co.config
  BY <1>2 DEF TypeOK, Coordinator, Stops, Commands, Coalesced, Reports
<1>5. /\ child' \in [Gens -> Child]
      /\ \A g \in Gens : /\ child'[g] = [child[g] EXCEPT !.open = child'[g].open]
                         /\ child'[g].rev = child[g].rev /\ child'[g].up = child[g].up
                         /\ child'[g].read = child[g].read /\ child'[g].lost = child[g].lost
                         /\ g # current => child'[g] = child[g]
  BY <1>2 DEF TypeOK, Child
<1> QED
  BY <1>2, <1>3, <1>4, <1>5, DrainedFacts DEF TypeOK

-----------------------------------------------------------------------------
(* Types.                                                                   *)

\* The callers keep the types.
LEMMA CallerStepTypes ==
    ASSUME TypeOK, LeadInv, NEW c \in Callers, Step(c)
    PROVE  TypeOK'
<1> USE RuntimeAssumption
<1>0. /\ 0 \in Revs /\ NoCaller \in Callers \cup {NoCaller} /\ c \in Callers \cup {NoCaller}
      /\ 0 \in {0} \cup Gens
  BY DEF Revs
<1>1. CASE AskWave(c)
  <2>1. PICK a \in Coalesced : caller' = [caller EXCEPT ![c] =
              [NoCall EXCEPT !.pc = IF Leading(a) THEN "wait" ELSE "lead", !.ask = a]]
    BY <1>1 DEF AskWave
  <2>2. [NoCall EXCEPT !.pc = IF Leading(a) THEN "wait" ELSE "lead", !.ask = a] \in Caller
    BY <1>0 DEF NoCall, Caller, Commands
  <2>3. caller' \in [Callers -> Caller]
    BY <2>1, <2>2 DEF TypeOK
  <2> QED
    BY <1>1, <2>3 DEF AskWave, Asks, TypeOK
<1>2. CASE LeadWave(c)
  <2>1. caller[c].ask \in Commands \cup Reports \cup {"shutdown"}
    BY <1>2 DEF LeadWave, LeadInv, Commands
  <2>2. queue' \in Seq(Message)
    BY <1>0, <1>2, <2>1, EnqueueFacts DEF LeadWave, TypeOK
  <2>3. caller' \in [Callers -> Caller]
    BY <1>2 DEF LeadWave, TypeOK, Caller
  <2> QED
    BY <1>2, <2>2, <2>3 DEF LeadWave, TypeOK
<1>3. CASE FanOut(c)
  <2>1. caller' \in [Callers -> Caller]
    BY <1>3, NoCallFacts DEF FanOut, TypeOK
  <2> QED
    BY <1>3, <2>1 DEF FanOut, TypeOK
<1>4. CASE AskAlone(c)
  <2>1. queue' \in Seq(Message)
    <3>1. CASE Enqueue("stop", c, 0, 0)
      BY <1>0, <3>1, EnqueueFacts DEF TypeOK, Commands
    <3>2. ASSUME NEW r \in Revs, Enqueue("reconfigure", c, r, 0) PROVE queue' \in Seq(Message)
      BY <1>0, <3>2, EnqueueFacts DEF TypeOK, Commands
    <3> QED
      BY <1>4, <3>1, <3>2 DEF AskAlone
  <2>2. caller' \in [Callers -> Caller]
    <3>1. \/ caller' = [caller EXCEPT ![c].pc = "sent"]
          \/ caller' = [caller EXCEPT ![c] = [@ EXCEPT !.pc = "sent",
                                                      !.ask = "reconfigure"]]
      BY <1>4 DEF AskAlone
    <3>2. CASE caller' = [caller EXCEPT ![c].pc = "sent"]
      BY <3>2 DEF TypeOK, Caller
    <3>3. CASE caller' = [caller EXCEPT ![c] = [@ EXCEPT !.pc = "sent",
                                                         !.ask = "reconfigure"]]
      BY <3>3 DEF TypeOK, Caller, Commands
    <3> QED
      BY <3>1, <3>2, <3>3
  <2> QED
    BY <1>4, <2>1, <2>2 DEF AskAlone, Asks, TypeOK
<1>5. CASE TakeLock(c)
  <2>1. caller' \in [Callers -> Caller]
    BY <1>5 DEF TakeLock, TypeOK, Caller, Commands
  <2> QED
    BY <1>5, <2>1 DEF TakeLock, Asks, TypeOK
<1>6. CASE HandLockOver(c)
  <2>1. queue' \in Seq(Message)
    BY <1>0, <1>6, EnqueueFacts DEF HandLockOver, TypeOK, Commands
  <2>2. caller' \in [Callers -> Caller]
    BY <1>6 DEF HandLockOver, TypeOK, Caller
  <2> QED
    BY <1>6, <2>1, <2>2 DEF HandLockOver, TypeOK
<1>7. CASE AskCall(c)
  <2>1. [pc |-> "ring", ask |-> "call", rev |-> shared.rev, core |-> shared.transport] \in Caller
    BY DEF TypeOK, Shared, Caller
  <2>2. caller' \in [Callers -> Caller]
    BY <1>7, <2>1 DEF AskCall, TypeOK
  <2> QED
    BY <1>7, <2>2 DEF AskCall, Asks, TypeOK
<1>8. CASE Ring(c)
  <2>1. caller' \in [Callers -> Caller]
    <3>1. CASE caller' = [caller EXCEPT ![c].pc = "pending"]
      BY <3>1 DEF TypeOK, Caller
    <3>2. CASE caller' = [caller EXCEPT ![c] = NoCall]
      BY <3>2, NoCallFacts DEF TypeOK
    <3> QED
      BY <1>8, <3>1, <3>2 DEF Ring
  <2> QED
    BY <1>8, <2>1 DEF Ring, TypeOK
<1>9. CASE CallEnds(c)
  <2>1. caller' \in [Callers -> Caller]
    BY <1>9, NoCallFacts DEF CallEnds, TypeOK
  <2> QED
    BY <1>9, <2>1 DEF CallEnds, TypeOK
<1> QED
  BY <1>1, <1>2, <1>3, <1>4, <1>5, <1>6, <1>7, <1>8, <1>9 DEF Step

\* The child, its reader and the other processes keep the types.
LEMMA WorldStepTypes ==
    ASSUME TypeOK,
           \/ WorkerReleases \/ Shutdown \/ OtherProcess
           \/ \E g \in Gens : ChildExits(g) \/ ReaderEnds(g) \/ EventsOverflow(g)
    PROVE  TypeOK'
<1> USE RuntimeAssumption
<1>0. 0 \in Revs /\ NoCaller \in Callers \cup {NoCaller} /\ 0 \in {0} \cup Gens
  BY DEF Revs
<1>1. ASSUME Fault PROVE faults' \in 0 .. MaxFaults
  BY <1>1 DEF Fault, TypeOK
<1>2. CASE WorkerReleases \/ OtherProcess
  BY <1>2 DEF WorkerReleases, OtherProcess, TypeOK
<1>3. CASE Shutdown
  <2>1. queue' \in Seq(Message)
    BY <1>0, <1>3, EnqueueFacts DEF Shutdown, TypeOK
  <2> QED
    BY <1>3, <2>1 DEF Shutdown, TypeOK
<1>4. ASSUME NEW g \in Gens, ChildExits(g) PROVE TypeOK'
  <2>1. child' \in [Gens -> Child]
    BY <1>4 DEF ChildExits, TypeOK, Child
  <2>2. faults' \in 0 .. MaxFaults
    BY <1>1, <1>4 DEF ChildExits, TypeOK
  <2> QED
    BY <1>4, <2>1, <2>2 DEF ChildExits, TypeOK
<1>5. ASSUME NEW g \in Gens, ReaderEnds(g) PROVE TypeOK'
  <2>1. child' \in [Gens -> Child]
    BY <1>5 DEF ReaderEnds, TypeOK, Child
  <2>2. faults' \in 0 .. MaxFaults
    BY <1>1, <1>5 DEF ReaderEnds, TypeOK
  <2>3. queue' \in Seq(Message)
    BY <1>0, <1>5, EnqueueFacts DEF ReaderEnds, Tell, TypeOK, Reports
  <2>4. caller' \in [Callers -> Caller]
    BY <1>5, DrainedFacts DEF ReaderEnds, TypeOK
  <2> QED
    BY <1>5, <2>1, <2>2, <2>3, <2>4 DEF ReaderEnds, TypeOK
<1>6. ASSUME NEW g \in Gens, EventsOverflow(g) PROVE TypeOK'
  <2>1. child' \in [Gens -> Child]
    <3>1. child' = [child EXCEPT ![g].lost = TRUE]
      BY <1>6 DEF EventsOverflow
    <3> QED
      BY <3>1 DEF TypeOK, Child
  <2>2. queue' \in Seq(Message)
    BY <1>0, <1>6, EnqueueFacts DEF EventsOverflow, TypeOK, Reports
  <2> QED
    BY <1>1, <1>6, <2>1, <2>2 DEF EventsOverflow, TypeOK
<1> QED
  BY <1>2, <1>3, <1>4, <1>5, <1>6

\* The coordinator keeps the types when it takes a message,
LEMMA TakeTypes ==
    ASSUME TypeOK, TakeMessage
    PROVE  TypeOK'
<1> DEFINE m == Head(queue)
<1>1. /\ m \in Message /\ Tail(queue) \in Seq(Message)
      /\ TakeStart(m) \/ TakeStop(m) \/ TakeReport(m)
  BY HeadFacts DEF TakeMessage, TypeOK
<1>2. /\ m.kind \in Commands \cup Reports \cup {"shutdown"}
      /\ m.from \in Callers \cup {NoCaller} /\ m.rev \in Revs
  BY <1>1 DEF Message
<1>3. gen \in Nat /\ 0 \in Revs
  BY RuntimeAssumption DEF TypeOK, Revs
<1> HIDE DEF m
<1>4. CASE TakeStart(m)
  <2>1. caller' \in [Callers -> Caller] /\ co' \in Coordinator /\ shared' \in Shared
    <3>1. CASE UNCHANGED <<shared, co>> /\ caller' = Replied(m.from)
      BY <3>1, RepliedFacts DEF TypeOK
    <3>2. CASE UNCHANGED caller /\ BeginStart(m.kind, m.from, 0, gen)
      <4>1. m.kind \in Starts
        BY <1>4 DEF TakeStart, Starts
      <4> QED
        BY <1>2, <1>3, <3>2, <4>1, BeginStartFacts DEF TypeOK
    <3> QED
      BY <1>4, <3>1, <3>2 DEF TakeStart
  <2>2. lock' \in {"free", "runtime", "worker", "given", "other"} /\ current' \in {0} \cup Gens
    BY <1>4 DEF TakeStart, TypeOK
  <2> QED
    BY <1>1, <1>4, <2>1, <2>2 DEF TakeStart, Dequeue, TypeOK, m
<1>5. CASE TakeStop(m)
  <2>1. /\ caller' \in [Callers -> Caller] /\ co' \in Coordinator /\ shared' \in Shared
        /\ child' \in [Gens -> Child]
    <3>1. CASE current # 0 /\ BeginStop(m.kind, m.from, m.rev, "Stopping")
      <4>1. m.kind \in Stops
        BY <1>5 DEF TakeStop, Stops
      <4> QED
        BY <1>2, <3>1, <4>1, BeginStopFacts
    <3>2. CASE UNCHANGED <<shared, co, child>> /\ caller' = Replied(m.from)
      BY <3>2, RepliedFacts DEF TypeOK
    <3>3. CASE UNCHANGED <<shared, caller, child>> /\ co' = [co EXCEPT !.pc = "gone"]
      BY <3>3 DEF TypeOK, Coordinator
    <3>4. CASE /\ UNCHANGED <<caller, child>> /\ m.kind \in {"restart", "reconfigure"}
               /\ BeginStart(m.kind, m.from, m.rev, gen)
      BY <1>2, <1>3, <3>4, BeginStartFacts DEF TypeOK, Starts
    <3> QED
      BY <1>5, <3>1, <3>2, <3>3, <3>4 DEF TakeStop
  <2> QED
    BY <1>1, <1>5, <2>1 DEF TakeStop, Dequeue, TypeOK, m
<1>6. CASE TakeReport(m)
  <2>1. /\ caller' \in [Callers -> Caller] /\ co' \in Coordinator /\ shared' \in Shared
        /\ child' \in [Gens -> Child]
    <3>1. CASE Concerns(m) /\ BeginStop(m.kind, NoCaller, 0, "Failed")
      <4>1. m.kind \in Stops /\ current # 0
        BY <1>6, <3>1 DEF TakeReport, Stops, Concerns
      <4> QED
        BY <1>3, <3>1, <4>1, BeginStopFacts
    <3>2. CASE UNCHANGED <<shared, co, child, caller>>
      BY <3>2 DEF TypeOK
    <3> QED
      BY <1>6, <3>1, <3>2 DEF TakeReport
  <2> QED
    BY <1>1, <1>6, <2>1 DEF TakeReport, Dequeue, TypeOK, m
<1> QED
  BY <1>1, <1>4, <1>5, <1>6

\* The outcome: the coordinator is idle, its caller has the answer.
LEMMA ReplyFacts ==
    ASSUME TypeOK, Reply
    PROVE  /\ co' \in Coordinator /\ co'.pc = "idle" /\ co'.config = co.config
           /\ caller' \in [Callers -> Caller]
           /\ \A d \in Callers : caller'[d].pc \in {"ring", "pending"} => caller'[d] = caller[d]
  BY FinishedFacts, RepliedFacts DEF Reply, TypeOK

\* when it starts a child,
LEMMA WorkTypes ==
    ASSUME TypeOK, WorkInv, Acquire \/ Spawn \/ Handshake \/ Publish \/ HandshakeFails
    PROVE  TypeOK'
<1>0. gen \in Nat /\ gen + 1 \in Nat
  BY DEF TypeOK
<1>1. ASSUME Fault PROVE faults' \in 0 .. MaxFaults
  BY <1>1, RuntimeAssumption DEF Fault, TypeOK
<1>2. CASE Acquire
  <2>1. CASE co' = [co EXCEPT !.pc = "spawn"] /\ UNCHANGED <<shared, caller, faults>>
             /\ lock' = "runtime"
    <3>1. co' \in Coordinator
      BY <2>1 DEF TypeOK, Coordinator
    <3> QED
      BY <1>2, <2>1, <3>1 DEF Acquire, TypeOK
  <2>2. CASE shared' = Status("Stopped", gen) /\ Reply /\ UNCHANGED <<lock, faults>>
    BY <1>0, <1>2, <2>2, ReplyFacts, StatusFacts DEF Acquire, TypeOK
  <2>3. CASE shared' = Status("Failed", gen) /\ Reply /\ UNCHANGED lock /\ Fault
    BY <1>0, <1>1, <1>2, <2>3, ReplyFacts, StatusFacts DEF Acquire, TypeOK
  <2> QED
    BY <1>2, <2>1, <2>2, <2>3 DEF Acquire
<1>3. CASE Spawn
  <2>1. CASE /\ child' = [child EXCEPT ![gen + 1] =
                    [up |-> TRUE, rev |-> co.config, open |-> TRUE, read |-> TRUE, lost |-> FALSE]]
             /\ shared' = Status("Initializing", gen + 1)
             /\ co' = [co EXCEPT !.pc = "handshake"]
             /\ UNCHANGED <<lock, caller, faults>>
    <3>1. co' \in Coordinator
      BY <2>1 DEF TypeOK, Coordinator
    <3>2. child' \in [Gens -> Child]
      BY <2>1 DEF TypeOK, Coordinator, Child
    <3>3. shared' \in Shared
      BY <1>0, <2>1, StatusFacts DEF TypeOK
    <3> QED
      BY <1>0, <1>3, <2>1, <3>1, <3>2, <3>3 DEF Spawn, TypeOK
  <2>2. CASE Fault /\ shared' = Status("Failed", gen + 1) /\ lock' = "free" /\ Reply
             /\ UNCHANGED child
    BY <1>0, <1>1, <1>3, <2>2, ReplyFacts, StatusFacts DEF Spawn, TypeOK
  <2> QED
    BY <1>3, <2>1, <2>2 DEF Spawn
<1>4. CASE Handshake
  <2>1. co' \in Coordinator /\ current' \in Gens
    BY <1>4 DEF Handshake, TypeOK, WorkInv, Coordinator
  <2> QED
    BY <1>4, <2>1 DEF Handshake, TypeOK
<1>5. CASE Publish
  <2>1. gen \in Gens
    BY <1>5 DEF Publish, TypeOK, WorkInv
  <2>2. /\ Status("Ready", gen) \in Shared
        /\ shared' = [Status("Ready", gen) EXCEPT !.transport = gen]
    BY <1>0, <1>5, StatusFacts DEF Publish, TypeOK
  <2>3. shared' \in Shared
    BY <2>1, <2>2 DEF Shared
  <2> QED
    BY <1>5, <2>3, ReplyFacts DEF Publish, TypeOK
<1>6. CASE HandshakeFails
  <2>1. current' \in Gens
    BY <1>6 DEF HandshakeFails, TypeOK, WorkInv
  <2>2. co' \in Coordinator
    BY <1>6 DEF HandshakeFails, TypeOK, Coordinator
  <2>3. child' \in [Gens -> Child]
    BY <1>6 DEF HandshakeFails, TypeOK, Child
  <2>4. shared' \in Shared /\ caller' \in [Callers -> Caller]
    BY <1>0, <1>6, StatusFacts, RepliedFacts DEF HandshakeFails, TypeOK
  <2> QED
    BY <1>6, <2>1, <2>2, <2>3, <2>4 DEF HandshakeFails, TypeOK
<1> QED
  BY <1>2, <1>3, <1>4, <1>5, <1>6

\* and when it stops one.
LEMMA StopTypes ==
    ASSUME TypeOK, StopEnds \/ StopBlocked
    PROVE  TypeOK'
<1>0. gen + 1 \in Nat /\ current \in Nat
  BY DEF TypeOK, Gens
<1>1. CASE StopEnds
  <2>1. /\ co' \in Coordinator /\ shared' \in Shared /\ caller' \in [Callers -> Caller]
    <3>1. CASE /\ co.cmd \in {"restart", "reconfigure"} /\ UNCHANGED caller
               /\ BeginStart(co.cmd, co.from, co.rev, gen + 1)
      <4>1. co.from \in Callers \cup {NoCaller} /\ co.rev \in Revs /\ co.cmd \in Starts
        BY <3>1 DEF TypeOK, Coordinator, Starts
      <4> QED
        BY <1>0, <3>1, <4>1, BeginStartFacts DEF TypeOK
    <3>2. CASE shared' = Status("Stopped", gen + 1) /\ Reply
      BY <1>0, <3>2, ReplyFacts, StatusFacts DEF TypeOK
    <3>3. CASE /\ shared' = Status("Stopped", gen + 1) /\ UNCHANGED caller
               /\ co' = [co EXCEPT !.pc = "gone"]
      <4>1. co' \in Coordinator
        BY <3>3 DEF TypeOK, Coordinator
      <4> QED
        BY <1>0, <3>3, <4>1, StatusFacts DEF TypeOK
    <3>4. CASE /\ shared' = Status("Failed", gen + 1) /\ UNCHANGED caller
               /\ co' = Finished(co)
      BY <1>0, <3>4, FinishedFacts, StatusFacts DEF TypeOK
    <3> QED
      BY <1>1, <3>1, <3>2, <3>3, <3>4 DEF StopEnds
  <2> QED
    BY <1>0, <1>1, <2>1 DEF StopEnds, TypeOK
<1>2. CASE StopBlocked
  <2>1. shared' \in Shared
    <3>1. /\ Status("Failed", current) \in Shared
          /\ shared' = [Status("Failed", current) EXCEPT !.blocked = TRUE]
      BY <1>0, <1>2, StatusFacts DEF StopBlocked, TypeOK
    <3> QED
      BY <3>1 DEF Shared
  <2>2. /\ co' \in Coordinator /\ caller' \in [Callers -> Caller]
        /\ lock' \in {"free", "runtime", "worker", "given", "other"}
    <3>1. CASE co' = [co EXCEPT !.pc = "gone"] /\ lock' = HandedToWorker /\ UNCHANGED caller
      BY <3>1 DEF TypeOK, Coordinator, HandedToWorker
    <3>2. CASE Reply /\ UNCHANGED lock
      BY <3>2, ReplyFacts DEF TypeOK
    <3> QED
      BY <1>2, <3>1, <3>2 DEF StopBlocked
  <2> QED
    BY <1>2, <2>1, <2>2 DEF StopBlocked, TypeOK
<1> QED
  BY <1>1, <1>2

\* Every step keeps the types.
LEMMA TypeStep ==
    ASSUME TypeOK, WorkInv, LeadInv, [Next]_vars
    PROVE  TypeOK'
<1>1. CASE UNCHANGED vars
  BY <1>1 DEF vars, TypeOK
<1>2. CASE Coordinate
  BY <1>2, TakeTypes, WorkTypes, StopTypes DEF Coordinate
<1> QED
  BY <1>1, <1>2, CallerStepTypes, WorldStepTypes DEF Next

-----------------------------------------------------------------------------
(* The coordinator and its child.                                           *)

World == WorkerReleases \/ Shutdown \/ OtherProcess
         \/ \E g \in Gens : ChildExits(g) \/ ReaderEnds(g) \/ EventsOverflow(g)

\* Nobody else touches what the coordinator has.
LEMMA Bystanders ==
    /\ (\E c \in Callers : Step(c)) => UNCHANGED <<shared, co, current, gen, child>>
    /\ World => UNCHANGED <<shared, co, current, gen>>
  BY DEF Step, AskWave, LeadWave, FanOut, AskAlone, TakeLock, HandLockOver, AskCall, Ring,
         CallEnds, World, WorkerReleases, Shutdown, OtherProcess, ChildExits, ReaderEnds,
         EventsOverflow

\* The coordinator takes a message and starts, stops or answers.
LEMMA TakeCases ==
    ASSUME TypeOK, TakeMessage
    PROVE  /\ co.pc = "idle" /\ gen' = gen /\ queue # <<>> /\ queue' = Tail(queue)
           /\ \/ /\ UNCHANGED <<shared, co, current, child>> /\ lock' \in {lock, "free"}
                 /\ lock' # lock => lock = "given"
                 /\ \A d \in Callers : caller'[d].pc \in {"ring", "pending"} =>
                       caller'[d] = caller[d]
              \/ /\ co'.pc = "acquire" /\ current' = 0
                 /\ current # 0 => ~child[current].up /\ shared.status # "Ready"
                 /\ lock' = IF current = 0 THEN lock ELSE "free"
                 /\ shared'.status = "Starting"
                 /\ shared.rev = co.config => shared'.rev = co'.config
                 /\ UNCHANGED <<child, caller>>
              \/ /\ current # 0
                 /\ \E cmd \in Stops, from \in Callers \cup {NoCaller}, rev \in Revs,
                       status \in {"Stopping", "Failed"} :
                       /\ BeginStop(cmd, from, rev, status)
                       /\ cmd \in Reports => Concerns(Head(queue)) /\ Head(queue).kind = cmd
                 /\ UNCHANGED <<current, lock>>
              \/ /\ co' = [co EXCEPT !.pc = "gone"] /\ current = 0
                 /\ UNCHANGED <<shared, current, child, caller, lock>>
<1> DEFINE m == Head(queue)
<1>1. /\ m \in Message /\ co.pc = "idle" /\ queue # <<>>
      /\ TakeStart(m) \/ TakeStop(m) \/ TakeReport(m)
  BY HeadFacts DEF TakeMessage, TypeOK
<1>2. /\ m.kind \in Commands \cup Reports \cup {"shutdown"}
      /\ m.from \in Callers \cup {NoCaller} /\ m.rev \in Revs
  BY <1>1 DEF Message
<1>3. gen \in Nat /\ 0 \in Revs
  BY RuntimeAssumption DEF TypeOK, Revs
<1>4. \A d \in Callers : Replied(m.from)[d].pc \in {"ring", "pending"} =>
         Replied(m.from)[d] = caller[d]
  BY RepliedFacts DEF TypeOK
<1>5. queue' = Tail(queue) /\ gen' = gen
  BY <1>1 DEF TakeStart, TakeStop, TakeReport, Dequeue
<1> HIDE DEF m
<1>6. CASE TakeStart(m)
  <2>1. CASE current # 0 /\ (shared.status = "Ready" \/ child[current].up)
    BY <1>1, <1>4, <1>5, <1>6, <2>1 DEF TakeStart
  <2>2. CASE ~(current # 0 /\ (shared.status = "Ready" \/ child[current].up))
    <3>1. m.kind \in Starts /\ BeginStart(m.kind, m.from, 0, gen)
      BY <1>6, <2>2 DEF TakeStart, Starts
    <3>2. co'.pc = "acquire" /\ shared'.status = "Starting"
          /\ (shared.rev = co.config => shared'.rev = co'.config)
      BY <1>2, <1>3, <3>1, BeginStartFacts
    <3> QED
      BY <1>1, <1>5, <1>6, <2>2, <3>2 DEF TakeStart
  <2> QED
    BY <2>1, <2>2
<1>7. CASE TakeStop(m)
  <2>1. CASE current # 0 /\ BeginStop(m.kind, m.from, m.rev, "Stopping")
    <3>1. m.kind \in Stops /\ m.kind \notin Reports
      BY <1>7 DEF TakeStop, Stops, Reports
    <3> QED
      BY <1>1, <1>2, <1>5, <1>7, <2>1, <3>1 DEF TakeStop
  <2>2. CASE current = 0 /\ UNCHANGED <<shared, co, child>> /\ caller' = Replied(m.from)
    BY <1>1, <1>4, <1>5, <1>7, <2>2 DEF TakeStop
  <2>3. CASE /\ UNCHANGED <<shared, caller, child>> /\ co' = [co EXCEPT !.pc = "gone"]
             /\ current = 0
    BY <1>1, <1>5, <1>7, <2>3 DEF TakeStop
  <2>4. CASE /\ UNCHANGED <<caller, child>> /\ m.kind \in {"restart", "reconfigure"}
             /\ current = 0 /\ BeginStart(m.kind, m.from, m.rev, gen)
    <3>1. co'.pc = "acquire" /\ shared'.status = "Starting"
          /\ (shared.rev = co.config => shared'.rev = co'.config)
      BY <1>2, <1>3, <2>4, BeginStartFacts DEF Starts
    <3> QED
      BY <1>1, <1>5, <1>7, <2>4, <3>1 DEF TakeStop
  <2> QED
    BY <1>7, <2>1, <2>2, <2>3, <2>4 DEF TakeStop
<1>8. CASE TakeReport(m)
  <2>1. CASE Concerns(m)
    <3>1. m.kind \in Stops /\ current # 0 /\ BeginStop(m.kind, NoCaller, 0, "Failed")
      BY <1>8, <2>1 DEF TakeReport, Stops, Concerns
    <3> QED
      BY <1>1, <1>3, <1>5, <1>8, <2>1, <3>1 DEF TakeReport, m
  <2>2. CASE ~Concerns(m)
    BY <1>1, <1>5, <1>8, <2>2 DEF TakeReport
  <2> QED
    BY <2>1, <2>2
<1> QED
  BY <1>1, <1>6, <1>7, <1>8

CoordInv == WorkInv /\ LockInv /\ RevInv /\ StatusInv

\* What the others do leaves the coordinator's invariant alone.
LEMMA OthersKeepCoord ==
    ASSUME TypeOK, CoordInv, (\E c \in Callers : Step(c)) \/ World
    PROVE  CoordInv'
<1>1. UNCHANGED <<shared, co, current, gen>>
  BY Bystanders
<1>2. /\ \A g \in Gens : child'[g].rev = child[g].rev /\ (child'[g].up => child[g].up)
      /\ lock' # lock => \/ lock \in {"free", "other"}
                         \/ lock = "worker" /\ ~child[current].up /\ UNCHANGED child
  <2>1. CASE \E c \in Callers : Step(c)
    BY <2>1, Bystanders DEF Step, AskWave, LeadWave, FanOut, AskAlone, TakeLock, HandLockOver,
       AskCall, Ring, CallEnds
  <2>2. CASE WorkerReleases \/ Shutdown \/ OtherProcess
    BY <2>2 DEF WorkerReleases, Shutdown, OtherProcess
  <2>3. ASSUME NEW g \in Gens, ChildExits(g)
        PROVE  \A h \in Gens : child'[h].rev = child[h].rev /\ (child'[h].up => child[h].up)
    BY <2>3 DEF ChildExits, TypeOK, Child
  <2>4. ASSUME NEW g \in Gens, ReaderEnds(g)
        PROVE  \A h \in Gens : child'[h].rev = child[h].rev /\ (child'[h].up => child[h].up)
    BY <2>4 DEF ReaderEnds, TypeOK, Child
  <2>5. ASSUME NEW g \in Gens, EventsOverflow(g)
        PROVE  \A h \in Gens : child'[h].rev = child[h].rev /\ (child'[h].up => child[h].up)
    BY <2>5 DEF EventsOverflow, TypeOK, Child
  <2>6. ASSUME NEW g \in Gens, ChildExits(g) \/ ReaderEnds(g) \/ EventsOverflow(g)
        PROVE  lock' = lock
    BY <2>6 DEF ChildExits, ReaderEnds, EventsOverflow
  <2> QED
    BY <2>1, <2>2, <2>3, <2>4, <2>5, <2>6 DEF World
<1>3. WorkInv' /\ RevInv' /\ StatusInv'
  BY <1>1, <1>2 DEF CoordInv, WorkInv, RevInv, StatusInv, TypeOK
<1>4. LockInv'
  <2>1. Here' = Here
    BY <1>1 DEF Here
  <2> QED
    BY <1>1, <1>2, <2>1 DEF CoordInv, LockInv, WorkInv, TypeOK, Here
<1> QED
  BY <1>3, <1>4 DEF CoordInv

\* Taking a message keeps it,
LEMMA TakeKeepsCoord ==
    ASSUME TypeOK, CoordInv, TakeMessage
    PROVE  CoordInv'
<1>1. co.pc = "idle" /\ gen' = gen /\ gen \in Nat /\ current <= gen
  BY TakeCases DEF CoordInv, WorkInv, TypeOK
<1>2. CASE /\ UNCHANGED <<shared, co, current, child>> /\ lock' \in {lock, "free"}
           /\ lock' # lock => lock = "given"
  <2>1. LockInv'
    BY <1>1, <1>2 DEF CoordInv, LockInv, Here, TypeOK
  <2> QED
    BY <1>1, <1>2, <2>1 DEF CoordInv, WorkInv, RevInv, StatusInv
<1>3. CASE /\ co'.pc = "acquire" /\ current' = 0
           /\ current # 0 => ~child[current].up /\ shared.status # "Ready"
           /\ lock' = IF current = 0 THEN lock ELSE "free"
           /\ shared'.status = "Starting"
           /\ shared.rev = co.config => shared'.rev = co'.config
           /\ UNCHANGED <<child, caller>>
  <2>1. \A g \in Gens : ~child[g].up
    BY <1>1, <1>3 DEF CoordInv, LockInv, Here, Gens
  <2> QED
    BY <1>1, <1>3, <2>1 DEF CoordInv, WorkInv, LockInv, RevInv, StatusInv
<1>4. CASE /\ current # 0
           /\ \E cmd \in Stops, from \in Callers \cup {NoCaller}, rev \in Revs,
                 status \in {"Stopping", "Failed"} : BeginStop(cmd, from, rev, status)
           /\ UNCHANGED <<current, lock>>
  <2>1. /\ co'.pc = "stopping" /\ co'.config = co.config
        /\ shared'.status # "Ready" /\ shared'.rev = shared.rev
        /\ \A g \in Gens : child'[g].rev = child[g].rev /\ child'[g].up = child[g].up
    BY <1>4, BeginStopFacts
  <2>2. LockInv'
    BY <1>1, <1>4, <2>1 DEF CoordInv, LockInv, Here
  <2> QED
    BY <1>1, <1>4, <2>1, <2>2 DEF CoordInv, WorkInv, RevInv, StatusInv, TypeOK
<1>5. CASE /\ co' = [co EXCEPT !.pc = "gone"] /\ current = 0
           /\ UNCHANGED <<shared, current, child, caller, lock>>
  <2>1. co'.pc = "gone" /\ co'.config = co.config
    BY <1>5 DEF TypeOK, Coordinator
  <2>2. \A g \in Gens : ~child[g].up
    BY <1>1, <1>5 DEF CoordInv, LockInv, Here, Gens
  <2> QED
    BY <1>1, <1>5, <2>1, <2>2 DEF CoordInv, WorkInv, LockInv, RevInv, StatusInv
<1> QED
  BY <1>2, <1>3, <1>4, <1>5, TakeCases

\* so does every wait of a start,
LEMMA StartKeepsCoord ==
    ASSUME TypeOK, CoordInv, Acquire \/ Spawn \/ Handshake \/ Publish \/ HandshakeFails
    PROVE  CoordInv'
<1>0. /\ gen \in Nat /\ gen + 1 \in Nat /\ current <= gen /\ current \in Nat
      /\ co.pc # "gone"
  BY DEF CoordInv, WorkInv, TypeOK, Gens, Acquire, Spawn, Handshake, Publish, HandshakeFails
<1>1. CASE Acquire
  <2>1. /\ current = 0 /\ current' = 0 /\ co.pc = "acquire" /\ UNCHANGED <<gen, child>>
        /\ \A g \in Gens : ~child[g].up
    BY <1>1 DEF Acquire, CoordInv, WorkInv, LockInv, Here, Gens
  <2>2. CASE co' = [co EXCEPT !.pc = "spawn"] /\ UNCHANGED shared /\ lock' = "runtime"
    <3>1. co'.pc = "spawn" /\ co'.config = co.config
      BY <2>2 DEF TypeOK, Coordinator
    <3> QED
      BY <1>0, <2>1, <2>2, <3>1 DEF CoordInv, WorkInv, LockInv, RevInv, StatusInv
  <2>3. CASE shared' \in {Status("Stopped", gen), Status("Failed", gen)} /\ Reply
    <3>1. shared'.status # "Ready" /\ shared'.rev = shared.rev
      BY <1>0, <2>3, StatusFacts DEF TypeOK
    <3> QED
      BY <1>0, <2>1, <2>3, <3>1, ReplyFacts DEF CoordInv, WorkInv, LockInv, RevInv, StatusInv
  <2> QED
    BY <1>1, <2>2, <2>3 DEF Acquire
<1>2. CASE Spawn
  <2>1. /\ current = 0 /\ current' = 0 /\ gen' = gen + 1 /\ gen + 1 \in Gens
        /\ lock = "runtime" /\ \A g \in Gens : ~child[g].up
    BY <1>2 DEF Spawn, CoordInv, WorkInv, LockInv, Here, Gens
  <2>2. CASE /\ child' = [child EXCEPT ![gen + 1] =
                    [up |-> TRUE, rev |-> co.config, open |-> TRUE, read |-> TRUE, lost |-> FALSE]]
             /\ shared' = Status("Initializing", gen + 1)
             /\ co' = [co EXCEPT !.pc = "handshake"]
             /\ UNCHANGED <<lock, caller, faults>>
    <3>1. co'.pc = "handshake" /\ co'.config = co.config
      BY <2>2 DEF TypeOK, Coordinator
    <3>2. shared'.status # "Ready" /\ shared'.rev = shared.rev
      BY <1>0, <2>2, StatusFacts DEF TypeOK
    <3>3. /\ child'[gen + 1].rev = co.config
          /\ \A g \in Gens : child'[g].up => g = gen + 1
      BY <2>1, <2>2 DEF TypeOK
    <3>4. LockInv'
      BY <2>1, <2>2, <3>1, <3>3 DEF LockInv, Here
    <3> QED
      BY <1>0, <2>1, <2>2, <3>1, <3>2, <3>3, <3>4 DEF CoordInv, WorkInv, RevInv, StatusInv
  <2>3. CASE shared' = Status("Failed", gen + 1) /\ lock' = "free" /\ Reply /\ UNCHANGED child
    <3>1. shared'.status # "Ready" /\ shared'.rev = shared.rev
      BY <1>0, <2>3, StatusFacts DEF TypeOK
    <3> QED
      BY <1>0, <2>1, <2>3, <3>1, ReplyFacts DEF CoordInv, WorkInv, LockInv, RevInv, StatusInv
  <2> QED
    BY <1>2, <2>2, <2>3 DEF Spawn
<1>3. CASE Handshake
  <2>1. /\ co.pc = "handshake" /\ co'.pc = "publish" /\ co'.config = co.config
        /\ current' = gen /\ gen' = gen /\ gen \in Gens /\ UNCHANGED <<shared, child, lock>>
    BY <1>3 DEF Handshake, TypeOK, Coordinator, CoordInv, WorkInv
  <2>2. LockInv'
    BY <2>1 DEF CoordInv, LockInv, Here
  <2>3. gen # 0
    BY <1>0, <2>1 DEF Gens
  <2> QED
    BY <1>0, <2>1, <2>2, <2>3 DEF CoordInv, WorkInv, RevInv, StatusInv
<1>4. CASE Publish
  <2>1. /\ co.pc = "publish" /\ current = gen /\ current # 0
        /\ UNCHANGED <<current, gen, child, lock>>
        /\ co'.pc = "idle" /\ co'.config = co.config
    BY <1>4, ReplyFacts DEF Publish, CoordInv, WorkInv
  <2>2. /\ Status("Ready", gen) \in Shared /\ Status("Ready", gen).status = "Ready"
        /\ Status("Ready", gen).gen = gen /\ Status("Ready", gen).rev = shared.rev
        /\ shared' = [Status("Ready", gen) EXCEPT !.transport = gen]
    BY <1>0, <1>4, StatusFacts DEF Publish, TypeOK
  <2>3. /\ shared'.status = "Ready" /\ shared'.gen = gen /\ shared'.rev = shared.rev
        /\ shared'.transport = gen
    BY <2>2 DEF Shared
  <2>4. LockInv'
    BY <2>1 DEF CoordInv, LockInv, Here
  <2> QED
    BY <1>0, <2>1, <2>3, <2>4 DEF CoordInv, WorkInv, RevInv, StatusInv
<1>5. CASE HandshakeFails
  <2>1. /\ co.pc = "handshake" /\ co'.pc = "stopping" /\ co'.config = co.config
        /\ current' = gen /\ gen' = gen /\ gen \in Gens /\ UNCHANGED lock
    BY <1>5 DEF HandshakeFails, TypeOK, Coordinator, CoordInv, WorkInv
  <2>2. shared'.status # "Ready" /\ shared'.rev = shared.rev
    BY <1>0, <1>5, StatusFacts DEF HandshakeFails, TypeOK
  <2>3. \A g \in Gens : child'[g].rev = child[g].rev /\ child'[g].up = child[g].up
    BY <1>5 DEF HandshakeFails, TypeOK, Child
  <2>4. LockInv'
    BY <2>1, <2>3 DEF CoordInv, LockInv, Here
  <2>5. gen # 0
    BY <1>0, <2>1 DEF Gens
  <2> QED
    BY <1>0, <2>1, <2>2, <2>3, <2>4, <2>5 DEF CoordInv, WorkInv, RevInv, StatusInv
<1> QED
  BY <1>1, <1>2, <1>3, <1>4, <1>5

\* and every end of a stop.
LEMMA StopKeepsCoord ==
    ASSUME TypeOK, CoordInv, StopEnds \/ StopBlocked
    PROVE  CoordInv'
<1>0. /\ co.pc = "stopping" /\ current # 0 /\ current \in Gens /\ current \in Nat
      /\ gen \in Nat /\ gen + 1 \in Nat /\ current <= gen /\ lock = "runtime"
  BY DEF CoordInv, WorkInv, LockInv, TypeOK, Gens, StopEnds, StopBlocked
<1>1. CASE StopEnds
  <2>1. current' = 0 /\ gen' = gen + 1 /\ UNCHANGED child /\ \A g \in Gens : ~child[g].up
    BY <1>0, <1>1 DEF StopEnds, CoordInv, LockInv, Here
  <2>2. /\ co'.pc \in {"acquire", "idle", "gone"} /\ shared'.status # "Ready"
        /\ shared'.rev = co'.config
    <3>1. CASE /\ co.cmd \in {"restart", "reconfigure"}
               /\ BeginStart(co.cmd, co.from, co.rev, gen + 1)
      <4>1. co.from \in Callers \cup {NoCaller} /\ co.rev \in Revs /\ co.cmd \in Starts
        BY <3>1 DEF TypeOK, Coordinator, Starts
      <4> QED
        BY <1>0, <3>1, <4>1, BeginStartFacts DEF CoordInv, RevInv
    <3>2. CASE shared' = Status("Stopped", gen + 1) /\ Reply
      BY <1>0, <3>2, ReplyFacts, StatusFacts DEF TypeOK, CoordInv, RevInv
    <3>3. CASE shared' = Status("Stopped", gen + 1) /\ co' = [co EXCEPT !.pc = "gone"]
      <4>1. co'.pc = "gone" /\ co'.config = co.config
        BY <3>3 DEF TypeOK, Coordinator
      <4> QED
        BY <1>0, <3>3, <4>1, StatusFacts DEF TypeOK, CoordInv, RevInv
    <3>4. CASE shared' = Status("Failed", gen + 1) /\ co' = Finished(co)
      BY <1>0, <3>4, FinishedFacts, StatusFacts DEF TypeOK, CoordInv, RevInv
    <3> QED
      BY <1>1, <3>1, <3>2, <3>3, <3>4 DEF StopEnds
  <2> QED
    BY <1>0, <2>1, <2>2 DEF CoordInv, WorkInv, LockInv, RevInv, StatusInv
<1>2. CASE StopBlocked
  <2>1. UNCHANGED <<current, gen, child>>
    BY <1>2 DEF StopBlocked
  <2>2. /\ Status("Failed", current) \in Shared /\ Status("Failed", current).status = "Failed"
        /\ Status("Failed", current).rev = shared.rev
        /\ shared' = [Status("Failed", current) EXCEPT !.blocked = TRUE]
    BY <1>0, <1>2, StatusFacts DEF StopBlocked, TypeOK
  <2>3. shared'.status = "Failed" /\ shared'.rev = shared.rev /\ shared'.blocked
    BY <2>2 DEF Shared
  <2>4. /\ co'.config = co.config
        /\ \/ co'.pc = "gone" /\ lock' = "worker"
           \/ co'.pc = "idle" /\ lock' = lock
    <3>1. CASE co' = [co EXCEPT !.pc = "gone"] /\ lock' = HandedToWorker
      BY <3>1 DEF TypeOK, Coordinator, HandedToWorker
    <3>2. CASE Reply /\ UNCHANGED lock
      BY <3>2, ReplyFacts
    <3> QED
      BY <1>2, <3>1, <3>2 DEF StopBlocked
  <2>5. LockInv'
    BY <1>0, <2>1, <2>4 DEF CoordInv, LockInv, Here
  <2> QED
    BY <1>0, <2>1, <2>3, <2>4, <2>5 DEF CoordInv, WorkInv, RevInv, StatusInv
<1> QED
  BY <1>1, <1>2

\* Every step keeps the coordinator's invariant.
LEMMA CoordStep ==
    ASSUME TypeOK, CoordInv, [Next]_vars
    PROVE  CoordInv'
<1>1. CASE UNCHANGED vars
  <2>1. Here' = Here
    BY <1>1 DEF vars, Here
  <2> QED
    BY <1>1, <2>1 DEF vars, CoordInv, WorkInv, LockInv, RevInv, StatusInv
<1>2. CASE Coordinate
  BY <1>2, TakeKeepsCoord, StartKeepsCoord, StopKeepsCoord DEF Coordinate
<1> QED
  BY <1>1, <1>2, OthersKeepCoord DEF Next, World

-----------------------------------------------------------------------------
(* The callers and the reports.                                             *)

\* The coordinator only frees callers, or has their leader hand over.
LEMMA CoordinatorAndCallers ==
    ASSUME TypeOK, CoordInv, Coordinate
    PROVE  /\ gen <= gen'
           /\ \A c \in Callers :
                 /\ caller'[c].pc \in {"ring", "pending"} => caller'[c] = caller[c]
                 /\ caller'[c].pc = "lead" => caller'[c] = caller[c]
           /\ \A g \in Gens : g <= gen =>
                 /\ child'[g].rev = child[g].rev
                 /\ child'[g].read = child[g].read /\ child'[g].lost = child[g].lost
                 /\ child'[g].open # child[g].open =>
                       \/ co.pc = "handshake" /\ g = gen
                       \/ \A c \in Callers :
                             ~(caller'[c].pc = "pending" /\ caller'[c].core = g)
           /\ \A g \in Gens : g > gen' => child'[g] = child[g]
           /\ co'.pc = "handshake" => co.pc = "spawn" /\ gen' = gen + 1
           /\ queue' = queue \/ (queue # <<>> /\ queue' = Tail(queue))
<1>0. /\ gen \in Nat /\ gen + 1 \in Nat /\ current <= gen /\ current \in Nat
  BY DEF CoordInv, WorkInv, TypeOK, Gens
<1>1. \A c \in Callers, d \in Callers \cup {NoCaller} :
         Replied(d)[c].pc = "lead" => Replied(d)[c] = caller[c]
  <2>1. ASSUME NEW c \in Callers
        PROVE  [caller[c] EXCEPT !.pc = "fan"].pc = "fan"
    BY DEF TypeOK, Caller
  <2> QED
    BY <2>1, NoCallFacts DEF Replied
<1>2. ASSUME NEW g PROVE \A c \in Callers : Drained(g)[c].pc = "lead" => Drained(g)[c] = caller[c]
  BY NoCallFacts DEF Drained
<1>3. CASE TakeMessage
  <2>1. gen' = gen /\ co.pc = "idle" /\ queue # <<>> /\ queue' = Tail(queue)
    BY <1>3, TakeCases
  <2>2. CASE /\ UNCHANGED child /\ co' = co
             /\ \A d \in Callers : caller'[d].pc \in {"ring", "pending"} =>
                   caller'[d] = caller[d]
    <3>1. \A c \in Callers : caller'[c].pc = "lead" => caller'[c] = caller[c]
      <4>1. caller' = caller \/ \E d \in Callers \cup {NoCaller} : caller' = Replied(d)
                              \/ caller' = Drained(current)
        <5>1. Head(queue).from \in Callers \cup {NoCaller}
          BY <2>1, HeadFacts DEF Message, TypeOK
        <5> QED
          BY <1>3, <5>1 DEF TakeMessage, TakeStart, TakeStop, TakeReport, BeginStop
      <4> QED
        BY <1>1, <1>2, <4>1
    <3> QED
      BY <1>0, <2>1, <2>2, <3>1
  <2>3. CASE UNCHANGED <<child, caller>> /\ co'.pc \in {"acquire", "gone"}
    BY <1>0, <2>1, <2>3
  <2>4. CASE /\ current # 0
             /\ \E cmd \in Stops, from \in Callers \cup {NoCaller}, rev \in Revs,
                   status \in {"Stopping", "Failed"} : BeginStop(cmd, from, rev, status)
    <3>1. /\ co'.pc = "stopping" /\ caller' = Drained(current)
          /\ \A g \in Gens : /\ child'[g].rev = child[g].rev
                             /\ child'[g].read = child[g].read /\ child'[g].lost = child[g].lost
                             /\ g # current => child'[g] = child[g]
      BY <2>4, BeginStopFacts
    <3>2. \A c \in Callers : Drained(current)[c].pc \in {"ring", "pending"} =>
             Drained(current)[c] = caller[c]
             /\ ~(caller[c].pc = "pending" /\ caller[c].core = current)
      BY DrainedFacts DEF TypeOK
    <3> QED
      BY <1>0, <1>2, <2>1, <3>1, <3>2
  <2>5. co' = [co EXCEPT !.pc = "gone"] => co'.pc = "gone"
    BY DEF TypeOK, Coordinator
  <2> QED
    BY <1>3, <2>2, <2>3, <2>4, <2>5, TakeCases
<1>4. CASE Acquire
  <2>1. /\ UNCHANGED <<gen, child, queue>>
        /\ \/ co' = [co EXCEPT !.pc = "spawn"] /\ UNCHANGED caller
           \/ Reply
    BY <1>4 DEF Acquire
  <2>2. co'.pc # "handshake"
    BY <2>1, ReplyFacts DEF TypeOK, Coordinator
  <2>3. co.from \in Callers \cup {NoCaller}
    BY DEF TypeOK, Coordinator
  <2> QED
    BY <1>0, <1>1, <2>1, <2>2, <2>3, ReplyFacts DEF Reply
<1>5. CASE Spawn
  <2>1. co.pc = "spawn" /\ gen' = gen + 1 /\ queue' = queue
    BY <1>5 DEF Spawn
  <2>2. /\ \A g \in Gens : g <= gen \/ g > gen + 1 => child'[g] = child[g]
        /\ UNCHANGED caller \/ Reply
    <3>1. CASE /\ child' = [child EXCEPT ![gen + 1] =
                     [up |-> TRUE, rev |-> co.config, open |-> TRUE, read |-> TRUE, lost |-> FALSE]]
               /\ UNCHANGED caller
      BY <1>0, <3>1 DEF TypeOK, Gens
    <3>2. CASE UNCHANGED child /\ Reply
      BY <3>2
    <3> QED
      BY <1>5, <3>1, <3>2 DEF Spawn
  <2>3. co.from \in Callers \cup {NoCaller}
    BY DEF TypeOK, Coordinator
  <2> QED
    BY <1>0, <1>1, <2>1, <2>2, <2>3, ReplyFacts DEF Reply
<1>6. CASE Handshake
  <2>1. UNCHANGED <<gen, child, caller, queue>> /\ co'.pc = "publish"
    BY <1>6 DEF Handshake, TypeOK, Coordinator
  <2> QED
    BY <1>0, <2>1
<1>7. CASE Publish
  <2>1. UNCHANGED <<gen, child, queue>> /\ Reply /\ co.from \in Callers \cup {NoCaller}
    BY <1>7 DEF Publish, TypeOK, Coordinator
  <2> QED
    BY <1>0, <1>1, <2>1, ReplyFacts DEF Reply
<1>8. CASE HandshakeFails
  <2>1. /\ UNCHANGED <<gen, queue>> /\ co.pc = "handshake" /\ co'.pc = "stopping"
        /\ caller' = Replied(co.from) /\ co.from \in Callers \cup {NoCaller}
    BY <1>8 DEF HandshakeFails, TypeOK, Coordinator
  <2>2. \A g \in Gens : /\ child'[g].rev = child[g].rev
                        /\ child'[g].read = child[g].read /\ child'[g].lost = child[g].lost
                        /\ g # gen => child'[g] = child[g]
    BY <1>8 DEF HandshakeFails, TypeOK, Child
  <2>3. \A c \in Callers :
           /\ caller'[c].pc \in {"ring", "pending"} => caller'[c] = caller[c]
           /\ caller'[c].pc = "lead" => caller'[c] = caller[c]
    BY <1>1, <2>1, RepliedFacts DEF TypeOK
  <2>4. \A g \in Gens : child'[g].open # child[g].open => g = gen
    BY <2>2
  <2>5. gen' = gen /\ queue' = queue
    BY <2>1
  <2>6. \A g \in Gens : g > gen => child'[g] = child[g]
    BY <1>0, <2>2 DEF Gens
  <2> QED
    BY <1>0, <2>1, <2>2, <2>3, <2>4, <2>5, <2>6
<1>9. CASE StopEnds
  <2>1. UNCHANGED <<child, queue>> /\ gen' = gen + 1 /\ (UNCHANGED caller \/ Reply)
    BY <1>9 DEF StopEnds
  <2>2. co'.pc # "handshake"
    BY <1>9, ReplyFacts, FinishedFacts DEF StopEnds, BeginStart, TypeOK, Coordinator
  <2>3. co.from \in Callers \cup {NoCaller}
    BY DEF TypeOK, Coordinator
  <2> QED
    BY <1>0, <1>1, <2>1, <2>2, <2>3, ReplyFacts DEF Reply
<1>10. CASE StopBlocked
  <2>1. UNCHANGED <<gen, child, queue>> /\ (UNCHANGED caller \/ Reply)
    BY <1>10 DEF StopBlocked
  <2>2. co'.pc # "handshake"
    BY <1>10, ReplyFacts DEF StopBlocked, TypeOK, Coordinator
  <2>3. co.from \in Callers \cup {NoCaller}
    BY DEF TypeOK, Coordinator
  <2> QED
    BY <1>0, <1>1, <2>1, <2>2, <2>3, ReplyFacts DEF Reply
<1> QED
  BY <1>3, <1>4, <1>5, <1>6, <1>7, <1>8, <1>9, <1>10 DEF Coordinate

\* Every step keeps the calls on a child of their revision.
LEMMA CallStep ==
    ASSUME Inv, [Next]_vars
    PROVE  CallInv' /\ LeadInv'
<1> USE DEF Inv
<1>1. CASE UNCHANGED vars
  BY <1>1 DEF vars, CallInv, LeadInv
<1>2. CASE Coordinate
  <2>1. gen \in Nat /\ gen' \in Nat
    BY TypeStep DEF TypeOK
  <2>2. LeadInv'
    BY <1>2, CoordinatorAndCallers DEF LeadInv, CoordInv
  <2>3. ASSUME NEW c \in Callers, caller'[c].pc \in {"ring", "pending"}
        PROVE  /\ caller'[c].core \in Gens /\ caller'[c].core <= gen'
               /\ co'.pc = "handshake" => caller'[c].core # gen'
               /\ child'[caller'[c].core].rev = caller'[c].rev
               /\ caller'[c].pc = "pending" => child'[caller'[c].core].open
    <3>1. caller'[c] = caller[c]
      BY <1>2, <2>3, CoordinatorAndCallers DEF CoordInv
    <3>2. caller[c].core \in Gens /\ caller[c].core <= gen /\ caller[c].core \in Nat
      BY <2>3, <3>1 DEF CallInv, Gens
    <3>3. child'[caller[c].core].rev = child[caller[c].core].rev /\ gen <= gen'
      BY <1>2, <3>2, CoordinatorAndCallers DEF CoordInv
    <3>4. co'.pc = "handshake" => gen' = gen + 1
      BY <1>2, CoordinatorAndCallers DEF CoordInv
    <3>5. ASSUME caller[c].pc = "pending"
          PROVE  child'[caller[c].core].open
      <4>1. ~(co.pc = "handshake" /\ caller[c].core = gen) /\ child[caller[c].core].open
        BY <2>3, <3>1, <3>5 DEF CallInv
      <4>2. \/ child'[caller[c].core].open = child[caller[c].core].open
            \/ co.pc = "handshake" /\ caller[c].core = gen
            \/ ~(caller'[c].pc = "pending" /\ caller'[c].core = caller[c].core)
        BY <1>2, <3>2, CoordinatorAndCallers DEF CoordInv
      <4> QED
        BY <3>1, <3>5, <4>1, <4>2
    <3> QED
      BY <2>1, <2>3, <3>1, <3>2, <3>3, <3>4, <3>5 DEF CallInv
  <2> QED
    BY <2>2, <2>3 DEF CallInv
<1>3. ASSUME NEW c \in Callers, Step(c) PROVE CallInv' /\ LeadInv'
  <2>1. UNCHANGED <<shared, co, current, gen, child>>
    BY <1>3, Bystanders
  <2>2. ASSUME NEW d \in Callers
        PROVE  /\ \/ caller'[d].pc \notin {"ring", "pending"}
                  \/ caller'[d] = caller[d]
                  \/ AskCall(c) /\ d = c
                  \/ Ring(c) /\ d = c
               /\ caller'[d].pc = "lead" => caller'[d].ask \in Coalesced
    <3>1. CASE AskWave(c)
      <4>1. PICK a \in Coalesced : caller' = [caller EXCEPT ![c] =
              [NoCall EXCEPT !.pc = IF Leading(a) THEN "wait" ELSE "lead", !.ask = a]]
        BY <3>1 DEF AskWave
      <4> QED
        BY <4>1 DEF TypeOK, NoCall, LeadInv
    <3>2. CASE LeadWave(c)
      BY <3>2 DEF LeadWave, TypeOK, Caller, LeadInv
    <3>3. CASE FanOut(c)
      BY <3>3, NoCallFacts DEF FanOut, TypeOK, LeadInv
    <3>4. CASE AskAlone(c)
      BY <3>4 DEF AskAlone, TypeOK, Caller, LeadInv
    <3>5. CASE TakeLock(c)
      BY <3>5 DEF TakeLock, TypeOK, Caller, LeadInv
    <3>6. CASE HandLockOver(c)
      BY <3>6 DEF HandLockOver, TypeOK, Caller, LeadInv
    <3>7. CASE AskCall(c)
      BY <3>7 DEF AskCall, TypeOK, LeadInv
    <3>8. CASE Ring(c)
      <4>1. CASE caller' = [caller EXCEPT ![c].pc = "pending"]
        BY <3>8, <4>1 DEF TypeOK, Caller, LeadInv
      <4>2. CASE caller' = [caller EXCEPT ![c] = NoCall]
        BY <3>8, <4>2, NoCallFacts DEF TypeOK, LeadInv
      <4> QED
        BY <3>8, <4>1, <4>2 DEF Ring
    <3>9. CASE CallEnds(c)
      BY <3>9, NoCallFacts DEF CallEnds, TypeOK, LeadInv
    <3> QED
      BY <1>3, <3>1, <3>2, <3>3, <3>4, <3>5, <3>6, <3>7, <3>8, <3>9 DEF Step
  <2>3. CASE AskCall(c)
    <3>1. /\ caller'[c] = [pc |-> "ring", ask |-> "call", rev |-> shared.rev,
                           core |-> shared.transport]
          /\ shared.status = "Ready" /\ shared.transport # 0
      BY <2>3 DEF AskCall, TypeOK
    <3>2. /\ co.pc = "idle" /\ shared.transport = current /\ current \in Gens /\ current <= gen
          /\ child[current].rev = shared.rev
      BY <3>1 DEF StatusInv, RevInv, WorkInv, TypeOK
    <3> QED
      BY <2>1, <2>2, <2>3, <3>1, <3>2 DEF CallInv, LeadInv, AskCall, Ring
  <2>4. CASE Ring(c)
    <3>1. \/ /\ caller[c].pc = "ring" /\ child[caller[c].core].open
             /\ caller'[c] = [caller[c] EXCEPT !.pc = "pending"]
          \/ caller'[c].pc = "idle"
      BY <2>4, NoCallFacts DEF Ring, TypeOK
    <3>2. [caller[c] EXCEPT !.pc = "pending"].core = caller[c].core
          /\ [caller[c] EXCEPT !.pc = "pending"].rev = caller[c].rev
      BY DEF TypeOK, Caller
    <3>3. ~AskCall(c)
      BY <2>4 DEF AskCall, Asks, Ring
    <3>4. \A d \in Callers : d # c /\ caller'[d].pc \in {"ring", "pending"} =>
             caller'[d] = caller[d]
      BY <2>2, <3>3
    <3>5. caller'[c].pc \in {"ring", "pending"} =>
             /\ caller[c].pc = "ring" /\ child[caller[c].core].open
             /\ caller'[c].core = caller[c].core /\ caller'[c].rev = caller[c].rev
      BY <3>1, <3>2
    <3> QED
      BY <2>1, <2>2, <3>4, <3>5 DEF CallInv, LeadInv
  <2> QED
    BY <2>1, <2>2, <2>3, <2>4 DEF CallInv, LeadInv
<1>4. CASE World
  <2>1. UNCHANGED <<shared, co, current, gen>>
    BY <1>4, Bystanders
  <2>2. CASE WorkerReleases \/ Shutdown \/ OtherProcess
    BY <2>1, <2>2 DEF WorkerReleases, Shutdown, OtherProcess, CallInv, LeadInv
  <2>3. ASSUME NEW g \in Gens, ChildExits(g) \/ EventsOverflow(g) PROVE CallInv' /\ LeadInv'
    <3>1. UNCHANGED caller /\ \A h \in Gens : child'[h].rev = child[h].rev
                                              /\ child'[h].open = child[h].open
      <4>1. /\ UNCHANGED caller
            /\ \/ child' = [child EXCEPT ![g].up = FALSE]
               \/ child' = [child EXCEPT ![g].lost = TRUE]
        BY <2>3 DEF ChildExits, EventsOverflow
      <4> QED
        BY <4>1 DEF TypeOK, Child
    <3> QED
      BY <2>1, <3>1 DEF CallInv, LeadInv
  <2>4. ASSUME NEW g \in Gens, ReaderEnds(g) PROVE CallInv' /\ LeadInv'
    <3>1. /\ caller' = Drained(g)
          /\ \A h \in Gens : child'[h].rev = child[h].rev
                             /\ (h # g => child'[h].open = child[h].open)
      BY <2>4 DEF ReaderEnds, TypeOK, Child
    <3>2. \A d \in Callers : Drained(g)[d].pc \in {"ring", "pending"} =>
             /\ Drained(g)[d] = caller[d]
             /\ ~(caller[d].pc = "pending" /\ caller[d].core = g)
      BY DrainedFacts DEF TypeOK
    <3>3. LeadInv'
      BY <3>1, NoCallFacts DEF LeadInv, Drained
    <3> QED
      BY <2>1, <3>1, <3>2, <3>3 DEF CallInv
  <2> QED
    BY <1>4, <2>2, <2>3, <2>4 DEF World
<1> QED
  BY <1>1, <1>2, <1>3, <1>4 DEF Next, World

\* Every step keeps the reports true.
LEMMA ReportStep ==
    ASSUME Inv, [Next]_vars
    PROVE  ReportInv'
<1> USE DEF Inv
<1>0. /\ gen \in Nat /\ gen' \in Nat
      /\ \A i \in 1 .. Len(queue) : Told(queue[i])
      /\ \A g \in Gens : g > gen => child[g] = NoChild
  BY TypeStep DEF TypeOK, ReportInv
<1>1. CASE UNCHANGED vars
  BY <1>1 DEF vars, ReportInv, Told
<1>2. CASE Coordinate
  <2>1. /\ gen <= gen'
        /\ \A g \in Gens : g <= gen => child'[g].read = child[g].read
                                       /\ child'[g].lost = child[g].lost
        /\ \A g \in Gens : g > gen' => child'[g] = child[g]
        /\ queue' = queue \/ (queue # <<>> /\ queue' = Tail(queue))
    BY <1>2, CoordinatorAndCallers DEF CoordInv
  <2>2. ASSUME NEW i \in 1 .. Len(queue'), NEW j \in 1 .. Len(queue), queue'[i] = queue[j]
        PROVE  Told(queue[i])'
    <3>1. Told(queue[j])
      BY <1>0
    <3> QED
      BY <1>0, <2>1, <2>2, <3>1 DEF Told, Gens
  <2>3. \A i \in 1 .. Len(queue') : \E j \in 1 .. Len(queue) : queue'[i] = queue[j]
    BY <2>1, HeadFacts DEF TypeOK
  <2>4. \A i \in 1 .. Len(queue') : Told(queue[i])'
    BY <2>2, <2>3
  <2>5. \A g \in Gens : g > gen' => child'[g] = NoChild
    BY <1>0, <2>1 DEF Gens
  <2> QED
    BY <2>4, <2>5 DEF ReportInv
<1>a. 0 \in Revs /\ NoCaller \in Callers \cup {NoCaller} /\ 0 \in {0} \cup Gens
      /\ Commands \cap Reports = {}
  BY RuntimeAssumption DEF Revs, Commands, Coalesced, Reports
<1>3. ASSUME NEW c \in Callers, Step(c) PROVE ReportInv'
  <2>1. UNCHANGED <<gen, child>>
    BY <1>3, Bystanders
  <2>2. \/ queue' = queue
        \/ \E k \in Commands, r \in Revs : Enqueue(k, c, r, 0)
    BY <1>3, <1>a DEF Step, AskWave, LeadWave, FanOut, AskAlone, TakeLock, HandLockOver, AskCall,
       Ring, CallEnds, LeadInv, Commands
  <2>3. CASE queue' = queue
    BY <1>0, <2>1, <2>3 DEF ReportInv, Told
  <2>4. ASSUME NEW k \in Commands, NEW r \in Revs, Enqueue(k, c, r, 0) PROVE ReportInv'
    <3>1. \A i \in 1 .. Len(queue') :
             \/ i \in 1 .. Len(queue) /\ queue'[i] = queue[i]
             \/ queue'[i].kind \notin Reports
      BY <1>a, <2>4, EnqueueFacts DEF TypeOK
    <3> QED
      BY <1>0, <2>1, <3>1 DEF ReportInv, Told
  <2> QED
    BY <2>2, <2>3, <2>4
<1>4. CASE World
  <2>1. gen' = gen
    BY <1>4, Bystanders
  <2>2. CASE WorkerReleases \/ OtherProcess
    BY <1>0, <2>1, <2>2 DEF WorkerReleases, OtherProcess, ReportInv, Told
  <2>3. CASE Shutdown
    <3>1. \A i \in 1 .. Len(queue') :
             \/ i \in 1 .. Len(queue) /\ queue'[i] = queue[i]
             \/ queue'[i].kind = "shutdown"
      BY <1>a, <2>3, EnqueueFacts DEF Shutdown, TypeOK
    <3> QED
      BY <1>0, <2>1, <2>3, <3>1 DEF Shutdown, ReportInv, Told, Reports
  <2>4. ASSUME NEW g \in Gens, ChildExits(g) PROVE ReportInv'
    <3>1. queue' = queue /\ g <= gen
          /\ \A h \in Gens : /\ child'[h].read = child[h].read
                             /\ child'[h].lost = child[h].lost
                             /\ h # g => child'[h] = child[h]
      BY <1>0, <2>4 DEF ChildExits, TypeOK, Child, NoChild, Gens
    <3> QED
      BY <1>0, <2>1, <3>1 DEF ReportInv, Told, Gens
  <2>5. ASSUME NEW g \in Gens, ReaderEnds(g) PROVE ReportInv'
    <3>1. g <= gen /\ \A h \in Gens : /\ child'[h].read => child[h].read
                                      /\ child'[h].lost = child[h].lost
                                      /\ h # g => child'[h] = child[h]
      BY <1>0, <2>5 DEF ReaderEnds, TypeOK, Child, NoChild, Gens
    <3>2. ~child'[g].read
      BY <2>5 DEF ReaderEnds, TypeOK, Child
    <3>3. \A i \in 1 .. Len(queue') :
             \/ i \in 1 .. Len(queue) /\ queue'[i] = queue[i]
             \/ queue'[i].kind = "ended" /\ queue'[i].gen = g
      <4>1. CASE queue' = queue
        BY <4>1
      <4>2. CASE Enqueue("ended", NoCaller, 0, g)
        BY <1>a, <4>2, EnqueueFacts DEF TypeOK, Reports
      <4> QED
        BY <2>5, <4>1, <4>2 DEF ReaderEnds, Tell
    <3> QED
      BY <1>0, <2>1, <3>1, <3>2, <3>3 DEF ReportInv, Told, Gens
  <2>6. ASSUME NEW g \in Gens, EventsOverflow(g) PROVE ReportInv'
    <3>1. g <= gen /\ \A h \in Gens : /\ child'[h].read = child[h].read
                                      /\ child[h].lost => child'[h].lost
                                      /\ h # g => child'[h] = child[h]
      BY <1>0, <2>6 DEF EventsOverflow, TypeOK, Child, NoChild, Gens
    <3>2. child'[g].lost
      BY <2>6 DEF EventsOverflow, TypeOK, Child
    <3>3. \A i \in 1 .. Len(queue') :
             \/ i \in 1 .. Len(queue) /\ queue'[i] = queue[i]
             \/ queue'[i].kind = "overflow" /\ queue'[i].gen = g
      BY <1>a, <2>6, EnqueueFacts DEF EventsOverflow, TypeOK, Reports
    <3> QED
      BY <1>0, <2>1, <3>1, <3>2, <3>3 DEF ReportInv, Told, Gens
  <2> QED
    BY <1>4, <2>2, <2>3, <2>4, <2>5, <2>6 DEF World
<1> QED
  BY <1>1, <1>2, <1>3, <1>4 DEF Next, World

-----------------------------------------------------------------------------
(* The theorems.                                                            *)

\* Nothing runs and nothing waits at the start.
LEMMA Initially == Init => Inv
<1> SUFFICES ASSUME Init PROVE Inv
  OBVIOUS
<1>1. 0 \in Revs /\ 0 \in Nat /\ "stop" \in Commands
  BY RuntimeAssumption DEF Revs, Commands
<1>2. NoChild \in Child /\ ~NoChild.up
  BY <1>1 DEF NoChild, Child
<1>3. TypeOK
  <2>1. shared \in Shared /\ co \in Coordinator /\ child \in [Gens -> Child]
    BY <1>1, <1>2 DEF Init, Shared, Coordinator
  <2>2. queue \in Seq(Message) /\ caller \in [Callers -> Caller]
    BY NoCallFacts DEF Init
  <2> QED
    BY <2>1, <2>2, RuntimeAssumption DEF Init, TypeOK
<1>4. WorkInv /\ RevInv /\ StatusInv
  BY DEF Init, WorkInv, RevInv, StatusInv
<1>5. LockInv
  BY <1>2 DEF Init, LockInv
<1>6. CallInv /\ LeadInv
  BY NoCallFacts DEF Init, CallInv, LeadInv
<1>7. ReportInv
  BY DEF Init, ReportInv
<1> QED
  BY <1>3, <1>4, <1>5, <1>6, <1>7 DEF Inv

\* The invariant holds in every state.
LEMMA Invariance == Spec => []Inv
<1>1. Inv /\ [Next]_vars => Inv'
  BY TypeStep, CoordStep, CallStep, ReportStep DEF Inv, CoordInv
<1> QED
  BY Initially, <1>1, PTL DEF Spec

\* A child of do_start runs only under the owner lock, held by the
\* coordinator or by the worker stop_active leaves behind, and alone.
THEOREM LockOutlives == Spec => []LockOutlivesChild
<1>1. Inv => LockOutlivesChild
  BY DEF Inv, LockInv, LockOutlivesChild
<1> QED
  BY <1>1, Invariance, PTL

\* set_ready is true of the child: its revision, its lock, its transport; a
\* call of RpcCore that is pending has a core that is open.
THEOREM ReadyServes == Spec => []ReadyServesItsRevision
<1>1. Inv => ReadyServesItsRevision
  BY DEF Inv, StatusInv, RevInv, LockInv, CallInv, ReadyServesItsRevision
<1> QED
  BY <1>1, Invariance, PTL

\* handle_lifecycle gives up a ready child for a command, or for a report that
\* is true of this child.
THEOREM ReadyForCause == Spec => ReadyLostForCause
<1> DEFINE Cause == \/ co'.cmd \in Commands \cup {"shutdown"}
                    \/ co'.cmd = "ended" /\ ~child[current].read
                    \/ co'.cmd = "overflow" /\ child[current].lost
<1>1. ASSUME Inv, [Next]_vars, shared.status = "Ready", shared'.status # "Ready"
      PROVE  Cause
  <2>1. TypeOK /\ co.pc = "idle" /\ current # 0
    BY <1>1 DEF Inv, StatusInv
  <2>2. TakeMessage
    <3>1. Coordinate
      BY <1>1, Bystanders DEF Next, World, vars
    <3> QED
      BY <1>1, <2>1, <3>1 DEF Coordinate, Acquire, Spawn, Handshake, Publish, HandshakeFails,
         StopEnds, StopBlocked
  <2>3. PICK cmd \in Stops, from \in Callers \cup {NoCaller}, rev \in Revs,
             status \in {"Stopping", "Failed"} :
           /\ BeginStop(cmd, from, rev, status)
           /\ cmd \in Reports => Concerns(Head(queue)) /\ Head(queue).kind = cmd
    BY <1>1, <2>1, <2>2, TakeCases
  <2>4. co'.cmd = cmd
    BY <2>1, <2>3, BeginStopFacts
  <2>5. CASE cmd \in Reports
    <3>1. Head(queue).gen = current /\ Head(queue).kind = cmd
      BY <2>3, <2>5 DEF Concerns
    <3>2. Told(Head(queue))
      BY <1>1, <2>1, <2>2, TakeCases, HeadFacts DEF Inv, ReportInv, TypeOK
    <3> QED
      BY <2>4, <2>5, <3>1, <3>2 DEF Told, Reports
  <2>6. CASE cmd \notin Reports
    BY <2>4, <2>6 DEF Stops, Commands, Coalesced
  <2> QED
    BY <2>5, <2>6
<1>2. Inv /\ [Next]_vars =>
      [shared.status = "Ready" /\ shared'.status # "Ready" => Cause]_vars
  BY <1>1
<1> QED
  BY <1>2, Invariance, PTL DEF Spec, ReadyLostForCause

=============================================================================
