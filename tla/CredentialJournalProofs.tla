---------------------- MODULE CredentialJournalProofs ----------------------
(* Proofs about CredentialJournal, for any number of processes, references, *)
(* faults and deaths.                                                       *)
EXTENDS CredentialJournal, TLAPS

-----------------------------------------------------------------------------
(* The inductive invariant.                                                 *)

\* The exclusive settings lock: who writes or recovers is alone, beside no turn.
LockInv ==
    \A p, q \in Procs :
        pc[p] \in Exclusive /\ pc[q] \in Exclusive \cup {"turn"} => p = q

\* A running child holds the owner lock, and so does who writes or recovers.
OwnerInv ==
    \A p \in Procs : rt[p].up \/ pc[p] \in Exclusive => owner = p

\* No two settings share a revision, and a generation has one reference: what
\* a process remembers is older, or is what the file says.
Older(s) == s.rev <= settings.rev /\ (s.rev = settings.rev => s = settings)
SameKey(r) == r.gen <= settings.gen /\ (r.gen = settings.gen => r.ref = settings.ref)

\* The snapshots, the pages and the runtimes are no newer than the settings,
\* and no page is newer than its snapshot.
MemoryInv ==
    /\ settings.gen <= settings.rev
    /\ Older(Default) /\ SameKey(Default)
    /\ \A p \in Procs :
          /\ Older(view[p].cached) /\ Older(seen[p])
          /\ SameKey(view[p].cached) /\ SameKey(rt[p])
          /\ seen[p].rev <= view[p].cached.rev

\* An operation's two sides differ, and a deletion leaves no reference.
WellFormed(op) ==
    /\ op.new # op.old
    /\ IF op.kind = "update" THEN op.new # NoCred ELSE op.new = NoCred

\* The settings are on one side of an operation.
OneSide(s, op) ==
    IF op.kind = "update" THEN s.ref \in {op.new, op.old} ELSE s.ref \in {op.old, NoCred}

\* Settings, journal and keys that fit together, whatever is under way.
Sound(s, o, k) ==
    /\ \A op, other \in o : op = other
    /\ \A op \in o : WellFormed(op) /\ OneSide(s, op)
    /\ s.ref \in k \cup {NoCred}
    /\ \A c \in k : c = s.ref \/ \E op \in o : c \in {op.new, op.old}

KeyInv == Sound(settings, ops, secrets)

\* What a credential operation has done so far.
Progress(p) ==
    LET op == job[p].op IN
    /\ ops = {op}
    /\ pc[p] \in {"set", "swap"} => settings.rev < MaxRev
    /\ pc[p] \in {"set", "swap"} => settings.rev = seen[p].rev /\ settings = view[p].cached
    /\ pc[p] \in {"set", "swap", "undo"} => settings.ref = op.old
    /\ pc[p] \in {"mark", "clean", "complete"} => settings.ref = op.new
    /\ pc[p] = "set" => op.new \in drawn
    /\ pc[p] = "swap" => op.new \in secrets \cup {NoCred}
    /\ pc[p] = "complete" => secrets \subseteq {settings.ref}

\* How far a recovery is.
Recovery(p) ==
    LET j == job[p] IN
    /\ j.todo \subseteq ops
    /\ pc[p] = "recover" /\ j.todo # {} => j.cur = settings
    /\ pc[p] # "recover" => ops = {j.op}
    /\ pc[p] = "recoverSwap" => j.cur = settings /\ Judge(j.op, j.cur.ref) = "swap"
    /\ pc[p] = "recoverDelete" =>
          settings.ref = IF Judge(j.op, j.cur.ref) = "deleteNew" THEN j.op.old ELSE j.op.new
    /\ pc[p] = "recoverComplete" => secrets \subseteq {settings.ref}

Phase(p) ==
    /\ pc[p] \in Writing => Progress(p)
    /\ pc[p] \in Recovering => Recovery(p)

PhaseInv == \A p \in Procs : Phase(p)

\* A turn's child has the settings that are in the file.
TurnInv == \A p \in Procs : pc[p] = "turn" => settings.gen = rt[p].gen

Inv == TypeOK /\ LockInv /\ OwnerInv /\ MemoryInv /\ KeyInv /\ PhaseInv /\ TurnInv

-----------------------------------------------------------------------------
(* Types.                                                                   *)

\* What the end of a command leaves of the process that gave it.
WorkerTypes ==
    /\ owner \in Procs \cup {NoProc}
    /\ pc \in [Procs -> Pcs]
    /\ job \in [Procs -> Job]
    /\ view \in [Procs -> View]
    /\ rt \in [Procs -> Runtime]

\* The constants of the module are values of their types.
LEMMA Values ==
    /\ Default \in Settings /\ NoOperation \in Operation
    /\ NoJob \in Job /\ NoRuntime \in Runtime /\ FreshView \in View
    /\ "idle" \in Pcs /\ "reacquire" \in Pcs
    /\ Writing \subseteq Pcs /\ Recovering \subseteq Pcs
<1>1. 0 \in 0 .. MaxRev
  BY CredentialAssumption
<1>2. Default \in Settings /\ NoOperation \in Operation
  BY <1>1 DEF Default, Settings, NoOperation, Operation, Ref
<1>3. NoJob \in Job /\ NoRuntime \in Runtime /\ FreshView \in View
  BY <1>1, <1>2 DEF NoJob, Job, NoRuntime, Runtime, FreshView, View, Ownerships, Ref
<1> QED
  BY <1>2, <1>3 DEF Pcs, Exclusive

\* The snapshots a command may end with are snapshots.
LEMMA ViewTypes ==
  ASSUME TypeOK, NEW p \in Procs, NEW s \in Settings
  PROVE  /\ NotCommitted(p) \in View
         /\ CleanupPending(p, s) \in View
         /\ [view[p] EXCEPT !.cached = s, !.recovery = FALSE, !.doubt = FALSE] \in View
         /\ [view[p] EXCEPT !.cached = s, !.recovery = TRUE, !.doubt = TRUE] \in View
         /\ [NotCommitted(p) EXCEPT !.cached = s] \in View
         /\ \A o \in Ownerships : [view[p] EXCEPT !.ownership = o] \in View
         /\ view[p].cached \in Settings
<1>1. view[p] \in View
  BY DEF TypeOK
<1> QED
  BY <1>1 DEF View, NotCommitted, CleanupPending

\* The end of a command keeps the types of its process.
LEMMA FinishTypes ==
  ASSUME TypeOK, NEW p \in Procs, NEW v \in View, Finish(p, v)
  PROVE  WorkerTypes'
  BY Values DEF Finish, TypeOK, WorkerTypes

\* So does an end that stops the runtime.
LEMMA FinishStoppedTypes ==
  ASSUME TypeOK, NEW p \in Procs, NEW v \in View, FinishStopped(p, v)
  PROVE  WorkerTypes'
<1>1. CASE rt[p].up
  <2>1. [rt[p] EXCEPT !.up = FALSE] \in Runtime
    BY DEF TypeOK, Runtime
  <2>2. rt' \in [Procs -> Runtime]
    BY <1>1, <2>1 DEF FinishStopped, TypeOK
  <2> QED
    BY <1>1, <2>2, Values DEF FinishStopped, TypeOK, WorkerTypes
<1>2. CASE ~rt[p].up
  BY <1>2, FinishTypes DEF FinishStopped
<1> QED
  BY <1>1, <1>2

\* A count of faults stays within its bound.
LEMMA FaultTypes ==
  ASSUME TypeOK, NEW o, Outcome(o)
  PROVE  faults' \in 0 .. MaxFaults
  BY CredentialAssumption DEF TypeOK, Outcome

\* And so does the end of a save, which speaks to the runtime.
LEMMA FinishPersistedTypes ==
  ASSUME TypeOK, NEW p \in Procs, NEW s \in Settings, FinishPersisted(p, s)
  PROVE  WorkerTypes' /\ faults' \in 0 .. MaxFaults
<1> DEFINE v == [view[p] EXCEPT !.cached = s, !.recovery = FALSE, !.doubt = FALSE]
<1>1. v \in View
  BY ViewTypes
<1>2. CASE Finish(p, v) /\ UNCHANGED faults
  BY <1>1, <1>2, FinishTypes DEF TypeOK
<1>3. CASE FinishStopped(p, v) /\ UNCHANGED faults
  BY <1>1, <1>3, FinishStoppedTypes DEF TypeOK
<1>4. ASSUME /\ view' = [view EXCEPT ![p] = v]
             /\ pc' = [pc EXCEPT ![p] = "idle"]
             /\ job' = [job EXCEPT ![p] = NoJob],
             NEW o \in {"ok", "failed"},
             Outcome(o),
             rt' = [rt EXCEPT ![p] = [up |-> o = "ok", made |-> TRUE,
                                      gen |-> s.gen, ref |-> s.ref]],
             owner' = IF o = "ok" THEN owner ELSE NoProc
      PROVE  WorkerTypes' /\ faults' \in 0 .. MaxFaults
  <2>1. [up |-> o = "ok", made |-> TRUE, gen |-> s.gen, ref |-> s.ref] \in Runtime
    BY DEF Settings, Runtime
  <2>2. rt' \in [Procs -> Runtime] /\ owner' \in Procs \cup {NoProc}
    BY <1>4, <2>1 DEF TypeOK
  <2>3. view' \in [Procs -> View] /\ pc' \in [Procs -> Pcs] /\ job' \in [Procs -> Job]
    BY <1>1, <1>4, Values DEF TypeOK
  <2> QED
    BY <1>4, <2>2, <2>3, FaultTypes DEF WorkerTypes
<1> HIDE DEF v
<1> QED
  BY <1>2, <1>3, <1>4 DEF FinishPersisted, v

\* Replacing one of the two files keeps their types.
LEMMA ReplaceTypes ==
  ASSUME TypeOK, NEW o, NEW s \in Settings, NEW n, n \subseteq Operation, Replace(o, s, n)
  PROVE  settings' \in Settings /\ ops' \subseteq Operation /\ faults' \in 0 .. MaxFaults
  BY FaultTypes DEF Replace, TypeOK

\* The next revision of the settings, where the bound leaves room for one.
LEMMA NextRevision ==
  ASSUME MaxRev \in Nat, NEW s \in Settings, s.rev < MaxRev, s.gen <= s.rev
  PROVE  /\ \A r \in Ref : [rev |-> s.rev + 1, gen |-> s.gen + 1, ref |-> r] \in Settings
         /\ \A a \in {0, 1} : [s EXCEPT !.rev = @ + 1, !.gen = @ + a] \in Settings
         /\ s.rev \in Nat /\ s.gen \in Nat /\ s.ref \in Ref
<1>1. s.rev \in 0 .. MaxRev /\ s.gen \in 0 .. MaxRev /\ s.ref \in Ref
  BY DEF Settings
<1>2. s.rev + 1 \in 0 .. MaxRev /\ s.gen + 1 \in 0 .. MaxRev
  BY <1>1
<1>3. ASSUME NEW a \in {0, 1} PROVE [s EXCEPT !.rev = @ + 1, !.gen = @ + a] \in Settings
  <2>1. s.gen + a \in 0 .. MaxRev
    BY <1>1
  <2> QED
    BY <1>2, <2>1 DEF Settings
<1> QED
  BY <1>1, <1>2, <1>3 DEF Settings

\* The runtime a turn asks for keeps its types.
LEMMA EnsureTypes ==
  ASSUME TypeOK, NEW p \in Procs, EnsureRuntime(p)
  PROVE  rt' \in [Procs -> Runtime] /\ owner' \in Procs \cup {NoProc} /\ faults' \in 0 .. MaxFaults
<1> DEFINE c == view[p].cached
           with == IF Fits(p) THEN rt[p]
                   ELSE [rt[p] EXCEPT !.made = TRUE, !.gen = c.gen, !.ref = c.ref]
<1>1. c \in Settings
  BY DEF TypeOK, View
<1>2. rt[p] \in Runtime
  BY DEF TypeOK
<1>3. with \in Runtime
  BY <1>1, <1>2 DEF Runtime, Settings
<1> HIDE DEF with
<1>4. \A b \in BOOLEAN : [with EXCEPT !.up = b] \in Runtime
  BY <1>3 DEF Runtime
<1>5. UNCHANGED rt \/ \E b \in BOOLEAN : rt' = [rt EXCEPT ![p] = [with EXCEPT !.up = b]]
  BY DEF EnsureRuntime, with
<1>6. rt' \in [Procs -> Runtime]
  BY <1>4, <1>5 DEF TypeOK
<1>7. owner' \in Procs \cup {NoProc} /\ faults' \in 0 .. MaxFaults
  BY FaultTypes DEF EnsureRuntime, TypeOK
<1> QED
  BY <1>6, <1>7

\* Every step of a process keeps the types.
LEMMA TypeStep ==
  ASSUME Inv, NEW p \in Procs, Step(p)
  PROVE  TypeOK'
<1> SUFFICES /\ WorkerTypes'
             /\ settings' \in Settings /\ ops' \subseteq Operation
             /\ secrets' \subseteq drawn' /\ drawn' \subseteq Creds
             /\ seen' \in [Procs -> Settings]
             /\ faults' \in 0 .. MaxFaults /\ crashes' \in 0 .. MaxCrashes
  BY DEF WorkerTypes, TypeOK
<1> USE Values
<1>t. TypeOK /\ WorkerTypes /\ MemoryInv
  BY DEF Inv, TypeOK, WorkerTypes
<1>s. settings \in Settings /\ settings.gen <= settings.rev /\ settings.ref \in Ref
  BY <1>t DEF TypeOK, MemoryInv, Settings
<1>m. MaxRev \in Nat
  BY CredentialAssumption
<1>j. job[p] \in Job /\ job[p].op \in Operation /\ job[p].todo \subseteq Operation
  BY <1>t DEF TypeOK, Job
<1>l. ASSUME NEW op \in Operation, LeaveOperation(p, op)
      PROVE  job' \in [Procs -> Job] /\ pc' \in [Procs -> Pcs]
  <2>1. [job[p] EXCEPT !.todo = job[p].todo \ {op}, !.left = TRUE] \in Job
    BY <1>j DEF Job
  <2>2. job' = [job EXCEPT ![p] = [job[p] EXCEPT !.todo = job[p].todo \ {op}, !.left = TRUE]]
    BY <1>l, <1>t DEF LeaveOperation, TypeOK
  <2> QED
    BY <1>l, <1>t, <2>1, <2>2 DEF LeaveOperation, TypeOK, Recovering
<1>1. CASE Open(p)
  <2>1. \A o \in Ownerships : [view[p] EXCEPT !.ownership = o] \in View
    BY <1>t, ViewTypes, Values
  <2>2. view' \in [Procs -> View]
    <3>1. \/ UNCHANGED view
          \/ \E o \in Ownerships : view' = [view EXCEPT ![p] = [view[p] EXCEPT !.ownership = o]]
      BY <1>1, <1>t DEF Open, Ownerships, TypeOK
    <3> QED
      BY <1>t, <2>1, <3>1 DEF TypeOK
  <2>3. job' \in [Procs -> Job]
    <3>1. [NoJob EXCEPT !.todo = ops, !.cur = settings] \in Job
      BY <1>t, Values DEF TypeOK, Job
    <3> QED
      BY <1>1, <1>t, <3>1 DEF Open, TypeOK
  <2> QED
    BY <1>1, <1>t, <2>2, <2>3 DEF Open, TypeOK, WorkerTypes, files, Recovering
<1>2. CASE RecoverNext(p)
  <2>1. PICK op \in job[p].todo :
          LET verdict == Judge(op, job[p].cur.ref) IN
          IF verdict = "diagnose" THEN LeaveOperation(p, op)
          ELSE /\ pc' = [pc EXCEPT ![p] = IF verdict = "swap" THEN "recoverSwap"
                                          ELSE "recoverDelete"]
               /\ job' = [job EXCEPT ![p].op = op]
    BY <1>2 DEF RecoverNext
  <2>2. op \in Operation
    BY <1>j, <2>1
  <2>3. [job[p] EXCEPT !.op = op] \in Job
    BY <1>j, <2>2 DEF Job
  <2>4. job' = [job EXCEPT ![p].op = op] => job' \in [Procs -> Job]
    BY <1>t, <2>3 DEF TypeOK
  <2>5. job' \in [Procs -> Job] /\ pc' \in [Procs -> Pcs]
    BY <1>l, <1>t, <2>1, <2>2, <2>4 DEF TypeOK, Recovering
  <2> QED
    BY <1>2, <1>t, <2>5 DEF RecoverNext, TypeOK, WorkerTypes, files
<1>3. CASE RecoverSwap(p)
  <2>1. PICK o \in Replaced :
          /\ Replace(o, [rev |-> job[p].cur.rev + 1, gen |-> job[p].cur.gen + 1,
                         ref |-> NoCred], ops)
          /\ CASE o = "ok" ->
                     /\ pc' = [pc EXCEPT ![p] = "recoverDelete"]
                     /\ UNCHANGED <<job, view, rt, owner>>
               [] o = "unsynced" ->
                     LeaveOperation(p, job[p].op) /\ UNCHANGED <<view, rt, owner>>
               [] o = "failed" -> RecoveryFailed(p)
    BY <1>3 DEF RecoverSwap
  <2>2. job[p].cur = settings /\ settings.rev < MaxRev
    BY <1>3 DEF RecoverSwap, Inv, PhaseInv, Phase, Recovery, Recovering
  <2>3. [rev |-> job[p].cur.rev + 1, gen |-> job[p].cur.gen + 1, ref |-> NoCred] \in Settings
    BY <1>m, <1>s, <2>2, NextRevision DEF Ref
  <2>4. settings' \in Settings /\ ops' \subseteq Operation /\ faults' \in 0 .. MaxFaults
    BY <1>t, <2>1, <2>3, ReplaceTypes DEF TypeOK
  <2>5. WorkerTypes'
    <3>1. CASE o = "ok"
      BY <1>t, <2>1, <3>1 DEF TypeOK, WorkerTypes, Recovering
    <3>2. CASE o = "unsynced"
      BY <1>t, <1>l, <1>j, <2>1, <3>2 DEF TypeOK, WorkerTypes
    <3>3. CASE o = "failed"
      BY <1>t, <1>s, <2>1, <3>3, FinishTypes, ViewTypes DEF RecoveryFailed, Ownerships
    <3> QED
      BY <2>1, <3>1, <3>2, <3>3 DEF Replaced
  <2> QED
    BY <1>3, <1>t, <2>4, <2>5 DEF RecoverSwap, TypeOK
<1>4. CASE RecoverDelete(p)
  <2>1. faults' \in 0 .. MaxFaults /\ secrets' \subseteq secrets
    BY <1>4, <1>t, FaultTypes DEF RecoverDelete, DeleteKey, TypeOK
  <2>2. WorkerTypes'
    <3>1. CASE pc' = [pc EXCEPT ![p] = "recoverComplete"] /\ UNCHANGED job
      BY <1>4, <1>t, <3>1 DEF RecoverDelete, TypeOK, WorkerTypes, Recovering
    <3>2. CASE LeaveOperation(p, job[p].op)
      BY <1>4, <1>t, <1>l, <1>j, <3>2 DEF RecoverDelete, TypeOK, WorkerTypes
    <3> QED
      BY <1>4, <3>1, <3>2 DEF RecoverDelete
  <2> QED
    BY <1>4, <1>t, <2>1, <2>2 DEF RecoverDelete, TypeOK
<1>5. CASE RecoverComplete(p)
  <2>1. PICK o \in Replaced :
          /\ Replace(o, settings, Without(job[p].op))
          /\ IF o = "ok"
             THEN /\ job' = [job EXCEPT ![p].todo = @ \ {job[p].op}]
                  /\ pc' = [pc EXCEPT ![p] = "recover"]
                  /\ UNCHANGED <<view, rt, owner>>
             ELSE RecoveryFailed(p)
    BY <1>5 DEF RecoverComplete
  <2>2. settings' \in Settings /\ ops' \subseteq Operation /\ faults' \in 0 .. MaxFaults
    BY <1>t, <2>1, ReplaceTypes DEF TypeOK, Without
  <2>3. [job[p] EXCEPT !.todo = @ \ {job[p].op}] \in Job
    BY <1>j DEF Job
  <2>4. WorkerTypes'
    <3>1. CASE o = "ok"
      <4>1. job' = [job EXCEPT ![p] = [job[p] EXCEPT !.todo = @ \ {job[p].op}]]
        BY <1>t, <2>1, <3>1 DEF TypeOK
      <4> QED
        BY <1>t, <2>1, <2>3, <3>1, <4>1 DEF TypeOK, WorkerTypes, Recovering
    <3>2. CASE o # "ok"
      BY <1>t, <1>s, <2>1, <3>2, FinishTypes, ViewTypes DEF RecoveryFailed, Ownerships
    <3> QED
      BY <3>1, <3>2
  <2> QED
    BY <1>5, <1>t, <2>2, <2>4 DEF RecoverComplete, TypeOK
<1>6. CASE Recovered(p)
  <2>1. PICK v : /\ Finish(p, v)
                 /\ v.ownership = "owned" /\ v.cached = settings
                 /\ \E a, b \in BOOLEAN : v = [ownership |-> "owned", cached |-> settings,
                                               recovery |-> a, doubt |-> b]
    <3>1. view[p].doubt \in BOOLEAN /\ job[p].left \in BOOLEAN
      BY <1>t DEF TypeOK, View, Job
    <3> QED
      BY <1>6, <3>1 DEF Recovered
  <2>2. v \in View
    BY <1>s, <2>1 DEF View, Ownerships
  <2> QED
    BY <1>6, <1>t, <2>1, <2>2, FinishTypes DEF Recovered, TypeOK, files
<1>7. CASE SaveSettings(p)
  <2>1. PICK o \in Replaced, a \in {0, 1} :
          LET saved == [settings EXCEPT !.rev = @ + 1, !.gen = @ + a] IN
          CASE o = "ok" ->
                 /\ settings' = saved
                 /\ FinishPersisted(p, saved)
            [] o = "unsynced" ->
                 /\ settings' = saved /\ Outcome(o)
                 /\ FinishStopped(p, InDoubt(p))
            [] o = "failed" ->
                 /\ UNCHANGED settings /\ Outcome(o)
                 /\ Finish(p, NotCommitted(p))
    BY <1>7 DEF SaveSettings
  <2>2. [settings EXCEPT !.rev = @ + 1, !.gen = @ + a] \in Settings
    BY <1>7, <1>m, <1>s, NextRevision DEF SaveSettings
  <2>3. CASE o = "ok"
    BY <1>7, <1>t, <2>1, <2>2, <2>3, FinishPersistedTypes DEF SaveSettings, TypeOK
  <2>4. CASE o = "unsynced"
    <3>1. settings' \in Settings /\ InDoubt(p) \in View
      BY <1>t, <2>1, <2>2, <2>4, ViewTypes DEF InDoubt
    <3> QED
      BY <1>7, <1>t, <2>1, <2>4, <3>1, FinishStoppedTypes, FaultTypes DEF SaveSettings, TypeOK
  <2>5. CASE o = "failed"
    BY <1>7, <1>t, <1>s, <2>1, <2>5, FinishTypes, FaultTypes, ViewTypes DEF SaveSettings, TypeOK
  <2> QED
    BY <2>3, <2>4, <2>5 DEF Replaced
<1>8. CASE RefuseSave(p)
  <2>1. PICK v \in View : Finish(p, v)
    <3>1. \A s \in {settings, view[p].cached} :
             [view[p] EXCEPT !.cached = s, !.recovery = TRUE, !.doubt = FALSE] \in View
      BY <1>s, <1>t, ViewTypes DEF CleanupPending
    <3> QED
      BY <1>8, <1>s, <1>t, <3>1, ViewTypes DEF RefuseSave, Refused
  <2> QED
    BY <1>8, <1>t, <2>1, FinishTypes DEF RefuseSave, TypeOK, files
<1>b. ASSUME NEW op \in Operation, BeginOperation(p, op)
      PROVE  /\ WorkerTypes' /\ settings' \in Settings /\ ops' \subseteq Operation
             /\ faults' \in 0 .. MaxFaults
  <2>1. PICK o \in Replaced :
          /\ Replace(o, settings, ops \cup {op})
          /\ IF o = "ok"
             THEN /\ pc' = [pc EXCEPT ![p] = IF op.kind = "update" THEN "set" ELSE "swap"]
                  /\ job' = [job EXCEPT ![p].op = op]
                  /\ UNCHANGED <<view, rt, owner>>
             ELSE Finish(p, NotCommitted(p))
    BY <1>b DEF BeginOperation
  <2>2. settings' \in Settings /\ ops' \subseteq Operation /\ faults' \in 0 .. MaxFaults
    BY <1>t, <2>1, ReplaceTypes DEF TypeOK
  <2>3. CASE o = "ok"
    <3>1. [job[p] EXCEPT !.op = op] \in Job
      BY <1>j DEF Job
    <3>2. job' \in [Procs -> Job]
      BY <1>t, <2>1, <2>3, <3>1 DEF TypeOK
    <3> QED
      BY <1>t, <2>1, <2>2, <2>3, <3>2 DEF TypeOK, WorkerTypes, Writing
  <2>4. CASE o # "ok"
    BY <1>t, <1>s, <2>1, <2>2, <2>4, FinishTypes, ViewTypes
  <2> QED
    BY <2>2, <2>3, <2>4
<1>q. seen[p].ref \in Ref
  BY <1>t DEF TypeOK, Settings
<1>9. CASE UpdateCredential(p)
  <2>1. PICK c \in Creds \ drawn :
          /\ drawn' = drawn \cup {c}
          /\ BeginOperation(p, [kind |-> "update", new |-> c, old |-> seen[p].ref])
    BY <1>9 DEF UpdateCredential
  <2>2. [kind |-> "update", new |-> c, old |-> seen[p].ref] \in Operation
    BY <1>q DEF Operation, Ref
  <2> QED
    BY <1>t, <1>b, <2>1, <2>2 DEF BeginOperation, TypeOK
<1>10. CASE DeleteCredential(p)
  <2>1. [kind |-> "delete", new |-> NoCred, old |-> seen[p].ref] \in Operation
    BY <1>q DEF Operation, Ref
  <2> QED
    BY <1>10, <1>t, <1>b, <2>1 DEF DeleteCredential, BeginOperation, TypeOK
<1>11. CASE SetKey(p)
  <2>1. PICK o \in {"ok", "failed"} :
          /\ Outcome(o)
          /\ secrets' \in IF o = "ok" THEN {secrets \cup {job[p].op.new}}
                          ELSE {secrets, secrets \cup {job[p].op.new}}
          /\ IF o = "ok"
             THEN pc' = [pc EXCEPT ![p] = "swap"] /\ UNCHANGED <<view, job, rt, owner>>
             ELSE Finish(p, NotCommitted(p))
    BY <1>11 DEF SetKey
  <2>2. job[p].op.new \in drawn
    BY <1>11 DEF SetKey, Inv, PhaseInv, Phase, Progress, Writing
  <2>3. CASE o = "ok"
    BY <1>11, <1>t, <2>1, <2>2, <2>3, FaultTypes DEF SetKey, TypeOK, WorkerTypes, Writing
  <2>4. CASE o # "ok"
    BY <1>11, <1>t, <1>s, <2>1, <2>2, <2>4, FaultTypes, FinishTypes, ViewTypes
       DEF SetKey, TypeOK
  <2> QED
    BY <2>3, <2>4
<1>12. CASE SwapSettings(p)
  <2>1. PICK o \in Replaced :
          /\ Replace(o, [rev |-> settings.rev + 1, gen |-> settings.gen + 1,
                         ref |-> job[p].op.new], ops)
          /\ CASE o = "ok" ->
                    pc' = [pc EXCEPT ![p] = "mark"] /\ UNCHANGED <<view, job, rt, owner>>
               [] o = "unsynced" -> FinishStopped(p, InDoubt(p))
               [] o = "failed" /\ job[p].op.kind = "update" ->
                    pc' = [pc EXCEPT ![p] = "undo"] /\ UNCHANGED <<view, job, rt, owner>>
               [] o = "failed" /\ job[p].op.kind = "delete" ->
                    Finish(p, NotCommitted(p))
    BY <1>12 DEF SwapSettings
  <2>2. settings.rev < MaxRev
    BY <1>12 DEF SwapSettings, Inv, PhaseInv, Phase, Progress, Writing
  <2>3. job[p].op.new \in Ref /\ job[p].op.kind \in {"update", "delete"}
    BY <1>j DEF Operation
  <2>4. [rev |-> settings.rev + 1, gen |-> settings.gen + 1, ref |-> job[p].op.new] \in Settings
    BY <1>m, <1>s, <2>2, <2>3, NextRevision
  <2>5. settings' \in Settings /\ ops' \subseteq Operation /\ faults' \in 0 .. MaxFaults
    BY <1>t, <2>1, <2>4, ReplaceTypes DEF TypeOK
  <2>6. WorkerTypes'
    <3>1. InDoubt(p) \in View /\ NotCommitted(p) \in View
      BY <1>t, <1>s, <2>5, ViewTypes DEF InDoubt
    <3>2. CASE o = "unsynced"
      BY <1>t, <2>1, <3>1, <3>2, FinishStoppedTypes
    <3>3. CASE Finish(p, NotCommitted(p))
      BY <1>t, <3>1, <3>3, FinishTypes
    <3>4. CASE /\ \/ pc' = [pc EXCEPT ![p] = "mark"]
                  \/ pc' = [pc EXCEPT ![p] = "undo"]
               /\ UNCHANGED <<view, job, rt, owner>>
      BY <1>t, <3>4 DEF TypeOK, WorkerTypes, Writing
    <3> QED
      BY <2>1, <2>3, <3>2, <3>3, <3>4 DEF Replaced
  <2> QED
    BY <1>12, <1>t, <2>5, <2>6 DEF SwapSettings, TypeOK
<1>13. CASE UndoKey(p)
  <2>1. faults' \in 0 .. MaxFaults /\ secrets' \subseteq secrets
    BY <1>13, <1>t, FaultTypes DEF UndoKey, DeleteKey, TypeOK
  <2> QED
    BY <1>13, <1>t, <1>s, <2>1, FinishTypes, ViewTypes DEF UndoKey, TypeOK
<1>c. CleanupPending(p, settings) \in View
  BY <1>t, <1>s, ViewTypes
<1>14. CASE MarkSwapped(p)
  <2>1. PICK o \in Replaced :
          /\ Replace(o, settings, ops)
          /\ IF o = "ok"
             THEN pc' = [pc EXCEPT ![p] = "clean"] /\ UNCHANGED <<view, job, rt, owner>>
             ELSE FinishStopped(p, CleanupPending(p, settings))
    BY <1>14 DEF MarkSwapped
  <2>2. settings' \in Settings /\ ops' \subseteq Operation /\ faults' \in 0 .. MaxFaults
    BY <1>t, <2>1, ReplaceTypes DEF TypeOK
  <2>3. WorkerTypes'
    BY <1>t, <1>c, <2>1, FinishStoppedTypes DEF TypeOK, WorkerTypes, Writing
  <2> QED
    BY <1>14, <1>t, <2>2, <2>3 DEF MarkSwapped, TypeOK
<1>15. CASE DeleteOldKey(p)
  <2>1. faults' \in 0 .. MaxFaults /\ secrets' \subseteq secrets
    BY <1>15, <1>t, FaultTypes DEF DeleteOldKey, DeleteKey, TypeOK
  <2>2. WorkerTypes'
    <3>1. CASE pc' = [pc EXCEPT ![p] = "complete"] /\ UNCHANGED <<view, job, rt, owner>>
      BY <1>t, <3>1 DEF TypeOK, WorkerTypes, Writing
    <3>2. CASE FinishStopped(p, CleanupPending(p, settings))
      BY <1>t, <1>c, <3>2, FinishStoppedTypes
    <3> QED
      BY <1>15, <3>1, <3>2 DEF DeleteOldKey
  <2> QED
    BY <1>15, <1>t, <2>1, <2>2 DEF DeleteOldKey, TypeOK
<1>16. CASE CompleteOperation(p)
  <2>1. ops' \subseteq Operation
    BY <1>16, <1>t DEF CompleteOperation, Replace, Without, TypeOK
  <2>2. WorkerTypes' /\ faults' \in 0 .. MaxFaults
    <3>1. CASE FinishPersisted(p, settings)
      BY <1>t, <1>s, <3>1, FinishPersistedTypes
    <3>2. ASSUME NEW o, Outcome(o), FinishStopped(p, CleanupPending(p, settings))
          PROVE  WorkerTypes' /\ faults' \in 0 .. MaxFaults
      BY <1>t, <1>c, <3>2, FinishStoppedTypes, FaultTypes
    <3> QED
      BY <1>16, <3>1, <3>2 DEF CompleteOperation, Replace
  <2> QED
    BY <1>16, <1>t, <2>1, <2>2 DEF CompleteOperation, TypeOK
<1>17. CASE Reacquire(p)
  <2>1. \A o \in Ownerships : [view[p] EXCEPT !.ownership = o] \in View
    BY <1>t, ViewTypes
  <2>2. \E o \in Ownerships : view' = [view EXCEPT ![p] = [view[p] EXCEPT !.ownership = o]]
    BY <1>17, <1>t DEF Reacquire, Ownerships, TypeOK
  <2>3. view' \in [Procs -> View]
    BY <1>t, <2>1, <2>2 DEF TypeOK
  <2> QED
    BY <1>17, <1>t, <2>3 DEF Reacquire, TypeOK, WorkerTypes, files
<1>18. CASE StartTurn(p)
  <2>1. rt' \in [Procs -> Runtime] /\ owner' \in Procs \cup {NoProc}
        /\ faults' \in 0 .. MaxFaults
    BY <1>18, <1>t, EnsureTypes DEF StartTurn
  <2>2. view' \in [Procs -> View]
    <3>1. [view[p] EXCEPT !.ownership = "unknown"] \in View
      BY <1>t, <1>s, ViewTypes DEF Ownerships
    <3>2. UNCHANGED view \/ view' = [view EXCEPT ![p] = [view[p] EXCEPT !.ownership = "unknown"]]
      BY <1>18, <1>t DEF StartTurn, TypeOK
    <3> QED
      BY <1>t, <3>1, <3>2 DEF TypeOK
  <2>3. pc' \in [Procs -> Pcs]
    BY <1>18, <1>t DEF StartTurn, TypeOK, Pcs
  <2> QED
    BY <1>18, <1>t, <2>1, <2>2, <2>3 DEF StartTurn, TypeOK, WorkerTypes, files
<1>19. CASE EndTurn(p)
  BY <1>19, <1>t DEF EndTurn, TypeOK, WorkerTypes, files
<1>20. CASE ChildDies(p)
  <2>1. [rt[p] EXCEPT !.up = FALSE] \in Runtime
    BY <1>t DEF TypeOK, Runtime
  <2>2. rt' \in [Procs -> Runtime]
    BY <1>20, <1>t, <2>1 DEF ChildDies, TypeOK
  <2> QED
    BY <1>20, <1>t, <2>2, FaultTypes DEF ChildDies, TypeOK, WorkerTypes, files
<1>21. CASE ShowSettings(p)
  BY <1>21, <1>t, <1>s, ViewTypes DEF ShowSettings, TypeOK, WorkerTypes, files
<1>22. CASE Die(p)
  <2>1. "down" \in Pcs /\ crashes + 1 \in 0 .. MaxCrashes
    BY <1>22, <1>t, CredentialAssumption DEF Die, TypeOK, Pcs
  <2> QED
    BY <1>22, <1>t, <2>1 DEF Die, TypeOK, WorkerTypes, files
<1>23. CASE Launch(p)
  BY <1>23, <1>t DEF Launch, TypeOK, WorkerTypes, files
<1> QED
  BY <1>1, <1>2, <1>3, <1>4, <1>5, <1>6, <1>7, <1>8, <1>9, <1>10, <1>11, <1>12,
     <1>13, <1>14, <1>15, <1>16, <1>17, <1>18, <1>19, <1>20, <1>21, <1>22, <1>23 DEF Step


-----------------------------------------------------------------------------
(* Whose step it is.                                                        *)

\* A process changes nothing another one remembers.
Frame(p) ==
    \A q \in Procs \ {p} :
        /\ pc'[q] = pc[q] /\ job'[q] = job[q] /\ rt'[q] = rt[q]
        /\ view'[q] = view[q] /\ seen'[q] = seen[q]

\* The files change, and a process comes to write, only under the exclusive
\* lock; turns begin under the shared one.
AsksForLock(p) ==
    /\ UNCHANGED files \/ pc[p] \in Exclusive \/ MayWrite(p)
    /\ pc'[p] \in Exclusive => pc[p] \in Exclusive \/ MayWrite(p)
    /\ pc'[p] = "turn" => \/ StartTurn(p)
                          \/ pc[p] = "turn" /\ (ShowSettings(p) \/ ChildDies(p))

\* The owner lock is taken from nobody but the process itself.
AsksForOwner(p) ==
    /\ owner' = owner \/ owner \in {NoProc, p}
    /\ rt'[p].up \/ pc'[p] \in Exclusive => owner' = p

\* The end of a command is the process's own, and at most lets the owner lock go.
LEMMA Ends ==
  ASSUME TypeOK, OwnerInv, NEW p \in Procs, UNCHANGED seen,
         \/ \E v : Finish(p, v)
         \/ \E v : FinishStopped(p, v)
         \/ \E s : FinishPersisted(p, s)
  PROVE  Frame(p) /\ AsksForOwner(p) /\ pc'[p] \in {"idle", "reacquire"}
<1>1. rt[p].up => owner = p
  BY DEF OwnerInv
<1>2. ASSUME NEW v, Finish(p, v)
      PROVE  Frame(p) /\ AsksForOwner(p) /\ pc'[p] \in {"idle", "reacquire"}
  BY <1>1, <1>2 DEF Finish, TypeOK, Frame, AsksForOwner, Exclusive, Writing, Recovering
<1>3. ASSUME NEW v, FinishStopped(p, v)
      PROVE  Frame(p) /\ AsksForOwner(p) /\ pc'[p] \in {"idle", "reacquire"}
  <2>1. CASE ~rt[p].up
    BY <1>2, <1>3, <2>1 DEF FinishStopped
  <2>2. CASE rt[p].up
    <3>1. rt'[p] = [rt[p] EXCEPT !.up = FALSE] /\ rt[p] \in Runtime
      BY <1>3, <2>2 DEF FinishStopped, TypeOK
    <3>2. ~rt'[p].up
      BY <3>1 DEF Runtime
    <3> QED
      BY <1>1, <1>3, <2>2, <3>2
         DEF FinishStopped, TypeOK, Frame, AsksForOwner, Exclusive, Writing, Recovering
  <2> QED
    BY <2>1, <2>2
<1>4. ASSUME NEW s, FinishPersisted(p, s)
      PROVE  Frame(p) /\ AsksForOwner(p) /\ pc'[p] \in {"idle", "reacquire"}
  <2> DEFINE v == [view[p] EXCEPT !.cached = s, !.recovery = FALSE, !.doubt = FALSE]
  <2>1. CASE Finish(p, v) \/ FinishStopped(p, v)
    BY <1>2, <1>3, <2>1
  <2>2. ASSUME /\ rt[p].up
               /\ view' = [view EXCEPT ![p] = v]
               /\ pc' = [pc EXCEPT ![p] = "idle"]
               /\ job' = [job EXCEPT ![p] = NoJob],
               NEW o \in {"ok", "failed"},
               rt' = [rt EXCEPT ![p] = [up |-> o = "ok", made |-> TRUE,
                                        gen |-> s.gen, ref |-> s.ref]],
               owner' = IF o = "ok" THEN owner ELSE NoProc
        PROVE  Frame(p) /\ AsksForOwner(p) /\ pc'[p] \in {"idle", "reacquire"}
    BY <1>1, <2>2 DEF TypeOK, Frame, AsksForOwner, Exclusive, Writing, Recovering
  <2> HIDE DEF v
  <2> QED
    BY <1>4, <2>1, <2>2 DEF FinishPersisted, v
<1> QED
  BY <1>2, <1>3, <1>4

\* The runtime a turn gets is down, or up with the owner lock, which it took
\* from nobody.
LEMMA EnsureOwner ==
  ASSUME TypeOK, OwnerInv, NEW p \in Procs, EnsureRuntime(p)
  PROVE  (owner' = owner \/ owner \in {NoProc, p}) /\ (rt'[p].up => owner' = p)
<1> DEFINE c == view[p].cached
           with == IF Fits(p) THEN rt[p]
                   ELSE [rt[p] EXCEPT !.made = TRUE, !.gen = c.gen, !.ref = c.ref]
<1>1. rt[p] \in Runtime /\ (rt[p].up => owner = p)
  BY DEF TypeOK, OwnerInv
<1>2. \A b \in BOOLEAN : [with EXCEPT !.up = b].up = b
  BY <1>1 DEF Runtime
<1>3. CASE rt[p].up /\ Fits(p)
  BY <1>1, <1>3 DEF EnsureRuntime
<1>4. CASE ~(rt[p].up /\ Fits(p)) /\ owner \in {NoProc, p}
  <2>1. PICK o \in {"ok", "failed"} :
          /\ rt' = [rt EXCEPT ![p] = [with EXCEPT !.up = o = "ok"]]
          /\ owner' = IF o = "ok" THEN p ELSE NoProc
    BY <1>1, <1>4, CredentialAssumption DEF EnsureRuntime
  <2>2. rt'[p].up = (o = "ok")
    <3>1. rt'[p] = [with EXCEPT !.up = o = "ok"]
      BY <2>1 DEF TypeOK
    <3> HIDE DEF with
    <3> QED
      BY <1>2, <3>1
  <2> QED
    BY <1>4, <2>1, <2>2
<1>5. CASE ~(rt[p].up /\ Fits(p)) /\ owner \notin {NoProc, p}
  <2>1. rt' = [rt EXCEPT ![p] = [with EXCEPT !.up = FALSE]] /\ owner' = owner
    BY <1>5 DEF EnsureRuntime
  <2>2. rt'[p] = [with EXCEPT !.up = FALSE]
    BY <2>1 DEF TypeOK
  <2> HIDE DEF with
  <2> QED
    BY <1>2, <2>1, <2>2
<1> QED
  BY <1>3, <1>4, <1>5

\* Every step is some process's, and asks for the locks it needs.
LEMMA OwnStep ==
  ASSUME TypeOK, OwnerInv, NEW p \in Procs, Step(p)
  PROVE  Frame(p) /\ AsksForLock(p) /\ AsksForOwner(p)
<1>o. (rt[p].up \/ pc[p] \in Exclusive => owner = p) /\ p # NoProc
  BY CredentialAssumption DEF OwnerInv
<1>e. ASSUME UNCHANGED seen,
             UNCHANGED files \/ pc[p] \in Exclusive \/ MayWrite(p),
             \/ \E v : Finish(p, v)
             \/ \E v : FinishStopped(p, v)
             \/ \E s : FinishPersisted(p, s)
      PROVE  Frame(p) /\ AsksForLock(p) /\ AsksForOwner(p)
  BY <1>e, Ends DEF AsksForLock, Exclusive, Writing, Recovering
\* A step of an operation or a recovery that is not its last.
<1>w. ASSUME UNCHANGED <<rt, view, seen, owner>>, pc[p] \in Exclusive,
             NEW x \in Pcs \ {"turn"}, pc' = [pc EXCEPT ![p] = x],
             UNCHANGED job \/ \E j : job' = [job EXCEPT ![p] = j]
      PROVE  Frame(p) /\ AsksForLock(p) /\ AsksForOwner(p)
  BY <1>o, <1>w DEF Frame, AsksForLock, AsksForOwner, TypeOK
<1>l. ASSUME NEW op, LeaveOperation(p, op)
      PROVE  \E j : job' = [job EXCEPT ![p] = j]
  BY <1>l DEF LeaveOperation
<1> USE DEF Exclusive, Writing, Recovering, Pcs
<1>1. CASE Open(p)
  BY <1>1, <1>o DEF Open, TypeOK, Frame, AsksForLock, AsksForOwner, files
<1>2. CASE RecoverNext(p)
  <2>1. \E j : job' = [job EXCEPT ![p] = j]
    BY <1>2, <1>l DEF RecoverNext
  <2>2. \E x \in {"recover", "recoverSwap", "recoverDelete"} : pc' = [pc EXCEPT ![p] = x]
    BY <1>2 DEF RecoverNext, LeaveOperation
  <2> QED
    BY <1>2, <1>w, <2>1, <2>2 DEF RecoverNext
<1>3. CASE RecoverSwap(p)
  <2>1. CASE RecoveryFailed(p)
    BY <1>3, <1>e, <2>1 DEF RecoverSwap, RecoveryFailed
  <2>2. CASE pc' = [pc EXCEPT ![p] = "recoverDelete"] /\ UNCHANGED <<job, view, rt, owner>>
    BY <1>3, <1>w, <2>2 DEF RecoverSwap
  <2>3. CASE LeaveOperation(p, job[p].op) /\ UNCHANGED <<view, rt, owner>>
    BY <1>3, <1>w, <1>l, <2>3 DEF RecoverSwap, LeaveOperation
  <2> QED
    BY <1>3, <2>1, <2>2, <2>3 DEF RecoverSwap, Replaced
<1>4. CASE RecoverDelete(p)
  <2>1. CASE pc' = [pc EXCEPT ![p] = "recoverComplete"] /\ UNCHANGED job
    BY <1>4, <1>w, <2>1 DEF RecoverDelete
  <2>2. CASE LeaveOperation(p, job[p].op)
    BY <1>4, <1>w, <1>l, <2>2 DEF RecoverDelete, LeaveOperation
  <2> QED
    BY <1>4, <2>1, <2>2 DEF RecoverDelete
<1>5. CASE RecoverComplete(p)
  <2>1. CASE RecoveryFailed(p)
    BY <1>5, <1>e, <2>1 DEF RecoverComplete, RecoveryFailed
  <2>2. CASE /\ job' = [job EXCEPT ![p].todo = @ \ {job[p].op}]
             /\ pc' = [pc EXCEPT ![p] = "recover"]
             /\ UNCHANGED <<view, rt, owner>>
    BY <1>5, <1>w, <2>2 DEF RecoverComplete
  <2> QED
    BY <1>5, <2>1, <2>2 DEF RecoverComplete
<1>6. CASE Recovered(p)
  BY <1>6, <1>e DEF Recovered
<1>7. CASE SaveSettings(p)
  BY <1>7, <1>e DEF SaveSettings, Admitted, Replaced
<1>8. CASE RefuseSave(p)
  BY <1>8, <1>e DEF RefuseSave, Refused
<1>b. ASSUME NEW op, BeginOperation(p, op)
      PROVE  Frame(p) /\ AsksForLock(p) /\ AsksForOwner(p)
  <2>1. owner = p /\ MayWrite(p) /\ UNCHANGED seen
    BY <1>b DEF BeginOperation, Admitted, Owns
  <2>2. CASE Finish(p, NotCommitted(p))
    BY <1>e, <2>1, <2>2
  <2>3. CASE /\ pc' = [pc EXCEPT ![p] = IF op.kind = "update" THEN "set" ELSE "swap"]
             /\ job' = [job EXCEPT ![p].op = op]
             /\ UNCHANGED <<view, rt, owner>>
    BY <2>1, <2>3 DEF TypeOK, Frame, AsksForLock, AsksForOwner
  <2> QED
    BY <1>b, <2>2, <2>3 DEF BeginOperation
<1>9. CASE UpdateCredential(p)
  BY <1>9, <1>b DEF UpdateCredential
<1>10. CASE DeleteCredential(p)
  BY <1>10, <1>b DEF DeleteCredential
<1>11. CASE SetKey(p)
  BY <1>11, <1>e, <1>w DEF SetKey
<1>12. CASE SwapSettings(p)
  <2>1. job[p].op.kind \in {"update", "delete"}
    BY DEF TypeOK, Job, Operation
  <2>2. CASE \E v : FinishStopped(p, v) \/ Finish(p, v)
    BY <1>12, <1>e, <2>2 DEF SwapSettings
  <2>3. CASE /\ pc' = [pc EXCEPT ![p] = "mark"] \/ pc' = [pc EXCEPT ![p] = "undo"]
             /\ UNCHANGED <<view, job, rt, owner>>
    BY <1>12, <1>w, <2>3 DEF SwapSettings
  <2> QED
    BY <1>12, <2>1, <2>2, <2>3 DEF SwapSettings, Replaced
<1>13. CASE UndoKey(p)
  BY <1>13, <1>e DEF UndoKey
<1>14. CASE MarkSwapped(p)
  BY <1>14, <1>e, <1>w DEF MarkSwapped
<1>15. CASE DeleteOldKey(p)
  BY <1>15, <1>e, <1>w DEF DeleteOldKey
<1>16. CASE CompleteOperation(p)
  BY <1>16, <1>e DEF CompleteOperation
<1>17. CASE Reacquire(p)
  BY <1>17, <1>o DEF Reacquire, TypeOK, Frame, AsksForLock, AsksForOwner, files
<1>18. CASE StartTurn(p)
  <2>1. Frame(p)
    BY <1>18 DEF StartTurn, EnsureRuntime, TypeOK, Frame
  <2>2. AsksForLock(p)
    BY <1>18 DEF StartTurn, TypeOK, AsksForLock
  <2>3. AsksForOwner(p)
    <3>1. pc'[p] \notin Exclusive
      BY <1>18 DEF StartTurn, TypeOK
    <3>2. (owner' = owner \/ owner \in {NoProc, p}) /\ (rt'[p].up => owner' = p)
      BY <1>18, <1>o, EnsureOwner DEF StartTurn
    <3> QED
      BY <3>1, <3>2 DEF AsksForOwner
  <2> QED
    BY <2>1, <2>2, <2>3
<1>19. CASE EndTurn(p)
  BY <1>19, <1>o DEF EndTurn, TypeOK, Frame, AsksForLock, AsksForOwner, files
<1>20. CASE ChildDies(p)
  <2>1. rt'[p] = [rt[p] EXCEPT !.up = FALSE] /\ rt[p] \in Runtime
    BY <1>20 DEF ChildDies, TypeOK
  <2>2. ~rt'[p].up
    BY <2>1 DEF Runtime
  <2> QED
    BY <1>20, <1>o, <2>2 DEF ChildDies, TypeOK, Frame, AsksForLock, AsksForOwner, files
<1>21. CASE ShowSettings(p)
  BY <1>21, <1>o DEF ShowSettings, TypeOK, Frame, AsksForLock, AsksForOwner, files
<1>22. CASE Die(p)
  <2>1. ~NoRuntime.up
    BY DEF NoRuntime
  <2> QED
    BY <1>22, <1>o, <2>1 DEF Die, Owns, TypeOK, Frame, AsksForLock, AsksForOwner, files
<1>23. CASE Launch(p)
  BY <1>23, <1>o DEF Launch, TypeOK, Frame, AsksForLock, AsksForOwner, files
<1> QED
  BY <1>1, <1>2, <1>3, <1>4, <1>5, <1>6, <1>7, <1>8, <1>9, <1>10, <1>11, <1>12,
     <1>13, <1>14, <1>15, <1>16, <1>17, <1>18, <1>19, <1>20, <1>21, <1>22, <1>23 DEF Step


\* Who changes the files is alone with them.
LEMMA Alone ==
  ASSUME Inv, NEW p \in Procs, Step(p), ~UNCHANGED files
  PROVE  \A q \in Procs \ {p} : pc[q] \notin Exclusive \cup {"turn"}
<1>1. pc[p] \in Exclusive \/ MayWrite(p)
  BY OwnStep DEF Inv, AsksForLock
<1> QED
  BY <1>1 DEF MayWrite, Inv, LockInv

\* The settings lock keeps writers apart, and from turns.
LEMMA LockStep ==
  ASSUME Inv, NEW p \in Procs, Step(p)
  PROVE  LockInv'
<1>1. Frame(p) /\ AsksForLock(p) /\ LockInv
  BY OwnStep DEF Inv
<1>2. pc'[p] \in Exclusive => \A q \in Procs \ {p} : pc[q] \notin Exclusive \cup {"turn"}
  BY <1>1 DEF AsksForLock, MayWrite, LockInv
<1>3. pc'[p] = "turn" => \A q \in Procs \ {p} : pc[q] \notin Exclusive
  <2>1. CASE StartTurn(p)
    <3>1. pc' = pc \/ \A q \in Procs \ {p} : pc[q] \notin Exclusive
      BY <2>1 DEF StartTurn
    <3>2. pc[p] # "turn"
      BY <2>1 DEF StartTurn
    <3> QED
      BY <3>1, <3>2
  <2> QED
    BY <1>1, <2>1 DEF AsksForLock, LockInv
<1>4. "turn" \notin Exclusive
  BY DEF Exclusive, Writing, Recovering
<1> QED
  BY <1>1, <1>2, <1>3, <1>4 DEF LockInv, Frame

\* The owner lock stays with a running child and with who writes.
LEMMA OwnerStep ==
  ASSUME Inv, NEW p \in Procs, Step(p)
  PROVE  OwnerInv'
  BY OwnStep, CredentialAssumption DEF Inv, OwnerInv, Frame, AsksForOwner

-----------------------------------------------------------------------------
(* The settings, and what is remembered of them.                            *)

\* Settings are replaced by newer ones; another reference has another generation.
Advance ==
    \/ settings' = settings
    \/ /\ settings'.rev > settings.rev /\ settings'.gen >= settings.gen
       /\ settings'.gen <= settings'.rev
       /\ settings'.gen = settings.gen => settings'.ref = settings.ref

\* What a process remembers after a step is what it remembered, or the file.
Remembers(p) ==
    /\ \/ view'[p].cached \in {view[p].cached, settings'} /\ seen'[p] = seen[p]
       \/ view'[p].cached = view[p].cached /\ seen'[p] = view[p].cached
       \/ view'[p].cached = Default /\ seen'[p] = Default
    /\ \/ rt'[p].gen = rt[p].gen /\ rt'[p].ref = rt[p].ref
       \/ \E s \in {view[p].cached, settings', Default} :
             rt'[p].gen = s.gen /\ rt'[p].ref = s.ref

\* Every step advances the settings, or leaves them.
LEMMA AdvanceStep ==
  ASSUME Inv, NEW p \in Procs, Step(p)
  PROVE  Advance
<1>1. settings \in Settings /\ settings.gen <= settings.rev /\ MaxRev \in Nat
  BY CredentialAssumption DEF Inv, TypeOK, MemoryInv
<1>2. settings.rev \in Nat /\ settings.gen \in Nat
  BY <1>1 DEF Settings
<1>3. CASE settings' = settings
  BY <1>3 DEF Advance
<1>4. CASE \E r : settings' = [rev |-> settings.rev + 1, gen |-> settings.gen + 1, ref |-> r]
  BY <1>1, <1>2, <1>4 DEF Advance
<1>5. CASE \E a \in {0, 1} : settings' = [settings EXCEPT !.rev = @ + 1, !.gen = @ + a]
  <2>1. PICK a \in {0, 1} : settings' = [settings EXCEPT !.rev = @ + 1, !.gen = @ + a]
    BY <1>5
  <2>2. /\ settings'.rev = settings.rev + 1 /\ settings'.gen = settings.gen + a
        /\ settings'.ref = settings.ref
    BY <1>1, <2>1 DEF Settings
  <2> QED
    BY <1>1, <1>2, <2>2 DEF Advance
<1>6. CASE RecoverSwap(p)
  <2>1. job[p].cur = settings
    BY <1>6 DEF RecoverSwap, Inv, PhaseInv, Phase, Recovery, Recovering
  <2> QED
    BY <1>3, <1>4, <1>6, <2>1 DEF RecoverSwap, Replace
<1>7. CASE SwapSettings(p)
  BY <1>3, <1>4, <1>7 DEF SwapSettings, Replace
<1>8. CASE SaveSettings(p)
  BY <1>3, <1>5, <1>8 DEF SaveSettings, Replaced
<1>9. CASE RecoverComplete(p) \/ MarkSwapped(p) \/ CompleteOperation(p)
           \/ UpdateCredential(p) \/ DeleteCredential(p)
  BY <1>3, <1>9 DEF RecoverComplete, MarkSwapped, CompleteOperation, UpdateCredential,
     DeleteCredential, BeginOperation, Replace
<1>10. CASE Open(p) \/ RecoverNext(p) \/ RecoverDelete(p) \/ Recovered(p) \/ RefuseSave(p)
            \/ SetKey(p) \/ UndoKey(p) \/ DeleteOldKey(p) \/ Reacquire(p)
  BY <1>3, <1>10 DEF Open, RecoverNext, RecoverDelete, Recovered, RefuseSave,
     SetKey, UndoKey, DeleteOldKey, Reacquire, files
<1>11. CASE StartTurn(p) \/ EndTurn(p) \/ ChildDies(p) \/ ShowSettings(p) \/ Die(p) \/ Launch(p)
  BY <1>3, <1>11 DEF StartTurn, EndTurn, ChildDies, ShowSettings, Die, Launch, files
<1> QED
  BY <1>6, <1>7, <1>8, <1>9, <1>10, <1>11 DEF Step


\* What the end of a command leaves remembered.
LEMMA EndRemembers ==
  ASSUME TypeOK, NEW p \in Procs, seen'[p] = seen[p], NEW v \in View,
         Finish(p, v) \/ FinishStopped(p, v), v.cached \in {view[p].cached, settings'}
  PROVE  Remembers(p)
<1>1. view'[p] = v
  BY DEF Finish, FinishStopped, TypeOK
<1>2. rt'[p].gen = rt[p].gen /\ rt'[p].ref = rt[p].ref
  <2>1. rt'[p] = rt[p] \/ rt'[p] = [rt[p] EXCEPT !.up = FALSE]
    BY DEF Finish, FinishStopped, TypeOK
  <2>2. rt[p] \in Runtime
    BY DEF TypeOK
  <2> QED
    BY <2>1, <2>2 DEF Runtime
<1> QED
  BY <1>1, <1>2 DEF Remembers

\* And what the end of a save leaves.
LEMMA PersistedRemembers ==
  ASSUME TypeOK, NEW p \in Procs, seen'[p] = seen[p], settings' \in Settings,
         FinishPersisted(p, settings')
  PROVE  Remembers(p)
<1> DEFINE v == [view[p] EXCEPT !.cached = settings', !.recovery = FALSE, !.doubt = FALSE]
<1>1. v \in View /\ v.cached = settings'
  BY ViewTypes DEF TypeOK, View
<1>2. CASE Finish(p, v) \/ FinishStopped(p, v)
  BY <1>1, <1>2, EndRemembers
<1>3. ASSUME view' = [view EXCEPT ![p] = v], NEW b \in BOOLEAN,
             rt' = [rt EXCEPT ![p] = [up |-> b, made |-> TRUE,
                                      gen |-> settings'.gen, ref |-> settings'.ref]]
      PROVE  Remembers(p)
  <2>1. rt'[p].gen = settings'.gen /\ rt'[p].ref = settings'.ref
    BY <1>3 DEF TypeOK
  <2>2. view'[p].cached = settings'
    BY <1>1, <1>3 DEF TypeOK
  <2> QED
    BY <2>1, <2>2 DEF Remembers
<1> HIDE DEF v
<1> QED
  BY <1>2, <1>3 DEF FinishPersisted, v

\* The snapshots of the ends of commands.
LEMMA Snapshots ==
  ASSUME TypeOK, NEW p \in Procs, NEW s \in Settings
  PROVE  /\ NotCommitted(p).cached = view[p].cached
         /\ CleanupPending(p, s).cached = s
         /\ [view[p] EXCEPT !.cached = s, !.recovery = TRUE, !.doubt = TRUE].cached = s
         /\ [view[p] EXCEPT !.cached = s, !.recovery = TRUE, !.doubt = FALSE].cached = s
         /\ [NotCommitted(p) EXCEPT !.cached = s].cached = s
         /\ \A o \in Ownerships : [view[p] EXCEPT !.ownership = o].cached = view[p].cached
<1>1. view[p] \in View
  BY DEF TypeOK
<1> QED
  BY <1>1 DEF View, NotCommitted, CleanupPending

\* The runtime a turn gets keeps its settings, or has those of the snapshot.
LEMMA EnsureRemembers ==
  ASSUME TypeOK, NEW p \in Procs, EnsureRuntime(p)
  PROVE  \/ rt'[p].gen = rt[p].gen /\ rt'[p].ref = rt[p].ref
         \/ rt'[p].gen = view[p].cached.gen /\ rt'[p].ref = view[p].cached.ref
<1> DEFINE c == view[p].cached
           with == IF Fits(p) THEN rt[p]
                   ELSE [rt[p] EXCEPT !.made = TRUE, !.gen = c.gen, !.ref = c.ref]
<1>1. rt[p] \in Runtime /\ c \in Settings
  BY DEF TypeOK, View
<1>2. /\ with \in Runtime
      /\ \/ with.gen = rt[p].gen /\ with.ref = rt[p].ref
         \/ with.gen = c.gen /\ with.ref = c.ref
  <2>1. CASE Fits(p)
    <3>1. with = rt[p]
      BY <2>1
    <3> HIDE DEF with
    <3> QED
      BY <1>1, <3>1
  <2>2. CASE ~Fits(p)
    <3>1. with = [rt[p] EXCEPT !.made = TRUE, !.gen = c.gen, !.ref = c.ref]
      BY <2>2
    <3>2. with.gen = c.gen /\ with.ref = c.ref
      BY <1>1, <3>1 DEF Runtime
    <3>3. with \in Runtime
      BY <1>1, <3>1 DEF Runtime, Settings
    <3> QED
      BY <3>2, <3>3
  <2> QED
    BY <2>1, <2>2
<1>3. rt' = rt \/ \E b \in BOOLEAN : rt'[p] = [with EXCEPT !.up = b]
  BY DEF EnsureRuntime, TypeOK
<1> HIDE DEF with
<1>4. \A b \in BOOLEAN : [with EXCEPT !.up = b].gen = with.gen /\ [with EXCEPT !.up = b].ref = with.ref
  BY <1>2 DEF Runtime
<1> QED
  BY <1>2, <1>3, <1>4

\* A process remembers only what it has been shown.
LEMMA RememberStep ==
  ASSUME Inv, NEW p \in Procs, Step(p)
  PROVE  Remembers(p)
<1>t. TypeOK /\ TypeOK' /\ settings \in Settings /\ settings' \in Settings
  BY TypeStep DEF Inv, TypeOK
<1>v. view[p].cached \in Settings
  BY <1>t DEF TypeOK, View
<1>q. ASSUME UNCHANGED <<view, rt, seen>>
      PROVE  Remembers(p)
  BY <1>q DEF Remembers
<1>n. ASSUME seen' = seen, Finish(p, NotCommitted(p)) \/ FinishStopped(p, NotCommitted(p))
      PROVE  Remembers(p)
  BY <1>n, <1>t, <1>v, EndRemembers, ViewTypes, Snapshots
<1>c. ASSUME seen' = seen, settings' = settings,
             FinishStopped(p, CleanupPending(p, settings))
      PROVE  Remembers(p)
  BY <1>c, <1>t, EndRemembers, ViewTypes, Snapshots
<1>d. ASSUME seen' = seen, FinishStopped(p, InDoubt(p))
      PROVE  Remembers(p)
  BY <1>d, <1>t, EndRemembers, ViewTypes, Snapshots DEF InDoubt
<1>f. ASSUME seen' = seen, RecoveryFailed(p)
      PROVE  Remembers(p)
  BY <1>f, <1>t, <1>v, EndRemembers, ViewTypes, Snapshots DEF RecoveryFailed, Ownerships
<1>1. CASE Open(p)
  <2>1. view'[p].cached = view[p].cached
    <3>1. \/ view' = view
          \/ \E o \in Ownerships : view'[p] = [view[p] EXCEPT !.ownership = o]
      BY <1>1, <1>t DEF Open, TypeOK, Ownerships
    <3>2. CASE \E o \in Ownerships : view'[p] = [view[p] EXCEPT !.ownership = o]
      BY <1>t, <1>v, <3>2, Snapshots
    <3> QED
      BY <3>1, <3>2
  <2> QED
    BY <1>1, <2>1 DEF Open, Remembers
<1>2. CASE RecoverNext(p) \/ RecoverDelete(p) \/ EndTurn(p) \/ Launch(p)
  BY <1>2, <1>q DEF RecoverNext, RecoverDelete, EndTurn, Launch
<1>3. CASE RecoverSwap(p)
  BY <1>3, <1>q, <1>f DEF RecoverSwap, Replaced
<1>5. CASE RecoverComplete(p)
  BY <1>5, <1>q, <1>f DEF RecoverComplete
<1>6. CASE Recovered(p)
  <2>1. PICK v : Finish(p, v) /\ v.cached = settings
    BY <1>6 DEF Recovered
  <2>2. view'[p] = v /\ rt' = rt /\ settings' = settings /\ seen' = seen
    BY <1>6, <1>t, <2>1 DEF Recovered, Finish, TypeOK, files
  <2> QED
    BY <2>1, <2>2 DEF Remembers
<1>7. CASE SaveSettings(p)
  <2>1. seen' = seen
    BY <1>7 DEF SaveSettings
  <2>2. CASE FinishPersisted(p, settings')
    BY <1>t, <2>1, <2>2, PersistedRemembers
  <2> QED
    BY <1>7, <1>n, <1>d, <2>1, <2>2 DEF SaveSettings, Replaced
<1>8. CASE RefuseSave(p)
  <2>1. settings' = settings /\ seen' = seen
    BY <1>8 DEF RefuseSave, files
  <2>2. ASSUME NEW s \in {settings, view[p].cached},
               Finish(p, [view[p] EXCEPT !.cached = s, !.recovery = TRUE, !.doubt = FALSE])
        PROVE  Remembers(p)
    <3>1. s \in Settings /\ s \in {view[p].cached, settings'}
      BY <1>t, <1>v, <2>1
    <3>2. /\ CleanupPending(p, s) \in View /\ CleanupPending(p, s).cached = s
          /\ Finish(p, CleanupPending(p, s))
      BY <1>t, <2>2, <3>1, ViewTypes, Snapshots DEF CleanupPending
    <3> QED
      BY <1>t, <2>1, <3>1, <3>2, EndRemembers
  <2>3. ASSUME Finish(p, [NotCommitted(p) EXCEPT !.cached = settings])
        PROVE  Remembers(p)
    BY <1>t, <2>1, <2>3, EndRemembers, ViewTypes, Snapshots
  <2> QED
    BY <1>8, <1>n, <2>1, <2>2, <2>3 DEF RefuseSave, Refused
<1>9. CASE UpdateCredential(p) \/ DeleteCredential(p)
  BY <1>9, <1>n, <1>q DEF UpdateCredential, DeleteCredential, BeginOperation
<1>11. CASE SetKey(p)
  BY <1>11, <1>n, <1>q DEF SetKey
<1>12. CASE SwapSettings(p)
  <2>1. job[p].op.kind \in {"update", "delete"}
    BY <1>t DEF TypeOK, Job, Operation
  <2> QED
    BY <1>12, <1>n, <1>d, <1>q, <2>1 DEF SwapSettings, Replaced
<1>13. CASE UndoKey(p)
  BY <1>13, <1>n DEF UndoKey
<1>14. CASE MarkSwapped(p)
  <2>1. settings' = settings
    BY <1>14 DEF MarkSwapped, Replace
  <2> QED
    BY <1>14, <1>c, <1>q, <2>1 DEF MarkSwapped
<1>15. CASE DeleteOldKey(p)
  BY <1>15, <1>c, <1>q DEF DeleteOldKey
<1>16. CASE CompleteOperation(p)
  <2>1. settings' = settings /\ seen' = seen
    BY <1>16 DEF CompleteOperation
  <2>2. CASE FinishPersisted(p, settings')
    BY <1>t, <2>1, <2>2, PersistedRemembers
  <2> QED
    BY <1>16, <1>c, <2>1, <2>2 DEF CompleteOperation
<1>17. CASE Reacquire(p)
  <2>1. \E o \in Ownerships : view'[p] = [view[p] EXCEPT !.ownership = o]
    BY <1>17, <1>t DEF Reacquire, TypeOK, Ownerships
  <2>2. view'[p].cached = view[p].cached
    BY <1>t, <1>v, <2>1, Snapshots
  <2> QED
    BY <1>17, <2>2 DEF Reacquire, Remembers
<1>18. CASE StartTurn(p)
  <2>1. view'[p].cached = view[p].cached
    <3>1. view' = view \/ view'[p] = [view[p] EXCEPT !.ownership = "unknown"]
      BY <1>18, <1>t DEF StartTurn, TypeOK
    <3> QED
      BY <1>t, <1>v, <3>1, Snapshots DEF Ownerships
  <2>2. \/ rt'[p].gen = rt[p].gen /\ rt'[p].ref = rt[p].ref
        \/ rt'[p].gen = view[p].cached.gen /\ rt'[p].ref = view[p].cached.ref
    BY <1>18, <1>t, EnsureRemembers DEF StartTurn
  <2> QED
    BY <1>18, <2>1, <2>2 DEF StartTurn, Remembers
<1>20. CASE ChildDies(p)
  <2>1. rt'[p] = [rt[p] EXCEPT !.up = FALSE] /\ rt[p] \in Runtime
    BY <1>20, <1>t DEF ChildDies, TypeOK
  <2>2. rt'[p].gen = rt[p].gen /\ rt'[p].ref = rt[p].ref
    BY <2>1 DEF Runtime
  <2> QED
    BY <1>20, <2>2 DEF ChildDies, Remembers
<1>21. CASE ShowSettings(p)
  BY <1>21, <1>t DEF ShowSettings, TypeOK, Remembers
<1>22. CASE Die(p)
  <2>1. view'[p] = FreshView /\ seen'[p] = Default /\ rt'[p] = NoRuntime
    BY <1>22, <1>t DEF Die, TypeOK
  <2> QED
    BY <2>1 DEF Remembers, FreshView, NoRuntime, Default
<1> QED
  BY <1>1, <1>2, <1>3, <1>5, <1>6, <1>7, <1>8, <1>9, <1>11, <1>12, <1>13, <1>14, <1>15,
     <1>16, <1>17, <1>18, <1>20, <1>21, <1>22 DEF Step

\* Nothing remembered overtakes the settings.
LEMMA MemoryStep ==
  ASSUME Inv, NEW p \in Procs, Step(p)
  PROVE  MemoryInv'
<1>t. /\ TypeOK /\ TypeOK' /\ MemoryInv /\ Advance /\ Frame(p) /\ Remembers(p)
      /\ settings \in Settings /\ settings' \in Settings /\ Default \in Settings
  BY TypeStep, AdvanceStep, OwnStep, RememberStep, Values DEF Inv, TypeOK
<1>s. \A s \in Settings : s.rev \in Nat /\ s.gen \in Nat
  BY CredentialAssumption DEF Settings
<1>1. \A s \in Settings :
         Older(s) => s.rev <= settings'.rev /\ (s.rev = settings'.rev => s = settings')
  BY <1>t, <1>s DEF Advance, Older
<1>2. \A r : r.gen \in Nat /\ SameKey(r) =>
         r.gen <= settings'.gen /\ (r.gen = settings'.gen => r.ref = settings'.ref)
  BY <1>t, <1>s DEF Advance, SameKey
<1>3. settings'.gen <= settings'.rev
  BY <1>t DEF Advance, MemoryInv
<1>4. \A q \in Procs : /\ view[q].cached \in Settings /\ seen[q] \in Settings
                       /\ rt[q].gen \in Nat
  BY <1>t, CredentialAssumption DEF TypeOK, View, Runtime
<1>5. Older(Default)' /\ SameKey(Default)'
  BY <1>t, <1>s, <1>1, <1>2 DEF MemoryInv, SameKey, Older
<1>6. ASSUME NEW q \in Procs
      PROVE  /\ Older(view[q].cached)' /\ Older(seen[q])'
             /\ SameKey(view[q].cached)' /\ SameKey(rt[q])'
             /\ (seen[q].rev <= view[q].cached.rev)'
  <2>1. CASE q # p
    BY <1>t, <1>s, <1>1, <1>2, <1>4, <2>1 DEF MemoryInv, Frame, Older, SameKey
  <2>2. CASE q = p
    <3>1. Older(view[q].cached)' /\ SameKey(view[q].cached)'
      BY <1>t, <1>s, <1>1, <1>2, <1>4, <1>5, <2>2 DEF MemoryInv, Remembers, Older, SameKey
    <3>2. Older(seen[q])'
      BY <1>t, <1>s, <1>1, <1>4, <1>5, <2>2 DEF MemoryInv, Remembers, Older
    <3>3. SameKey(rt[q])'
      BY <1>t, <1>s, <1>2, <1>4, <1>5, <2>2 DEF MemoryInv, Remembers, SameKey
    <3>4. (seen[q].rev <= view[q].cached.rev)'
      <4>1. seen[p].rev <= settings'.rev
        BY <1>t, <1>s, <1>1, <1>4 DEF MemoryInv, Older
      <4> QED
        BY <1>t, <1>s, <1>4, <2>2, <4>1 DEF MemoryInv, Remembers
    <3> QED
      BY <3>1, <3>2, <3>3, <3>4
  <2> QED
    BY <2>1, <2>2
<1> QED
  BY <1>3, <1>5, <1>6 DEF MemoryInv


-----------------------------------------------------------------------------
(* The journal.                                                             *)

\* With one operation in the journal, and with none, this is what fits together.
LEMMA OneOperation ==
  ASSUME NEW op, NEW s, NEW k
  PROVE  /\ Sound(s, {op}, k) <=>
              /\ WellFormed(op) /\ OneSide(s, op) /\ s.ref \in k \cup {NoCred}
              /\ k \subseteq {s.ref, op.new, op.old}
         /\ Sound(s, {}, k) <=> s.ref \in k \cup {NoCred} /\ k \subseteq {s.ref}
  BY DEF Sound

\* What KeyInv says, in the words of the properties.
LEMMA KeyFacts ==
  KeyInv => NamedKeyExists /\ KeysAreTracked /\ RecoveryCanJudge
  BY DEF KeyInv, Sound, OneSide, NamedKeyExists, KeysAreTracked, RecoveryCanJudge

\* The operation a process is in has two sides, and the keys are on them.
LEMMA InOperation ==
  ASSUME Inv, NEW p \in Procs,
         pc[p] \in Writing \/ (pc[p] \in Recovering /\ pc[p] # "recover")
  PROVE  LET op == job[p].op IN
         /\ ops = {op} /\ op \in Operation /\ WellFormed(op) /\ OneSide(settings, op)
         /\ settings.ref \in secrets \cup {NoCred}
         /\ secrets \subseteq {settings.ref, op.new, op.old}
         /\ NoCred \notin secrets
<1>1. ops = {job[p].op}
  BY DEF Inv, PhaseInv, Phase, Progress, Recovery
<1>2. NoCred \notin secrets /\ job[p].op \in Operation
  BY <1>1, CredentialAssumption DEF Inv, TypeOK
<1> QED
  BY <1>1, <1>2, OneOperation DEF Inv, KeyInv

\* A process that neither writes nor recovers owes nothing.
LEMMA Outside ==
  ASSUME NEW p \in Procs, pc'[p] \notin Exclusive
  PROVE  Phase(p)'
  BY DEF Phase, Exclusive

\* Steps of an operation that replaces or deletes a key.
LEMMA OperationStep ==
  ASSUME Inv, NEW p \in Procs,
         \/ SetKey(p) \/ SwapSettings(p) \/ UndoKey(p)
         \/ MarkSwapped(p) \/ DeleteOldKey(p) \/ CompleteOperation(p)
  PROVE  KeyInv' /\ Phase(p)'
<1> DEFINE op == job[p].op
<1>t. TypeOK /\ OwnerInv /\ Step(p) /\ pc[p] \in Writing
  BY DEF Inv, Step, SetKey, SwapSettings, UndoKey, MarkSwapped, DeleteOldKey,
     CompleteOperation, Writing
<1>1. /\ ops = {op} /\ op \in Operation /\ WellFormed(op) /\ OneSide(settings, op)
      /\ settings.ref \in secrets \cup {NoCred}
      /\ secrets \subseteq {settings.ref, op.new, op.old}
      /\ NoCred \notin secrets
  BY <1>t, InOperation
<1>2. Progress(p)
  BY <1>t DEF Inv, PhaseInv, Phase
<1>k. op.kind \in {"update", "delete"}
  BY <1>1 DEF Operation
\* Where the operation ends, the process owes nothing more.
<1>e. ASSUME UNCHANGED seen,
             \/ \E v : Finish(p, v)
             \/ \E v : FinishStopped(p, v)
             \/ \E s : FinishPersisted(p, s)
      PROVE  Phase(p)'
  BY <1>e, <1>t, Ends, Outside DEF Exclusive, Writing, Recovering
\* Where it goes on, this is left to show.
<1>w. ASSUME NEW x \in Writing, pc' = [pc EXCEPT ![p] = x], UNCHANGED job, Progress(p)'
      PROVE  Phase(p)'
  BY <1>w, <1>t DEF Phase, TypeOK, Writing, Recovering
<1> HIDE DEF op
<1>3. CASE SetKey(p)
  <2>1. ops' = {op} /\ settings' = settings /\ secrets \subseteq secrets'
        /\ secrets' \subseteq secrets \cup {op.new}
    BY <1>1, <1>3 DEF SetKey, op
  <2>2. KeyInv'
    BY <1>1, <2>1, OneOperation DEF KeyInv
  <2>3. CASE /\ pc' = [pc EXCEPT ![p] = "swap"] /\ UNCHANGED <<view, job, rt, owner>>
             /\ op.new \in secrets'
    <3>1. Progress(p)'
      BY <1>2, <1>3, <1>t, <2>1, <2>3 DEF SetKey, Progress, TypeOK, op
    <3> QED
      BY <1>w, <2>2, <2>3, <3>1 DEF Writing
  <2>4. CASE Finish(p, NotCommitted(p))
    BY <1>3, <1>e, <2>2, <2>4 DEF SetKey
  <2> QED
    BY <1>3, <2>3, <2>4 DEF SetKey, op
<1>4. CASE SwapSettings(p)
  <2>1. /\ ops' = {op} /\ secrets' = secrets
        /\ settings' = settings \/ settings'.ref = op.new
        /\ settings.ref = op.old
    BY <1>1, <1>2, <1>4 DEF SwapSettings, Replace, Progress, op
  <2>2. op.new \in secrets \cup {NoCred}
    BY <1>2, <1>4 DEF SwapSettings, Progress, op
  <2>3. KeyInv'
    <3>1. CASE settings' = settings
      BY <1>1, <2>1, <3>1, OneOperation DEF KeyInv
    <3>2. CASE settings'.ref = op.new
      <4>1. OneSide(settings', op)
        BY <1>1, <3>2 DEF OneSide, WellFormed
      <4> QED
        BY <1>1, <2>1, <2>2, <3>2, <4>1, OneOperation DEF KeyInv
    <3> QED
      BY <2>1, <3>1, <3>2
  <2>4. CASE \E v : Finish(p, v) \/ FinishStopped(p, v)
    BY <1>4, <1>e, <2>3, <2>4 DEF SwapSettings
  <2>5. CASE /\ pc' = [pc EXCEPT ![p] = "mark"] /\ UNCHANGED <<view, job, rt, owner>>
             /\ settings'.ref = op.new
    <3>1. Progress(p)'
      BY <1>2, <1>4, <1>t, <2>1, <2>5 DEF SwapSettings, Progress, TypeOK, op
    <3> QED
      BY <1>w, <2>3, <2>5, <3>1 DEF Writing
  <2>6. CASE /\ pc' = [pc EXCEPT ![p] = "undo"] /\ UNCHANGED <<view, job, rt, owner>>
             /\ settings' = settings
    <3>1. Progress(p)'
      BY <1>2, <1>4, <1>t, <2>1, <2>6 DEF SwapSettings, Progress, TypeOK, op
    <3> QED
      BY <1>w, <2>3, <2>6, <3>1 DEF Writing
  <2>7. PICK o \in Replaced :
          /\ Replace(o, [rev |-> settings.rev + 1, gen |-> settings.gen + 1,
                         ref |-> job[p].op.new], ops)
          /\ CASE o = "ok" ->
                    pc' = [pc EXCEPT ![p] = "mark"] /\ UNCHANGED <<view, job, rt, owner>>
               [] o = "unsynced" -> FinishStopped(p, InDoubt(p))
               [] o = "failed" /\ job[p].op.kind = "update" ->
                    pc' = [pc EXCEPT ![p] = "undo"] /\ UNCHANGED <<view, job, rt, owner>>
               [] o = "failed" /\ job[p].op.kind = "delete" ->
                    Finish(p, NotCommitted(p))
    BY <1>4 DEF SwapSettings
  <2>8. CASE o = "ok"
    BY <2>5, <2>7, <2>8 DEF Replace, op
  <2>9. CASE o = "unsynced"
    BY <2>4, <2>7, <2>9
  <2>10. CASE o = "failed"
    BY <1>k, <2>4, <2>6, <2>7, <2>10 DEF Replace, op
  <2> QED
    BY <2>7, <2>8, <2>9, <2>10 DEF Replaced
<1>5. CASE UndoKey(p)
  <2>1. /\ ops' = {op} /\ settings' = settings /\ settings.ref = op.old
        /\ secrets' \subseteq secrets /\ secrets \subseteq secrets' \cup {op.new}
    BY <1>1, <1>2, <1>5 DEF UndoKey, DeleteKey, Progress, op
  <2>2. KeyInv'
    BY <1>1, <2>1, OneOperation DEF KeyInv, WellFormed
  <2> QED
    BY <1>5, <1>e, <2>2 DEF UndoKey
<1>6. CASE MarkSwapped(p)
  <2>1. ops' = {op} /\ settings' = settings /\ secrets' = secrets
    BY <1>1, <1>6 DEF MarkSwapped, Replace
  <2>2. KeyInv'
    BY <1>1, <2>1, OneOperation DEF KeyInv
  <2>3. CASE pc' = [pc EXCEPT ![p] = "clean"] /\ UNCHANGED <<view, job, rt, owner>>
    <3>1. Progress(p)'
      BY <1>2, <1>6, <1>t, <2>1, <2>3 DEF MarkSwapped, Progress, TypeOK, op
    <3> QED
      BY <1>w, <2>2, <2>3, <3>1 DEF Writing
  <2>4. CASE FinishStopped(p, CleanupPending(p, settings))
    BY <1>6, <1>e, <2>2, <2>4 DEF MarkSwapped
  <2> QED
    BY <1>6, <2>3, <2>4 DEF MarkSwapped
<1>7. CASE DeleteOldKey(p)
  <2>1. /\ ops' = {op} /\ settings' = settings /\ settings.ref = op.new
        /\ secrets' \subseteq secrets /\ secrets \subseteq secrets' \cup {op.old}
    BY <1>1, <1>2, <1>7 DEF DeleteOldKey, DeleteKey, Progress, op
  <2>2. KeyInv'
    BY <1>1, <2>1, OneOperation DEF KeyInv, WellFormed
  <2>3. CASE pc' = [pc EXCEPT ![p] = "complete"] /\ UNCHANGED <<view, job, rt, owner>>
             /\ op.old \notin secrets'
    <3>1. secrets' \subseteq {settings.ref}
      BY <1>1, <2>1, <2>3
    <3>2. Progress(p)'
      BY <1>2, <1>7, <1>t, <2>1, <2>3, <3>1 DEF DeleteOldKey, Progress, TypeOK, op
    <3> QED
      BY <1>w, <2>2, <2>3, <3>2 DEF Writing
  <2>4. CASE FinishStopped(p, CleanupPending(p, settings))
    BY <1>7, <1>e, <2>2, <2>4 DEF DeleteOldKey
  <2> QED
    BY <1>1, <1>7, <2>3, <2>4 DEF DeleteOldKey, DeleteKey, op
<1>8. CASE CompleteOperation(p)
  <2>1. Without(op) = {}
    BY <1>1 DEF Without
  <2>2. /\ ops' \in {{op}, {}} /\ settings' = settings /\ secrets' = secrets
        /\ secrets \subseteq {settings.ref}
    BY <1>1, <1>2, <1>8, <2>1 DEF CompleteOperation, Replace, Progress, op
  <2>3. KeyInv'
    BY <1>1, <2>2, OneOperation DEF KeyInv
  <2> QED
    BY <1>8, <1>e, <2>3 DEF CompleteOperation
<1> QED
  BY <1>3, <1>4, <1>5, <1>6, <1>7, <1>8


\* Steps of a recovery, once it has begun.
LEMMA RecoveryStep ==
  ASSUME Inv, NEW p \in Procs,
         \/ RecoverNext(p) \/ RecoverSwap(p) \/ RecoverDelete(p)
         \/ RecoverComplete(p) \/ Recovered(p)
  PROVE  KeyInv' /\ Phase(p)'
<1>t. TypeOK /\ OwnerInv /\ KeyInv /\ Step(p) /\ pc[p] \in Recovering /\ job[p] \in Job
  BY DEF Inv, TypeOK, Step, RecoverNext, RecoverSwap, RecoverDelete, RecoverComplete,
     Recovered, Recovering
<1>2. Recovery(p)
  BY <1>t DEF Inv, PhaseInv, Phase
<1>e. ASSUME UNCHANGED seen, \E v : Finish(p, v)
      PROVE  Phase(p)'
  BY <1>e, <1>t, Ends, Outside DEF Exclusive, Writing, Recovering
<1>w. ASSUME NEW x \in Recovering, pc' = [pc EXCEPT ![p] = x], Recovery(p)'
      PROVE  Phase(p)'
  BY <1>w, <1>t DEF Phase, TypeOK, Writing, Recovering
\* An operation that is left: nothing is to do any more.
<1>l. ASSUME NEW op, LeaveOperation(p, op), job[p].todo \subseteq {op}, UNCHANGED ops
      PROVE  Phase(p)'
  <2>1. job'[p] = [job[p] EXCEPT !.todo = job[p].todo \ {op}, !.left = TRUE]
    BY <1>l, <1>t DEF LeaveOperation, TypeOK
  <2>2. job'[p].todo = job[p].todo \ {op}
    BY <1>t, <2>1 DEF Job
  <2>3. Recovery(p)' /\ pc' = [pc EXCEPT ![p] = "recover"]
    BY <1>l, <1>t, <2>2 DEF Recovery, LeaveOperation, TypeOK
  <2> QED
    BY <1>w, <2>3 DEF Recovering
<1>3. CASE RecoverNext(p)
  <2>1. PICK op \in job[p].todo :
          LET verdict == Judge(op, job[p].cur.ref) IN
          IF verdict = "diagnose" THEN LeaveOperation(p, op)
          ELSE /\ pc' = [pc EXCEPT ![p] = IF verdict = "swap" THEN "recoverSwap"
                                          ELSE "recoverDelete"]
               /\ job' = [job EXCEPT ![p].op = op]
    BY <1>3 DEF RecoverNext
  <2>2. ops = {op} /\ job[p].todo \subseteq {op} /\ job[p].cur = settings /\ WellFormed(op)
    BY <1>2, <1>3, <1>t, <2>1 DEF Recovery, RecoverNext, KeyInv, Sound
  <2>3. ops' = ops /\ settings' = settings /\ secrets' = secrets /\ KeyInv'
    BY <1>3, <1>t DEF RecoverNext, files, KeyInv
  <2>4. CASE Judge(op, job[p].cur.ref) = "diagnose"
    BY <1>l, <2>1, <2>2, <2>3, <2>4
  <2>5. CASE Judge(op, job[p].cur.ref) # "diagnose"
    <3>1. job'[p] = [job[p] EXCEPT !.op = op]
      BY <1>t, <2>1, <2>5 DEF TypeOK
    <3>2. job'[p].op = op /\ job'[p].todo = job[p].todo /\ job'[p].cur = job[p].cur
      BY <1>t, <3>1 DEF Job
    <3>3. \/ Judge(op, settings.ref) = "swap"
          \/ Judge(op, settings.ref) = "deleteNew" /\ settings.ref = op.old
          \/ Judge(op, settings.ref) = "deleteOld" /\ settings.ref = op.new
      BY <2>2, <2>5 DEF Judge, WellFormed
    <3>4. PICK x \in {"recoverSwap", "recoverDelete"} :
             /\ pc' = [pc EXCEPT ![p] = x]
             /\ x = "recoverSwap" <=> Judge(op, settings.ref) = "swap"
      BY <2>1, <2>2, <2>5
    <3>5. Recovery(p)'
      BY <1>t, <2>2, <2>3, <3>2, <3>3, <3>4 DEF Recovery, TypeOK
    <3> QED
      BY <1>w, <2>3, <3>4, <3>5 DEF Recovering
  <2> QED
    BY <2>3, <2>4, <2>5
<1>o. ASSUME pc[p] # "recover"
      PROVE  LET op == job[p].op IN
             /\ ops = {op} /\ op \in Operation /\ WellFormed(op) /\ OneSide(settings, op)
             /\ settings.ref \in secrets \cup {NoCred}
             /\ secrets \subseteq {settings.ref, op.new, op.old}
             /\ NoCred \notin secrets /\ job[p].todo \subseteq {op}
  BY <1>o, <1>t, <1>2, InOperation DEF Recovery
<1> DEFINE op == job[p].op
<1> HIDE DEF op
<1>4. CASE RecoverSwap(p)
  <2>1. /\ ops = {op} /\ WellFormed(op) /\ job[p].todo \subseteq {op} /\ OneSide(settings, op)
        /\ settings.ref \in secrets \cup {NoCred}
        /\ secrets \subseteq {settings.ref, op.new, op.old}
    BY <1>4, <1>o DEF RecoverSwap, op
  <2>2. Judge(op, settings.ref) = "swap" /\ job[p].cur = settings
    BY <1>2, <1>4 DEF Recovery, RecoverSwap, op
  <2>3. op.kind = "delete" /\ settings.ref = op.old /\ op.new = NoCred
    BY <2>1, <2>2 DEF Judge, WellFormed
  <2>4. ops' = {op} /\ secrets' = secrets /\ (settings' = settings \/ settings'.ref = NoCred)
    BY <1>4, <2>1 DEF RecoverSwap, Replace
  <2>5. KeyInv'
    <3>1. OneSide(settings', op)
      BY <2>1, <2>3, <2>4 DEF OneSide
    <3>2. settings'.ref \in secrets' \cup {NoCred} /\ secrets' \subseteq {settings'.ref, op.new, op.old}
      BY <2>1, <2>3, <2>4
    <3> QED
      BY <2>1, <2>4, <3>1, <3>2, OneOperation DEF KeyInv
  <2>6. CASE RecoveryFailed(p)
    BY <1>4, <1>e, <2>5, <2>6 DEF RecoverSwap, RecoveryFailed
  <2>7. CASE LeaveOperation(p, job[p].op)
    BY <1>l, <2>1, <2>4, <2>5, <2>7 DEF op
  <2>8. CASE /\ pc' = [pc EXCEPT ![p] = "recoverDelete"] /\ UNCHANGED job
             /\ settings'.ref = NoCred
    <3>1. Recovery(p)'
      BY <1>t, <2>1, <2>2, <2>3, <2>4, <2>8 DEF Recovery, TypeOK, op
    <3> QED
      BY <1>w, <2>5, <2>8, <3>1 DEF Recovering
  <2>9. PICK o \in Replaced :
          /\ Replace(o, [rev |-> job[p].cur.rev + 1, gen |-> job[p].cur.gen + 1,
                         ref |-> NoCred], ops)
          /\ CASE o = "ok" ->
                     /\ pc' = [pc EXCEPT ![p] = "recoverDelete"]
                     /\ UNCHANGED <<job, view, rt, owner>>
               [] o = "unsynced" ->
                     LeaveOperation(p, job[p].op) /\ UNCHANGED <<view, rt, owner>>
               [] o = "failed" -> RecoveryFailed(p)
    BY <1>4 DEF RecoverSwap
  <2>10. CASE o = "ok"
    BY <2>8, <2>9, <2>10 DEF Replace
  <2>11. CASE o = "unsynced"
    BY <2>7, <2>9, <2>11
  <2>12. CASE o = "failed"
    BY <2>6, <2>9, <2>12
  <2> QED
    BY <2>9, <2>10, <2>11, <2>12 DEF Replaced
<1>5. CASE RecoverDelete(p)
  <2> DEFINE target == IF Judge(op, job[p].cur.ref) = "deleteNew" THEN op.new ELSE op.old
  <2>1. /\ ops = {op} /\ WellFormed(op) /\ job[p].todo \subseteq {op} /\ OneSide(settings, op)
        /\ settings.ref \in secrets \cup {NoCred}
        /\ secrets \subseteq {settings.ref, op.new, op.old} /\ NoCred \notin secrets
    BY <1>5, <1>o DEF RecoverDelete, op
  <2>2. settings.ref = IF Judge(op, job[p].cur.ref) = "deleteNew" THEN op.old ELSE op.new
    BY <1>2, <1>5 DEF Recovery, RecoverDelete, op
  <2>3. settings.ref # target /\ {settings.ref, target} = {op.new, op.old}
    BY <2>1, <2>2 DEF WellFormed
  <2>4. /\ ops' = {op} /\ settings' = settings
        /\ secrets' \subseteq secrets /\ secrets \subseteq secrets' \cup {target}
    BY <1>5, <2>1 DEF RecoverDelete, DeleteKey, op
  <2>5. \/ /\ pc' = [pc EXCEPT ![p] = "recoverComplete"] /\ UNCHANGED job
           /\ target \notin secrets'
        \/ LeaveOperation(p, op)
    BY <1>5, <2>1 DEF RecoverDelete, DeleteKey, op
  <2> HIDE DEF target
  <2>6. KeyInv'
    BY <2>1, <2>3, <2>4, OneOperation DEF KeyInv
  <2>7. CASE LeaveOperation(p, op)
    BY <1>l, <2>1, <2>4, <2>6, <2>7
  <2>8. CASE /\ pc' = [pc EXCEPT ![p] = "recoverComplete"] /\ UNCHANGED job
             /\ target \notin secrets'
    <3>1. secrets' \subseteq {settings'.ref}
      BY <2>1, <2>3, <2>4, <2>8
    <3>2. Recovery(p)'
      BY <1>t, <2>1, <2>4, <2>8, <3>1 DEF Recovery, TypeOK, op
    <3> QED
      BY <1>w, <2>6, <2>8, <3>2 DEF Recovering
  <2> QED
    BY <2>5, <2>7, <2>8
<1>6. CASE RecoverComplete(p)
  <2>1. /\ ops = {op} /\ job[p].todo \subseteq {op} /\ WellFormed(op) /\ OneSide(settings, op)
        /\ settings.ref \in secrets \cup {NoCred}
        /\ secrets \subseteq {settings.ref, op.new, op.old}
    BY <1>6, <1>o DEF RecoverComplete, op
  <2>2. secrets \subseteq {settings.ref}
    BY <1>2, <1>6 DEF Recovery, RecoverComplete
  <2>3. Without(op) = {}
    BY <2>1 DEF Without
  <2>4. ops' \in {{op}, {}} /\ settings' = settings /\ secrets' = secrets
    BY <1>6, <2>1, <2>3 DEF RecoverComplete, Replace, op
  <2>5. KeyInv'
    BY <2>1, <2>2, <2>4, OneOperation DEF KeyInv
  <2>6. CASE RecoveryFailed(p)
    BY <1>6, <1>e, <2>5, <2>6 DEF RecoverComplete, RecoveryFailed
  <2>7. CASE /\ job' = [job EXCEPT ![p].todo = @ \ {job[p].op}]
             /\ pc' = [pc EXCEPT ![p] = "recover"]
    <3>1. job'[p] = [job[p] EXCEPT !.todo = @ \ {job[p].op}]
      BY <1>t, <2>7 DEF TypeOK
    <3>2. job'[p].todo = {}
      BY <1>t, <2>1, <3>1 DEF Job, op
    <3>3. Recovery(p)'
      BY <1>t, <2>7, <3>2 DEF Recovery, TypeOK
    <3> QED
      BY <1>w, <2>5, <2>7, <3>3 DEF Recovering
  <2> QED
    BY <1>6, <2>6, <2>7 DEF RecoverComplete
<1>7. CASE Recovered(p)
  <2>1. KeyInv'
    BY <1>7, <1>t DEF Recovered, files, KeyInv
  <2>2. Phase(p)'
    BY <1>7, <1>e DEF Recovered
  <2> QED
    BY <2>1, <2>2
<1> QED
  BY <1>3, <1>4, <1>5, <1>6, <1>7


\* An operation enters the journal, over settings its page has seen.
LEMMA BeginStep ==
  ASSUME Inv, NEW p \in Procs, UpdateCredential(p) \/ DeleteCredential(p)
  PROVE  KeyInv' /\ Phase(p)'
<1>t. /\ TypeOK /\ OwnerInv /\ MemoryInv /\ KeyInv /\ Step(p) /\ job[p] \in Job
      /\ view[p].cached \in Settings /\ seen[p] \in Settings /\ settings \in Settings
  BY DEF Inv, Step, TypeOK, View
<1>1. PICK op : /\ BeginOperation(p, op) /\ op.old = seen[p].ref
                /\ \/ op.kind = "update" /\ op.new \in Creds \ drawn /\ op.new \in drawn'
                   \/ op.kind = "delete" /\ op.new = NoCred /\ op.old # NoCred
  <2>1. CASE UpdateCredential(p)
    <3>1. PICK c \in Creds \ drawn :
            /\ drawn' = drawn \cup {c}
            /\ BeginOperation(p, [kind |-> "update", new |-> c, old |-> seen[p].ref])
      BY <2>1 DEF UpdateCredential
    <3> QED
      BY <3>1
  <2>2. CASE DeleteCredential(p)
    BY <2>2 DEF DeleteCredential
  <2> QED
    BY <2>1, <2>2
<1>2. /\ ops = {} /\ settings.rev = seen[p].rev /\ settings.ref = op.old
      /\ settings.rev < MaxRev /\ settings' = settings /\ secrets' = secrets
      /\ ops' \in {{}, {op}} /\ seen' = seen
  BY <1>1 DEF BeginOperation, Admitted, Replace
<1>3. view[p].cached = settings
  <2>1. settings.rev \in Nat /\ view[p].cached.rev \in Nat
    BY <1>t, CredentialAssumption DEF Settings
  <2> QED
    BY <1>t, <1>2, <2>1 DEF MemoryInv, Older
<1>4. settings.ref \in secrets \cup {NoCred} /\ secrets \subseteq {settings.ref}
  BY <1>t, <1>2, OneOperation DEF KeyInv
<1>5. WellFormed(op) /\ OneSide(settings, op)
  BY <1>t, <1>1, <1>2, <1>4, CredentialAssumption DEF WellFormed, OneSide, TypeOK
<1>6. KeyInv'
  <2>1. CASE ops' = {}
    BY <1>2, <1>4, <2>1, OneOperation DEF KeyInv
  <2>2. CASE ops' = {op}
    BY <1>2, <1>4, <1>5, <2>2, OneOperation DEF KeyInv
  <2> QED
    BY <1>2, <2>1, <2>2
<1>7. CASE Finish(p, NotCommitted(p))
  BY <1>t, <1>2, <1>6, <1>7, Ends, Outside DEF Exclusive, Writing, Recovering
<1>8. CASE /\ pc' = [pc EXCEPT ![p] = IF op.kind = "update" THEN "set" ELSE "swap"]
           /\ job' = [job EXCEPT ![p].op = op]
           /\ UNCHANGED <<view, rt, owner>>
           /\ ops' = {op}
  <2>1. job'[p] = [job[p] EXCEPT !.op = op]
    BY <1>t, <1>8 DEF TypeOK
  <2>2. job'[p].op = op
    BY <1>t, <2>1 DEF Job
  <2>3. pc'[p] = IF op.kind = "update" THEN "set" ELSE "swap"
    BY <1>t, <1>8 DEF TypeOK
  <2>4. Progress(p)'
    BY <1>1, <1>2, <1>3, <1>8, <2>2, <2>3 DEF Progress
  <2>5. Phase(p)'
    BY <2>3, <2>4 DEF Phase, Recovering
  <2> QED
    BY <1>6, <2>5
<1> QED
  BY <1>1, <1>2, <1>7, <1>8 DEF BeginOperation, Replace, Replaced

\* The other steps leave the journal as it is, and begin at most a recovery.
LEMMA OtherStep ==
  ASSUME Inv, NEW p \in Procs,
         \/ Open(p) \/ SaveSettings(p) \/ RefuseSave(p) \/ Reacquire(p) \/ StartTurn(p)
         \/ EndTurn(p) \/ ChildDies(p) \/ ShowSettings(p) \/ Die(p) \/ Launch(p)
  PROVE  KeyInv' /\ Phase(p)'
<1>t. TypeOK /\ OwnerInv /\ MemoryInv /\ KeyInv /\ Phase(p) /\ Step(p)
  BY DEF Inv, PhaseInv, Step
<1>f. UNCHANGED files => KeyInv'
  BY <1>t DEF files, KeyInv
<1>e. ASSUME UNCHANGED seen,
             \/ \E v : Finish(p, v)
             \/ \E v : FinishStopped(p, v)
             \/ \E s : FinishPersisted(p, s)
      PROVE  Phase(p)'
  BY <1>e, <1>t, Ends, Outside DEF Exclusive, Writing, Recovering
<1>1. CASE Open(p)
  <2>1. KeyInv'
    BY <1>1, <1>f DEF Open
  <2>2. CASE pc' = pc
    BY <1>1, <2>1, <2>2, Outside DEF Open, Exclusive, Writing, Recovering
  <2>3. CASE /\ pc' = [pc EXCEPT ![p] = "recover"]
             /\ job' = [job EXCEPT ![p] = [NoJob EXCEPT !.todo = ops, !.cur = settings]]
    <3>1. /\ pc'[p] = "recover" /\ job'[p].todo = ops /\ job'[p].cur = settings
          /\ ops' = ops /\ settings' = settings
      BY <1>1, <1>t, <2>3 DEF Open, files, TypeOK, NoJob
    <3> QED
      BY <2>1, <3>1 DEF Phase, Recovery, Writing, Recovering
  <2> QED
    BY <1>1, <2>2, <2>3 DEF Open
<1>2. CASE SaveSettings(p)
  <2>1. ops = {} /\ ops' = {} /\ secrets' = secrets /\ seen' = seen
    BY <1>2 DEF SaveSettings, Admitted
  <2>2. settings'.ref = settings.ref
    <3>1. \/ settings' = settings
          \/ \E a \in {0, 1} : settings' = [settings EXCEPT !.rev = @ + 1, !.gen = @ + a]
      BY <1>2 DEF SaveSettings, Replaced
    <3>2. settings \in Settings
      BY <1>t DEF TypeOK
    <3> QED
      BY <3>1, <3>2 DEF Settings
  <2>3. KeyInv'
    BY <1>t, <2>1, <2>2, OneOperation DEF KeyInv
  <2> QED
    BY <1>2, <1>e, <2>1, <2>3 DEF SaveSettings, Replaced
<1>3. CASE RefuseSave(p)
  BY <1>3, <1>e, <1>f DEF RefuseSave, Refused
<1>4. CASE ShowSettings(p)
  <2>1. KeyInv'
    BY <1>4, <1>f DEF ShowSettings
  <2>2. seen'[p] = view[p].cached /\ UNCHANGED <<files, pc, job, view>>
    BY <1>4, <1>t DEF ShowSettings, TypeOK
  <2> QED
    BY <1>t, <2>1, <2>2 DEF Phase, Progress, Recovery, files
<1>5. CASE Reacquire(p) \/ StartTurn(p) \/ EndTurn(p) \/ ChildDies(p) \/ Die(p) \/ Launch(p)
  <2>1. UNCHANGED files
    BY <1>5 DEF Reacquire, StartTurn, EndTurn, ChildDies, Die, Launch
  <2>2. pc'[p] \in {"idle", "turn", "down"}
    BY <1>5, <1>t DEF Reacquire, StartTurn, EndTurn, ChildDies, Die, Launch, TypeOK
  <2> QED
    BY <1>f, <2>1, <2>2, Outside DEF Exclusive, Writing, Recovering
<1> QED
  BY <1>1, <1>2, <1>3, <1>4, <1>5

\* The journal, the settings and the keys fit together after every step, and
\* every process is where its operation or recovery says.
LEMMA KeyStep ==
  ASSUME Inv, NEW p \in Procs, Step(p)
  PROVE  KeyInv' /\ PhaseInv'
<1>1. KeyInv' /\ Phase(p)'
  BY OperationStep, RecoveryStep, BeginStep, OtherStep DEF Step
<1>2. Frame(p) /\ PhaseInv
  BY OwnStep DEF Inv
<1>3. ASSUME NEW q \in Procs \ {p} PROVE Phase(q)'
  <2>1. CASE UNCHANGED files
    BY <1>2, <2>1 DEF PhaseInv, Phase, Progress, Recovery, Frame, files
  <2>2. CASE ~UNCHANGED files
    <3>1. pc'[q] \notin Exclusive
      BY <1>2, <2>2, Alone DEF Frame
    <3> QED
      BY <3>1, Outside
  <2> QED
    BY <2>1, <2>2
<1> QED
  BY <1>1, <1>3 DEF PhaseInv

\* A turn's settings stay in the file while it runs.
LEMMA TurnStep ==
  ASSUME Inv, NEW p \in Procs, Step(p)
  PROVE  TurnInv'
<1>1. TypeOK /\ TurnInv /\ Frame(p) /\ AsksForLock(p)
  BY OwnStep DEF Inv
<1>2. ASSUME NEW q \in Procs \ {p}, pc'[q] = "turn" PROVE settings'.gen = rt'[q].gen
  <2>1. pc[q] = "turn" /\ rt'[q] = rt[q]
    BY <1>1, <1>2 DEF Frame
  <2>2. UNCHANGED files
    BY <2>1, Alone
  <2> QED
    BY <1>1, <2>1, <2>2 DEF TurnInv, files
<1>3. ASSUME pc'[p] = "turn" PROVE settings'.gen = rt'[p].gen
  <2>1. CASE StartTurn(p)
    BY <1>1, <1>3, <2>1 DEF StartTurn, TypeOK, files
  <2>2. CASE pc[p] = "turn" /\ ShowSettings(p)
    BY <1>1, <2>2 DEF TurnInv, ShowSettings, files
  <2>3. CASE pc[p] = "turn" /\ ChildDies(p)
    <3>1. rt'[p] = [rt[p] EXCEPT !.up = FALSE] /\ rt[p] \in Runtime
      BY <1>1, <2>3 DEF ChildDies, TypeOK
    <3>2. rt'[p].gen = rt[p].gen
      BY <3>1 DEF Runtime
    <3> QED
      BY <1>1, <2>3, <3>2 DEF TurnInv, ChildDies, files
  <2> QED
    BY <1>1, <1>3, <2>1, <2>2, <2>3 DEF AsksForLock
<1> QED
  BY <1>2, <1>3 DEF TurnInv

-----------------------------------------------------------------------------
(* The theorems.                                                            *)

\* The invariant holds at the start, with nothing stored and nobody at work.
LEMMA InitInv == Init => Inv
<1> SUFFICES ASSUME Init PROVE Inv
  OBVIOUS
<1>1. TypeOK
  BY Values, CredentialAssumption DEF Init, TypeOK
<1>2. LockInv /\ OwnerInv /\ PhaseInv /\ TurnInv
  BY DEF Init, LockInv, OwnerInv, PhaseInv, Phase, TurnInv, Exclusive, Writing, Recovering,
     NoRuntime
<1>3. MemoryInv
  BY DEF Init, MemoryInv, Older, SameKey, Default, NoRuntime, FreshView
<1>4. KeyInv
  BY DEF Init, KeyInv, Sound, Default
<1> QED
  BY <1>1, <1>2, <1>3, <1>4 DEF Inv

\* Every step keeps the invariant.
LEMMA NextInv == Inv /\ [Next]_vars => Inv'
<1> SUFFICES ASSUME Inv, [Next]_vars PROVE Inv'
  OBVIOUS
<1>1. CASE UNCHANGED vars
  BY <1>1 DEF vars, Inv, TypeOK, LockInv, OwnerInv, MemoryInv, Older, SameKey, KeyInv, PhaseInv,
     Phase, Progress, Recovery, TurnInv
<1>2. ASSUME NEW p \in Procs, Step(p) PROVE Inv'
  BY <1>2, TypeStep, LockStep, OwnerStep, MemoryStep, KeyStep, TurnStep DEF Inv
<1> QED
  BY <1>1, <1>2 DEF Next

\* The invariant of the journal, the locks and the memories of the processes.
THEOREM Invariance == Spec => []Inv
  BY InitInv, NextInv, PTL DEF Spec

\* The journal names every key that the settings do not, and a recovery can
\* always judge what it finds: for any number of processes, faults and deaths.
THEOREM JournalSoundness == Spec => []JournalIsSound
<1>1. Inv => JournalIsSound
  BY KeyFacts DEF Inv, JournalIsSound
<1> QED
  BY <1>1, Invariance, PTL

\* The key the settings name exists, whatever failed and whoever died.
THEOREM KeyExists == Spec => []NamedKeyExists
<1>1. Inv => NamedKeyExists
  BY KeyFacts DEF Inv
<1> QED
  BY <1>1, Invariance, PTL

\* A turn works with the settings and the key that are in the file.
THEOREM TurnSettings == Spec => []TurnKeepsItsSettings
<1>1. Inv => TurnKeepsItsSettings
  BY DEF Inv, TurnInv, MemoryInv, SameKey, TurnKeepsItsSettings
<1> QED
  BY <1>1, Invariance, PTL

\* Only the owner replaces settings, and only settings its page has seen.
THEOREM SavesSeeSettings == Spec => NoBlindSave
<1>1. Inv /\ [Next]_vars => [settings' # settings =>
          \E p \in Procs :
             /\ Owns(p)
             /\ \/ pc[p] = "recoverSwap"
                \/ settings.rev = seen[p].rev /\ settings.ref = seen[p].ref]_vars
  <2> SUFFICES ASSUME Inv, NEW p \in Procs, Step(p), settings' # settings
               PROVE  /\ Owns(p)
                      /\ \/ pc[p] = "recoverSwap"
                         \/ settings.rev = seen[p].rev /\ settings.ref = seen[p].ref
    BY DEF Next
  <2>1. SaveSettings(p) \/ SwapSettings(p) \/ RecoverSwap(p)
    BY DEF Step, Open, RecoverNext, RecoverDelete, RecoverComplete, Recovered, RefuseSave,
       UpdateCredential, DeleteCredential, BeginOperation, SetKey, UndoKey, MarkSwapped,
       DeleteOldKey, CompleteOperation, Reacquire, StartTurn, EndTurn, ChildDies,
       ShowSettings, Die, Launch, Replace, files
  <2>2. CASE SaveSettings(p)
    BY <2>2 DEF SaveSettings, Admitted
  <2>3. CASE SwapSettings(p)
    <3>1. owner = p
      BY <2>3 DEF SwapSettings, Inv, OwnerInv, Exclusive, Writing
    <3>2. settings.rev = seen[p].rev
      BY <2>3 DEF SwapSettings, Inv, PhaseInv, Phase, Progress, Writing
    <3> QED
      BY <3>1, <3>2 DEF Owns, Inv, MemoryInv, Older
  <2>4. CASE RecoverSwap(p)
    BY <2>4 DEF RecoverSwap, Inv, OwnerInv, Owns, Exclusive, Recovering
  <2> QED
    BY <2>1, <2>2, <2>3, <2>4
<1> QED
  BY <1>1, Invariance, PTL DEF Spec, NoBlindSave

=============================================================================
