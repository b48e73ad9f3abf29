---- MODULE UpdateHandshakeProofs ----
(***************************************************************************)
(* For every number of applications, helpers, updates and troubles: nobody *)
(* edits with anything but the settled version on disk, the files change   *)
(* only under a helper that is alone with all three leases, no editor is   *)
(* killed for a commit that is not on disk, and the records a start reads  *)
(* stay sound: no sweep takes what a helper still works on.                *)
(*                                                                         *)
(* The first invariant, Inv, has four parts. Shapes says what the records  *)
(* look like; HoldInv which lease each place of a process implies;         *)
(* RecordInv what a helper's place says of the journal and of the files;   *)
(* AppInv what an application's place says of them, and a helper's of its  *)
(* child. The first lemmas are about a process that ends, which happens    *)
(* anywhere; the next say what a step of an application or of a helper     *)
(* must respect (AppStep, HelperStep, HelperWorks); each action then cites *)
(* one of them. The second, KeptInv, says which transaction belongs to     *)
(* which application and helper, and that its directory outlives their     *)
(* work; it stands in the second half, with the types of all variables.    *)
(***************************************************************************)
EXTENDS UpdateHandshake, FiniteSetTheorems, TLAPS

\* The fields of an application's record, and of a helper's.
AppFields == {"pc", "image", "waited", "again", "restarted", "txn", "helper", "told"}
HelperFields == {"pc", "mode", "txn", "parent", "heard", "report", "child", "healthy",
                 "behind", "launched"}

\* Where an application has the runtime lease, and where a helper has which leases.
Inside == {"admitted", "limited", "reporting", "editing", "preparing", "abandoning",
           "quitting"}
Gated == {"prepared", "recover", "waiting", "apply", "begin", "unstarted", "start", "replace",
          "replacing", "await", "launch", "health", "commit", "notify", "stop", "stopping",
          "reacquire", "undo", "restore", "restoring", "restored", "require", "end"}
Alone == {"apply", "begin", "unstarted", "start", "replace", "replacing", "await", "launch",
          "undo", "restore", "restoring", "restored"}

\* Where a helper has not started a child yet.
Before == {"hello", "gate", "prepared", "recover", "waiting", "apply", "begin", "unstarted",
           "start", "replace", "replacing", "await", "launch"}

\* What the records look like.
Shapes ==
  /\ DOMAIN app = Apps /\ \A a \in Apps : DOMAIN app[a] = AppFields
  /\ DOMAIN helper = Helpers /\ \A h \in Helpers : DOMAIN helper[h] = HelperFields
  /\ \A h \in Helpers : /\ helper[h].child \in Apps \cup {None}
                        /\ helper[h].pc # "off" => helper[h].txn \in Txns
  /\ lease \in [Kinds -> Procs \cup {None}] /\ shared \subseteq Apps
  /\ journal \in [Txns -> Live \cup {"none", "committed", "rolled_back", "required"}]
  /\ next \in Nat \ {0}

\* Which leases the place of a process implies; runtime is shared or exclusive.
HoldInv ==
  /\ shared = {} \/ lease["runtime"] = None
  /\ \A a \in Apps : /\ app[a].pc \in Inside => a \in shared
                     /\ app[a].pc \in {"sweep2", "sweeping"} => lease["transaction"] = a
  /\ \A h \in Helpers :
       /\ helper[h].pc \in Gated \cup {"gate"} => lease["transaction"] = h
       /\ helper[h].pc \in Gated => lease["startup"] = h
       /\ helper[h].pc \in Alone => lease["runtime"] = h

\* What the place of a helper says of the journal of its transaction, of the
\* files, and of its child.
Agrees(h) ==
  LET t == helper[h].txn
      pc == helper[h].pc
  IN  /\ pc = "begin" => \A u \in Txns : journal[u] = "none"
      /\ pc = "start" => journal[t] = "prepared"
      /\ pc \in {"replace", "replacing", "await"} => journal[t] = "applying"
      /\ pc \in {"launch", "health", "commit"} => journal[t] = "awaiting"
      /\ pc = "notify" => journal[t] = "committed"
      /\ pc \in {"stop", "stopping", "reacquire", "undo", "require"} =>
            journal[t] \in Live \/ helper[h].behind
      /\ pc \in {"restore", "restoring", "restored"} => journal[t] = "rolling_back"
      /\ pc \in {"await", "launch", "health", "commit"} => installed = t
      /\ pc = "end" /\ helper[h].child # None =>
            journal[t] \in Live \cup {"required"} \/ helper[h].behind
      /\ helper[h].child # None =>
            pc \in {"health", "commit", "notify", "stop", "stopping", "require", "end"}

\* There is one journal, and one that is committed is what is on disk.
RecordInv ==
  /\ \A t, u \in Txns : journal[t] # "none" /\ journal[u] # "none" => t = u
  /\ \A t \in Txns : journal[t] = "committed" => installed = t
  /\ \A h \in Helpers : Agrees(h)

\* No update is under way, and none waits for a person.
NoneOpen == \A t \in Txns : journal[t] \notin Live \cup {"required"}

\* A child that has not got its share of the runtime lease yet, and one that
\* answers to its helper.
Entering == {"entry", "taking", "taken"}
Child == Entering \cup {"limited", "reporting"}
USE DEF Entering, Child

\* What the place of an application says of its image, of the journals and of
\* what it was told; one that asked for an update has asked a helper.
Stands(a) ==
  /\ app[a].pc \in Child =>
        app[a].txn \in Txns /\ app[a].image = app[a].txn
  /\ app[a].pc = "admitted" \/ a \in Running => NoneOpen
  /\ a \in Running => installed = app[a].image
  /\ app[a].pc \in {"limited", "reporting"} /\ app[a].told = "commit" =>
        journal[app[a].txn] = "committed"
  /\ app[a].pc \in Entering => app[a].told # "commit"
  /\ app[a].pc \in {"preparing", "abandoning"} => app[a].helper \in Helpers

\* A child runs, has one creator, answers for its creator's transaction, and was
\* not found healthy before it answered.
Answers(h) ==
  LET c == helper[h].child IN
  /\ c # None =>
       /\ app[c].pc # "off"
       /\ app[c].pc \in Child => app[c].txn = helper[h].txn
       /\ helper[h].pc \in {"commit", "notify"} \/ helper[h].healthy =>
            app[c].pc \notin Entering
       /\ \A g \in Helpers : helper[g].child = c => g = h
  /\ helper[h].pc \in Before => ~helper[h].healthy

AppInv == (\A a \in Apps : Stands(a)) /\ (\A h \in Helpers : Answers(h))

Inv == Shapes /\ HoldInv /\ RecordInv /\ AppInv

-----------------------------------------------------------------------------
(* A process ends. *)

\* Closing the pipes to an application changes no helper's place, transaction,
\* record or health answer, and leaves it no child that ended.
LEMMA OrphanedOK ==
  ASSUME Shapes, NEW x, NEW h \in Helpers
  PROVE  /\ DOMAIN Orphaned(x)[h] = HelperFields
         /\ Orphaned(x)[h].pc = helper[h].pc
         /\ Orphaned(x)[h].pc # "off" => /\ Orphaned(x)[h].txn = helper[h].txn
                                         /\ Orphaned(x)[h].behind = helper[h].behind
                                         /\ Orphaned(x)[h].healthy = helper[h].healthy
         /\ Orphaned(x)[h].child \in {helper[h].child, None}
         /\ x # None => Orphaned(x)[h].child # x
<1>1. CASE x \in Apps /\ app[x].helper = h /\ helper[h].pc = "off"
  BY <1>1, SMT DEF Orphaned, Idle, HelperFields, Shapes
<1>2. CASE ~(x \in Apps /\ app[x].helper = h /\ helper[h].pc = "off")
  <2> DEFINE s == helper[h]
             p == IF s.parent = x THEN None ELSE s.parent
             r == IF x # None /\ s.parent = x /\ s.heard = "nothing" THEN "closed"
                  ELSE s.heard
             c == IF s.child = x THEN None ELSE s.child
  <2>1. Orphaned(x)[h] = [s EXCEPT !.parent = p, !.heard = r, !.child = c]
    BY <1>2 DEF Orphaned
  <2>2. DOMAIN s = HelperFields
    BY DEF Shapes
  <2> HIDE DEF s, p, r
  <2>3. /\ DOMAIN Orphaned(x)[h] = HelperFields
        /\ Orphaned(x)[h].pc = s.pc /\ Orphaned(x)[h].txn = s.txn
        /\ Orphaned(x)[h].behind = s.behind /\ Orphaned(x)[h].child = c
        /\ Orphaned(x)[h].healthy = s.healthy
    BY <2>1, <2>2 DEF HelperFields
  <2> QED
    BY <2>3 DEF s
<1> QED
  BY <1>1, <1>2

\* An application that ends, whatever it was doing, leaves the invariant: its
\* leases go, no file changes (AppEnds).
LEMMA AppLeaves ==
  ASSUME Inv, NEW a \in Apps, AppEnds(a), UNCHANGED <<journal, installed, next>>
  PROVE  Inv'
<1> USE ProcessesAssumption DEF Inv
<1>1. /\ \A b \in Apps \ {a} : app'[b] = app[b]
      /\ DOMAIN app' = Apps /\ app'[a] = Off
      /\ lease' = Released(a, Kinds) /\ shared' = shared \ {a}
  BY DEF AppEnds, Shapes
<1>2. /\ DOMAIN helper' = Helpers
      /\ \A h \in Helpers :
           /\ DOMAIN helper'[h] = HelperFields
           /\ helper'[h].pc = helper[h].pc
           /\ helper'[h].pc # "off" => /\ helper'[h].txn = helper[h].txn
                                       /\ helper'[h].behind = helper[h].behind
                                       /\ helper'[h].healthy = helper[h].healthy
           /\ helper'[h].child \in {helper[h].child, None} /\ helper'[h].child # a
  <2>1. helper' = Orphaned(a) /\ a # None
    BY DEF AppEnds
  <2>2. DOMAIN Orphaned(a) = Helpers
    BY DEF Orphaned
  <2> QED
    BY <2>1, <2>2, OrphanedOK
<1>3. Shapes'
  BY <1>1, <1>2 DEF Shapes, Off, AppFields, Released, Kinds
<1>4. HoldInv'
  BY <1>1, <1>2 DEF Shapes, HoldInv, Off, Released, Kinds, Inside, Gated, Alone
<1>5. RecordInv'
  <2>1. ASSUME NEW h \in Helpers
        PROVE  Agrees(h)'
    <3>1. Agrees(h)
      BY DEF RecordInv
    <3> QED
      BY <1>2, <3>1 DEF Agrees
  <2> QED
    BY <2>1 DEF RecordInv
<1>6. AppInv'
  <2>1. ASSUME NEW h \in Helpers
        PROVE  Answers(h)'
    <3>1. helper'[h].child # None =>
             helper'[h].child = helper[h].child /\ helper[h].pc # "off"
      BY <1>2 DEF RecordInv, Agrees
    <3>2. Answers(h)
      BY DEF AppInv
    <3>3. helper'[h].pc \in Before => ~helper'[h].healthy
      BY <1>2, <3>2 DEF Answers, Before
    <3>4. helper'[h].child # None =>
            helper'[h].child \in Apps /\ app'[helper'[h].child] = app[helper'[h].child]
      BY <1>1, <1>2, <3>1 DEF Shapes
    <3> QED
      BY <1>2, <3>1, <3>2, <3>3, <3>4 DEF Answers
  <2>2. ASSUME NEW b \in Apps
        PROVE  Stands(b)'
    <3>1. CASE b = a
      BY <1>1, <3>1 DEF Stands, Running, Off
    <3>2. CASE b # a
      <4>1. Stands(b) /\ app'[b] = app[b] /\ (b \in Running' <=> b \in Running)
            /\ NoneOpen' = NoneOpen
        BY <1>1, <3>2 DEF AppInv, Running, NoneOpen
      <4> QED
        BY <4>1 DEF Stands
    <3> QED
      BY <3>1, <3>2
  <2> QED
    BY <2>1, <2>2 DEF AppInv
<1> QED
  BY <1>3, <1>4, <1>5, <1>6

\* A helper that ends its child, to roll back or because its work is done,
\* leaves the invariant (stop_and_release_lease, ProcessChild::drop).
LEMMA ChildLeaves ==
  ASSUME Inv, NEW h \in Helpers, NEW pc \in {"reacquire", "leaving"},
         helper[h].pc \in {"stopping", "end"},
         pc = "reacquire" => helper[h].pc = "stopping",
         app' = [a \in Apps |-> IF a = helper[h].child THEN Off ELSE app[a]],
         shared' = shared \ {helper[h].child},
         lease' \in [Kinds -> Procs \cup {None}],
         \A k \in Kinds : lease'[k] = lease[k] \/ lease'[k] = None,
         \A g \in Procs \ {h, helper[h].child}, k \in Kinds :
            lease[k] = g => lease'[k] = g,
         pc = "reacquire" => \A k \in {"transaction", "startup"} : lease'[k] = h,
         DOMAIN helper' = Helpers,
         \A g \in Helpers \ {h} : helper'[g] = Orphaned(helper[h].child)[g],
         DOMAIN helper'[h] = HelperFields, helper'[h].pc = pc,
         helper'[h].child = None,
         helper'[h].txn = helper[h].txn, helper'[h].behind = helper[h].behind,
         helper'[h].healthy = helper[h].healthy,
         UNCHANGED <<journal, installed, next>>
  PROVE  Inv'
<1> USE ProcessesAssumption DEF Inv
<1> DEFINE child == helper[h].child
<1>1. /\ DOMAIN app' = Apps /\ child \in Apps \cup {None}
      /\ \A a \in Apps : app'[a] = IF a = child THEN Off ELSE app[a]
  BY DEF Shapes
<1>2. \A g \in Helpers \ {h} :
           /\ DOMAIN helper'[g] = HelperFields
           /\ helper'[g].pc = helper[g].pc
           /\ helper'[g].pc # "off" => /\ helper'[g].txn = helper[g].txn
                                       /\ helper'[g].behind = helper[g].behind
                                       /\ helper'[g].healthy = helper[g].healthy
           /\ helper'[g].child \in {helper[g].child, None}
           /\ child # None => helper'[g].child # child
  BY OrphanedOK
<1>3. Shapes'
  BY <1>1, <1>2 DEF Shapes, Off, AppFields
<1>4. HoldInv'
  <2>1. shared' = {} \/ lease'["runtime"] = None
    BY DEF HoldInv, Kinds
  <2>2. \A a \in Apps : /\ app'[a].pc \in Inside => a \in shared'
                        /\ app'[a].pc \in {"sweep2", "sweeping"} => lease'["transaction"] = a
    BY <1>1 DEF HoldInv, Off, Inside, Procs, Kinds
  <2>3. ASSUME NEW g \in Helpers
        PROVE  /\ helper'[g].pc \in Gated \cup {"gate"} => lease'["transaction"] = g
               /\ helper'[g].pc \in Gated => lease'["startup"] = g
               /\ helper'[g].pc \in Alone => lease'["runtime"] = g
    <3>1. g # h => g \in Procs \ {h, child}
      BY <1>1 DEF Procs
    <3> QED
      BY <3>1, <1>2 DEF HoldInv, Gated, Alone, Kinds
  <2> QED
    BY <2>1, <2>2, <2>3 DEF HoldInv
<1>5. RecordInv'
  <2>1. ASSUME NEW g \in Helpers
        PROVE  Agrees(g)'
    <3>1. Agrees(g)
      BY DEF RecordInv
    <3>2. CASE g = h
      BY <3>1, <3>2 DEF Agrees
    <3>3. CASE g # h
      BY <1>2, <3>1, <3>3 DEF Agrees
    <3> QED
      BY <3>2, <3>3
  <2> QED
    BY <2>1 DEF RecordInv
<1>6. AppInv'
  <2>1. ASSUME NEW g \in Helpers
        PROVE  Answers(g)'
    <3>1. helper'[g].child # None =>
             /\ g # h /\ helper'[g].child = helper[g].child /\ helper[g].pc # "off"
             /\ helper'[g].child # child
      BY <1>2 DEF RecordInv, Agrees
    <3>2. Answers(g)
      BY DEF AppInv
    <3>3. helper'[g].pc \in Before => ~helper'[g].healthy
      <4>1. CASE g = h
        BY <4>1 DEF Before
      <4>2. CASE g # h
        BY <1>2, <3>2, <4>2 DEF Answers, Before
      <4> QED
        BY <4>1, <4>2
    <3>4. helper'[g].child # None =>
            helper'[g].child \in Apps /\ app'[helper'[g].child] = app[helper'[g].child]
      BY <1>1, <3>1 DEF Shapes
    <3>5. \A f \in Helpers : helper'[f].child # None => helper'[f].child = helper[f].child
      BY <1>2
    <3> QED
      BY <1>2, <3>1, <3>2, <3>3, <3>4, <3>5 DEF Answers
  <2>2. ASSUME NEW b \in Apps
        PROVE  Stands(b)'
    <3>1. CASE b = child
      BY <1>1, <3>1 DEF Stands, Running, Off
    <3>2. CASE b # child
      <4>1. Stands(b) /\ app'[b] = app[b] /\ (b \in Running' <=> b \in Running)
            /\ NoneOpen' = NoneOpen
        BY <1>1, <3>2 DEF AppInv, Running, NoneOpen
      <4> QED
        BY <4>1 DEF Stands
    <3> QED
      BY <3>1, <3>2
  <2> QED
    BY <2>1, <2>2 DEF AppInv
<1> QED
  BY <1>3, <1>4, <1>5, <1>6

-----------------------------------------------------------------------------
(* What a step of one process must respect, whichever step it is. *)

\* A helper that another process's step leaves where it is, with its leases; or
\* that it starts, or ends.
Kept(h) ==
  /\ helper'[h].pc = helper[h].pc /\ helper'[h].txn = helper[h].txn
  /\ helper'[h].child = helper[h].child /\ helper'[h].behind = helper[h].behind
  /\ helper'[h].healthy = helper[h].healthy
  /\ \A k \in Kinds : lease[k] = h => lease'[k] = h
Renewed(h) ==
  /\ helper'[h].pc \in {"off", "hello"} /\ helper'[h].child = None
  /\ ~helper'[h].healthy
  /\ helper'[h].pc = "hello" => helper'[h].txn \in Txns

\* A step of an application keeps the invariant if the application has what its
\* new place asks for, and nobody else loses anything.
LEMMA AppStep ==
  ASSUME Inv, NEW a \in Apps,
         DOMAIN app' = Apps, DOMAIN app'[a] = AppFields,
         \A b \in Apps \ {a} : app'[b] = app[b],
         app'[a].pc # "off",
         app'[a].pc \in Entering => app[a].pc \in Entering,
         app'[a].pc \in Child =>
           /\ app[a].pc \in Child /\ app'[a].txn = app[a].txn
           /\ app'[a].image = app[a].image /\ app'[a].told = app[a].told,
         app'[a].pc = "admitted" \/ a \in Running' => NoneOpen,
         a \in Running' => installed = app'[a].image,
         app'[a].pc \in {"preparing", "abandoning"} => app'[a].helper \in Helpers,
         lease' \in [Kinds -> Procs \cup {None}], shared' \subseteq Apps,
         shared' = {} \/ lease'["runtime"] = None,
         \A b \in Apps \ {a} : /\ b \in shared => b \in shared'
                               /\ lease["transaction"] = b => lease'["transaction"] = b,
         app'[a].pc \in Inside => a \in shared',
         app'[a].pc \in {"sweep2", "sweeping"} => lease'["transaction"] = a,
         DOMAIN helper' = Helpers,
         \A g \in Helpers : DOMAIN helper'[g] = HelperFields /\ (Kept(g) \/ Renewed(g)),
         UNCHANGED <<journal, installed>>, next' \in Nat \ {0}
  PROVE  Inv'
<1> USE ProcessesAssumption
<1>1. Shapes /\ HoldInv /\ RecordInv /\ AppInv
  BY DEF Inv
<1>2. \A b \in Apps : DOMAIN app'[b] = AppFields
  BY <1>1 DEF Shapes
<1>3. ASSUME NEW g \in Helpers
      PROVE  /\ helper'[g].child \in Apps \cup {None}
             /\ helper'[g].pc # "off" => helper'[g].txn \in Txns
  BY <1>1 DEF Shapes, Kept, Renewed
<1>4. Shapes'
  BY <1>1, <1>2, <1>3 DEF Shapes
<1>5. HoldInv'
  <2>1. ASSUME NEW b \in Apps
        PROVE  /\ app'[b].pc \in Inside => b \in shared'
               /\ app'[b].pc \in {"sweep2", "sweeping"} => lease'["transaction"] = b
    BY <1>1 DEF HoldInv
  <2>2. ASSUME NEW g \in Helpers
        PROVE  /\ helper'[g].pc \in Gated \cup {"gate"} => lease'["transaction"] = g
               /\ helper'[g].pc \in Gated => lease'["startup"] = g
               /\ helper'[g].pc \in Alone => lease'["runtime"] = g
    <3>1. CASE Kept(g)
      BY <1>1, <3>1 DEF HoldInv, Kept, Kinds
    <3>2. CASE Renewed(g)
      BY <3>2 DEF Renewed, Gated, Alone
    <3> QED
      BY <3>1, <3>2
  <2> QED
    BY <2>1, <2>2 DEF HoldInv
<1>6. RecordInv'
  <2>1. ASSUME NEW g \in Helpers
        PROVE  Agrees(g)'
    <3>1. CASE Kept(g)
      BY <1>1, <3>1 DEF RecordInv, Agrees, Kept
    <3>2. CASE Renewed(g)
      BY <3>2 DEF Agrees, Renewed
    <3> QED
      BY <3>1, <3>2
  <2> QED
    BY <1>1, <2>1 DEF RecordInv
<1>7. AppInv'
  <2>1. ASSUME NEW b \in Apps
        PROVE  Stands(b)'
    <3>1. Stands(b) /\ NoneOpen' = NoneOpen
      BY <1>1 DEF AppInv, NoneOpen
    <3>2. CASE b = a
      BY <3>1, <3>2 DEF Stands, Running
    <3>3. CASE b # a
      <4>1. app'[b] = app[b] /\ (b \in Running' <=> b \in Running)
        BY <3>3 DEF Running
      <4> QED
        BY <3>1, <4>1 DEF Stands
    <3> QED
      BY <3>2, <3>3
  <2>2. \A g \in Helpers : helper'[g].child # None => Kept(g)
    BY DEF Renewed
  <2>3. ASSUME NEW g \in Helpers
        PROVE  Answers(g)'
    <3>1. Answers(g)
      BY <1>1 DEF AppInv
    <3>2. CASE Renewed(g)
      BY <3>2 DEF Renewed, Answers
    <3>3. CASE Kept(g)
      <4>1. helper[g].child # None => helper[g].child \in Apps
        BY <1>1 DEF Shapes
      <4>2. \A b \in Apps : /\ app'[b].pc = "off" => app[b].pc = "off"
                            /\ app'[b].pc \in Entering => app[b].pc \in Entering
                            /\ app'[b].pc \in Child =>
                                 /\ app[b].pc \in Child
                                 /\ app'[b].txn = app[b].txn
        OBVIOUS
      <4>3. \A f \in Helpers : helper'[f].child # None => helper'[f].child = helper[f].child
        BY <2>2 DEF Kept
      <4> QED
        BY <3>1, <3>3, <4>1, <4>2, <4>3 DEF Answers, Kept
    <3> QED
      BY <3>2, <3>3
  <2> QED
    BY <2>1, <2>3 DEF AppInv
<1> QED
  BY <1>4, <1>5, <1>6, <1>7 DEF Inv

\* A step of a helper that leaves the journals and the files alone keeps the
\* invariant if the helper has what its new place asks for; what it tells its
\* child is true.
LEMMA HelperStep ==
  ASSUME Inv, NEW h \in Helpers,
         DOMAIN app' = Apps,
         \A a \in Apps :
           /\ DOMAIN app'[a] = AppFields /\ app'[a].pc = app[a].pc
           /\ app'[a].txn = app[a].txn /\ app'[a].image = app[a].image
           /\ app'[a].helper = app[a].helper
           /\ \/ app'[a].told = app[a].told \/ app'[a].told = "closed"
              \/ a = helper[h].child /\ helper[h].pc = "notify",
         DOMAIN helper' = Helpers, DOMAIN helper'[h] = HelperFields,
         \A g \in Helpers \ {h} : helper'[g] = helper[g],
         helper'[h].child \in {helper[h].child, None},
         helper'[h].pc # "off" => helper'[h].txn = helper[h].txn /\ helper[h].pc # "off",
         helper'[h].pc \in {"commit", "notify"} \/ helper'[h].healthy =>
           helper[h].pc \in {"commit", "notify"} \/ helper[h].healthy,
         helper'[h].pc \in Before => ~helper'[h].healthy,
         lease' \in [Kinds -> Procs \cup {None}],
         \A g \in Procs \ {h}, k \in Kinds : lease[k] = g => lease'[k] = g,
         shared = {} \/ lease'["runtime"] = None,
         helper'[h].pc \in Gated \cup {"gate"} => lease'["transaction"] = h,
         helper'[h].pc \in Gated => lease'["startup"] = h,
         helper'[h].pc \in Alone => lease'["runtime"] = h,
         Agrees(h)',
         UNCHANGED <<shared, journal, installed, next>>
  PROVE  Inv'
<1> USE ProcessesAssumption
<1>1. Shapes /\ HoldInv /\ RecordInv /\ AppInv
  BY DEF Inv
<1>2. ASSUME NEW g \in Helpers
      PROVE  /\ DOMAIN helper'[g] = HelperFields
             /\ helper'[g].child \in Apps \cup {None}
             /\ helper'[g].pc # "off" => helper'[g].txn \in Txns
  BY <1>1 DEF Shapes
<1>3. Shapes'
  BY <1>1, <1>2 DEF Shapes
<1>4. HoldInv'
  <2>1. ASSUME NEW a \in Apps
        PROVE  /\ app'[a].pc \in Inside => a \in shared'
               /\ app'[a].pc \in {"sweep2", "sweeping"} => lease'["transaction"] = a
    <3>1. a \in Procs \ {h} /\ "transaction" \in Kinds
      BY DEF Procs, Kinds
    <3> QED
      BY <1>1, <3>1 DEF HoldInv
  <2>2. ASSUME NEW g \in Helpers
        PROVE  /\ helper'[g].pc \in Gated \cup {"gate"} => lease'["transaction"] = g
               /\ helper'[g].pc \in Gated => lease'["startup"] = g
               /\ helper'[g].pc \in Alone => lease'["runtime"] = g
    <3>1. CASE g = h
      BY <3>1
    <3>2. CASE g # h
      <4>1. g \in Procs \ {h} /\ helper'[g] = helper[g]
        BY <3>2 DEF Procs
      <4> QED
        BY <1>1, <4>1 DEF HoldInv, Kinds
    <3> QED
      BY <3>1, <3>2
  <2> QED
    BY <2>1, <2>2 DEF HoldInv
<1>5. RecordInv'
  <2>1. ASSUME NEW g \in Helpers, g # h
        PROVE  Agrees(g)'
    BY <1>1, <2>1 DEF RecordInv, Agrees
  <2> QED
    BY <1>1, <2>1 DEF RecordInv
<1>6. AppInv'
  <2>1. ASSUME NEW a \in Apps
        PROVE  Stands(a)'
    <3>1. Stands(a) /\ NoneOpen' = NoneOpen /\ (a \in Running' <=> a \in Running)
      BY <1>1 DEF AppInv, NoneOpen, Running
    <3>2. CASE a = helper[h].child /\ helper[h].pc = "notify"
      <4>1. Answers(h) /\ Agrees(h) /\ a # None
        BY <1>1 DEF AppInv, RecordInv
      <4>2. app[a].pc \notin Entering
            /\ (app[a].pc \in {"limited", "reporting"} => journal[app[a].txn] = "committed")
        BY <3>2, <4>1 DEF Answers, Agrees
      <4> QED
        BY <3>1, <4>2 DEF Stands
    <3>3. CASE ~(a = helper[h].child /\ helper[h].pc = "notify")
      BY <3>1, <3>3 DEF Stands
    <3> QED
      BY <3>2, <3>3
  <2>2. \A f \in Helpers : helper'[f].child # None => helper'[f].child = helper[f].child
    OBVIOUS
  <2>3. ASSUME NEW g \in Helpers
        PROVE  Answers(g)'
    <3>1. Answers(g) /\ (helper[g].child # None => helper[g].child \in Apps)
          /\ (helper[g].child # None => helper[g].pc # "off")
      BY <1>1 DEF AppInv, Shapes, RecordInv, Agrees
    <3>2. CASE g = h
      <4>1. helper'[h].child # None => helper'[h].pc # "off"
        BY DEF Agrees
      <4> QED
        BY <2>2, <3>1, <3>2, <4>1 DEF Answers
    <3>3. CASE g # h
      BY <2>2, <3>1, <3>3 DEF Answers
    <3> QED
      BY <3>2, <3>3
  <2> QED
    BY <2>1, <2>3 DEF AppInv
<1> QED
  BY <1>3, <1>4, <1>5, <1>6 DEF Inv

\* A helper that writes the journal of its transaction, or changes the files,
\* does so while its transaction is open or nobody runs: no application that is
\* admitted sees it.
LEMMA HelperWorks ==
  ASSUME Inv, NEW h \in Helpers, helper[h].pc \in Gated,
         DOMAIN helper' = Helpers, DOMAIN helper'[h] = HelperFields,
         \A g \in Helpers \ {h} : helper'[g] = helper[g],
         helper'[h].child = helper[h].child, helper'[h].txn = helper[h].txn,
         helper'[h].healthy = helper[h].healthy,
         helper'[h].pc \in Gated, helper'[h].pc \in Alone => lease["runtime"] = h,
         helper'[h].pc \in Before => helper[h].pc \in Before,
         helper'[h].pc \in {"commit", "notify"} => helper[h].pc \in {"commit", "notify"},
         Agrees(h)',
         journal' \in [Txns -> Live \cup {"none", "committed", "rolled_back", "required"}],
         \A u \in Txns \ {helper[h].txn} : journal'[u] = journal[u],
         journal[helper[h].txn] \in Live
           \/ (shared = {} /\ \A u \in Txns : journal[u] = "none"),
         journal'[helper[h].txn] = "committed" => installed' = helper[h].txn,
         installed' = installed \/ shared = {},
         UNCHANGED <<app, lease, shared, next>>
  PROVE  Inv'
<1> USE ProcessesAssumption
<1> DEFINE t == helper[h].txn
<1>1. Shapes /\ HoldInv /\ RecordInv /\ AppInv
  BY DEF Inv
<1>2. /\ helper[h].pc # "off" /\ t \in Txns
      /\ lease["transaction"] = h /\ lease["startup"] = h
  BY <1>1 DEF Gated, Shapes, HoldInv
<1>3. Shapes'
  BY <1>1, <1>2 DEF Shapes
<1>4. HoldInv'
  <2>1. ASSUME NEW g \in Helpers
        PROVE  /\ helper'[g].pc \in Gated \cup {"gate"} => lease'["transaction"] = g
               /\ helper'[g].pc \in Gated => lease'["startup"] = g
               /\ helper'[g].pc \in Alone => lease'["runtime"] = g
    BY <1>1, <1>2 DEF HoldInv
  <2> QED
    BY <1>1, <2>1 DEF HoldInv
<1>5. \A u \in Txns \ {t} : journal[u] = "none" /\ journal'[u] = "none"
  BY <1>1, <1>2 DEF RecordInv, Live
<1>6. \A g \in Helpers \ {h} : helper[g].pc \notin Gated /\ helper[g].child = None
  <2>1. ASSUME NEW g \in Helpers \ {h}
        PROVE  helper[g].pc \notin Gated /\ helper[g].child = None
    <3>1. helper[g].pc \notin Gated
      BY <1>1, <1>2 DEF HoldInv
    <3> QED
      BY <1>1, <3>1 DEF RecordInv, Agrees, Gated
  <2> QED
    BY <2>1
<1>7. RecordInv'
  <2>1. ASSUME NEW g \in Helpers, g # h
        PROVE  Agrees(g)'
    BY <1>6, <2>1 DEF Agrees, Gated
  <2> QED
    BY <1>2, <1>5, <2>1 DEF RecordInv
<1>8. AppInv'
  <2>1. ASSUME NEW a \in Apps
        PROVE  Stands(a)'
    <3>1. Stands(a)
      BY <1>1 DEF AppInv
    <3>2. app[a].pc \in Inside => journal[t] \in Live
      BY <1>1 DEF HoldInv
    <3>3. app[a].pc # "admitted" /\ a \notin Running
      BY <1>2, <3>1, <3>2 DEF Stands, NoneOpen, Running, Inside
    <3>4. ~(app[a].pc \in {"limited", "reporting"} /\ app[a].told = "commit")
      BY <1>5, <3>1, <3>2 DEF Stands, Inside, Live
    <3>5. a \notin Running'
      BY <3>3 DEF Running
    <3> QED
      BY <3>1, <3>3, <3>4, <3>5 DEF Stands
  <2>2. ASSUME NEW g \in Helpers
        PROVE  Answers(g)'
    <3>1. Answers(g)
      BY <1>1 DEF AppInv
    <3>2. CASE g = h
      BY <1>6, <3>1, <3>2 DEF Answers
    <3>3. CASE g # h
      BY <1>6, <3>1, <3>3 DEF Answers
    <3> QED
      BY <3>2, <3>3
  <2> QED
    BY <2>1, <2>2 DEF AppInv
<1> QED
  BY <1>3, <1>4, <1>7, <1>8 DEF Inv

-----------------------------------------------------------------------------
(* An application starts. *)

\* The helpers, when a step changes none of them.
LEMMA HelpersKept ==
  ASSUME Inv, UNCHANGED helper, \A g \in Helpers, k \in Kinds : lease[k] = g => lease'[k] = g
  PROVE  /\ DOMAIN helper' = Helpers
         /\ \A g \in Helpers : DOMAIN helper'[g] = HelperFields /\ (Kept(g) \/ Renewed(g))
BY DEF Inv, Shapes, Kept

\* What is left of the leases of a process that lets some go.
LEMMA ReleasedOK ==
  ASSUME Inv, NEW p, NEW kinds, lease' = Released(p, kinds)
  PROVE  /\ lease' \in [Kinds -> Procs \cup {None}]
         /\ \A k \in Kinds : lease'[k] = lease[k] \/ (lease'[k] = None /\ lease[k] = p)
         /\ \A g \in Procs \ {p}, k \in Kinds : lease[k] = g => lease'[k] = g
         /\ shared = {} \/ lease'["runtime"] = None
BY DEF Released, Inv, Shapes, HoldInv, Kinds

\* A lease that was free goes to whoever takes it; runtime only while nobody
\* shares it.
LEMMA TakeOK ==
  ASSUME Inv, NEW k \in Kinds, NEW p \in Procs, Free(k), Take(k, p),
         k = "runtime" => shared = {}
  PROVE  /\ lease' \in [Kinds -> Procs \cup {None}] /\ lease'[k] = p
         /\ \A j \in Kinds \ {k} : lease'[j] = lease[j]
         /\ \A g \in Procs, j \in Kinds : lease[j] = g => lease'[j] = g
         /\ shared = {} \/ lease'["runtime"] = None
BY ProcessesAssumption DEF Free, Take, Inv, Shapes, HoldInv, Kinds, Procs

\* A child that goes on with its entry holds no lease yet.
LEMMA EntersOn ==
  ASSUME Inv, NEW a \in Apps, app[a].pc \in Entering,
         NEW place \in Entering, Move(a, place),
         UNCHANGED <<helper, lease, shared, journal, installed, next>>
  PROVE  Inv'
<1>1. /\ DOMAIN app' = Apps /\ DOMAIN app'[a] = AppFields
      /\ \A b \in Apps \ {a} : app'[b] = app[b]
      /\ app'[a].pc = place /\ app'[a].txn = app[a].txn
      /\ app'[a].image = app[a].image /\ app'[a].told = app[a].told
  BY DEF Move, Inv, Shapes, AppFields
<1>2. /\ lease \in [Kinds -> Procs \cup {None}] /\ shared \subseteq Apps
      /\ shared = {} \/ lease["runtime"] = None
      /\ next \in Nat \ {0}
  BY DEF Inv, Shapes, HoldInv
<1> QED
  BY <1>1, <1>2, HelpersKept, AppStep DEF Running, Inside

\* A start that is no child goes on to the sweep; a child holds nothing yet
\* (detect_with).
LEMMA DetectOK ==
  ASSUME Inv, NEW a \in Apps, Detect(a)
  PROVE  Inv'
<1> USE ProcessesAssumption
<1>1. UNCHANGED <<helper, lease, shared, journal, installed, next>> /\ app[a].pc = "entry"
  BY DEF Detect, leases, used
<1>2. /\ lease \in [Kinds -> Procs \cup {None}] /\ shared \subseteq Apps
      /\ shared = {} \/ lease["runtime"] = None
      /\ next \in Nat \ {0}
  BY DEF Inv, Shapes, HoldInv
<1>3. CASE app' = [app EXCEPT ![a] = [@ EXCEPT !.pc = "sweep", !.txn = 0]]
  <2>1. /\ DOMAIN app' = Apps /\ DOMAIN app'[a] = AppFields
        /\ \A b \in Apps \ {a} : app'[b] = app[b]
        /\ app'[a].pc = "sweep"
    BY <1>3 DEF Inv, Shapes, AppFields
  <2> QED
    BY <1>1, <1>2, <2>1, HelpersKept, AppStep DEF Running, Inside
<1>4. CASE Move(a, "taking")
  BY <1>1, <1>4, EntersOn
<1> QED
  BY <1>3, <1>4 DEF Detect

\* The capability is taken, or the child ends (take_capability).
LEMMA TakeCapabilityOK ==
  ASSUME Inv, NEW a \in Apps, TakeCapability(a)
  PROVE  Inv'
<1>1. UNCHANGED <<journal, installed, next>> /\ app[a].pc = "taking"
  BY DEF TakeCapability, used
<1>2. CASE AppEnds(a)
  BY <1>1, <1>2, AppLeaves
<1>3. CASE Move(a, "taken") /\ UNCHANGED <<helper, lease, shared>>
  BY <1>1, <1>3, EntersOn
<1> QED
  BY <1>2, <1>3 DEF TakeCapability, leases

\* A child is limited to the runtime lease it shares from here on
\* (detect_with).
LEMMA JoinRuntimeOK ==
  ASSUME Inv, NEW a \in Apps, JoinRuntime(a)
  PROVE  Inv'
<1> USE ProcessesAssumption
<1>1. UNCHANGED <<journal, installed, next>> /\ app[a].pc = "taken"
  BY DEF JoinRuntime, used
<1>2. CASE AppEnds(a)
  BY <1>1, <1>2, AppLeaves
<1>3. CASE /\ Free("runtime") /\ shared' = shared \cup {a}
           /\ Move(a, "limited") /\ UNCHANGED <<helper, lease>>
  <2>1. /\ DOMAIN app' = Apps /\ DOMAIN app'[a] = AppFields
        /\ \A b \in Apps \ {a} : app'[b] = app[b]
        /\ app'[a].pc = "limited" /\ app'[a].txn = app[a].txn
        /\ app'[a].image = app[a].image /\ app'[a].told = app[a].told
    BY <1>3 DEF Move, Inv, Shapes, AppFields
  <2>2. /\ lease \in [Kinds -> Procs \cup {None}] /\ shared' \subseteq Apps
        /\ lease["runtime"] = None /\ next \in Nat \ {0}
    BY <1>3 DEF Inv, Shapes, Free
  <2> QED
    BY <1>1, <1>3, <2>1, <2>2, HelpersKept, AppStep DEF Running
<1> QED
  BY <1>2, <1>3 DEF JoinRuntime

\* An application that goes on to another place of its start, and only lets go
\* of leases.
LEMMA StartMoves ==
  ASSUME Inv, NEW a \in Apps,
         DOMAIN app' = Apps, DOMAIN app'[a] = AppFields,
         \A b \in Apps \ {a} : app'[b] = app[b],
         app'[a].pc \in {"sweep", "gate", "scan", "recovering"},
         lease' \in [Kinds -> Procs \cup {None}],
         \A p \in Procs \ {a}, k \in Kinds : lease[k] = p => lease'[k] = p,
         shared' \in {shared, shared \ {a}}, shared = {} \/ lease'["runtime"] = None,
         UNCHANGED <<helper, journal, installed, next>>
  PROVE  Inv'
<1> USE ProcessesAssumption
<1>1. \A g \in Helpers, k \in Kinds : lease[k] = g => lease'[k] = g
  BY DEF Procs
<1>2. /\ \A b \in Apps \ {a} : /\ b \in shared => b \in shared'
                               /\ lease["transaction"] = b => lease'["transaction"] = b
      /\ shared' \subseteq Apps /\ (shared' = {} \/ lease'["runtime"] = None)
      /\ next' \in Nat \ {0}
  BY DEF Procs, Kinds, Inv, Shapes
<1> QED
  BY <1>1, <1>2, HelpersKept, AppStep DEF Running, Inside

\* The sweep holds the transaction lease from its first step on.
LEMMA SweepStepOK ==
  ASSUME Inv, NEW a \in Apps, SweepStep(a)
  PROVE  Inv'
<1> USE ProcessesAssumption
<1>1. /\ UNCHANGED <<helper, shared, journal, installed, next>> /\ a \in Procs
      /\ next \in Nat \ {0} /\ shared \subseteq Apps
  BY DEF SweepStep, files, used, Procs, Inv, Shapes
<1>2. ASSUME NEW place \in {"sweep2", "sweeping", "gate"}, Move(a, place)
      PROVE  /\ DOMAIN app' = Apps /\ DOMAIN app'[a] = AppFields
             /\ \A b \in Apps \ {a} : app'[b] = app[b]
             /\ app'[a].pc = place
  BY <1>2 DEF Move, Inv, Shapes, AppFields
<1>3. CASE /\ app[a].pc = "sweep" /\ SweepMayTake("transaction")
           /\ Take("transaction", a) /\ Move(a, "sweep2")
  <2>1. /\ lease' \in [Kinds -> Procs \cup {None}] /\ lease'["transaction"] = a
        /\ \A g \in Procs, j \in Kinds : lease[j] = g => lease'[j] = g
        /\ shared = {} \/ lease'["runtime"] = None
    BY <1>1, <1>3, TakeOK DEF SweepMayTake, Kinds
  <2>2. \A g \in Helpers, k \in Kinds : lease[k] = g => lease'[k] = g
    BY <2>1 DEF Procs
  <2>3. \A b \in Apps \ {a} : /\ b \in shared => b \in shared'
                              /\ lease["transaction"] = b => lease'["transaction"] = b
    BY <1>1, <2>1 DEF Procs, Kinds
  <2> QED
    BY <1>1, <1>2, <1>3, <2>1, <2>2, <2>3, HelpersKept, AppStep DEF Running, Inside
<1>4. CASE /\ app[a].pc = "sweep2"
           /\ SweepMayTake("startup") /\ SweepMayTake("runtime")
           /\ lease' = [k \in Kinds |-> a] /\ Move(a, "sweeping")
  <2>1. /\ lease["transaction"] = a /\ lease["startup"] = None
        /\ lease["runtime"] = None /\ shared = {}
    BY <1>4 DEF SweepMayTake, Free, Inv, HoldInv
  <2>2. /\ lease' \in [Kinds -> Procs \cup {None}] /\ lease'["transaction"] = a
        /\ \A b \in Apps \ {a} : /\ b \in shared => b \in shared'
                                 /\ lease["transaction"] = b => lease'["transaction"] = b
        /\ \A g \in Helpers, k \in Kinds : lease[k] = g => lease'[k] = g
    BY <1>1, <1>4, <2>1 DEF Kinds
  <2> QED
    BY <1>1, <1>2, <1>4, <2>1, <2>2, HelpersKept, AppStep DEF Running, Inside
<1>5. CASE lease' = Released(a, Kinds) /\ Move(a, "gate")
  BY <1>1, <1>2, <1>5, ReleasedOK, StartMoves
<1> QED
  BY <1>3, <1>4, <1>5 DEF SweepStep

\* What removes staging changes neither who holds a lease nor a journal.
LEMMA SweepOK ==
  ASSUME Inv, NEW a \in Apps, Sweep(a)
  PROVE  Inv'
<1>1. /\ UNCHANGED <<helper, shared, journal, installed, next>>
      /\ lease' = Released(a, Kinds)
      /\ app' = [app EXCEPT ![a].pc = "gate"]
  BY DEF Sweep, used, Move
<1>2. /\ DOMAIN app' = Apps /\ DOMAIN app'[a] = AppFields
      /\ \A b \in Apps \ {a} : app'[b] = app[b]
      /\ app'[a].pc = "gate"
  BY <1>1 DEF Inv, Shapes, AppFields
<1> QED
  BY <1>1, <1>2, ReleasedOK, StartMoves

\* The gate is one lease more.
LEMMA TakeGateOK ==
  ASSUME Inv, NEW a \in Apps, TakeGate(a)
  PROVE  Inv'
<1>1. /\ UNCHANGED <<helper, shared, journal, installed, next>>
      /\ Free("startup") /\ Take("startup", a)
      /\ app' = [app EXCEPT ![a].pc = "scan"]
  BY DEF TakeGate, files, used, Move
<1>2. /\ DOMAIN app' = Apps /\ DOMAIN app'[a] = AppFields
      /\ \A b \in Apps \ {a} : app'[b] = app[b]
      /\ app'[a].pc = "scan"
  BY <1>1 DEF Inv, Shapes, AppFields
<1>3. /\ lease' \in [Kinds -> Procs \cup {None}]
      /\ \A g \in Procs, j \in Kinds : lease[j] = g => lease'[j] = g
      /\ shared = {} \/ lease'["runtime"] = None
  BY <1>1, TakeOK DEF Kinds, Procs
<1> QED
  BY <1>1, <1>2, <1>3, StartMoves

\* A gate found closed sends the start back to its sweep.
LEMMA NoticeUpdateOK ==
  ASSUME Inv, NEW a \in Apps, NoticeUpdate(a)
  PROVE  Inv'
<1>1. /\ UNCHANGED <<helper, lease, shared, journal, installed, next>>
      /\ app' = [app EXCEPT ![a] = [@ EXCEPT !.pc = "sweep", !.waited = TRUE,
                                             !.again = FALSE]]
  BY DEF NoticeUpdate, files, used, leases
<1>2. /\ DOMAIN app' = Apps /\ DOMAIN app'[a] = AppFields
      /\ \A b \in Apps \ {a} : app'[b] = app[b]
      /\ app'[a].pc = "sweep"
  BY <1>1 DEF Inv, Shapes, AppFields
<1>3. lease \in [Kinds -> Procs \cup {None}] /\ (shared = {} \/ lease["runtime"] = None)
  BY DEF Inv, Shapes, HoldInv
<1> QED
  BY <1>1, <1>2, <1>3, StartMoves

\* An application is admitted only while nothing is pending (startup_gate).
LEMMA ScanAdmitOK ==
  ASSUME Inv, NEW a \in Apps, ScanAdmit(a)
  PROVE  Inv'
<1> USE ProcessesAssumption
<1>1. UNCHANGED <<journal, installed, next>> /\ next \in Nat \ {0}
  BY DEF ScanAdmit, used, files, Inv, Shapes
<1>2. CASE AppEnds(a)
  BY <1>1, <1>2, AppLeaves
<1>3. CASE /\ Free("runtime")
        /\ lease' = Released(a, {"startup"}) /\ shared' = shared \cup {a}
        /\ Move(a, "admitted")
        /\ UNCHANGED helper
  <2>1. NoneOpen
    BY DEF ScanAdmit, Admits, Settled, Stops, Pending, NoneOpen
  <2>2. /\ DOMAIN app' = Apps /\ DOMAIN app'[a] = AppFields
        /\ \A b \in Apps \ {a} : app'[b] = app[b]
        /\ app'[a].pc = "admitted"
    BY <1>3 DEF Move, Inv, Shapes, AppFields
  <2>3. /\ lease' \in [Kinds -> Procs \cup {None}] /\ lease'["runtime"] = None
        /\ shared' \subseteq Apps
        /\ \A g \in Procs \ {a}, k \in Kinds : lease[k] = g => lease'[k] = g
    BY <1>3, ReleasedOK DEF Free, Inv, Shapes, Kinds
  <2>4. /\ \A g \in Helpers, k \in Kinds : lease[k] = g => lease'[k] = g
        /\ \A b \in Apps \ {a} : /\ b \in shared => b \in shared'
                                 /\ lease["transaction"] = b => lease'["transaction"] = b
        /\ a \in shared'
    BY <1>3, <2>3 DEF Procs, Kinds
  <2> QED
    BY <1>1, <1>3, <2>1, <2>2, <2>3, <2>4, HelpersKept, AppStep DEF Running
<1>4. CASE lease' = Released(a, {"startup"}) /\ UNCHANGED <<helper, shared>>
           /\ app' = [app EXCEPT ![a] = [@ EXCEPT !.pc = "sweep", !.waited = TRUE,
                                                  !.again = FALSE]]
  <2>1. /\ DOMAIN app' = Apps /\ DOMAIN app'[a] = AppFields
        /\ \A b \in Apps \ {a} : app'[b] = app[b]
        /\ app'[a].pc = "sweep"
    BY <1>4 DEF Inv, Shapes, AppFields
  <2> QED
    BY <1>1, <1>4, <2>1, ReleasedOK, StartMoves
<1> QED
  BY <1>2, <1>3, <1>4 DEF ScanAdmit

\* A helper that was not running and is created for a transaction, with a parent.
LEMMA HelperCreated ==
  ASSUME Inv, NEW h \in Helpers, helper[h].pc = "off", NEW t \in Txns, NEW a, NEW mode,
         helper' = [helper EXCEPT ![h] = [Idle EXCEPT !.pc = "hello", !.mode = mode,
                                                      !.txn = t, !.parent = a]],
         \A g \in Helpers, k \in Kinds : lease[k] = g => lease'[k] = g
  PROVE  /\ DOMAIN helper' = Helpers
         /\ \A g \in Helpers : DOMAIN helper'[g] = HelperFields /\ (Kept(g) \/ Renewed(g))
<1>1. /\ DOMAIN helper' = Helpers /\ DOMAIN helper'[h] = HelperFields
      /\ helper'[h].pc = "hello" /\ helper'[h].txn = t /\ helper'[h].child = None
      /\ helper'[h].healthy = FALSE
      /\ \A g \in Helpers \ {h} : helper'[g] = helper[g]
  BY DEF Idle, Inv, Shapes, HelperFields
<1>2. Renewed(h)
  BY <1>1 DEF Renewed
<1>3. ASSUME NEW g \in Helpers \ {h}
      PROVE  Kept(g) /\ DOMAIN helper'[g] = HelperFields
  BY <1>1 DEF Kept, Inv, Shapes
<1> QED
  BY <1>1, <1>2, <1>3

\* The helper sent to recover holds nothing yet.
LEMMA ScanRecoverOK ==
  ASSUME Inv, NEW a \in Apps, ScanRecover(a)
  PROVE  Inv'
<1> USE ProcessesAssumption
<1>1. PICK h \in Helpers, t \in Pending :
       /\ Unheard(h)
       /\ app' = [app EXCEPT ![a] = [@ EXCEPT !.pc = "recovering", !.helper = h]]
       /\ helper' = [helper EXCEPT ![h] =
                       [Idle EXCEPT !.pc = "hello", !.mode = "recover",
                                    !.txn = t, !.parent = a]]
  BY Zenon DEF ScanRecover
<1>2. /\ helper[h].pc = "off" /\ t \in Txns
      /\ lease' = Released(a, {"startup"})
      /\ UNCHANGED <<shared, journal, installed, next>>
      /\ next \in Nat \ {0} /\ shared \subseteq Apps
  BY <1>1 DEF Unheard, Pending, ScanRecover, files, used, Inv, Shapes
<1>3. /\ DOMAIN app' = Apps /\ DOMAIN app'[a] = AppFields
      /\ \A b \in Apps \ {a} : app'[b] = app[b]
      /\ app'[a].pc = "recovering"
  BY <1>1 DEF Inv, Shapes, AppFields
<1>4. /\ lease' \in [Kinds -> Procs \cup {None}]
      /\ \A g \in Procs \ {a}, k \in Kinds : lease[k] = g => lease'[k] = g
      /\ shared = {} \/ lease'["runtime"] = None
  BY <1>2, ReleasedOK
<1>5. /\ \A g \in Helpers, k \in Kinds : lease[k] = g => lease'[k] = g
      /\ \A b \in Apps \ {a} : /\ b \in shared => b \in shared'
                               /\ lease["transaction"] = b => lease'["transaction"] = b
  BY <1>2, <1>4 DEF Procs, Kinds
<1>6. /\ DOMAIN helper' = Helpers
      /\ \A g \in Helpers : DOMAIN helper'[g] = HelperFields /\ (Kept(g) \/ Renewed(g))
  BY <1>1, <1>2, <1>5, HelperCreated, Zenon
<1> QED
  BY <1>2, <1>3, <1>4, <1>5, <1>6, AppStep DEF Running, Inside

\* A start that reads the verdict goes back to the gate or ends.
LEMMA RecoveredOK ==
  ASSUME Inv, NEW a \in Apps, Recovered(a)
  PROVE  Inv'
<1> USE ProcessesAssumption
<1> DEFINE h == app[a].helper
<1>1. UNCHANGED <<journal, installed, next>>
  BY DEF Recovered, used, files
<1>2. CASE AppEnds(a)
  BY <1>1, <1>2, AppLeaves
<1>3. CASE ~AppEnds(a)
  <2>1. /\ app' = [app EXCEPT ![a] = [@ EXCEPT !.pc = "gate", !.helper = None,
                                               !.again = TRUE]]
        /\ helper' = [helper EXCEPT ![h] = [@ EXCEPT !.parent = None, !.report = "none"]]
        /\ UNCHANGED <<lease, shared>>
    BY <1>3 DEF Recovered, leases
  <2>2. /\ DOMAIN app' = Apps /\ DOMAIN app'[a] = AppFields
        /\ \A b \in Apps \ {a} : app'[b] = app[b]
        /\ app'[a].pc = "gate"
    BY <2>1 DEF Inv, Shapes, AppFields
  <2>3. /\ DOMAIN helper' = Helpers
        /\ \A g \in Helpers : DOMAIN helper'[g] = HelperFields /\ Kept(g)
    BY <2>1 DEF Inv, Shapes, HelperFields, Kept
  <2>4. /\ lease \in [Kinds -> Procs \cup {None}] /\ shared \subseteq Apps
        /\ shared = {} \/ lease["runtime"] = None
        /\ next \in Nat \ {0}
    BY DEF Inv, Shapes, HoldInv
  <2> QED
    BY <1>1, <2>1, <2>2, <2>3, <2>4, AppStep DEF Running, Inside
<1> QED
  BY <1>2, <1>3

\* What begins to edit was admitted, so nothing is open, and has the image that
\* is on disk (update_gate::enter).
LEMMA EnterOK ==
  ASSUME Inv, NEW a \in Apps, Enter(a)
  PROVE  Inv'
<1> USE ProcessesAssumption
<1>1. UNCHANGED <<journal, installed, next>> /\ app[a].pc = "admitted"
  BY DEF Enter, files
<1>2. CASE AppEnds(a)
  BY <1>1, <1>2, AppLeaves
<1>3. lease \in [Kinds -> Procs \cup {None}] /\ shared \subseteq Apps /\ next \in Nat \ {0}
      /\ (shared = {} \/ lease["runtime"] = None) /\ a \in shared /\ NoneOpen
  BY <1>1 DEF Inv, Shapes, HoldInv, Inside, AppInv, Stands
<1>4. CASE /\ UpToDate(a) /\ Edits(a) /\ UNCHANGED <<helper, lease, shared>>
  <2>1. /\ DOMAIN app' = Apps /\ DOMAIN app'[a] = AppFields
        /\ \A b \in Apps \ {a} : app'[b] = app[b]
        /\ app'[a].pc = "editing" /\ app'[a].image = app[a].image
    BY <1>4 DEF Edits, Off, Inv, Shapes, AppFields
  <2>2. installed = app[a].image
    BY <1>4 DEF UpToDate
  <2> QED
    BY <1>1, <1>3, <1>4, <2>1, <2>2, HelpersKept, AppStep
<1>5. CASE /\ shared' = shared \ {a}
           /\ app' = [app EXCEPT ![a] = [Off EXCEPT !.pc = "sweep",
                                        !.image = installed, !.restarted = TRUE]]
           /\ UNCHANGED <<helper, lease>>
  <2>1. /\ DOMAIN app' = Apps /\ DOMAIN app'[a] = AppFields
        /\ \A b \in Apps \ {a} : app'[b] = app[b]
        /\ app'[a].pc = "sweep"
    BY <1>5 DEF Off, Inv, Shapes, AppFields
  <2> QED
    BY <1>1, <1>3, <1>5, <2>1, StartMoves
<1> QED
  BY <1>2, <1>4, <1>5 DEF Enter, leases

\* The child's answer: only a helper that has started a child can be told that
\* it is healthy.
LEMMA VerifyOK ==
  ASSUME Inv, NEW a \in Apps, Verify(a)
  PROVE  Inv'
<1> USE ProcessesAssumption
<1>1. UNCHANGED <<journal, installed, next>>
  BY DEF Verify, used, files
<1>2. CASE AppEnds(a)
  BY <1>1, <1>2, AppLeaves
<1>3. CASE ~AppEnds(a)
  <2>1. /\ app' = [app EXCEPT ![a].pc = "reporting"] /\ app[a].pc = "limited"
        /\ helper' = [h \in Helpers |-> [helper[h] EXCEPT !.healthy = @ \/ helper[h].child = a]]
        /\ UNCHANGED <<lease, shared>>
    BY <1>3 DEF Verify, leases, Move
  <2>2. /\ DOMAIN helper' = Helpers
        /\ \A g \in Helpers : /\ DOMAIN helper'[g] = HelperFields
                             /\ helper'[g].pc = helper[g].pc
                             /\ helper'[g].txn = helper[g].txn
                             /\ helper'[g].child = helper[g].child
                             /\ helper'[g].behind = helper[g].behind
    BY <2>1 DEF Inv, Shapes, HelperFields
  <2>3. \A g \in Helpers : helper[g].child # a => (helper'[g].healthy <=> helper[g].healthy)
    BY <2>1 DEF Inv, Shapes, HelperFields
  <2>4. /\ DOMAIN app' = Apps
        /\ \A b \in Apps : /\ app'[b].pc = IF b = a THEN "reporting" ELSE app[b].pc
                           /\ app'[b].txn = app[b].txn /\ app'[b].image = app[b].image
                           /\ app'[b].told = app[b].told /\ app'[b].helper = app[b].helper
                           /\ DOMAIN app'[b] = AppFields
    BY <2>1 DEF Inv, Shapes, AppFields
  <2>5. Shapes'
    BY <1>1, <2>1, <2>2, <2>4 DEF Inv, Shapes
  <2>6. HoldInv'
    BY <2>1, <2>2, <2>4 DEF Inv, HoldInv, Inside
  <2>7. RecordInv'
    <3>1. ASSUME NEW g \in Helpers
          PROVE  Agrees(g)'
      <4>1. Agrees(g)
        BY DEF Inv, RecordInv
      <4> QED
        BY <1>1, <2>2, <4>1 DEF Agrees
    <3> QED
      BY <1>1, <3>1 DEF Inv, RecordInv
  <2>8. ASSUME NEW b \in Apps
        PROVE  Stands(b)'
    <3>1. /\ Stands(b) /\ NoneOpen' = NoneOpen
          /\ (b \in Running' <=> b \in Running) /\ (b = a => a \notin Running)
      BY <1>1, <2>1, <2>4 DEF Inv, AppInv, NoneOpen, Running
    <3> QED
      BY <1>1, <2>1, <2>4, <3>1 DEF Stands
  <2>9. ASSUME NEW g \in Helpers
        PROVE  Answers(g)'
    <3>1. Answers(g) /\ (helper[g].child = a => helper[g].pc \notin Before)
          /\ (helper[g].child # None => helper[g].child \in Apps)
      BY DEF Inv, AppInv, Shapes, RecordInv, Agrees, Before
    <3>2. helper'[g].pc \in Before => ~helper'[g].healthy
      BY <2>2, <2>3, <3>1 DEF Answers
    <3>3. helper'[g].child # None => app'[helper'[g].child].pc # "off"
      BY <2>2, <2>4, <3>1 DEF Answers
    <3>4. helper'[g].child # None /\ app'[helper'[g].child].pc \in Entering =>
            helper'[g].pc \notin {"commit", "notify"} /\ ~helper'[g].healthy
      BY <2>2, <2>3, <2>4, <3>1 DEF Answers
    <3>5. helper'[g].child # None
          /\ app'[helper'[g].child].pc \in Child =>
             app'[helper'[g].child].txn = helper'[g].txn
      BY <2>1, <2>2, <2>4, <3>1 DEF Answers
    <3> QED
      BY <2>2, <3>1, <3>2, <3>3, <3>4, <3>5 DEF Answers
  <2> QED
    BY <2>5, <2>6, <2>7, <2>8, <2>9 DEF Inv, AppInv
<1> QED
  BY <1>2, <1>3

\* A child edits only after the commit it was told is on disk
\* (committed_durably).
LEMMA AnsweredOK ==
  ASSUME Inv, NEW a \in Apps, Answered(a)
  PROVE  Inv'
<1> USE ProcessesAssumption
<1>1. UNCHANGED <<journal, installed, next>>
  BY DEF Answered, used, files
<1>2. CASE AppEnds(a)
  BY <1>1, <1>2, AppLeaves
<1>3. CASE ~AppEnds(a)
  <2>1. /\ Edits(a) /\ app[a].pc = "reporting" /\ UNCHANGED <<helper, lease, shared>>
        /\ app[a].told = "commit" \/ journal[app[a].txn] = "committed"
    BY <1>3 DEF Answered, CommittedDurably, leases
  <2>2. Stands(a) /\ RecordInv /\ Shapes /\ a \in shared
    BY <2>1 DEF Inv, AppInv, HoldInv, Inside
  <2>3. journal[app[a].txn] = "committed" /\ app[a].txn \in Txns /\ app[a].image = app[a].txn
    BY <2>1, <2>2 DEF Stands
  <2>4. installed = app[a].image /\ NoneOpen
    BY <2>2, <2>3 DEF RecordInv, NoneOpen, Live
  <2>5. /\ DOMAIN app' = Apps /\ DOMAIN app'[a] = AppFields
        /\ \A b \in Apps \ {a} : app'[b] = app[b]
        /\ app'[a].pc = "editing" /\ app'[a].image = app[a].image
    BY <2>1, <2>2 DEF Edits, Off, Shapes, AppFields
  <2>6. lease \in [Kinds -> Procs \cup {None}] /\ shared \subseteq Apps /\ next \in Nat \ {0}
        /\ (shared = {} \/ lease["runtime"] = None)
    BY DEF Inv, Shapes, HoldInv
  <2> QED
    BY <1>1, <2>1, <2>2, <2>4, <2>5, <2>6, HelpersKept, AppStep
<1> QED
  BY <1>2, <1>3

\* Every step of a start keeps the invariant.
LEMMA StartingOK ==
  ASSUME Inv, NEW a \in Apps, Starting(a)
  PROVE  Inv'
<1>1. CASE GiveUpWaiting(a)
  BY <1>1, AppLeaves DEF GiveUpWaiting, files, used
<1>2. CASE ScanStop(a)
  BY <1>2, AppLeaves DEF ScanStop, files, used
<1> QED
  BY <1>1, <1>2, DetectOK, TakeCapabilityOK, JoinRuntimeOK, SweepStepOK, SweepOK, TakeGateOK,
     NoticeUpdateOK, ScanAdmitOK,
     ScanRecoverOK, RecoveredOK, EnterOK, VerifyOK, AnsweredOK DEF Starting

-----------------------------------------------------------------------------
(* An application asks for an update, or ends. *)

\* The helper of a new update holds nothing yet, and the transaction is one the
\* model knows.
LEMMA PrepareRestartOK ==
  ASSUME Inv, NEW a \in Apps, PrepareRestart(a)
  PROVE  Inv'
<1> USE ProcessesAssumption
<1>1. PICK h \in Helpers :
       /\ Unheard(h)
       /\ app' = [app EXCEPT ![a] = [@ EXCEPT !.pc = "preparing", !.helper = h,
                                              !.txn = next]]
       /\ helper' = [helper EXCEPT ![h] =
                       [Idle EXCEPT !.pc = "hello", !.txn = next, !.parent = a]]
  BY Zenon DEF PrepareRestart
<1>2. /\ helper[h].pc = "off" /\ app[a].pc = "editing" /\ next' = next + 1
      /\ UNCHANGED <<lease, shared, journal, installed>>
      /\ next <= MaxTxns /\ next \in Nat \ {0}
  BY <1>1 DEF Unheard, PrepareRestart, leases, Inv, Shapes
<1>3. next \in Txns /\ next' \in Nat \ {0}
  BY <1>2, BoundsAssumption DEF Txns
<1>4. /\ DOMAIN app' = Apps /\ DOMAIN app'[a] = AppFields
      /\ \A b \in Apps \ {a} : app'[b] = app[b]
      /\ app'[a].pc = "preparing" /\ app'[a].image = app[a].image
      /\ app'[a].helper = h
  BY <1>1 DEF Inv, Shapes, AppFields
<1>5. /\ DOMAIN helper' = Helpers /\ DOMAIN helper'[h] = HelperFields
      /\ helper'[h].pc = "hello" /\ helper'[h].txn = next /\ helper'[h].child = None
      /\ helper'[h].healthy = FALSE
      /\ \A g \in Helpers \ {h} : helper'[g] = helper[g]
  BY <1>1 DEF Idle, Inv, Shapes, HelperFields
<1>6. Renewed(h)
  BY <1>3, <1>5 DEF Renewed
<1>7. ASSUME NEW g \in Helpers \ {h}
      PROVE  Kept(g) /\ DOMAIN helper'[g] = HelperFields
  BY <1>2, <1>5 DEF Kept, Inv, Shapes
<1>8. /\ lease \in [Kinds -> Procs \cup {None}] /\ shared \subseteq Apps
      /\ shared = {} \/ lease["runtime"] = None
      /\ a \in shared /\ installed = app[a].image /\ NoneOpen
  BY <1>2 DEF Inv, Shapes, HoldInv, Inside, AppInv, Stands, Running
<1> QED
  BY <1>2, <1>3, <1>4, <1>5, <1>6, <1>7, <1>8, AppStep

\* What an application that runs, and goes on running, has.
LEMMA RunningHas ==
  ASSUME Inv, NEW a \in Running
  PROVE  /\ a \in Apps /\ a \in shared /\ installed = app[a].image /\ NoneOpen
         /\ lease \in [Kinds -> Procs \cup {None}] /\ shared \subseteq Apps
         /\ lease["runtime"] = None /\ next \in Nat \ {0}
BY DEF Inv, Shapes, HoldInv, Inside, AppInv, Stands, Running

\* An application that authorized the update still runs, and the files are
\* still its own.
LEMMA AuthorizeOK ==
  ASSUME Inv, NEW a \in Apps, Authorize(a)
  PROVE  Inv'
<1> USE ProcessesAssumption
<1> DEFINE h == app[a].helper
<1>1. /\ helper' = [helper EXCEPT ![h] = [@ EXCEPT !.heard = "authorized", !.report = "none"]]
      /\ app' = [app EXCEPT ![a] = [@ EXCEPT !.pc = "quitting", !.helper = None,
                                             !.txn = 0]]
      /\ app[a].pc = "preparing"
      /\ UNCHANGED <<lease, shared, journal, installed, next>>
  BY DEF Authorize, leases, files, used
<1>2. /\ DOMAIN helper' = Helpers
      /\ \A g \in Helpers : DOMAIN helper'[g] = HelperFields /\ Kept(g)
  BY <1>1 DEF Inv, Shapes, HelperFields, Kept
<1>3. /\ DOMAIN app' = Apps /\ DOMAIN app'[a] = AppFields
      /\ \A b \in Apps \ {a} : app'[b] = app[b]
      /\ app'[a].pc = "quitting" /\ app'[a].image = app[a].image
  BY <1>1 DEF Inv, Shapes, AppFields
<1>4. a \in Running
  BY <1>1 DEF Running
<1> QED
  BY <1>1, <1>2, <1>3, <1>4, RunningHas, AppStep

\* An application that gives an update up still runs.
LEMMA AbandonOK ==
  ASSUME Inv, NEW a \in Apps, Abandon(a)
  PROVE  Inv'
<1> USE ProcessesAssumption
<1> DEFINE h == app[a].helper
           word == IF helper[h].pc = "off" THEN helper[h].heard ELSE "abort"
<1>1. /\ helper' = [helper EXCEPT ![h].heard = word]
      /\ app' = [app EXCEPT ![a].pc = "abandoning"] /\ app[a].pc = "preparing"
      /\ UNCHANGED <<lease, shared, journal, installed, next>>
  BY DEF Abandon, Move, leases, files, used
<1> HIDE DEF word
<1>2. /\ DOMAIN helper' = Helpers
      /\ \A g \in Helpers : DOMAIN helper'[g] = HelperFields /\ Kept(g)
  BY <1>1 DEF Inv, Shapes, HelperFields, Kept
<1>3. /\ DOMAIN app' = Apps /\ DOMAIN app'[a] = AppFields
      /\ \A b \in Apps \ {a} : app'[b] = app[b]
      /\ app'[a].pc = "abandoning" /\ app'[a].image = app[a].image
      /\ app'[a].helper = h
  BY <1>1 DEF Inv, Shapes, AppFields
<1>4. a \in Running /\ h \in Helpers
  BY <1>1 DEF Running, Inv, AppInv, Stands
<1> QED
  BY <1>1, <1>2, <1>3, <1>4, RunningHas, AppStep

\* A helper that is certainly gone, or is ended, is as if it had never been; one
\* that cannot be ended goes on without a parent (confirm_child_exit).
LEMMA ConfirmExitOK ==
  ASSUME Inv, NEW a \in Apps, ConfirmExit(a)
  PROVE  Inv'
<1> USE ProcessesAssumption
<1> DEFINE h == app[a].helper
<1>1. /\ app[a].pc = "abandoning"
      /\ app' = [app EXCEPT ![a] = [@ EXCEPT !.pc = "editing", !.helper = None, !.txn = 0]]
      /\ UNCHANGED <<shared, journal, installed, next>>
  BY DEF ConfirmExit, used
<1>2. /\ DOMAIN app' = Apps /\ DOMAIN app'[a] = AppFields
      /\ \A b \in Apps \ {a} : app'[b] = app[b]
      /\ app'[a].pc = "editing" /\ app'[a].image = app[a].image
  BY <1>1 DEF Inv, Shapes, AppFields
<1>3. a \in Running
  BY <1>1 DEF Running
<1>4. CASE /\ helper' = [helper EXCEPT ![h] = Idle]
           /\ lease' = lease \/ (h \in Helpers /\ lease' = Released(h, Kinds))
  <2>1. /\ lease' \in [Kinds -> Procs \cup {None}]
        /\ \A p \in Procs, k \in Kinds : lease[k] = p /\ p # h => lease'[k] = p
        /\ shared = {} \/ lease'["runtime"] = None
    BY <1>3, <1>4, ReleasedOK, RunningHas
  <2>2. /\ DOMAIN helper' = Helpers
        /\ \A g \in Helpers \ {h} : helper'[g] = helper[g] /\ DOMAIN helper'[g] = HelperFields
        /\ h \in Helpers => helper'[h] = Idle
    BY <1>4 DEF Inv, Shapes
  <2>3. ASSUME NEW g \in Helpers
        PROVE  DOMAIN helper'[g] = HelperFields /\ (Kept(g) \/ Renewed(g))
    <3>1. CASE g = h
      BY <2>2, <3>1 DEF Idle, HelperFields, Renewed
    <3>2. CASE g # h
      BY <2>1, <2>2, <3>2 DEF Kept, Procs
    <3> QED
      BY <3>1, <3>2
  <2>4. ASSUME NEW b \in Apps \ {a}
        PROVE  /\ b \in shared => b \in shared'
               /\ lease["transaction"] = b => lease'["transaction"] = b
    BY <1>1, <1>4, <2>1 DEF Procs, Kinds
  <2> QED
    BY <1>1, <1>2, <1>3, <2>1, <2>2, <2>3, <2>4, RunningHas, AppStep
<1>5. CASE helper' = [helper EXCEPT ![h].parent = None] /\ lease' = lease
  <2>1. /\ DOMAIN helper' = Helpers
        /\ \A g \in Helpers : DOMAIN helper'[g] = HelperFields /\ Kept(g)
    BY <1>5 DEF Inv, Shapes, HelperFields, Kept
  <2> QED
    BY <1>1, <1>2, <1>3, <1>5, <2>1, RunningHas, AppStep
<1>6. h \in Helpers
  BY <1>1 DEF Inv, AppInv, Stands
<1> QED
  BY <1>4, <1>5, <1>6 DEF ConfirmExit

\* Every step towards a restart keeps the invariant.
LEMMA RestartingOK ==
  ASSUME Inv, NEW a \in Apps, Restarting(a)
  PROVE  Inv'
BY AuthorizeOK, AbandonOK, ConfirmExitOK DEF Restarting

-----------------------------------------------------------------------------
(* A helper works. *)

\* The child a helper still has ends before the leases go (apply_and_settle).
LEMMA SessionEndsOK ==
  ASSUME Inv, NEW h \in Helpers, SessionEnds(h)
  PROVE  Inv'
<1> USE ProcessesAssumption
<1> DEFINE child == helper[h].child
           mine == IF helper[h].launched THEN Kinds ELSE {"transaction", "startup"}
           r == IF helper[h].mode = "recover" THEN Verdict(h)
                ELSE helper[h].report
<1>1. /\ helper[h].pc = "end" /\ h \in DOMAIN helper
      /\ child \in Apps \cup {None} /\ lease \in [Kinds -> Procs \cup {None}]
  BY DEF SessionEnds, Inv, Shapes
<1>2. /\ DOMAIN Orphaned(child) = Helpers
      /\ DOMAIN Orphaned(child)[h] = HelperFields
      /\ Orphaned(child)[h].txn = helper[h].txn
      /\ Orphaned(child)[h].behind = helper[h].behind
      /\ Orphaned(child)[h].healthy = helper[h].healthy
      /\ Orphaned(child)[h].child = None
  <2>1. Shapes
    BY DEF Inv
  <2>2. DOMAIN Orphaned(child) = Helpers
    BY DEF Orphaned
  <2> QED
    BY <1>1, <2>1, <2>2, OrphanedOK
<1>3. /\ helper' = [Orphaned(child) EXCEPT ![h] = [@ EXCEPT !.pc = "leaving", !.report = r]]
      /\ app' = [a \in Apps |-> IF a = child THEN Off ELSE app[a]]
      /\ lease' = [k \in Kinds |-> IF lease[k] = child \/ (lease[k] = h /\ k \in mine)
                                   THEN None ELSE lease[k]]
      /\ shared' = shared \ {child}
      /\ UNCHANGED <<journal, installed, next>>
  BY DEF SessionEnds, files, used
<1> HIDE DEF mine, r
<1>4. /\ DOMAIN helper' = Helpers
      /\ \A g \in Helpers \ {h} : helper'[g] = Orphaned(child)[g]
      /\ DOMAIN helper'[h] = HelperFields /\ helper'[h].pc = "leaving"
      /\ helper'[h].child = None
      /\ helper'[h].txn = helper[h].txn /\ helper'[h].behind = helper[h].behind
      /\ helper'[h].healthy = helper[h].healthy
  BY <1>2, <1>3 DEF HelperFields
<1>5. /\ lease' \in [Kinds -> Procs \cup {None}]
      /\ \A k \in Kinds : lease'[k] = lease[k] \/ lease'[k] = None
      /\ \A g \in Procs \ {h, child}, k \in Kinds : lease[k] = g => lease'[k] = g
  BY <1>1, <1>3 DEF Procs
<1>6. /\ app' = [a \in Apps |-> IF a = helper[h].child THEN Off ELSE app[a]]
      /\ shared' = shared \ {helper[h].child}
      /\ UNCHANGED <<journal, installed, next>>
  BY <1>3
<1> QED
  BY <1>1, <1>4, <1>5, <1>6, ChildLeaves

\* The applications, when a step changes none of them.
LEMMA AppsKept ==
  ASSUME Inv, UNCHANGED app
  PROVE  /\ DOMAIN app' = Apps
         /\ \A a \in Apps :
              /\ DOMAIN app'[a] = AppFields /\ app'[a].pc = app[a].pc
              /\ app'[a].txn = app[a].txn /\ app'[a].image = app[a].image
              /\ app'[a].helper = app[a].helper /\ app'[a].told = app[a].told
BY DEF Inv, Shapes

\* What a helper tells its child changes nothing else of it.
LEMMA Told ==
  ASSUME Inv, NEW h \in Helpers, NEW what, app' = Tell(h, what)
  PROVE  /\ DOMAIN app' = Apps
         /\ \A a \in Apps :
              /\ DOMAIN app'[a] = AppFields /\ app'[a].pc = app[a].pc
              /\ app'[a].txn = app[a].txn /\ app'[a].image = app[a].image
              /\ app'[a].helper = app[a].helper
              /\ app'[a].told = app[a].told \/ (a = helper[h].child /\ app'[a].told = what)
BY DEF Tell, Inv, Shapes, AppFields

\* The leases, when a step changes none of them.
LEMMA LeasesKept ==
  ASSUME Inv, UNCHANGED lease
  PROVE  /\ lease' \in [Kinds -> Procs \cup {None}]
         /\ \A g \in Procs, k \in Kinds : lease[k] = g => lease'[k] = g
         /\ shared = {} \/ lease'["runtime"] = None
BY DEF Inv, Shapes, HoldInv

\* The record of a helper that goes to another place.
LEMMA Gone_to ==
  ASSUME Inv, NEW h \in Helpers, NEW place, Goto(h, place)
  PROVE  /\ DOMAIN helper' = Helpers /\ DOMAIN helper'[h] = HelperFields
         /\ \A g \in Helpers \ {h} : helper'[g] = helper[g]
         /\ helper'[h].pc = place /\ helper'[h].txn = helper[h].txn
         /\ helper'[h].child = helper[h].child /\ helper'[h].behind = helper[h].behind
         /\ helper'[h].healthy = helper[h].healthy
BY DEF Goto, Inv, Shapes, HelperFields

\* Which places come with which leases, for a helper at one of them.
LEMMA HelperHolds ==
  ASSUME Inv, NEW h \in Helpers
  PROVE  /\ helper[h].pc \in Gated \cup {"gate"} => lease["transaction"] = h
         /\ helper[h].pc \in Gated => lease["startup"] = h
         /\ helper[h].pc \in Alone => lease["runtime"] = h /\ shared = {}
         /\ helper[h].pc # "off" => helper[h].txn \in Txns
         /\ helper[h].pc \in Before => ~helper[h].healthy
         /\ Agrees(h)
BY ProcessesAssumption DEF Inv, HoldInv, Shapes, RecordInv, AppInv, Answers

\* A session that ends lets go of everything (run_session).
LEMMA EndsOK ==
  ASSUME Inv, NEW h \in Helpers, NEW report, Ends(h, report),
         UNCHANGED <<journal, installed, next>>
  PROVE  Inv'
<1>1. /\ helper' = [helper EXCEPT ![h] = Gone(h, report)]
      /\ lease' = Released(h, Kinds)
      /\ UNCHANGED <<app, shared>>
  BY DEF Ends
<1>2. /\ DOMAIN helper' = Helpers /\ DOMAIN helper'[h] = HelperFields
      /\ \A g \in Helpers \ {h} : helper'[g] = helper[g]
      /\ helper'[h].pc = "off" /\ helper'[h].child = None /\ helper'[h].healthy = FALSE
  BY <1>1 DEF Gone, Idle, Inv, Shapes, HelperFields
<1>3. Agrees(h)'
  BY <1>2 DEF Agrees
<1> QED
  BY <1>1, <1>2, <1>3, AppsKept, ReleasedOK, HelperStep DEF Gated, Alone

\* A helper that has one lease more, or none more, and goes on.
LEMMA GoesOn ==
  ASSUME Inv, NEW h \in Helpers, helper[h].pc # "off",
         DOMAIN helper' = Helpers, DOMAIN helper'[h] = HelperFields,
         \A g \in Helpers \ {h} : helper'[g] = helper[g],
         helper'[h].txn = helper[h].txn, helper'[h].child \in {helper[h].child, None},
         helper'[h].healthy => helper[h].healthy,
         helper'[h].pc \in {"commit", "notify"} => helper[h].healthy,
         helper'[h].pc \in Before => helper[h].pc \in Before,
         \/ UNCHANGED lease
         \/ \E k \in Kinds : Free(k) /\ Take(k, h) /\ (k = "runtime" => shared = {}),
         helper'[h].pc \in Gated \cup {"gate"} => lease'["transaction"] = h,
         helper'[h].pc \in Gated => lease'["startup"] = h,
         helper'[h].pc \in Alone => lease'["runtime"] = h,
         Agrees(h)',
         UNCHANGED <<app, shared, journal, installed, next>>
  PROVE  Inv'
<1>1. /\ lease' \in [Kinds -> Procs \cup {None}]
      /\ \A g \in Procs, k \in Kinds : lease[k] = g => lease'[k] = g
      /\ shared = {} \/ lease'["runtime"] = None
  BY LeasesKept, TakeOK DEF Procs
<1>2. helper'[h].pc \in Before => ~helper'[h].healthy
  BY HelperHolds
<1> QED
  BY <1>1, <1>2, AppsKept, HelperStep

\* The transaction lease is the first.
LEMMA HelloOK ==
  ASSUME Inv, NEW h \in Helpers, Hello(h)
  PROVE  Inv'
<1>1. helper[h].pc = "hello" /\ UNCHANGED <<journal, installed, next>>
  BY DEF Hello, files, used
<1>2. CASE Refuse(h)
  BY <1>1, <1>2, EndsOK DEF Refuse
<1>3. CASE Free("transaction") /\ Take("transaction", h) /\ Goto(h, "gate")
           /\ UNCHANGED <<app, shared>>
  <2>1. lease'["transaction"] = h
    BY <1>3, TakeOK DEF Kinds, Procs
  <2>2. helper'[h].pc = "gate" /\ helper'[h].child = helper[h].child /\ helper[h].child = None
    BY <1>1, <1>3, Gone_to, HelperHolds DEF Agrees
  <2>3. Agrees(h)'
    BY <2>2 DEF Agrees
  <2> QED
    BY <1>1, <1>3, <2>1, <2>2, <2>3, Gone_to, GoesOn DEF Gated, Alone, Before, Kinds
<1> QED
  BY <1>2, <1>3 DEF Hello

\* The gate is the second, and the place that follows depends on the mode.
LEMMA HelperGateOK ==
  ASSUME Inv, NEW h \in Helpers, HelperGate(h)
  PROVE  Inv'
<1>1. helper[h].pc = "gate" /\ UNCHANGED <<journal, installed, next>>
  BY DEF HelperGate, files, used
<1>2. CASE Refuse(h)
  BY <1>1, <1>2, EndsOK DEF Refuse
<1>3. CASE ~Refuse(h)
  <2> DEFINE place == IF helper[h].mode = "prepare" THEN "prepared" ELSE "recover"
  <2>1. /\ Free("startup") /\ Take("startup", h) /\ UNCHANGED <<app, shared>>
        /\ helper' = [helper EXCEPT ![h] = [@ EXCEPT !.report = "prepared", !.pc = place]]
    BY <1>1, <1>3 DEF HelperGate
  <2> HIDE DEF place
  <2>2. /\ DOMAIN helper' = Helpers /\ DOMAIN helper'[h] = HelperFields
        /\ \A g \in Helpers \ {h} : helper'[g] = helper[g]
        /\ helper'[h].pc = place /\ helper'[h].txn = helper[h].txn
        /\ helper'[h].child = helper[h].child /\ helper'[h].healthy = helper[h].healthy
    BY <2>1 DEF Inv, Shapes, HelperFields
  <2>3. place \in {"prepared", "recover"}
    BY DEF place
  <2>4. helper[h].child = None /\ lease["transaction"] = h
    BY <1>1, HelperHolds DEF Agrees
  <2>5. lease'["startup"] = h /\ lease'["transaction"] = h
    BY <2>1, <2>4, TakeOK DEF Kinds, Procs
  <2>6. Agrees(h)'
    BY <2>2, <2>3, <2>4 DEF Agrees
  <2>7. place \in Before /\ place \notin Alone /\ helper[h].pc \in Before
    BY <1>1, <2>3 DEF Before, Alone
  <2>8. \E k \in Kinds : Free(k) /\ Take(k, h) /\ (k = "runtime" => shared = {})
    BY <2>1 DEF Kinds
  <2> QED
    BY <1>1, <2>1, <2>2, <2>3, <2>5, <2>6, <2>7, <2>8, GoesOn
<1> QED
  BY <1>2, <1>3

\* Authorized, the helper waits; else its session ends.
LEMMA HeardOK ==
  ASSUME Inv, NEW h \in Helpers, Heard(h)
  PROVE  Inv'
<1>1. helper[h].pc = "prepared" /\ UNCHANGED <<journal, installed, next>>
  BY DEF Heard, files, used
<1>2. CASE Ends(h, "prepared")
  BY <1>1, <1>2, EndsOK
<1>3. CASE ~Ends(h, "prepared")
  <2>1. /\ UNCHANGED <<app, shared, lease>>
        /\ helper' = [helper EXCEPT ![h] = [@ EXCEPT !.pc = "waiting", !.heard = "nothing"]]
    BY <1>3 DEF Heard, leases
  <2>2. /\ DOMAIN helper' = Helpers /\ DOMAIN helper'[h] = HelperFields
        /\ \A g \in Helpers \ {h} : helper'[g] = helper[g]
        /\ helper'[h].pc = "waiting" /\ helper'[h].txn = helper[h].txn
        /\ helper'[h].child = helper[h].child /\ helper'[h].healthy = helper[h].healthy
    BY <2>1 DEF Inv, Shapes, HelperFields
  <2>3. helper[h].child = None /\ lease["transaction"] = h /\ lease["startup"] = h
    BY <1>1, HelperHolds DEF Agrees, Gated
  <2>4. Agrees(h)'
    BY <2>2, <2>3 DEF Agrees
  <2> QED
    BY <1>1, <2>1, <2>2, <2>3, <2>4, GoesOn DEF Before, Alone
<1> QED
  BY <1>2, <1>3

\* Runtime is the third, taken only while nobody shares it.
LEMMA ParentExitedOK ==
  ASSUME Inv, NEW h \in Helpers, ParentExited(h)
  PROVE  Inv'
<1>1. /\ helper[h].pc = "waiting" /\ Goto(h, "apply")
      /\ Free("runtime") /\ shared = {} /\ Take("runtime", h)
      /\ UNCHANGED <<app, shared, journal, installed, next>>
  BY DEF ParentExited, NobodyRuns, files, used
<1>2. helper[h].child = None /\ lease["transaction"] = h /\ lease["startup"] = h
  BY <1>1, HelperHolds DEF Agrees, Gated
<1>3. lease'["runtime"] = h /\ lease'["transaction"] = h /\ lease'["startup"] = h
  BY <1>1, <1>2, TakeOK DEF Kinds, Procs
<1>4. Agrees(h)'
  BY <1>1, <1>2, Gone_to DEF Agrees
<1> QED
  BY <1>1, <1>3, <1>4, Gone_to, GoesOn DEF Before, Kinds

\* Every step of a helper's session keeps the invariant.
LEMMA SessionOK ==
  ASSUME Inv, NEW h \in Helpers, Session(h)
  PROVE  Inv'
<1>1. CASE ParentStillRunning(h)
  BY <1>1, EndsOK DEF ParentStillRunning, files, used
<1>2. CASE Left(h)
  BY <1>2, EndsOK DEF Left, files, used
<1> QED
  BY <1>1, <1>2, SessionEndsOK, HelloOK, HelperGateOK, HeardOK, ParentExitedOK
     DEF Session

\* A helper that gives up where it is, or goes on with what it has.
LEMMA GotoOK ==
  ASSUME Inv, NEW h \in Helpers, NEW place, Goto(h, place),
         helper[h].pc \in Gated, place \in Gated, place \in Alone => helper[h].pc \in Alone,
         place \in Before => helper[h].pc \in Before,
         place \in {"commit", "notify"} => helper[h].healthy,
         Agrees(h)',
         UNCHANGED <<app, lease, shared, journal, installed, next>>
  PROVE  Inv'
<1>1. helper[h].pc # "off"
  BY DEF Gated
<1>2. /\ lease["transaction"] = h /\ lease["startup"] = h
      /\ place \in Alone => lease["runtime"] = h
  BY HelperHolds
<1> QED
  BY <1>1, <1>2, Gone_to, GoesOn

\* What a place says, for the journal and the files it is reached with.
Fits(h, place, phase, behind) ==
  /\ place # "begin"
  /\ place = "start" => phase = "prepared"
  /\ place \in {"replace", "replacing", "await"} => phase = "applying"
  /\ place \in {"launch", "health", "commit"} => phase = "awaiting"
  /\ place = "notify" => phase = "committed"
  /\ place \in {"stop", "stopping", "reacquire", "undo", "require"} =>
        phase \in Live \/ behind
  /\ place \in {"restore", "restoring", "restored"} => phase = "rolling_back"
  /\ place \in {"await", "launch", "health", "commit"} => installed = helper[h].txn
  /\ place = "end" /\ helper[h].child # None => phase \in Live \cup {"required"} \/ behind
  /\ helper[h].child # None =>
        place \in {"health", "commit", "notify", "stop", "stopping", "require", "end"}

\* A store of the journal keeps the invariant, whether it succeeds, fails with
\* or without having reached the disk, or is refused (DurableJournal::persist).
LEMMA StoreOK ==
  ASSUME Inv, NEW h \in Helpers, helper[h].pc \in Gated,
         NEW phase \in Live \cup {"committed", "rolled_back", "required"},
         NEW ok \in Gated, NEW bad \in Gated, Store(h, phase, ok, bad), OnlyJournal,
         ok \in Alone \/ bad \in Alone => helper[h].pc \in Alone,
         ok \in Before \/ bad \in Before => helper[h].pc \in Before,
         ok \in {"commit", "notify"} => helper[h].pc \in {"commit", "notify"},
         bad \notin {"commit", "notify"},
         ~helper[h].behind =>
           \/ journal[helper[h].txn] \in Live
           \/ shared = {} /\ \A u \in Txns : journal[u] = "none",
         phase = "committed" => installed = helper[h].txn,
         ~helper[h].behind => Fits(h, ok, phase, FALSE),
         Fits(h, bad, phase, TRUE),
         Fits(h, bad, journal[helper[h].txn], helper[h].behind)
  PROVE  Inv'
<1> DEFINE t == helper[h].txn
<1>1. /\ t \in Txns /\ helper[h].pc # "off"
      /\ helper[h].pc \in Alone => lease["runtime"] = h
      /\ lease["transaction"] = h /\ lease["startup"] = h
      /\ journal \in [Txns -> Live \cup {"none", "committed", "rolled_back", "required"}]
  BY HelperHolds DEF Gated, Inv, Shapes
<1>2. UNCHANGED <<app, lease, shared, installed, next>>
  BY DEF OnlyJournal, leases
<1>3. ASSUME ~helper[h].behind, journal' = [journal EXCEPT ![t] = phase], Goto(h, ok)
      PROVE  Inv'
  <2>1. /\ DOMAIN helper' = Helpers /\ DOMAIN helper'[h] = HelperFields
        /\ \A g \in Helpers \ {h} : helper'[g] = helper[g]
        /\ helper'[h].pc = ok /\ helper'[h].txn = t
        /\ helper'[h].child = helper[h].child /\ helper'[h].behind = helper[h].behind
        /\ helper'[h].healthy = helper[h].healthy
    BY <1>3, Gone_to
  <2>2. /\ journal' \in [Txns -> Live \cup {"none", "committed", "rolled_back", "required"}]
        /\ \A u \in Txns \ {t} : journal'[u] = journal[u]
        /\ journal'[t] = phase
    BY <1>1, <1>3
  <2>3. Agrees(h)'
    BY <1>2, <1>3, <2>1, <2>2 DEF Fits, Agrees
  <2> QED
    BY <1>1, <1>2, <1>3, <2>1, <2>2, <2>3, HelperWorks
<1>4. ASSUME ~helper[h].behind, journal' = [journal EXCEPT ![t] = phase],
             helper' = [helper EXCEPT ![h] = [@ EXCEPT !.pc = bad, !.behind = TRUE]]
      PROVE  Inv'
  <2>1. /\ DOMAIN helper' = Helpers /\ DOMAIN helper'[h] = HelperFields
        /\ \A g \in Helpers \ {h} : helper'[g] = helper[g]
        /\ helper'[h].pc = bad /\ helper'[h].txn = t
        /\ helper'[h].child = helper[h].child /\ helper'[h].behind = TRUE
        /\ helper'[h].healthy = helper[h].healthy
    BY <1>4 DEF Inv, Shapes, HelperFields
  <2>2. /\ journal' \in [Txns -> Live \cup {"none", "committed", "rolled_back", "required"}]
        /\ \A u \in Txns \ {t} : journal'[u] = journal[u]
        /\ journal'[t] = phase
    BY <1>1, <1>4
  <2>3. Agrees(h)'
    BY <1>2, <2>1, <2>2 DEF Fits, Agrees
  <2> QED
    BY <1>1, <1>2, <1>4, <2>1, <2>2, <2>3, HelperWorks
<1>5. ASSUME journal' = journal,
             \/ Goto(h, bad)
             \/ /\ ~helper[h].behind
                /\ helper' = [helper EXCEPT ![h] = [@ EXCEPT !.pc = bad, !.behind = FALSE]]
      PROVE  Inv'
  <2>1. /\ DOMAIN helper' = Helpers /\ DOMAIN helper'[h] = HelperFields
        /\ \A g \in Helpers \ {h} : helper'[g] = helper[g]
        /\ helper'[h].pc = bad /\ helper'[h].txn = t
        /\ helper'[h].child = helper[h].child
        /\ helper'[h].behind <=> helper[h].behind
        /\ helper'[h].healthy = helper[h].healthy
    <3>1. CASE Goto(h, bad)
      BY <3>1, Gone_to
    <3>2. CASE /\ ~helper[h].behind
               /\ helper' = [helper EXCEPT ![h] = [@ EXCEPT !.pc = bad, !.behind = FALSE]]
      BY <3>2 DEF Inv, Shapes, HelperFields
    <3> QED
      BY <1>5, <3>1, <3>2
  <2>2. Agrees(h)'
    BY <1>2, <1>5, <2>1 DEF Fits, Agrees
  <2> QED
    BY <1>1, <1>2, <1>5, <2>1, <2>2, GoesOn
<1> DEFINE Stored == ~helper[h].behind /\ journal' = [journal EXCEPT ![t] = phase]
                    /\ Goto(h, ok)
           Fails(stored) ==
             /\ ~helper[h].behind
             /\ journal' = IF stored THEN [journal EXCEPT ![t] = phase] ELSE journal
             /\ helper' = [helper EXCEPT ![h] = [@ EXCEPT !.pc = bad, !.behind = stored]]
           Refused == journal' = journal /\ Goto(h, bad)
<1>6. ASSUME NEW stored \in BOOLEAN, Fails(stored)
      PROVE  Inv'
  <2>1. CASE stored = TRUE
    BY <1>4, <1>6, <2>1
  <2>2. CASE stored = FALSE
    BY <1>5, <1>6, <2>2
  <2> QED
    BY <2>1, <2>2
<1>7. Stored \/ (\E stored \in BOOLEAN : Fails(stored)) \/ Refused
  BY Zenon DEF Store
<1>8. Stored => Inv'
  BY <1>3
<1>9. Refused => Inv'
  BY <1>5
<1> HIDE DEF Stored, Fails, Refused
<1> QED
  BY <1>6, <1>7, <1>8, <1>9

\* When the receipts are retired nothing is pending, so no journal is left
\* (retire_prior_receipts).
LEMMA RetirePriorReceiptsOK ==
  ASSUME Inv, NEW h \in Helpers, RetirePriorReceipts(h)
  PROVE  Inv'
<1>1. /\ journal' = [t \in Txns |-> IF t \in Receipts THEN "none" ELSE journal[t]]
      /\ helper[h].pc = "apply" /\ Goto(h, "begin")
      /\ UNCHANGED <<app, lease, shared, installed, next>>
  BY DEF RetirePriorReceipts, leases, used
<1>2. journal' = [t \in Txns |-> "none"]
  <2>1. \A t \in Txns : t \in Receipts \/ journal[t] = "none"
    BY DEF RetirePriorReceipts, Settled, Stops, Pending, Receipts, Live, Inv, Shapes
  <2> QED
    BY <1>1, <2>1
<1>3. /\ shared = {} /\ lease["runtime"] = h /\ lease["transaction"] = h
      /\ lease["startup"] = h /\ helper[h].child = None
  BY <1>1, HelperHolds DEF Gated, Alone, Agrees
<1>4. /\ DOMAIN helper' = Helpers /\ DOMAIN helper'[h] = HelperFields
      /\ \A g \in Helpers \ {h} : helper'[g] = helper[g]
      /\ helper'[h].pc = "begin" /\ helper'[h].txn = helper[h].txn
      /\ helper'[h].child = helper[h].child /\ helper'[h].healthy = helper[h].healthy
  BY <1>1, Gone_to
<1>5. Shapes'
  BY <1>1, <1>2, <1>4 DEF Inv, Shapes
<1>6. HoldInv'
  BY <1>1, <1>3, <1>4 DEF Inv, HoldInv
<1>7. \A g \in Helpers \ {h} : helper[g].pc \notin Gated /\ helper[g].child = None
  <2>1. ASSUME NEW g \in Helpers \ {h}
        PROVE  helper[g].pc \notin Gated /\ helper[g].child = None
    BY <1>3, HelperHolds DEF Agrees, Gated
  <2> QED
    BY <2>1
<1>8. RecordInv'
  <2>1. ASSUME NEW g \in Helpers
        PROVE  Agrees(g)'
    BY <1>2, <1>3, <1>4, <1>7 DEF Agrees, Gated
  <2> QED
    BY <1>2, <2>1 DEF RecordInv
<1>9. AppInv'
  <2>1. ASSUME NEW a \in Apps
        PROVE  Stands(a)'
    BY <1>1, <1>3 DEF Inv, HoldInv, Inside, AppInv, Stands, Running
  <2>2. ASSUME NEW g \in Helpers
        PROVE  Answers(g)'
    BY <1>1, <1>3, <1>4, <1>7 DEF Inv, AppInv, Answers, Before
  <2> QED
    BY <2>1, <2>2 DEF AppInv
<1> QED
  BY <1>5, <1>6, <1>8, <1>9 DEF Inv

\* Every step up to the new version's files keeps the invariant.
LEMMA ApplyOK ==
  ASSUME Inv, NEW h \in Helpers, Apply(h)
  PROVE  Inv'
<1> DEFINE t == helper[h].txn
<1>1. CASE RetirePriorReceipts(h)
  BY <1>1, RetirePriorReceiptsOK
<1>2. CASE RefuseApply(h) \/ Unstarted(h)
  <2>1. /\ helper[h].pc \in {"apply", "unstarted"} /\ Goto(h, "end")
        /\ UNCHANGED <<app, lease, shared, journal, installed, next>>
    BY <1>2 DEF RefuseApply, Unstarted, leases, used
  <2>2. helper[h].child = None
    BY <2>1, HelperHolds DEF Agrees
  <2>3. Agrees(h)'
    BY <2>1, <2>2, Gone_to DEF Agrees
  <2> QED
    BY <2>1, <2>3, GotoOK DEF Gated, Alone, Before
<1>3. CASE Begin(h)
  <2>1. helper[h].pc = "begin" /\ Store(h, "prepared", "start", "unstarted") /\ OnlyJournal
    BY <1>3 DEF Begin
  <2>2. shared = {} /\ (\A u \in Txns : journal[u] = "none") /\ helper[h].child = None
    BY <2>1, HelperHolds DEF Agrees, Alone
  <2>3. /\ Fits(h, "start", "prepared", FALSE) /\ Fits(h, "unstarted", "prepared", TRUE)
        /\ Fits(h, "unstarted", journal[t], helper[h].behind)
    BY <2>2 DEF Fits
  <2>4. /\ "prepared" \in Live /\ {"start", "unstarted"} \subseteq Gated
        /\ helper[h].pc \in Gated \cap Alone \cap Before
    BY <2>1 DEF Live, Gated, Alone, Before
  <2> QED
    BY <2>1, <2>2, <2>3, <2>4, StoreOK
<1>4. CASE StartApplying(h)
  <2>1. helper[h].pc = "start" /\ Store(h, "applying", "replace", "undo") /\ OnlyJournal
    BY <1>4 DEF StartApplying
  <2>2. journal[t] = "prepared" /\ helper[h].child = None
    BY <2>1, HelperHolds DEF Agrees
  <2>3. /\ Fits(h, "replace", "applying", FALSE) /\ Fits(h, "undo", "applying", TRUE)
        /\ Fits(h, "undo", journal[t], helper[h].behind)
    BY <2>2 DEF Fits, Live
  <2>4. /\ "applying" \in Live /\ journal[t] \in Live
        /\ {"replace", "undo"} \subseteq Gated /\ helper[h].pc \in Gated \cap Alone \cap Before
    BY <2>1, <2>2 DEF Live, Gated, Alone, Before
  <2> QED
    BY <2>1, <2>2, <2>3, <2>4, StoreOK
<1>5. CASE AwaitHealth(h)
  <2>1. helper[h].pc = "await" /\ Store(h, "awaiting", "launch", "undo") /\ OnlyJournal
    BY <1>5 DEF AwaitHealth
  <2>2. journal[t] = "applying" /\ helper[h].child = None /\ installed = t
    BY <2>1, HelperHolds DEF Agrees
  <2>3. /\ Fits(h, "launch", "awaiting", FALSE) /\ Fits(h, "undo", "awaiting", TRUE)
        /\ Fits(h, "undo", journal[t], helper[h].behind)
    BY <2>2 DEF Fits, Live
  <2>4. /\ "awaiting" \in Live /\ journal[t] \in Live
        /\ {"launch", "undo"} \subseteq Gated /\ helper[h].pc \in Gated \cap Alone \cap Before
    BY <2>1, <2>2 DEF Live, Gated, Alone, Before
  <2> QED
    BY <2>1, <2>2, <2>3, <2>4, StoreOK
<1>6. ASSUME NEW place \in {"replacing", "await", "undo"}, Goto(h, place),
             helper[h].pc \in {"replace", "replacing"},
             place = "await" => installed' = t,
             UNCHANGED <<app, lease, shared, journal, next>>
      PROVE  Inv'
  <2>1. /\ journal[t] = "applying" /\ helper[h].child = None /\ shared = {}
        /\ lease["runtime"] = h
        /\ journal \in [Txns -> Live \cup {"none", "committed", "rolled_back", "required"}]
    BY <1>6, HelperHolds DEF Agrees, Alone, Inv, Shapes
  <2>2. Agrees(h)'
    BY <1>6, <2>1, Gone_to DEF Agrees, Live
  <2>3. /\ helper[h].pc \in Gated \cap Before /\ place \in Gated
        /\ place \notin {"commit", "notify"} /\ journal[t] \in Live
    BY <1>6, <2>1 DEF Gated, Before, Live
  <2> QED
    BY <1>6, <2>1, <2>2, <2>3, Gone_to, HelperWorks
<1>7. CASE ReplaceFiles(h)
  BY <1>6, <1>7 DEF ReplaceFiles, leases, used
<1>8. CASE FilesReplaced(h)
  BY <1>6, <1>8 DEF FilesReplaced, leases
<1> QED
  BY <1>1, <1>2, <1>3, <1>4, <1>5, <1>7, <1>8 DEF Apply


\* The child created for the transaction starts as an application of its version
\* (ProcessLauncher::launch).
LEMMA LaunchChildOK ==
  ASSUME Inv, NEW h \in Helpers, LaunchChild(h)
  PROVE  Inv'
<1> USE ProcessesAssumption
<1>1. /\ helper[h].pc = "launch" /\ lease' = Released(h, {"runtime"})
      /\ UNCHANGED <<shared, journal, installed, next>>
  BY Zenon DEF LaunchChild, used
<1>2. /\ helper[h].child = None /\ ~helper[h].healthy
      /\ helper[h].txn \in Txns /\ installed = helper[h].txn
      /\ journal[helper[h].txn] = "awaiting"
      /\ lease["transaction"] = h /\ lease["startup"] = h
  BY <1>1, HelperHolds DEF Agrees, Gated, Before
<1>3. /\ lease' \in [Kinds -> Procs \cup {None}]
      /\ \A g \in Procs \ {h}, k \in Kinds : lease[k] = g => lease'[k] = g
      /\ shared = {} \/ lease'["runtime"] = None
      /\ lease'["transaction"] = h /\ lease'["startup"] = h
  <2>1. lease'["transaction"] = h /\ lease'["startup"] = h
    BY <1>1, <1>2 DEF Released, Kinds
  <2> QED
    BY <1>1, <2>1, ReleasedOK
<1>4. CASE /\ helper' = [helper EXCEPT ![h] = [@ EXCEPT !.pc = "stop", !.launched = TRUE]]
           /\ app' = app
  <2>1. /\ DOMAIN helper' = Helpers /\ DOMAIN helper'[h] = HelperFields
        /\ \A g \in Helpers \ {h} : helper'[g] = helper[g]
        /\ helper'[h].pc = "stop" /\ helper'[h].txn = helper[h].txn
        /\ helper'[h].child = helper[h].child /\ helper'[h].healthy = helper[h].healthy
    BY <1>4 DEF Inv, Shapes, HelperFields
  <2>2. Agrees(h)'
    BY <1>1, <1>2, <2>1 DEF Agrees, Live
  <2> QED
    BY <1>1, <1>2, <1>3, <1>4, <2>1, <2>2, AppsKept, HelperStep DEF Gated, Alone
<1>5. ASSUME NEW a \in Apps, app[a].pc = "off",
             app' = [app EXCEPT ![a] = [Off EXCEPT !.pc = "entry", !.image = installed,
                                                !.txn = helper[h].txn]],
             helper' = [helper EXCEPT ![h] = [@ EXCEPT !.pc = "health", !.child = a,
                                      !.launched = TRUE]]
      PROVE  Inv'
  <2>1. /\ DOMAIN app' = Apps /\ DOMAIN app'[a] = AppFields
        /\ \A b \in Apps \ {a} : app'[b] = app[b]
        /\ app'[a].pc = "entry" /\ app'[a].txn = helper[h].txn
        /\ app'[a].image = helper[h].txn /\ app'[a].told = "nothing"
    BY <1>2, <1>5 DEF Off, Inv, Shapes, AppFields
  <2>2. /\ DOMAIN helper' = Helpers /\ DOMAIN helper'[h] = HelperFields
        /\ \A g \in Helpers \ {h} : helper'[g] = helper[g]
        /\ helper'[h].pc = "health" /\ helper'[h].txn = helper[h].txn
        /\ helper'[h].child = a /\ helper'[h].healthy = helper[h].healthy
    BY <1>5 DEF Inv, Shapes, HelperFields
  <2>3. Shapes'
    <3>1. \A b \in Apps : DOMAIN app'[b] = AppFields
      BY <2>1 DEF Inv, Shapes
    <3>2. \A g \in Helpers : /\ DOMAIN helper'[g] = HelperFields
                             /\ helper'[g].child \in Apps \cup {None}
                             /\ helper'[g].pc # "off" => helper'[g].txn \in Txns
      BY <1>2, <2>2 DEF Inv, Shapes
    <3> QED
      BY <1>1, <1>3, <2>1, <2>2, <3>1, <3>2 DEF Inv, Shapes
  <2>4. HoldInv'
    <3>1. ASSUME NEW b \in Apps
          PROVE  /\ app'[b].pc \in Inside => b \in shared'
                 /\ app'[b].pc \in {"sweep2", "sweeping"} => lease'["transaction"] = b
      <4>1. b \in Procs \ {h} /\ "transaction" \in Kinds
        BY DEF Procs, Kinds
      <4> QED
        BY <1>1, <1>3, <2>1, <4>1 DEF Inv, HoldInv, Inside
    <3>2. ASSUME NEW g \in Helpers
          PROVE  /\ helper'[g].pc \in Gated \cup {"gate"} => lease'["transaction"] = g
                 /\ helper'[g].pc \in Gated => lease'["startup"] = g
                 /\ helper'[g].pc \in Alone => lease'["runtime"] = g
      <4>1. CASE g = h
        BY <1>3, <2>2, <4>1 DEF Alone
      <4>2. CASE g # h
        <5>1. g \in Procs \ {h} /\ helper'[g] = helper[g]
          BY <2>2, <4>2 DEF Procs
        <5> QED
          BY <1>3, <5>1 DEF Inv, HoldInv, Kinds
      <4> QED
        BY <4>1, <4>2
    <3> QED
      BY <1>1, <1>3, <3>1, <3>2 DEF HoldInv
  <2>5. RecordInv'
    <3>1. Agrees(h)'
      BY <1>1, <1>2, <2>2 DEF Agrees
    <3>2. ASSUME NEW g \in Helpers, g # h
          PROVE  Agrees(g)'
      BY <1>1, <2>2, <3>2 DEF Inv, RecordInv, Agrees
    <3> QED
      BY <1>1, <3>1, <3>2 DEF Inv, RecordInv
  <2>6. ASSUME NEW b \in Apps
        PROVE  Stands(b)'
    <3>1. CASE b = a
      BY <1>2, <2>1, <3>1 DEF Stands, Running
    <3>2. CASE b # a
      <4>1. Stands(b) /\ app'[b] = app[b] /\ (b \in Running' <=> b \in Running)
            /\ NoneOpen' = NoneOpen
        BY <1>1, <2>1, <3>2 DEF Inv, AppInv, Running, NoneOpen
      <4> QED
        BY <1>1, <4>1 DEF Stands
    <3> QED
      BY <3>1, <3>2
  <2>7. \A g \in Helpers : helper[g].child # a
    BY <1>5 DEF Inv, AppInv, Answers
  <2>8. ASSUME NEW g \in Helpers
        PROVE  Answers(g)'
    <3>1. CASE g = h
      BY <1>2, <2>1, <2>2, <2>7, <3>1 DEF Answers, Before
    <3>2. CASE g # h
      <4>1. Answers(g) /\ helper[g].child \in Apps \cup {None} /\ helper'[g] = helper[g]
        BY <2>2, <3>2 DEF Inv, AppInv, Shapes
      <4>2. helper[g].child # None => app'[helper[g].child] = app[helper[g].child]
        BY <2>1, <2>7, <4>1
      <4>3. \A f \in Helpers : helper'[f].child = helper[f].child \/ helper'[f].child = a
        BY <2>2
      <4> QED
        BY <2>7, <4>1, <4>2, <4>3 DEF Answers
    <3> QED
      BY <3>1, <3>2
  <2> QED
    BY <2>3, <2>4, <2>5, <2>6, <2>8 DEF Inv, AppInv
<1> QED
  BY <1>4, <1>5, Zenon DEF LaunchChild

\* The transaction and the gate stay with a helper whose child ends.
LEMMA ChildStoppedOK ==
  ASSUME Inv, NEW h \in Helpers, ChildStopped(h)
  PROVE  Inv'
<1> USE ProcessesAssumption
<1> DEFINE child == helper[h].child
<1>1. /\ helper[h].pc = "stopping" /\ h \in DOMAIN helper
      /\ child \in Apps \cup {None} /\ lease \in [Kinds -> Procs \cup {None}]
      /\ lease["transaction"] = h /\ lease["startup"] = h
  BY DEF ChildStopped, Inv, Shapes, HoldInv, Gated
<1>2. /\ DOMAIN Orphaned(child) = Helpers
      /\ DOMAIN Orphaned(child)[h] = HelperFields
      /\ Orphaned(child)[h].txn = helper[h].txn
      /\ Orphaned(child)[h].behind = helper[h].behind
      /\ Orphaned(child)[h].healthy = helper[h].healthy
      /\ Orphaned(child)[h].child = None
  <2>1. Shapes
    BY DEF Inv
  <2>2. DOMAIN Orphaned(child) = Helpers
    BY DEF Orphaned
  <2> QED
    BY <1>1, <2>1, <2>2, OrphanedOK
<1>3. /\ helper' = [Orphaned(child) EXCEPT ![h].pc = "reacquire"]
      /\ app' = [a \in Apps |-> IF a = child THEN Off ELSE app[a]]
      /\ lease' = IF child = None THEN lease ELSE Released(child, Kinds)
      /\ shared' = shared \ {child}
      /\ UNCHANGED <<journal, installed, next>>
  BY DEF ChildStopped, files, used
<1>4. /\ DOMAIN helper' = Helpers
      /\ \A g \in Helpers \ {h} : helper'[g] = Orphaned(child)[g]
      /\ DOMAIN helper'[h] = HelperFields /\ helper'[h].pc = "reacquire"
      /\ helper'[h].child = None
      /\ helper'[h].txn = helper[h].txn /\ helper'[h].behind = helper[h].behind
      /\ helper'[h].healthy = helper[h].healthy
  BY <1>2, <1>3 DEF HelperFields
<1>5. /\ lease' \in [Kinds -> Procs \cup {None}]
      /\ \A k \in Kinds : lease'[k] = lease[k] \/ lease'[k] = None
      /\ \A g \in Procs \ {child}, k \in Kinds : lease[k] = g => lease'[k] = g
  BY <1>1, <1>3 DEF Released, Procs
<1>6. \A k \in {"transaction", "startup"} : lease'[k] = h
  BY <1>1, <1>5 DEF Kinds, Procs
<1>7. \A g \in Procs \ {h, child}, k \in Kinds : lease[k] = g => lease'[k] = g
  BY <1>5
<1> QED
  BY <1>1, <1>3, <1>4, <1>5, <1>6, <1>7, ChildLeaves

\* The step that sends the commit, and the one that closes the pipe of a child
\* that is to end.
LEMMA TellOK ==
  ASSUME Inv, NEW h \in Helpers, SendCommit(h) \/ Stop(h)
  PROVE  Inv'
<1>1. UNCHANGED <<lease, shared, journal, installed, next>>
  BY DEF SendCommit, Stop, leases, files, used
<1>2. CASE SendCommit(h)
  <2>1. PICK what \in {"commit", "closed"} : app' = Tell(h, what)
    BY <1>2 DEF SendCommit
  <2>2. /\ helper[h].pc = "notify"
        /\ helper' = [helper EXCEPT ![h] = [@ EXCEPT !.pc = "end", !.child = None]]
    BY <1>2 DEF SendCommit
  <2>3. /\ DOMAIN helper' = Helpers /\ DOMAIN helper'[h] = HelperFields
        /\ \A g \in Helpers \ {h} : helper'[g] = helper[g]
        /\ helper'[h].pc = "end" /\ helper'[h].txn = helper[h].txn
        /\ helper'[h].child = None /\ helper'[h].healthy = helper[h].healthy
    BY <2>2 DEF Inv, Shapes, HelperFields
  <2>4. Agrees(h)'
    BY <2>3 DEF Agrees
  <2>5. lease["transaction"] = h /\ lease["startup"] = h
    BY <2>2, HelperHolds DEF Gated
  <2> QED
    BY <1>1, <2>1, <2>2, <2>3, <2>4, <2>5, Told, LeasesKept, HelperStep DEF Before, Alone
<1>3. CASE Stop(h)
  <2>1. /\ helper[h].pc = "stop" /\ app' = Tell(h, "closed") /\ Goto(h, "stopping")
    BY <1>3 DEF Stop
  <2>2. lease["transaction"] = h /\ lease["startup"] = h /\ Agrees(h)
    BY <2>1, HelperHolds DEF Gated
  <2>3. Agrees(h)'
    BY <1>1, <2>1, <2>2, Gone_to DEF Agrees
  <2> QED
    BY <1>1, <2>1, <2>2, <2>3, Gone_to, Told, LeasesKept, HelperStep DEF Before, Alone
<1> QED
  BY <1>2, <1>3

\* The commit is stored only where the child answered, with its files in place.
LEMMA CommitOK ==
  ASSUME Inv, NEW h \in Helpers, Commit(h)
  PROVE  Inv'
<1>1. helper[h].pc = "commit" /\ Store(h, "committed", "notify", "stop") /\ OnlyJournal
  BY DEF Commit
<1>2. journal[helper[h].txn] = "awaiting" /\ installed = helper[h].txn
  BY <1>1, HelperHolds DEF Agrees
<1>3. /\ Fits(h, "notify", "committed", FALSE) /\ Fits(h, "stop", "committed", TRUE)
      /\ Fits(h, "stop", journal[helper[h].txn], helper[h].behind)
  BY <1>2 DEF Fits, Live
<1>4. /\ journal[helper[h].txn] \in Live /\ {"notify", "stop"} \subseteq Gated
      /\ helper[h].pc \in Gated /\ "notify" \notin Alone \cup Before
      /\ "stop" \notin Alone \cup Before
  BY <1>1, <1>2 DEF Live, Gated, Alone, Before
<1> QED
  BY <1>1, <1>2, <1>3, <1>4, StoreOK

\* Every step around the health check keeps the invariant.
LEMMA HealthOK ==
  ASSUME Inv, NEW h \in Helpers, Health(h)
  PROVE  Inv'
<1>1. CASE AwaitHealthy(h)
  <2>1. helper[h].pc = "health" /\ UNCHANGED <<app, lease, shared, journal, installed, next>>
    BY <1>1 DEF AwaitHealthy, leases, files, used
  <2>2. /\ journal[helper[h].txn] = "awaiting" /\ installed = helper[h].txn
        /\ lease["transaction"] = h /\ lease["startup"] = h
    BY <2>1, HelperHolds DEF Agrees, Gated
  <2>3. CASE /\ helper[h].healthy
             /\ helper' = [helper EXCEPT ![h] = [@ EXCEPT !.pc = "commit",
                                                          !.healthy = FALSE]]
    <3>1. /\ DOMAIN helper' = Helpers /\ DOMAIN helper'[h] = HelperFields
          /\ \A g \in Helpers \ {h} : helper'[g] = helper[g]
          /\ helper'[h].pc = "commit" /\ helper'[h].txn = helper[h].txn
          /\ helper'[h].child = helper[h].child /\ helper'[h].healthy = FALSE
      BY <2>3 DEF Inv, Shapes, HelperFields
    <3>2. Agrees(h)'
      BY <2>1, <2>2, <3>1 DEF Agrees
    <3> QED
      BY <2>1, <2>2, <2>3, <3>1, <3>2, GoesOn DEF Before, Alone
  <2>4. CASE Goto(h, "stop")
    <3>1. Agrees(h)'
      BY <2>1, <2>2, <2>4, Gone_to DEF Agrees, Live
    <3> QED
      BY <2>1, <2>4, <3>1, GotoOK DEF Gated, Alone, Before
  <2> QED
    BY <1>1, <2>3, <2>4 DEF AwaitHealthy
<1>2. CASE StopFailed(h)
  <2>1. /\ helper[h].pc = "stopping" /\ Goto(h, "require")
        /\ UNCHANGED <<app, lease, shared, journal, installed, next>>
    BY <1>2 DEF StopFailed, leases, files
  <2>2. Agrees(h)'
    BY <2>1, HelperHolds, Gone_to DEF Agrees
  <2> QED
    BY <2>1, <2>2, GotoOK DEF Gated, Alone, Before
<1>3. CASE Reacquire(h)
  <2>1. helper[h].pc = "reacquire" /\ UNCHANGED <<app, shared, journal, installed, next>>
    BY <1>3 DEF Reacquire, files, used
  <2>2. /\ journal[helper[h].txn] \in Live \/ helper[h].behind
        /\ helper[h].child = None /\ lease["transaction"] = h /\ lease["startup"] = h
    BY <2>1, HelperHolds DEF Agrees, Gated
  <2>3. CASE NobodyRuns /\ Take("runtime", h) /\ Goto(h, "undo")
    <3>1. Agrees(h)'
      BY <2>1, <2>2, <2>3, Gone_to DEF Agrees
    <3>2. Free("runtime") /\ shared = {}
      BY <2>3 DEF NobodyRuns
    <3>3. lease'["runtime"] = h /\ lease'["transaction"] = h /\ lease'["startup"] = h
      BY <2>2, <2>3, <3>2, TakeOK DEF Kinds, Procs
    <3> QED
      BY <2>1, <2>3, <3>1, <3>2, <3>3, Gone_to, GoesOn DEF Before, Kinds
  <2>4. CASE Goto(h, "require") /\ UNCHANGED lease
    <3>1. Agrees(h)'
      BY <2>1, <2>2, <2>4, Gone_to DEF Agrees
    <3> QED
      BY <2>1, <2>4, <3>1, GotoOK DEF Gated, Alone, Before
  <2> QED
    BY <1>3, <2>3, <2>4 DEF Reacquire
<1> QED
  BY <1>1, <1>2, <1>3, LaunchChildOK, ChildStoppedOK, TellOK, CommitOK DEF Health

\* A recovery undoes a journal that is open, and does nothing for any other.
LEMMA RecoverOK ==
  ASSUME Inv, NEW h \in Helpers, Recover(h)
  PROVE  Inv'
<1> DEFINE place == IF journal[helper[h].txn] \in Live THEN "undo" ELSE "end"
<1>1. helper[h].pc = "recover" /\ UNCHANGED <<journal, installed, next>>
  BY DEF Recover, files, used
<1>2. CASE NobodyRuns /\ Take("runtime", h) /\ Goto(h, place) /\ UNCHANGED <<app, shared>>
  <2>1. helper[h].child = None /\ lease["transaction"] = h /\ lease["startup"] = h
    BY <1>1, HelperHolds DEF Agrees, Gated
  <2>2. Free("runtime") /\ shared = {}
    BY <1>2 DEF NobodyRuns
  <2>3. lease'["runtime"] = h /\ lease'["transaction"] = h /\ lease'["startup"] = h
    BY <1>2, <2>1, <2>2, TakeOK DEF Kinds, Procs
  <2>4. place \in {"undo", "end"} /\ (place = "undo" => journal[helper[h].txn] \in Live)
    OBVIOUS
  <2> HIDE DEF place
  <2>5. Agrees(h)'
    BY <1>1, <1>2, <2>1, <2>4, Gone_to DEF Agrees
  <2> QED
    BY <1>1, <1>2, <2>2, <2>3, <2>4, <2>5, Gone_to, GoesOn DEF Before, Kinds
<1>3. CASE Ends(h, "blocked")
  BY <1>1, <1>3, EndsOK
<1> QED
  BY <1>2, <1>3 DEF Recover

\* A rollback begins with its record, unless it has begun already or nothing was
\* changed (settle_old).
LEMMA UndoOK ==
  ASSUME Inv, NEW h \in Helpers, helper[h].pc = "undo", Undo(h)
  PROVE  Inv'
<1> DEFINE t == helper[h].txn
<1>1. /\ helper[h].child = None /\ OnlyJournal
      /\ ~helper[h].behind => journal[t] \in Live
  BY HelperHolds DEF Agrees, Undo
<1>2. /\ {"rolled_back", "rolling_back"} \subseteq Live \cup {"rolled_back"}
      /\ {"end", "restore"} \subseteq Gated /\ helper[h].pc \in Gated \cap Alone
      /\ "end" \notin Before /\ "restore" \notin Before
  BY DEF Live, Gated, Alone, Before
<1>3. \A phase \in {"rolled_back", "rolling_back"}, u \in BOOLEAN : Fits(h, "end", phase, u)
  BY <1>1 DEF Fits
<1>4. Fits(h, "end", journal[t], helper[h].behind)
  BY <1>1 DEF Fits
<1>5. CASE Store(h, "rolled_back", "end", "end")
  BY <1>1, <1>2, <1>3, <1>4, <1>5, StoreOK
<1>6. CASE journal[t] = "rolling_back" /\ Goto(h, "restore") /\ UNCHANGED journal
  <2>1. Agrees(h)'
    BY <1>1, <1>6, Gone_to DEF Agrees, OnlyJournal
  <2> QED
    BY <1>1, <1>2, <1>6, <2>1, GotoOK DEF OnlyJournal, leases
<1>7. CASE Store(h, "rolling_back", "restore", "end")
  <2>1. Fits(h, "restore", "rolling_back", FALSE)
    BY <1>1 DEF Fits
  <2> QED
    BY <1>1, <1>2, <1>3, <1>4, <1>7, <2>1, StoreOK
<1> QED
  BY <1>5, <1>6, <1>7 DEF Undo

\* Every step of a rollback or a recovery keeps the invariant.
LEMMA RollbackOK ==
  ASSUME Inv, NEW h \in Helpers, Rollback(h)
  PROVE  Inv'
<1> DEFINE t == helper[h].txn
<1>1. CASE Undo(h) /\ helper[h].pc = "undo"
  BY <1>1, UndoOK
<1>2. CASE RestoreFiles(h) \/ FilesRestored(h)
  <2>1. PICK place \in {"restoring", "restored", "require"} : Goto(h, place)
    BY <1>2 DEF RestoreFiles, FilesRestored
  <2>2. /\ helper[h].pc \in {"restore", "restoring"}
        /\ UNCHANGED <<app, lease, shared, journal, next>>
    BY <1>2 DEF RestoreFiles, FilesRestored, leases, used
  <2>3. /\ journal[t] = "rolling_back" /\ helper[h].child = None /\ shared = {}
        /\ lease["runtime"] = h
        /\ journal \in [Txns -> Live \cup {"none", "committed", "rolled_back", "required"}]
    BY <2>2, HelperHolds DEF Agrees, Alone, Inv, Shapes
  <2>4. Agrees(h)'
    BY <2>1, <2>2, <2>3, Gone_to DEF Agrees, Live
  <2>5. /\ helper[h].pc \in Gated /\ place \in Gated /\ place \notin Before
        /\ place \notin {"commit", "notify"} /\ journal[t] \in Live
    BY <2>2, <2>3 DEF Gated, Before, Live
  <2> QED
    BY <2>1, <2>2, <2>3, <2>4, <2>5, Gone_to, HelperWorks
<1>3. CASE RolledBack(h)
  <2>1. helper[h].pc = "restored" /\ Store(h, "rolled_back", "end", "end") /\ OnlyJournal
    BY <1>3 DEF RolledBack
  <2>2. journal[t] = "rolling_back" /\ helper[h].child = None
    BY <2>1, HelperHolds DEF Agrees
  <2>3. /\ \A u \in BOOLEAN : Fits(h, "end", "rolled_back", u)
        /\ Fits(h, "end", journal[t], helper[h].behind)
    BY <2>2 DEF Fits
  <2>4. /\ journal[t] \in Live /\ "end" \in Gated \ (Alone \cup Before)
        /\ helper[h].pc \in Gated
    BY <2>1, <2>2 DEF Live, Gated, Alone, Before
  <2> QED
    BY <2>1, <2>3, <2>4, StoreOK
<1>4. CASE Require(h)
  <2>1. helper[h].pc = "require" /\ Store(h, "required", "end", "end") /\ OnlyJournal
    BY <1>4 DEF Require
  <2>2. journal[t] \in Live \/ helper[h].behind
    BY <2>1, HelperHolds DEF Agrees
  <2>3. /\ \A u \in BOOLEAN : Fits(h, "end", "required", u)
        /\ Fits(h, "end", journal[t], helper[h].behind)
    BY <2>2 DEF Fits
  <2>4. "end" \in Gated \ (Alone \cup Before) /\ helper[h].pc \in Gated
    BY <2>1 DEF Gated, Alone, Before
  <2> QED
    BY <2>1, <2>2, <2>3, <2>4, StoreOK
<1>5. Undo(h) => helper[h].pc = "undo"
  BY DEF Undo
<1> QED
  BY <1>1, <1>2, <1>3, <1>4, <1>5, RecoverOK DEF Rollback

\* A helper that dies leaves its child alone, with a closed pipe; the leases go.
LEMMA HelperDiesOK ==
  ASSUME Inv, NEW h \in Helpers, HelperDies(h)
  PROVE  Inv'
<1>1. /\ app' = Tell(h, "closed") /\ helper' = [helper EXCEPT ![h] = Gone(h, helper[h].report)]
      /\ lease' = Released(h, Kinds)
      /\ UNCHANGED <<shared, journal, installed, next>>
  BY DEF HelperDies, files
<1>2. /\ DOMAIN helper' = Helpers /\ DOMAIN helper'[h] = HelperFields
      /\ \A g \in Helpers \ {h} : helper'[g] = helper[g]
      /\ helper'[h].pc = "off" /\ helper'[h].child = None /\ helper'[h].healthy = FALSE
  BY <1>1 DEF Gone, Idle, Inv, Shapes, HelperFields
<1>3. Agrees(h)'
  BY <1>2 DEF Agrees
<1> QED
  BY <1>1, <1>2, <1>3, Told, ReleasedOK, HelperStep DEF Gated, Alone

-----------------------------------------------------------------------------
(* The theorems. *)

\* No process runs at the start, nothing is held and no journal exists.
LEMMA InitOK == Init => Inv
<1> SUFFICES ASSUME Init
             PROVE  Inv
  OBVIOUS
<1>1. /\ \A a \in Apps : app[a] = Off
      /\ \A h \in Helpers : helper[h] = Idle
      /\ \A t \in Txns : journal[t] = "none"
  BY DEF Init
<1>2. Shapes
  BY <1>1, BoundsAssumption DEF Init, Off, Idle, Shapes, AppFields, HelperFields, Procs
<1>3. HoldInv
  BY <1>1 DEF Init, Off, Idle, HoldInv, Inside, Gated, Alone, Kinds
<1>4. RecordInv
  BY <1>1 DEF Idle, RecordInv, Agrees
<1>5. AppInv
  BY <1>1 DEF Off, Idle, AppInv, Stands, Answers, Running, Before
<1> QED
  BY <1>2, <1>3, <1>4, <1>5 DEF Inv

\* An application that is launched has nothing yet.
LEMMA LaunchOK ==
  ASSUME Inv, NEW a \in Apps, Launch(a)
  PROVE  Inv'
<1>1. UNCHANGED <<helper, lease, shared, journal, installed, next>>
  BY DEF Launch, leases, files
<1>2. /\ DOMAIN app' = Apps /\ DOMAIN app'[a] = AppFields
      /\ \A b \in Apps \ {a} : app'[b] = app[b]
      /\ app'[a].pc = "sweep"
  BY DEF Launch, Off, Inv, Shapes, AppFields
<1>3. /\ lease \in [Kinds -> Procs \cup {None}] /\ shared \subseteq Apps
      /\ shared = {} \/ lease["runtime"] = None
      /\ next \in Nat \ {0}
  BY DEF Inv, Shapes, HoldInv
<1> QED
  BY <1>1, <1>2, <1>3, HelpersKept, AppStep DEF Running, Inside

\* Every step of every process keeps the invariant.
LEMMA StepOK == Inv /\ [Next]_vars => Inv'
<1> SUFFICES ASSUME Inv, [Next]_vars
             PROVE  Inv'
  OBVIOUS
<1>1. ASSUME NEW a \in Apps, Quit(a) \/ AppDies(a)
      PROVE  Inv'
  BY <1>1, AppLeaves DEF Quit, AppDies, files, used
<1>2. ASSUME NEW h \in Helpers, Helping(h)
      PROVE  Inv'
  BY <1>2, SessionOK, ApplyOK, HealthOK, RollbackOK DEF Helping
<1>3. CASE UNCHANGED vars
  BY <1>3 DEF vars, Inv, Shapes, HoldInv, RecordInv, Agrees, AppInv, Stands, Answers,
     NoneOpen, Running
<1> QED
  BY <1>1, <1>2, <1>3, LaunchOK, PrepareRestartOK, StartingOK, RestartingOK, HelperDiesOK
     DEF Next

\* The invariant holds in every reachable state.
THEOREM Invariance == Spec => []Inv
<1> QED
  BY InitOK, StepOK, PTL DEF Spec

\* Whoever edits has the complete version on disk as its image, and no update
\* is under way or waits for a person (startup_gate, update_gate::enter,
\* ChildSession).
THEOREM EditorsAreSettled == Spec => []EditsOnlySettledVersion
<1>1. Inv => EditsOnlySettledVersion
  BY DEF Inv, AppInv, Stands, NoneOpen, EditsOnlySettledVersion, Running
<1> QED
  BY <1>1, Invariance, PTL

\* A file changes only under a helper that holds all three leases while no
\* application runs, admitted or limited (wait_for_parent_exit,
\* stop_and_release_lease, Mode::Recover).
THEOREM FilesAreAlone == Spec => FilesChangeAlone
<1> DEFINE Step == installed' # installed =>
                     \E h \in Helpers : /\ \A k \in Kinds : lease[k] = h
                                        /\ shared = {}
                                        /\ Running = {}
<1>1. ASSUME Inv, Next, installed' # installed
      PROVE  \E h \in Helpers :
                helper[h].pc \in {"replace", "replacing", "restore", "restoring"}
  <2>1. ASSUME NEW a \in Apps
        PROVE  ~(\/ Launch(a) \/ PrepareRestart(a) \/ Quit(a) \/ AppDies(a)
                 \/ Starting(a) \/ Restarting(a))
    BY <1>1 DEF Launch, PrepareRestart, Quit, AppDies, Starting, Restarting, Detect,
       TakeCapability, JoinRuntime, SweepStep, Sweep, TakeGate, NoticeUpdate,
       GiveUpWaiting, ScanAdmit, ScanStop,
       ScanRecover, Recovered, Enter, Verify, Answered, Authorize, Abandon, ConfirmExit,
       files, used
  <2>2. PICK h \in Helpers : Helping(h) \/ HelperDies(h)
    BY <1>1, <2>1 DEF Next
  <2>3. ~HelperDies(h) /\ ~Session(h) /\ ~Health(h)
    BY <1>1 DEF HelperDies, Session, Hello, HelperGate, Heard, ParentExited,
       ParentStillRunning, SessionEnds, Left, Refuse, Ends, Health, LaunchChild,
       AwaitHealthy, Commit, SendCommit, Stop, ChildStopped, StopFailed, Reacquire,
       Store, OnlyJournal, files, used
  <2>4. Apply(h) => helper[h].pc \in {"replace", "replacing"}
    BY <1>1 DEF Apply, RefuseApply, RetirePriorReceipts, Begin, Unstarted,
       StartApplying, ReplaceFiles, FilesReplaced, AwaitHealth, Ends, Store,
       OnlyJournal, files, used
  <2>5. Rollback(h) => helper[h].pc \in {"restore", "restoring"}
    BY <1>1 DEF Rollback, Recover, Undo, RestoreFiles, FilesRestored, RolledBack,
       Require, Ends, Store, OnlyJournal, files, used
  <2> QED
    BY <2>2, <2>3, <2>4, <2>5 DEF Helping
<1>2. ASSUME Inv, NEW h \in Helpers,
             helper[h].pc \in {"replace", "replacing", "restore", "restoring"}
      PROVE  /\ \A k \in Kinds : lease[k] = h
             /\ shared = {}
             /\ Running = {}
  <2>1. /\ lease["transaction"] = h /\ lease["startup"] = h /\ lease["runtime"] = h
    BY <1>2 DEF Inv, HoldInv, Gated, Alone
  <2>2. shared = {}
    BY <1>2, <2>1, ProcessesAssumption DEF Inv, HoldInv
  <2> QED
    BY <1>2, <2>1, <2>2 DEF Inv, HoldInv, Inside, Running, Kinds
<1>3. Inv /\ [Next]_vars => [Step]_vars
  BY <1>1, <1>2 DEF vars
<1> QED
  BY <1>3, Invariance, PTL DEF Spec, FilesChangeAlone

\* A helper that is about to end its child ends an editor only if the commit it
\* took for failed is on disk (conclude_health, committed_durably).
THEOREM EditorsSurvive == Spec => []EditorsAreNotKilled
<1>1. Inv => EditorsAreNotKilled
  <2> SUFFICES ASSUME Inv, NEW h \in Helpers,
                      helper[h].pc \in {"stop", "stopping", "end"},
                      helper[h].child \in Running
               PROVE  helper[h].behind
    BY DEF EditorsAreNotKilled
  <2>1. helper[h].txn \in Txns /\ helper[h].child # None
    BY ProcessesAssumption DEF Inv, Shapes, Running
  <2>2. NoneOpen
    BY DEF Inv, AppInv, Stands, Running
  <2> QED
    BY <2>1, <2>2 DEF Inv, RecordInv, Agrees, NoneOpen, Live
<1> QED
  BY <1>1, Invariance, PTL

-----------------------------------------------------------------------------
(* What is staged, and for whom: KeptInv says which transaction belongs to *)
(* which application and helper, and that its directory outlives their work. *)

\* Where an application has a helper that works on its own update, and where a
\* helper has not begun with it, or has.
Linked == {"preparing", "abandoning"}
Early == {"hello", "gate", "prepared"}
Fresh(h) ==
  /\ helper[h].mode = "prepare"
  /\ \/ helper[h].pc \in Early /\ helper[h].heard \in {"nothing", "authorized"}
     \/ helper[h].pc \in {"waiting", "apply", "begin"}
Late == {"unstarted", "start", "replace", "replacing", "await", "launch", "health",
         "commit", "notify", "stop", "stopping", "reacquire", "undo", "restore",
         "restoring", "restored", "require"}

\* Transactions are numbered in their order, and a journal has its directory.
NumberInv ==
  /\ \A t \in Txns : journal[t] # "none" => t \in staged /\ t < next
  /\ \A h \in Helpers : helper[h].pc # "off" => helper[h].txn < next

\* An application that has asked for an update, and the helper it asked.
Bound(a, h) ==
  /\ helper[h].pc # "off" /\ helper[h].txn = app[a].txn => app[a].helper = h
  /\ app[a].helper = h /\ helper[h].pc # "off" =>
       /\ helper[h].txn = app[a].txn /\ helper[h].mode = "prepare"
       /\ helper[h].pc \in Early /\ helper[h].parent = a
       /\ helper[h].heard # "authorized"
       /\ app[a].pc = "preparing" => helper[h].heard = "nothing"

\* An application has at most one helper, of the transaction it asked for; until
\* it is authorized, that helper writes no journal.
LinkInv ==
  /\ \A a \in Apps :
       /\ app[a].helper # None => app[a].pc \in Linked \cup {"recovering"}
       /\ app[a].pc \in Linked \cup {"recovering"} => app[a].helper \in Helpers
       /\ app[a].pc \in Linked =>
            /\ app[a].txn \in Txns /\ app[a].txn < next /\ journal[app[a].txn] = "none"
            /\ \A h \in Helpers : Bound(a, h)
  /\ \A a, b \in Apps : app[a].helper = app[b].helper /\ app[a].helper # None => a = b
  /\ \A a, b \in Apps :
       app[a].pc \in Linked /\ app[b].pc \in Linked /\ app[a].txn = app[b].txn => a = b

\* A helper that has not begun has a directory without a journal that nobody
\* else works on; until it is authorized, its application runs.
FreshInv ==
  \A h \in Helpers :
    /\ helper[h].pc \in {"prepared", "waiting", "apply", "begin"} => helper[h].mode = "prepare"
    /\ helper[h].pc \in {"hello", "gate"} =>
         helper[h].heard # "authorized" /\ helper[h].report = "none"
    /\ Fresh(h) =>
         /\ helper[h].txn \in staged /\ journal[helper[h].txn] = "none"
         /\ \A g \in Helpers : helper[g].pc # "off" /\ helper[g].txn = helper[h].txn => g = h
    /\ Fresh(h) /\ helper[h].pc \in Early /\ helper[h].heard = "nothing" =>
         /\ helper[h].parent \in Apps
         /\ app[helper[h].parent].pc = "preparing" /\ app[helper[h].parent].helper = h

\* One that has begun has a directory; one that has restored the files has done
\* so.
LateInv ==
  \A h \in Helpers :
    /\ helper[h].pc \in Late => helper[h].txn \in staged
    /\ helper[h].pc = "restored" => installed = source[helper[h].txn]

\* A sweep holds all leases; the files are a mixture only beside a journal that
\* says so.
SweepInv == \A a \in Apps : app[a].pc = "sweeping" => \A k \in Kinds : lease[k] = a
MixedInv ==
  installed = Mixed => \E t \in Txns : journal[t] \in {"applying", "rolling_back", "required"}

KeptInv == NumberInv /\ LinkInv /\ FreshInv /\ LateInv /\ SweepInv /\ MixedInv

\* The types, one record and one variable at a time.
AppRecord == [pc : AppPlaces, image : Versions, waited : BOOLEAN, again : BOOLEAN,
              restarted : BOOLEAN, txn : 0 .. MaxTxns, helper : Helpers \cup {None},
              told : {"nothing", "commit", "closed"}]
HelperRecord ==
  [pc : HelperPlaces, mode : {"prepare", "recover"}, txn : 0 .. MaxTxns,
   parent : Apps \cup {None}, child : Apps \cup {None},
   heard : {"nothing", "authorized", "abort", "closed"},
   report : {"none", "prepared", "refused", "settled", "required", "blocked"},
   healthy : BOOLEAN, behind : BOOLEAN, launched : BOOLEAN]
AppType == app \in [Apps -> AppRecord]
HelperType == helper \in [Helpers -> HelperRecord]
LeaseType == lease \in [Kinds -> Procs \cup {None}]
SharedType == shared \subseteq Apps /\ (shared = {} \/ Free("runtime"))
JournalType ==
  /\ journal \in [Txns -> Live \cup {"none", "committed", "rolled_back", "required"}]
  /\ source \in [Txns -> Versions]
  /\ installed \in Versions \cup {Mixed}
StagedType == staged \subseteq Txns /\ capability \subseteq staged
CountType ==
  /\ next \in 1 .. MaxTxns + 1 /\ launches \in 0 .. MaxLaunches
  /\ troubles \in 0 .. MaxTroubles
Typed == AppType /\ HelperType /\ LeaseType /\ SharedType /\ JournalType /\ StagedType
         /\ CountType

\* Together they are the type invariant.
LEMMA TypesAreTyped == TypeOK <=> Typed
BY DEF TypeOK, Typed, AppType, HelperType, LeaseType, SharedType, JournalType, StagedType,
       CountType, AppRecord, HelperRecord

-----------------------------------------------------------------------------
(* Types: what a record is after each kind of change. *)

\* A process at another place, ended, or told something is still a process.
LEMMA MoveType ==
  ASSUME AppType, NEW a \in Apps, NEW p \in AppPlaces, Move(a, p)
  PROVE  AppType'
BY DEF AppType, AppRecord, Move

\* What has ended, and nothing, are values of their types.
LEMMA OffType == Off \in AppRecord /\ Idle \in HelperRecord /\ 0 \in 0 .. MaxTxns
BY BoundsAssumption DEF Off, Idle, AppRecord, HelperRecord, AppPlaces, HelperPlaces, Versions

\* An application whose record is replaced.
LEMMA SetAppType ==
  ASSUME AppType, NEW a \in Apps, NEW r \in AppRecord, app' = [app EXCEPT ![a] = r]
  PROVE  AppType'
BY DEF AppType

\* A child that is told something.
LEMMA TellType ==
  ASSUME AppType, NEW h \in Helpers, NEW what \in {"nothing", "commit", "closed"},
         app' = Tell(h, what)
  PROVE  AppType'
<1>1. ASSUME NEW a \in Apps
      PROVE  [app[a] EXCEPT !.told = what] \in AppRecord
  BY DEF AppType, AppRecord
<1> QED
  BY <1>1 DEF AppType, Tell

\* A helper at another place.
LEMMA GotoType ==
  ASSUME HelperType, NEW h \in Helpers, NEW p \in HelperPlaces, Goto(h, p)
  PROVE  HelperType'
BY DEF HelperType, HelperRecord, Goto

\* A helper whose record is replaced.
LEMMA SetHelperType ==
  ASSUME HelperType, NEW h \in Helpers, NEW r \in HelperRecord,
         helper' = [helper EXCEPT ![h] = r]
  PROVE  HelperType'
BY DEF HelperType

\* The answers of a helper.
Reports == {"none", "prepared", "refused", "settled", "required", "blocked"}

\* What is left of a helper.
LEMMA GoneType ==
  ASSUME NEW h \in Helpers, NEW rep \in Reports
  PROVE  Gone(h, rep) \in HelperRecord
<1>1. ASSUME NEW r \in Reports
      PROVE  [Idle EXCEPT !.report = r] \in HelperRecord
  BY OffType DEF HelperRecord, Reports
<1> QED
  BY <1>1 DEF Gone, Reports

\* A helper that ends with a report (Ends).
LEMMA EndsType ==
  ASSUME Typed, NEW h \in Helpers, NEW rep \in Reports, Ends(h, rep)
  PROVE  AppType' /\ HelperType'
BY GoneType, SetHelperType DEF Ends, Typed, AppType

\* The helpers, once the pipes of an application are closed.
LEMMA OrphanedType ==
  ASSUME HelperType, NEW x
  PROVE  Orphaned(x) \in [Helpers -> HelperRecord]
<1> SUFFICES ASSUME NEW h \in Helpers
             PROVE  Orphaned(x)[h] \in HelperRecord
  BY DEF Orphaned
<1> DEFINE s == helper[h]
           p == IF s.parent = x THEN None ELSE s.parent
           r == IF x # None /\ s.parent = x /\ s.heard = "nothing" THEN "closed"
                ELSE s.heard
           c == IF s.child = x THEN None ELSE s.child
<1>1. s \in HelperRecord
  BY DEF HelperType
<1>2. /\ p \in Apps \cup {None} /\ c \in Apps \cup {None}
      /\ r \in {"nothing", "authorized", "abort", "closed"}
  BY <1>1 DEF HelperRecord
<1>3. Orphaned(x)[h] \in {Idle, [s EXCEPT !.parent = p, !.heard = r, !.child = c]}
  BY DEF Orphaned
<1> HIDE DEF s, p, r, c
<1>4. [s EXCEPT !.parent = p, !.heard = r, !.child = c] \in HelperRecord
  BY <1>1, <1>2 DEF HelperRecord
<1> QED
  BY <1>3, <1>4, OffType

\* An application that ends.
LEMMA AppEndsType ==
  ASSUME Typed, NEW a \in Apps, AppEnds(a)
  PROVE  AppType' /\ HelperType'
BY OffType, SetAppType, OrphanedType DEF AppEnds, HelperType, Typed

\* A helper after a store, however it ended.
LEMMA StoreType ==
  ASSUME HelperType, NEW h \in Helpers, NEW p, NEW ok \in HelperPlaces,
         NEW bad \in HelperPlaces, Store(h, p, ok, bad)
  PROVE  HelperType'
<1>1. ASSUME NEW stored \in BOOLEAN,
             helper' = [helper EXCEPT ![h] = [@ EXCEPT !.pc = bad, !.behind = stored]]
      PROVE  HelperType'
  <2>1. helper' = [helper EXCEPT ![h] = [helper[h] EXCEPT !.pc = bad, !.behind = stored]]
    BY <1>1
  <2>2. [helper[h] EXCEPT !.pc = bad, !.behind = stored] \in HelperRecord
    BY ZenonT(60) DEF HelperType, HelperRecord
  <2> QED
    BY <2>1, <2>2, SetHelperType
<1> QED
  BY <1>1, GotoType DEF Store

\* The steps of a start keep the types.
LEMMA StartingTypes ==
  ASSUME Inv, Typed, KeptInv, NEW a \in Apps, Starting(a)
  PROVE  AppType' /\ HelperType'
<1> USE DEF Typed
<1>0. /\ app[a] \in AppRecord /\ app[a].image \in Versions
      /\ app' = app => AppType'
      /\ helper' = helper => HelperType'
  BY DEF AppType, HelperType, AppRecord
<1>1. CASE Detect(a) \/ TakeCapability(a) \/ JoinRuntime(a)
  <2>1. CASE AppEnds(a)
    BY <2>1, AppEndsType
  <2>2. CASE (\E p \in {"taking", "taken", "limited"} : Move(a, p)) /\ helper' = helper
    BY <1>0, <2>2, MoveType DEF AppPlaces
  <2>3. CASE app' = [app EXCEPT ![a] = [@ EXCEPT !.pc = "sweep", !.txn = 0]] /\ helper' = helper
    <3>1. [app[a] EXCEPT !.pc = "sweep", !.txn = 0] \in AppRecord
      BY <1>0, OffType DEF AppRecord, AppPlaces
    <3>2. app' = [app EXCEPT ![a] = [app[a] EXCEPT !.pc = "sweep", !.txn = 0]]
      BY <2>3
    <3> QED
      BY <1>0, <2>3, <3>1, <3>2, SetAppType
  <2> QED
    BY <1>1, <2>1, <2>2, <2>3 DEF Detect, TakeCapability, JoinRuntime
<1>2. CASE SweepStep(a) \/ Sweep(a) \/ TakeGate(a)
  <2>1. \E p \in {"sweep2", "sweeping", "gate", "scan"} : Move(a, p)
    BY <1>2 DEF SweepStep, Sweep, TakeGate
  <2>2. helper' = helper
    BY <1>2 DEF SweepStep, Sweep, TakeGate
  <2> QED
    BY <1>0, <2>1, <2>2, MoveType DEF AppPlaces
<1>3. CASE app' = [app EXCEPT ![a] = [@ EXCEPT !.pc = "sweep", !.waited = TRUE, !.again = FALSE]]
           /\ helper' = helper
  <2>1. [app[a] EXCEPT !.pc = "sweep", !.waited = TRUE, !.again = FALSE] \in AppRecord
    BY <1>0 DEF AppRecord, AppPlaces
  <2>2. app' = [app EXCEPT ![a] = [app[a] EXCEPT !.pc = "sweep", !.waited = TRUE,
                                                 !.again = FALSE]]
    BY <1>3
  <2> QED
    BY <1>0, <1>3, <2>1, <2>2, SetAppType
<1>4. CASE NoticeUpdate(a)
  BY <1>3, <1>4 DEF NoticeUpdate
<1>5. CASE AppEnds(a)
  BY <1>5, AppEndsType
<1>6. CASE ScanAdmit(a)
  <2>1. CASE Move(a, "admitted") /\ helper' = helper
    BY <1>0, <2>1, MoveType DEF AppPlaces
  <2> QED
    BY <1>3, <1>5, <1>6, <2>1 DEF ScanAdmit
<1>7. CASE ScanRecover(a)
  <2>1. PICK h \in Helpers, t \in Pending :
       /\ app' = [app EXCEPT ![a] = [@ EXCEPT !.pc = "recovering", !.helper = h]]
       /\ helper' = [helper EXCEPT ![h] =
                       [Idle EXCEPT !.pc = "hello", !.mode = "recover",
                                    !.txn = t, !.parent = a]]
    BY <1>7 DEF ScanRecover
  <2>2. [app[a] EXCEPT !.pc = "recovering", !.helper = h] \in AppRecord
    BY <1>0 DEF AppRecord, AppPlaces
  <2>3. t \in 0 .. MaxTxns
    BY BoundsAssumption DEF Pending, Txns
  <2>4. [Idle EXCEPT !.pc = "hello", !.mode = "recover", !.txn = t, !.parent = a]
          \in HelperRecord
    BY <2>3, OffType DEF HelperRecord, HelperPlaces
  <2>5. app' = [app EXCEPT ![a] = [app[a] EXCEPT !.pc = "recovering", !.helper = h]]
    BY <2>1
  <2> QED
    BY <2>1, <2>2, <2>4, <2>5, SetAppType, SetHelperType
<1>8. CASE Recovered(a)
  <2> DEFINE h == app[a].helper
  <2>1. app[a].pc = "recovering" /\ h \in Helpers
    BY <1>8 DEF Recovered, KeptInv, LinkInv
  <2>2. CASE /\ app' = [app EXCEPT ![a] = [@ EXCEPT !.pc = "gate", !.helper = None, !.again = TRUE]]
             /\ helper' = [helper EXCEPT ![h] = [@ EXCEPT !.parent = None, !.report = "none"]]
    <3>1. [app[a] EXCEPT !.pc = "gate", !.helper = None, !.again = TRUE] \in AppRecord
      BY <1>0 DEF AppRecord, AppPlaces
    <3>2. [helper[h] EXCEPT !.parent = None, !.report = "none"] \in HelperRecord
      <4>1. helper[h] \in HelperRecord
        BY <2>1 DEF HelperType
      <4> QED
        BY <4>1 DEF HelperRecord
    <3>3. /\ app' = [app EXCEPT ![a] = [app[a] EXCEPT !.pc = "gate", !.helper = None,
                                                      !.again = TRUE]]
          /\ helper' = [helper EXCEPT ![h] = [helper[h] EXCEPT !.parent = None,
                                                               !.report = "none"]]
      BY <2>2
    <3> HIDE DEF h
    <3> QED
      BY <2>1, <3>1, <3>2, <3>3, SetAppType, SetHelperType
  <2> QED
    BY <1>5, <1>8, <2>2 DEF Recovered
<1>9. CASE Enter(a)
  <2>1. CASE Edits(a) /\ helper' = helper
    <3>1. [Off EXCEPT !.pc = "editing", !.image = app[a].image] \in AppRecord
      BY <1>0, OffType DEF AppRecord, AppPlaces
    <3> QED
      BY <1>0, <2>1, <3>1, SetAppType DEF Edits
  <2>2. CASE /\ app' = [app EXCEPT ![a] = [Off EXCEPT !.pc = "sweep", !.image = installed,
                                                      !.restarted = TRUE]]
             /\ helper' = helper
    <3>1. installed \in Versions
      <4>1. NoneOpen
        BY <1>9 DEF Enter, Inv, AppInv, Stands
      <4> QED
        BY <4>1 DEF JournalType, KeptInv, MixedInv, NoneOpen, Live
    <3>2. [Off EXCEPT !.pc = "sweep", !.image = installed, !.restarted = TRUE] \in AppRecord
      BY <3>1, OffType DEF AppRecord, AppPlaces
    <3> QED
      BY <1>0, <2>2, <3>2, SetAppType
  <2> QED
    BY <1>5, <1>9, <2>1, <2>2 DEF Enter
<1>10. CASE Verify(a)
  <2>1. CASE /\ Move(a, "reporting")
             /\ helper' = [h \in Helpers |->
                             [helper[h] EXCEPT !.healthy = @ \/ helper[h].child = a]]
    <3>1. ASSUME NEW h \in Helpers
          PROVE  [helper[h] EXCEPT !.healthy = @ \/ helper[h].child = a] \in HelperRecord
      BY ZenonT(60) DEF HelperType, HelperRecord
    <3> QED
      BY <2>1, <3>1, MoveType DEF HelperType, AppPlaces
  <2> QED
    BY <1>5, <1>10, <2>1 DEF Verify
<1>11. CASE Answered(a)
  <2>1. [Off EXCEPT !.pc = "editing", !.image = app[a].image] \in AppRecord
    BY <1>0, OffType DEF AppRecord, AppPlaces
  <2> QED
    BY <1>0, <1>5, <1>11, <2>1, SetAppType DEF Answered, Edits
<1> QED
  BY <1>1, <1>2, <1>4, <1>5, <1>6, <1>7, <1>8, <1>9, <1>10, <1>11
     DEF Starting, GiveUpWaiting, ScanStop

\* So do those of a user and of a restart.
LEMMA RestartingTypes ==
  ASSUME Inv, Typed, KeptInv, NEW a \in Apps,
         \/ Launch(a) \/ PrepareRestart(a) \/ Quit(a) \/ AppDies(a) \/ Restarting(a)
  PROVE  AppType' /\ HelperType'
<1> USE DEF Typed
<1> DEFINE h == app[a].helper
<1>0. /\ app[a] \in AppRecord
      /\ app' = app => AppType'
      /\ helper' = helper => HelperType'
      /\ app[a].pc \in Linked => h \in Helpers /\ helper[h] \in HelperRecord
  BY DEF AppType, HelperType, KeptInv, LinkInv
<1>1. CASE Launch(a)
  <2>1. Loadable \subseteq Versions
    <3>1. \A t \in Pending : source[t] \in Versions /\ t \in Versions
      BY DEF JournalType, Pending, Txns, Versions
    <3> QED
      BY <3>1 DEF Loadable, JournalType
  <2>2. \A v \in Versions : [Off EXCEPT !.pc = "sweep", !.image = v] \in AppRecord
    BY OffType DEF AppRecord, AppPlaces
  <2> QED
    BY <1>0, <1>1, <2>1, <2>2, SetAppType DEF Launch
<1>2. CASE PrepareRestart(a)
  <2>1. PICK g \in Helpers :
       /\ app' = [app EXCEPT ![a] = [@ EXCEPT !.pc = "preparing", !.helper = g, !.txn = next]]
       /\ helper' = [helper EXCEPT ![g] =
                       [Idle EXCEPT !.pc = "hello", !.txn = next, !.parent = a]]
    BY <1>2 DEF PrepareRestart
  <2>2. next \in 0 .. MaxTxns
    <3>1. next <= MaxTxns
      BY <1>2 DEF PrepareRestart
    <3> QED
      BY <3>1, BoundsAssumption DEF CountType
  <2>3. [app[a] EXCEPT !.pc = "preparing", !.helper = g, !.txn = next] \in AppRecord
    BY <1>0, <2>2 DEF AppRecord, AppPlaces
  <2>4. [Idle EXCEPT !.pc = "hello", !.txn = next, !.parent = a] \in HelperRecord
    BY <2>2, OffType DEF HelperRecord, HelperPlaces
  <2>5. app' = [app EXCEPT ![a] = [app[a] EXCEPT !.pc = "preparing", !.helper = g,
                                                 !.txn = next]]
    BY <2>1
  <2> QED
    BY <2>1, <2>3, <2>4, <2>5, SetAppType, SetHelperType
<1>3. CASE Quit(a) \/ AppDies(a)
  BY <1>3, AppEndsType DEF Quit, AppDies
<1>4. CASE Restarting(a)
  <2>0. h \in Helpers /\ helper[h] \in HelperRecord
    BY <1>0, <1>4 DEF Restarting, Authorize, Abandon, ConfirmExit, Linked
  <2>1. [app[a] EXCEPT !.pc = "quitting", !.helper = None, !.txn = 0] \in AppRecord
        /\ [app[a] EXCEPT !.pc = "editing", !.helper = None, !.txn = 0] \in AppRecord
    BY <1>0, OffType DEF AppRecord, AppPlaces
  <2>2. /\ [helper[h] EXCEPT !.heard = "authorized", !.report = "none"] \in HelperRecord
        /\ [helper[h] EXCEPT !.heard = helper[h].heard] \in HelperRecord
        /\ [helper[h] EXCEPT !.heard = "abort"] \in HelperRecord
        /\ [helper[h] EXCEPT !.parent = None] \in HelperRecord
    BY <2>0 DEF HelperRecord
  <2>3. CASE Authorize(a)
    <3>1. /\ helper' = [helper EXCEPT ![h] =
                          [helper[h] EXCEPT !.heard = "authorized", !.report = "none"]]
          /\ app' = [app EXCEPT ![a] =
                       [app[a] EXCEPT !.pc = "quitting", !.helper = None, !.txn = 0]]
      BY <2>3 DEF Authorize
    <3> HIDE DEF h
    <3> QED
      BY <2>0, <2>1, <2>2, <3>1, SetAppType, SetHelperType
  <2>4. CASE Abandon(a)
    <3>1. /\ \/ helper' = [helper EXCEPT ![h] = [helper[h] EXCEPT !.heard = helper[h].heard]]
             \/ helper' = [helper EXCEPT ![h] = [helper[h] EXCEPT !.heard = "abort"]]
          /\ Move(a, "abandoning")
      BY <2>4 DEF Abandon
    <3> HIDE DEF h
    <3> QED
      BY <2>0, <2>2, <3>1, MoveType, SetHelperType DEF AppPlaces
  <2>5. CASE ConfirmExit(a)
    <3>1. /\ \/ helper' = [helper EXCEPT ![h] = Idle]
             \/ helper' = [helper EXCEPT ![h] = [helper[h] EXCEPT !.parent = None]]
          /\ app' = [app EXCEPT ![a] =
                       [app[a] EXCEPT !.pc = "editing", !.helper = None, !.txn = 0]]
      BY <2>5 DEF ConfirmExit
    <3> HIDE DEF h
    <3> QED
      BY <2>0, <2>1, <2>2, <3>1, OffType, SetAppType, SetHelperType
  <2> QED
    BY <1>4, <2>3, <2>4, <2>5 DEF Restarting
<1> QED
  BY <1>1, <1>2, <1>3, <1>4


\* And those of a helper.
LEMMA HelpingTypes ==
  ASSUME Inv, Typed, KeptInv, NEW h \in Helpers, Helping(h) \/ HelperDies(h)
  PROVE  AppType' /\ HelperType'
<1> USE DEF Typed
<1> DEFINE child == helper[h].child
<1>0. /\ helper[h] \in HelperRecord
      /\ app' = app => AppType'
      /\ helper' = helper => HelperType'
      /\ \A p \in HelperPlaces : Goto(h, p) => HelperType'
      /\ \A rep \in Reports : Ends(h, rep) => AppType' /\ HelperType'
      /\ \A r \in HelperRecord : helper' = [helper EXCEPT ![h] = r] => HelperType'
      /\ \A what \in {"commit", "closed"} : app' = Tell(h, what) => AppType'
      /\ app' = [a \in Apps |-> IF a = child THEN Off ELSE app[a]] => AppType'
  BY GotoType, EndsType, SetHelperType, TellType, OffType DEF AppType, HelperType
<1>1. CASE Session(h)
  <2>1. CASE Hello(h)
    BY <1>0, <2>1 DEF Hello, Refuse, Reports, HelperPlaces
  <2>2. CASE HelperGate(h)
    <3>1. \A p \in {"prepared", "recover"} :
            [helper[h] EXCEPT !.report = "prepared", !.pc = p] \in HelperRecord
      BY <1>0, ZenonT(60) DEF HelperRecord, HelperPlaces
    <3>2. \/ Refuse(h)
          \/ /\ app' = app
             /\ \E p \in {"prepared", "recover"} :
                  helper' = [helper EXCEPT ![h] =
                               [helper[h] EXCEPT !.report = "prepared", !.pc = p]]
      BY <2>2 DEF HelperGate
    <3> QED
      BY <1>0, <3>1, <3>2 DEF Refuse, Reports
  <2>3. CASE Heard(h)
    <3>1. [helper[h] EXCEPT !.pc = "waiting", !.heard = "nothing"] \in HelperRecord
      BY <1>0, ZenonT(60) DEF HelperRecord, HelperPlaces
    <3> QED
      BY <1>0, <2>3, <3>1 DEF Heard, Reports
  <2>4. CASE ParentExited(h)
    BY <1>0, <2>4 DEF ParentExited, HelperPlaces
  <2>5. CASE ParentStillRunning(h)
    BY <1>0, <2>5 DEF ParentStillRunning, Reports
  <2>6. CASE SessionEnds(h)
    <3>1. PICK rep \in Reports :
            helper' = [Orphaned(child) EXCEPT ![h] = [@ EXCEPT !.pc = "leaving", !.report = rep]]
      <4>1. helper[h].report \in Reports /\ Verdict(h) \in Reports
        BY <1>0 DEF HelperRecord, Reports, Verdict
      <4> QED
        BY <2>6, <4>1 DEF SessionEnds
    <3>2. [Orphaned(child)[h] EXCEPT !.pc = "leaving", !.report = rep] \in HelperRecord
      <4> DEFINE o == Orphaned(child)[h]
      <4>1. o \in HelperRecord
        BY OrphanedType
      <4> HIDE DEF o
      <4>2. [o EXCEPT !.pc = "leaving", !.report = rep] \in HelperRecord
        BY <4>1, ZenonT(60) DEF HelperRecord, HelperPlaces, Reports
      <4> QED
        BY <4>2 DEF o
    <3>3. HelperType'
      BY <3>1, <3>2, OrphanedType DEF HelperType
    <3> QED
      BY <1>0, <2>6, <3>3 DEF SessionEnds
  <2>7. CASE Left(h)
    BY <1>0, <2>7 DEF Left, HelperRecord, Reports
  <2> QED
    BY <1>1, <2>1, <2>2, <2>3, <2>4, <2>5, <2>6, <2>7 DEF Session
<1>2. CASE Apply(h)
  BY <1>0, <1>2, StoreType DEF Apply, RefuseApply, RetirePriorReceipts, Begin, Unstarted,
     StartApplying, ReplaceFiles, FilesReplaced, AwaitHealth, OnlyJournal, HelperPlaces
<1>3. CASE Health(h)
  <2>1. CASE LaunchChild(h)
    <3>1. CASE /\ helper' = [helper EXCEPT ![h] = [@ EXCEPT !.pc = "stop", !.launched = TRUE]]
               /\ app' = app
      <4>1. [helper[h] EXCEPT !.pc = "stop", !.launched = TRUE] \in HelperRecord
        BY <1>0 DEF HelperRecord, HelperPlaces
      <4> QED
        BY <1>0, <3>1, <4>1
    <3>2. ASSUME NEW a \in Apps,
                 app' = [app EXCEPT ![a] = [Off EXCEPT !.pc = "entry", !.image = installed,
                                                       !.txn = helper[h].txn]],
                 helper' = [helper EXCEPT ![h] = [@ EXCEPT !.pc = "health", !.child = a,
                                          !.launched = TRUE]]
          PROVE  AppType' /\ HelperType'
      <4>1. installed \in Versions /\ helper[h].txn \in 0 .. MaxTxns
        BY <1>0, <2>1, BoundsAssumption
           DEF LaunchChild, Inv, Shapes, RecordInv, Agrees, Versions, HelperRecord
      <4>2. [Off EXCEPT !.pc = "entry", !.image = installed, !.txn = helper[h].txn]
              \in AppRecord
        BY <4>1, OffType DEF AppRecord, AppPlaces
      <4>3. [helper[h] EXCEPT !.pc = "health", !.child = a, !.launched = TRUE]
              \in HelperRecord
        BY <1>0 DEF HelperRecord, HelperPlaces
      <4> QED
        BY <1>0, <3>2, <4>2, <4>3, SetAppType
    <3> QED
      BY <2>1, <3>1, <3>2 DEF LaunchChild
  <2>2. CASE AwaitHealthy(h)
    <3>1. [helper[h] EXCEPT !.pc = "commit", !.healthy = FALSE] \in HelperRecord
      BY <1>0 DEF HelperRecord, HelperPlaces
    <3> QED
      BY <1>0, <2>2, <3>1 DEF AwaitHealthy, HelperPlaces
  <2>3. CASE Commit(h)
    BY <1>0, <2>3, StoreType DEF Commit, OnlyJournal, HelperPlaces
  <2>4. CASE SendCommit(h)
    <3>1. [helper[h] EXCEPT !.pc = "end", !.child = None] \in HelperRecord
      BY <1>0 DEF HelperRecord, HelperPlaces
    <3> QED
      BY <1>0, <2>4, <3>1 DEF SendCommit
  <2>5. CASE Stop(h)
    BY <1>0, <2>5 DEF Stop, HelperPlaces
  <2>6. CASE ChildStopped(h)
    <3>1. [Orphaned(child)[h] EXCEPT !.pc = "reacquire"] \in HelperRecord
      BY OrphanedType DEF HelperRecord, HelperPlaces
    <3>2. HelperType'
      BY <2>6, <3>1, OrphanedType DEF ChildStopped, HelperType
    <3> QED
      BY <1>0, <2>6, <3>2 DEF ChildStopped
  <2>7. CASE StopFailed(h) \/ Reacquire(h)
    BY <1>0, <2>7 DEF StopFailed, Reacquire, HelperPlaces
  <2> QED
    BY <1>3, <2>1, <2>2, <2>3, <2>4, <2>5, <2>6, <2>7 DEF Health
<1>4. CASE Rollback(h)
  <2>1. CASE Recover(h)
    BY <1>0, <2>1 DEF Recover, Reports, HelperPlaces
  <2>2. CASE Undo(h)
    BY <1>0, <2>2, StoreType DEF Undo, OnlyJournal, HelperPlaces
  <2>3. CASE RestoreFiles(h) \/ FilesRestored(h)
    BY <1>0, <2>3 DEF RestoreFiles, FilesRestored, HelperPlaces
  <2>4. CASE RolledBack(h) \/ Require(h)
    BY <1>0, <2>4, StoreType DEF RolledBack, Require, OnlyJournal, HelperPlaces
  <2> QED
    BY <1>4, <2>1, <2>2, <2>3, <2>4 DEF Rollback
<1>5. CASE HelperDies(h)
  <2>1. Gone(h, helper[h].report) \in HelperRecord
    BY <1>0, GoneType DEF HelperRecord, Reports
  <2> QED
    BY <1>0, <1>5, <2>1 DEF HelperDies
<1> QED
  BY <1>1, <1>2, <1>3, <1>4, <1>5 DEF Helping


\* The files, the journals and the counters keep theirs.
LEMMA FilesTypes ==
  ASSUME Inv, Typed, KeptInv, [Next]_vars
  PROVE  /\ source' \in [Txns -> Versions] /\ installed' \in Versions \cup {Mixed}
         /\ StagedType' /\ CountType'
<1> USE DEF Typed
<1>0. /\ UNCHANGED source => source' \in [Txns -> Versions]
      /\ UNCHANGED installed => installed' \in Versions \cup {Mixed}
      /\ UNCHANGED <<staged, capability>> => StagedType'
      /\ UNCHANGED <<next, launches, troubles>> => CountType'
      /\ UNCHANGED <<next, launches>> /\ (Trouble \/ UNCHANGED troubles) => CountType'
      /\ \A t : DiscardUnstarted(t) => StagedType'
      /\ \A h \in Helpers : helper[h].txn \in 0 .. MaxTxns
  BY BoundsAssumption, SMTT(20)
     DEF JournalType, StagedType, CountType, Trouble, DiscardUnstarted, HelperType,
         HelperRecord
<1>1. ASSUME NEW a \in Apps, Starting(a)
      PROVE  /\ source' \in [Txns -> Versions] /\ installed' \in Versions \cup {Mixed}
             /\ StagedType' /\ CountType'
  <2>1. UNCHANGED <<source, installed, next, troubles>>
    BY <1>1 DEF Starting, Detect, TakeCapability, JoinRuntime, SweepStep, Sweep,
       TakeGate, NoticeUpdate, GiveUpWaiting,
       ScanAdmit, ScanStop, ScanRecover, Recovered, Enter, Verify, Answered, files, used
  <2>2. StagedType'
    BY <1>0, <1>1
       DEF Starting, Detect, TakeCapability, JoinRuntime, SweepStep, Sweep,
       TakeGate, NoticeUpdate, GiveUpWaiting,
       ScanAdmit, ScanStop, ScanRecover, Recovered, Enter, Verify, Answered, files, used,
       StagedType
  <2>3. launches' \in 0 .. MaxLaunches
    <3>1. launches' = launches \/ (launches < MaxLaunches /\ launches' = launches + 1)
      BY <1>1 DEF Starting, Detect, TakeCapability, JoinRuntime, SweepStep, Sweep, TakeGate,
       NoticeUpdate,
       GiveUpWaiting, ScanAdmit, ScanStop, ScanRecover, Recovered, Enter, Verify,
       Answered, files, used
    <3> QED
      BY <3>1, BoundsAssumption DEF CountType
  <2> QED
    BY <1>0, <2>1, <2>2, <2>3 DEF CountType
<1>2. ASSUME NEW a \in Apps, Restarting(a) \/ Quit(a) \/ AppDies(a) \/ Launch(a)
      PROVE  /\ source' \in [Txns -> Versions] /\ installed' \in Versions \cup {Mixed}
             /\ StagedType' /\ CountType'
  <2>1. UNCHANGED <<source, installed, next>> /\ (Trouble \/ UNCHANGED troubles)
    BY <1>2 DEF Restarting, Authorize, Abandon, ConfirmExit, Quit, AppDies, Launch, files,
       used
  <2>2. StagedType'
    BY <1>0, <1>2
       DEF Restarting, Authorize, Abandon, ConfirmExit, Quit, AppDies, Launch, files
  <2>3. launches' = launches \/ (launches < MaxLaunches /\ launches' = launches + 1)
    BY <1>2 DEF Restarting, Authorize, Abandon, ConfirmExit, Quit, AppDies, Launch, used
  <2>4. launches' \in 0 .. MaxLaunches
    BY <2>3, BoundsAssumption DEF CountType
  <2> QED
    BY <1>0, <2>1, <2>2, <2>4, BoundsAssumption DEF CountType, Trouble
<1>3. ASSUME NEW a \in Apps, PrepareRestart(a)
      PROVE  /\ source' \in [Txns -> Versions] /\ installed' \in Versions \cup {Mixed}
             /\ StagedType' /\ CountType'
  <2>1. app[a].image \in Versions
    BY DEF AppType, AppRecord
  <2>2. /\ next <= MaxTxns /\ next' = next + 1 /\ staged' = staged \cup {next}
        /\ source' = [source EXCEPT ![next] = app[a].image]
        /\ UNCHANGED <<capability, installed, launches, troubles>>
    BY <1>3 DEF PrepareRestart
  <2> QED
    BY <1>0, <2>1, <2>2, BoundsAssumption DEF JournalType, StagedType, CountType, Txns
<1>4. ASSUME NEW h \in Helpers, Helping(h) \/ HelperDies(h)
      PROVE  /\ source' \in [Txns -> Versions] /\ installed' \in Versions \cup {Mixed}
             /\ StagedType' /\ CountType'
  <2>1. UNCHANGED <<source, next, launches>>
    BY <1>4 DEF Helping, Session, Hello, HelperGate, Heard, ParentExited,
       ParentStillRunning, SessionEnds, Left, Refuse, Ends, Health, LaunchChild,
       AwaitHealthy, Commit, SendCommit, Stop, ChildStopped, StopFailed, Reacquire,
       Apply, RefuseApply, RetirePriorReceipts, Begin, Unstarted, StartApplying,
       ReplaceFiles, FilesReplaced, AwaitHealth, Rollback, Recover, Undo, RestoreFiles,
       FilesRestored, RolledBack, Require, HelperDies, Store, OnlyJournal, Trouble,
       files, used
  <2>2. Trouble \/ UNCHANGED troubles
    BY <1>4 DEF Helping, Session, Hello, HelperGate, Heard, ParentExited,
       ParentStillRunning, SessionEnds, Left, Refuse, Ends, Health, LaunchChild,
       AwaitHealthy, Commit, SendCommit, Stop, ChildStopped, StopFailed, Reacquire,
       Apply, RefuseApply, RetirePriorReceipts, Begin, Unstarted, StartApplying,
       ReplaceFiles, FilesReplaced, AwaitHealth, Rollback, Recover, Undo, RestoreFiles,
       FilesRestored, RolledBack, Require, HelperDies, Store, OnlyJournal, Trouble,
       files, used
  <2>3. \/ installed' \in {installed, Mixed, helper[h].txn}
        \/ helper[h].pc = "restoring" /\ installed' = source[helper[h].txn]
    BY <1>4 DEF Helping, Session, Hello, HelperGate, Heard, ParentExited,
       ParentStillRunning, SessionEnds, Left, Refuse, Ends, Health, LaunchChild,
       AwaitHealthy, Commit, SendCommit, Stop, ChildStopped, StopFailed, Reacquire,
       Apply, RefuseApply, RetirePriorReceipts, Begin, Unstarted, StartApplying,
       ReplaceFiles, FilesReplaced, AwaitHealth, Rollback, Recover, Undo, RestoreFiles,
       FilesRestored, RolledBack, Require, HelperDies, Store, OnlyJournal, Trouble,
       files, used
  <2>4. installed' \in Versions \cup {Mixed}
    BY <1>0, <2>3 DEF JournalType, Versions, Inv, Shapes
  <2>5. StagedType'
    <3>1. CASE LaunchChild(h)
      <4>1. helper[h].txn \in staged
        BY <3>1 DEF LaunchChild, KeptInv, LateInv, Late
      <4> QED
        BY <3>1, <4>1 DEF LaunchChild, StagedType
    <3>2. CASE RetirePriorReceipts(h)
      BY <3>2 DEF RetirePriorReceipts, StagedType
    <3>3. CASE RefuseApply(h) \/ Unstarted(h)
      BY <1>0, <3>3 DEF RefuseApply, Unstarted
    <3>4. CASE ~LaunchChild(h) /\ ~RetirePriorReceipts(h) /\ ~RefuseApply(h) /\ ~Unstarted(h)
      <4>1. UNCHANGED <<staged, capability>>
        BY <1>4, <3>4 DEF Helping, Session, Hello, HelperGate, Heard, ParentExited,
         ParentStillRunning, SessionEnds, Left, Refuse, Ends, Health,
         AwaitHealthy, Commit, SendCommit, Stop, ChildStopped, StopFailed, Reacquire,
         Apply, Begin, StartApplying, ReplaceFiles, FilesReplaced, AwaitHealth, Rollback,
         Recover, Undo, RestoreFiles, FilesRestored, RolledBack, Require, HelperDies,
         OnlyJournal, files, used
      <4> QED
        BY <1>0, <4>1
    <3> QED
      BY <3>1, <3>2, <3>3, <3>4
  <2> QED
    BY <1>0, <2>1, <2>2, <2>4, <2>5, BoundsAssumption DEF JournalType, CountType, Trouble
<1>5. CASE UNCHANGED vars
  BY <1>0, <1>5 DEF vars
<1> QED
  BY <1>1, <1>2, <1>3, <1>4, <1>5 DEF Next

\* Every step keeps the types.
LEMMA TypesKept ==
  ASSUME Inv, Inv', Typed, KeptInv, [Next]_vars
  PROVE  Typed'
<1>1. AppType' /\ HelperType'
  <2>1. UNCHANGED vars => AppType' /\ HelperType'
    BY DEF vars, Typed, AppType, HelperType
  <2> QED
    BY <2>1, StartingTypes, RestartingTypes, HelpingTypes DEF Next
<1>2. LeaseType' /\ SharedType' /\ journal' \in
         [Txns -> Live \cup {"none", "committed", "rolled_back", "required"}]
  BY DEF Inv, Shapes, HoldInv, LeaseType, SharedType, Free
<1> QED
  BY <1>1, <1>2, FilesTypes DEF Typed, JournalType


-----------------------------------------------------------------------------
(* What is kept when a process ends. *)

\* What ends with an application, or with a helper's child, is neither a sweep's
\* lease of another process nor another application's helper (AppEnds,
\* stop_and_release_lease, ProcessChild::drop).
LEMMA EndKeeps ==
  ASSUME Inv, Typed, KeptInv, NEW x \in Apps \cup {None},
         DOMAIN app' = Apps,
         \A a \in Apps : app'[a] = IF a = x THEN Off ELSE app[a],
         \A h \in Helpers :
           /\ \/ helper'[h].pc = Orphaned(x)[h].pc
              \/ helper[h].pc = "stopping" /\ helper'[h].pc = "reacquire"
              \/ helper[h].pc = "end" /\ helper'[h].pc = "leaving"
           /\ helper'[h].txn = Orphaned(x)[h].txn /\ helper'[h].mode = Orphaned(x)[h].mode
           /\ helper'[h].heard = Orphaned(x)[h].heard
           /\ helper'[h].parent = Orphaned(x)[h].parent
           /\ helper[h].pc \in {"hello", "gate"} =>
                helper'[h].report = Orphaned(x)[h].report,
         \A a \in Apps \ {x}, k \in Kinds : lease[k] = a => lease'[k] = a,
         UNCHANGED <<staged, journal, source, installed, next>>
  PROVE  KeptInv'
<1> USE ProcessesAssumption
<1>1. ASSUME NEW h \in Helpers
      PROVE  /\ Orphaned(x)[h].pc = helper[h].pc
             /\ helper[h].pc # "off" =>
                  /\ Orphaned(x)[h].txn = helper[h].txn
                  /\ Orphaned(x)[h].mode = helper[h].mode
                  /\ Orphaned(x)[h].report = helper[h].report
                  /\ Orphaned(x)[h].parent =
                       IF helper[h].parent = x THEN None ELSE helper[h].parent
                  /\ Orphaned(x)[h].heard =
                       IF x # None /\ helper[h].parent = x /\ helper[h].heard = "nothing"
                       THEN "closed" ELSE helper[h].heard
  <2> DEFINE s == helper[h]
             p == IF s.parent = x THEN None ELSE s.parent
             r == IF x # None /\ s.parent = x /\ s.heard = "nothing" THEN "closed"
                  ELSE s.heard
             c == IF s.child = x THEN None ELSE s.child
  <2>1. CASE Orphaned(x)[h] = Idle /\ helper[h].pc = "off"
    BY <2>1 DEF Idle
  <2>2. CASE Orphaned(x)[h] = [s EXCEPT !.parent = p, !.heard = r, !.child = c]
    <3>1. s \in HelperRecord
      BY DEF Typed, HelperType
    <3> HIDE DEF s, p, r, c
    <3>2. LET o == [s EXCEPT !.parent = p, !.heard = r, !.child = c]
          IN  /\ o.pc = s.pc /\ o.txn = s.txn /\ o.mode = s.mode /\ o.report = s.report
              /\ o.parent = p /\ o.heard = r
      BY <3>1 DEF HelperRecord
    <3> QED
      BY <2>2, <3>2 DEF s, p, r
  <2> QED
    BY <2>1, <2>2 DEF Orphaned
<1>2. \A h \in Helpers : helper'[h].pc # "off" =>
        /\ helper[h].pc # "off"
        /\ helper'[h].txn = helper[h].txn /\ helper'[h].mode = helper[h].mode
        /\ \/ helper'[h].pc = helper[h].pc
           \/ helper[h].pc = "stopping" /\ helper'[h].pc = "reacquire"
           \/ helper[h].pc = "end" /\ helper'[h].pc = "leaving"
        /\ helper[h].pc \in {"hello", "gate"} => helper'[h].report = helper[h].report
        /\ helper'[h].parent = IF helper[h].parent = x THEN None ELSE helper[h].parent
        /\ helper'[h].heard =
             IF x # None /\ helper[h].parent = x /\ helper[h].heard = "nothing"
             THEN "closed" ELSE helper[h].heard
  BY <1>1
<1>3. NumberInv'
  BY <1>2 DEF KeptInv, NumberInv
<1>4. LinkInv'
  <2>1. \A a \in Apps : app'[a].helper # None => a # x /\ app'[a] = app[a]
    BY DEF Off
  <2>2. \A a \in Apps : app'[a].pc \in Linked \cup {"recovering"} => a # x /\ app'[a] = app[a]
    BY DEF Off, Linked
  <2>3. ASSUME NEW a \in Apps, app'[a].pc \in Linked, NEW h \in Helpers
        PROVE  Bound(a, h)'
    BY <1>2, <2>2, <2>3 DEF KeptInv, LinkInv, Bound, Linked, Early
  <2> QED
    BY <2>1, <2>2, <2>3 DEF KeptInv, LinkInv, Bound, Linked
<1>5. FreshInv'
  <2>1. \A h \in Helpers : Fresh(h)' =>
          Fresh(h) /\ helper'[h].pc = helper[h].pc /\ helper[h].pc # "off"
    BY <1>2 DEF Fresh, Early
  <2>2. ASSUME NEW h \in Helpers, Fresh(h)', helper'[h].pc \in Early,
               helper'[h].heard = "nothing"
        PROVE  /\ helper'[h].parent \in Apps
               /\ app'[helper'[h].parent].pc = "preparing"
               /\ app'[helper'[h].parent].helper = h
    <3>1. /\ helper[h].heard = "nothing" /\ helper[h].pc \in Early /\ helper'[h].pc # "off"
      BY <1>2, <2>1, <2>2 DEF Early
    <3>2. /\ helper[h].parent \in Apps
          /\ app[helper[h].parent].pc = "preparing" /\ app[helper[h].parent].helper = h
      BY <2>1, <2>2, <3>1 DEF KeptInv, FreshInv
    <3>3. helper[h].parent # x
      BY <1>2, <2>2, <3>1, <3>2
    <3> QED
      BY <1>2, <3>1, <3>2, <3>3
  <2>3. ASSUME NEW h \in Helpers
        PROVE  /\ helper'[h].pc \in {"prepared", "waiting", "apply", "begin"} =>
                    helper'[h].mode = "prepare"
               /\ helper'[h].pc \in {"hello", "gate"} =>
                    helper'[h].heard # "authorized" /\ helper'[h].report = "none"
    BY <1>2 DEF KeptInv, FreshInv
  <2>4. ASSUME NEW h \in Helpers, Fresh(h)'
        PROVE  /\ helper'[h].txn \in staged' /\ journal'[helper'[h].txn] = "none"
               /\ \A g \in Helpers :
                    helper'[g].pc # "off" /\ helper'[g].txn = helper'[h].txn => g = h
    BY <1>2, <2>1, <2>4 DEF KeptInv, FreshInv
  <2> QED
    BY <2>2, <2>3, <2>4 DEF FreshInv
<1>6. LateInv'
  BY <1>2 DEF KeptInv, LateInv, Late
<1>7. SweepInv'
  BY DEF KeptInv, SweepInv, Off
<1>8. MixedInv'
  BY DEF KeptInv, MixedInv
<1> QED
  BY <1>3, <1>4, <1>5, <1>6, <1>7, <1>8 DEF KeptInv

\* An application that ends, whatever it was doing (AppEnds).
LEMMA AppLeavesKeeps ==
  ASSUME Inv, Inv', Typed, KeptInv, NEW a \in Apps, AppEnds(a),
         UNCHANGED <<staged, journal, source, installed, next>>
  PROVE  KeptInv'
<1>1. /\ DOMAIN app' = Apps /\ \A b \in Apps : app'[b] = IF b = a THEN Off ELSE app[b]
      /\ helper' = Orphaned(a)
      /\ \A b \in Apps \ {a}, k \in Kinds : lease[k] = b => lease'[k] = b
  BY DEF AppEnds, Released, Typed, AppType
<1> QED
  BY <1>1, EndKeeps

\* A helper that ends its child to roll back (stop_and_release_lease).
LEMMA ChildStoppedKeeps ==
  ASSUME Inv, Inv', Typed, KeptInv, NEW h \in Helpers, ChildStopped(h)
  PROVE  KeptInv'
<1> DEFINE child == helper[h].child
<1>1. /\ DOMAIN app' = Apps /\ \A b \in Apps : app'[b] = IF b = child THEN Off ELSE app[b]
      /\ \A b \in Apps \ {child}, k \in Kinds : lease[k] = b => lease'[k] = b
      /\ UNCHANGED <<staged, journal, source, installed, next>>
      /\ helper[h].pc = "stopping" /\ child \in Apps \cup {None}
      /\ helper' = [Orphaned(child) EXCEPT ![h].pc = "reacquire"]
  BY DEF ChildStopped, Released, files, used, Inv, Shapes
<1>2. Orphaned(child) \in [Helpers -> HelperRecord]
  BY OrphanedType DEF Typed
<1> HIDE DEF child
<1>3. \A g \in Helpers : /\ g # h => helper'[g] = Orphaned(child)[g]
                         /\ helper'[g].txn = Orphaned(child)[g].txn
                         /\ helper'[g].mode = Orphaned(child)[g].mode
                         /\ helper'[g].heard = Orphaned(child)[g].heard
                         /\ helper'[g].parent = Orphaned(child)[g].parent
                         /\ helper'[g].report = Orphaned(child)[g].report
      /\ helper'[h].pc = "reacquire"
  BY <1>1, <1>2 DEF HelperRecord
<1> QED
  BY <1>1, <1>3, EndKeeps

\* A helper whose work is done ends the child it still has
\* (ProcessChild::drop).
LEMMA SessionEndsKeeps ==
  ASSUME Inv, Inv', Typed, KeptInv, NEW h \in Helpers, SessionEnds(h)
  PROVE  KeptInv'
<1> USE ProcessesAssumption
<1> DEFINE child == helper[h].child
<1>1. /\ DOMAIN app' = Apps /\ \A b \in Apps : app'[b] = IF b = child THEN Off ELSE app[b]
      /\ UNCHANGED <<staged, journal, source, installed, next>>
      /\ helper[h].pc = "end" /\ child \in Apps \cup {None} /\ h \notin Apps
  BY DEF SessionEnds, files, used, Inv, Shapes
<1>2. \A b \in Apps \ {child}, k \in Kinds : lease[k] = b => lease'[k] = b
  BY <1>1 DEF SessionEnds
<1>3. Orphaned(child) \in [Helpers -> HelperRecord]
  BY OrphanedType DEF Typed
<1>4. \A g \in Helpers : /\ g # h => helper'[g] = Orphaned(child)[g]
                         /\ helper'[g].txn = Orphaned(child)[g].txn
                         /\ helper'[g].mode = Orphaned(child)[g].mode
                         /\ helper'[g].heard = Orphaned(child)[g].heard
                         /\ helper'[g].parent = Orphaned(child)[g].parent
      /\ helper'[h].pc = "leaving"
  <2> DEFINE o == Orphaned(child)
             rep == IF helper[h].mode = "recover" THEN Verdict(h) ELSE helper[h].report
  <2>1. helper' = [o EXCEPT ![h] = [@ EXCEPT !.pc = "leaving", !.report = rep]]
    BY DEF SessionEnds
  <2>2. helper' = [o EXCEPT ![h] = [o[h] EXCEPT !.pc = "leaving", !.report = rep]]
    BY <1>3, <2>1
  <2>3. o[h] \in HelperRecord /\ DOMAIN o = Helpers
    BY <1>3
  <2> HIDE DEF o, rep
  <2>4. LET r == [o[h] EXCEPT !.pc = "leaving", !.report = rep]
        IN  /\ r.pc = "leaving" /\ r.txn = o[h].txn /\ r.mode = o[h].mode
            /\ r.heard = o[h].heard /\ r.parent = o[h].parent
    BY <2>3 DEF HelperRecord
  <2>5. helper'[h] = [o[h] EXCEPT !.pc = "leaving", !.report = rep]
        /\ \A g \in Helpers : g # h => helper'[g] = o[g]
    BY <2>2, <2>3
  <2>6. \A g \in Helpers : /\ g # h => helper'[g] = o[g]
                           /\ helper'[g].txn = o[g].txn /\ helper'[g].mode = o[g].mode
                           /\ helper'[g].heard = o[g].heard
                           /\ helper'[g].parent = o[g].parent
    BY <2>4, <2>5
  <2> QED
    BY <2>4, <2>5, <2>6 DEF o
<1> HIDE DEF child
<1>5. ASSUME NEW g \in Helpers
      PROVE  /\ \/ helper'[g].pc = Orphaned(child)[g].pc
                \/ helper[g].pc = "end" /\ helper'[g].pc = "leaving"
             /\ helper[g].pc \in {"hello", "gate"} =>
                  helper'[g].report = Orphaned(child)[g].report
  BY <1>1, <1>4
<1> QED
  BY <1>1, <1>2, <1>4, <1>5, EndKeeps


-----------------------------------------------------------------------------
(* What is kept by an application's step. *)

\* A step of an application that has no helper changes nobody's link, and no
\* lease of another sweep.
LEMMA MoveKeeps ==
  ASSUME Typed, KeptInv, NEW a \in Apps,
         app[a].pc \notin Linked \cup {"recovering"},
         \A b \in Apps \ {a} : app'[b] = app[b],
         app'[a].pc \notin Linked \cup {"recovering"},
         app'[a].helper \in {app[a].helper, None},
         app'[a].pc = "sweeping" => \A k \in Kinds : lease'[k] = a,
         \A h \in Helpers :
           /\ helper'[h].pc = helper[h].pc /\ helper'[h].txn = helper[h].txn
           /\ helper'[h].mode = helper[h].mode /\ helper'[h].heard = helper[h].heard
           /\ helper'[h].report = helper[h].report
           /\ helper'[h].parent = helper[h].parent,
         \A b \in Apps \ {a}, k \in Kinds : lease[k] = b => lease'[k] = b,
         \A t \in staged : journal[t] # "none" => t \in staged',
         \A h \in Helpers : Fresh(h) \/ helper[h].pc \in Late => helper[h].txn \in staged',
         UNCHANGED <<journal, source, installed, next>>
  PROVE  KeptInv'
<1> USE ProcessesAssumption
<1>1. app'[a].helper = None
  BY DEF KeptInv, LinkInv, Bound
<1>2. NumberInv' /\ LateInv' /\ MixedInv'
  BY DEF KeptInv, NumberInv, LateInv, MixedInv
<1>3. LinkInv'
  <2>1. \A b \in Apps : app'[b].pc \in Linked \cup {"recovering"} => b # a /\ app'[b] = app[b]
    OBVIOUS
  <2>2. \A b \in Apps : app'[b].helper # None => b # a /\ app'[b] = app[b]
    BY <1>1
  <2>3. ASSUME NEW b \in Apps, app'[b].pc \in Linked, NEW h \in Helpers
        PROVE  Bound(b, h)'
    BY <2>1, <2>3 DEF KeptInv, LinkInv, Bound
  <2> QED
    BY <2>1, <2>2, <2>3 DEF KeptInv, LinkInv, Bound
<1>4. FreshInv'
  <2>1. \A h \in Helpers : Fresh(h)' <=> Fresh(h)
    BY DEF Fresh
  <2>2. \A b \in Apps : app[b].pc = "preparing" => app'[b] = app[b]
    BY DEF Linked
  <2> QED
    BY <2>1, <2>2 DEF KeptInv, FreshInv
<1>5. SweepInv'
  BY DEF KeptInv, SweepInv
<1> QED
  BY <1>2, <1>3, <1>4, <1>5 DEF KeptInv

\* A sweep removes what no journal speaks of. It holds the leases, so no helper
\* works; and what a helper that has just begun was given belongs to an
\* application that runs (sweep_abandoned_transactions).
LEMMA SweepKeeps ==
  ASSUME Inv, Inv', Typed, KeptInv, NEW a \in Apps, Sweep(a)
  PROVE  KeptInv'
<1> USE ProcessesAssumption
<1>1. /\ app[a].pc = "sweeping" /\ \A k \in Kinds : lease[k] = a
      /\ app' = [app EXCEPT ![a].pc = "gate"] /\ DOMAIN app = Apps
      /\ DOMAIN app[a] = AppFields
      /\ staged' = {t \in staged : journal[t] # "none"}
      /\ \A b \in Apps \ {a}, k \in Kinds : lease[k] # b
      /\ UNCHANGED <<helper, journal, source, installed, next>>
  BY DEF Sweep, Move, KeptInv, SweepInv, used, Inv, Shapes
<1>2. \A h \in Helpers : helper[h].pc \notin Gated \cup {"gate"}
  BY <1>1 DEF Inv, HoldInv, Kinds
<1>3. \A b \in Apps : app[b].pc # "preparing"
  <2>1. lease["runtime"] # None
    BY <1>1 DEF Kinds
  <2> QED
    BY <2>1 DEF Inv, HoldInv, Inside
<1>4. \A h \in Helpers : ~Fresh(h) /\ helper[h].pc \notin Late
  <2>1. \A h \in Helpers :
          helper[h].pc \notin Late \cup {"prepared", "waiting", "apply", "begin"}
    BY <1>2 DEF Late, Gated
  <2>2. \A h \in Helpers : Fresh(h) => helper[h].pc \in Early /\ helper[h].heard = "nothing"
    BY <2>1 DEF KeptInv, FreshInv, Fresh, Early
  <2> QED
    BY <1>3, <2>1, <2>2 DEF KeptInv, FreshInv
<1> QED
  BY <1>1, <1>4, MoveKeeps DEF AppFields, Linked

\* What a start asks a helper to recover is another's journal
\* (UpdateRuntime::recover).
LEMMA ScanRecoverKeeps ==
  ASSUME Inv, Inv', Typed, KeptInv, NEW a \in Apps, ScanRecover(a)
  PROVE  KeptInv'
<1> USE ProcessesAssumption
<1>1. PICK h \in Helpers, t \in Pending :
       /\ Unheard(h)
       /\ app' = [app EXCEPT ![a] = [@ EXCEPT !.pc = "recovering", !.helper = h]]
       /\ helper' = [helper EXCEPT ![h] =
                       [Idle EXCEPT !.pc = "hello", !.mode = "recover",
                                    !.txn = t, !.parent = a]]
  BY DEF ScanRecover
<1>2. /\ helper[h].pc = "off" /\ t \in Txns /\ journal[t] # "none" /\ app[a].pc = "scan"
      /\ \A b \in Apps : app[b].helper # h
      /\ \A b \in Apps \ {a}, k \in Kinds : lease[k] = b => lease'[k] = b
      /\ UNCHANGED <<staged, journal, source, installed, next>>
  BY <1>1 DEF Unheard, Pending, Live, ScanRecover, Released, files, used
<1>3. /\ \A b \in Apps \ {a} : app'[b] = app[b]
      /\ app'[a].pc = "recovering" /\ app'[a].helper = h
  BY <1>1 DEF Inv, Shapes, AppFields
<1>4. /\ \A g \in Helpers \ {h} : helper'[g] = helper[g]
      /\ helper'[h].pc = "hello" /\ helper'[h].mode = "recover" /\ helper'[h].txn = t
      /\ helper'[h].heard = "nothing" /\ helper'[h].report = "none"
  BY <1>1 DEF Inv, Shapes, Idle
<1>5. NumberInv' /\ LateInv' /\ MixedInv'
  BY <1>2, <1>3, <1>4 DEF KeptInv, NumberInv, LateInv, Late, MixedInv
<1>6. LinkInv'
  BY <1>2, <1>3, <1>4 DEF KeptInv, LinkInv, Bound, Linked
<1>7. FreshInv'
  <2>1. \A g \in Helpers : Fresh(g)' => g # h /\ Fresh(g)
    BY <1>4 DEF Fresh
  <2> QED
    BY <1>2, <1>3, <1>4, <2>1 DEF KeptInv, FreshInv
<1>8. SweepInv'
  BY <1>2, <1>3 DEF KeptInv, SweepInv
<1> QED
  BY <1>5, <1>6, <1>7, <1>8 DEF KeptInv

\* A start that reads the verdict lets go of its helper, which has ended
\* (UpdateRuntime::recover).
LEMMA RecoveredKeeps ==
  ASSUME Inv, Inv', Typed, KeptInv, NEW a \in Apps, Recovered(a)
  PROVE  KeptInv'
<1> USE ProcessesAssumption
<1> DEFINE h == app[a].helper
<1>1. UNCHANGED <<staged, journal, source, installed, next>>
  BY DEF Recovered, files, used
<1>2. CASE AppEnds(a)
  BY <1>1, <1>2, AppLeavesKeeps
<1>3. CASE ~AppEnds(a)
  <2>1. /\ app[a].pc = "recovering" /\ h \in Helpers /\ helper[h].pc = "off"
        /\ app' = [app EXCEPT ![a] = [@ EXCEPT !.pc = "gate", !.helper = None, !.again = TRUE]]
        /\ helper' = [helper EXCEPT ![h] = [@ EXCEPT !.parent = None, !.report = "none"]]
        /\ lease' = lease
    BY <1>3 DEF Recovered, leases, KeptInv, LinkInv
  <2>2. /\ \A b \in Apps \ {a} : app'[b] = app[b]
        /\ app'[a].pc = "gate" /\ app'[a].helper = None
    BY <2>1 DEF Inv, Shapes, AppFields
  <2> HIDE DEF h
  <2>3. /\ \A g \in Helpers \ {h} : helper'[g] = helper[g]
        /\ helper'[h].pc = "off"
    BY <2>1 DEF Inv, Shapes, HelperFields
  <2>4. NumberInv' /\ LateInv' /\ MixedInv'
    BY <1>1, <2>2, <2>3 DEF KeptInv, NumberInv, LateInv, Late, MixedInv
  <2>5. LinkInv'
    <3>1. \A b \in Apps : app'[b].pc \in Linked \cup {"recovering"} \/ app'[b].helper # None
                           => b # a /\ app'[b] = app[b]
      BY <2>2 DEF Linked
    <3>2. \A b \in Apps \ {a} : app[b].helper # h
      BY <2>1 DEF KeptInv, LinkInv, Bound, h
    <3>3. ASSUME NEW b \in Apps, app'[b].pc \in Linked, NEW g \in Helpers
          PROVE  Bound(b, g)'
      BY <2>3, <3>1, <3>2, <3>3 DEF KeptInv, LinkInv, Bound
    <3> QED
      BY <1>1, <3>1, <3>3 DEF KeptInv, LinkInv, Bound, Linked
  <2>6. FreshInv'
    <3>1. \A g \in Helpers : Fresh(g)' => g # h /\ Fresh(g)
      BY <2>3 DEF Fresh, Early
    <3>2. \A g \in Helpers : helper'[g].pc # "off" => g # h /\ helper'[g] = helper[g]
      BY <2>3
    <3>3. ASSUME NEW g \in Helpers, Fresh(g)
          PROVE  /\ helper[g].txn \in staged /\ journal[helper[g].txn] = "none"
                 /\ \A f \in Helpers : helper'[f].pc # "off" /\ helper'[f].txn = helper[g].txn
                                       => f = g
                 /\ helper[g].pc \in Early /\ helper[g].heard = "nothing" =>
                      /\ helper[g].parent \in Apps
                      /\ app'[helper[g].parent].pc = "preparing"
                      /\ app'[helper[g].parent].helper = g
      <4>1. \A b \in Apps : app[b].pc = "preparing" => app'[b] = app[b]
        BY <2>1, <2>2
      <4>2. \A f \in Helpers : helper'[f].pc # "off" => helper[f].pc # "off"
                                                        /\ helper'[f].txn = helper[f].txn
        BY <3>2
      <4> QED
        BY <3>3, <4>1, <4>2 DEF KeptInv, FreshInv
    <3>4. ASSUME NEW g \in Helpers
          PROVE  /\ helper'[g].pc \in {"prepared", "waiting", "apply", "begin"} =>
                      helper'[g].mode = "prepare"
                 /\ helper'[g].pc \in {"hello", "gate"} =>
                      helper'[g].heard # "authorized" /\ helper'[g].report = "none"
      BY <3>2 DEF KeptInv, FreshInv
    <3> QED
      BY <1>1, <2>3, <3>1, <3>3, <3>4 DEF FreshInv
  <2>7. SweepInv'
    <3>1. lease' = lease
      BY <2>1
    <3> QED
      BY <2>2, <3>1 DEF KeptInv, SweepInv
  <2> QED
    BY <2>4, <2>5, <2>6, <2>7 DEF KeptInv
<1> QED
  BY <1>2, <1>3

\* The steps of a start.
LEMMA StartingKeeps ==
  ASSUME Inv, Inv', Typed, KeptInv, NEW a \in Apps, Starting(a)
  PROVE  KeptInv'
<1> USE ProcessesAssumption
<1>0. /\ DOMAIN app = Apps /\ DOMAIN app[a] = AppFields
      /\ Off.helper = None /\ Off.pc = "off"
  BY DEF Inv, Shapes, Off
<1> DEFINE Moves == /\ \A b \in Apps \ {a} : app'[b] = app[b]
                    /\ app[a].pc \notin Linked \cup {"recovering"}
                    /\ app'[a].pc \notin Linked \cup {"recovering"}
                    /\ app'[a].helper \in {app[a].helper, None}
                    /\ app'[a].pc = "sweeping" => \A k \in Kinds : lease'[k] = a
           Others == \A b \in Apps \ {a}, k \in Kinds : lease[k] = b => lease'[k] = b
           Files == UNCHANGED <<staged, journal, source, installed, next>>
<1>1. /\ \A t \in staged : journal[t] # "none" => t \in staged
      /\ \A h \in Helpers : Fresh(h) \/ helper[h].pc \in Late => helper[h].txn \in staged
  BY DEF KeptInv, FreshInv, LateInv
<1>15. Moves /\ Others /\ Files /\ helper' = helper => KeptInv'
  BY <1>1, MoveKeeps
<1>2. AppEnds(a) /\ Files => KeptInv'
  BY AppLeavesKeeps
<1>3. CASE Detect(a) \/ TakeCapability(a) \/ JoinRuntime(a)
  <2>1. Files
    BY <1>3 DEF Detect, TakeCapability, JoinRuntime, used
  <2>2. CASE ~AppEnds(a)
    <3>1. /\ app[a].pc \in Entering /\ helper' = helper /\ lease' = lease
          /\ \/ app' = [app EXCEPT ![a] = [@ EXCEPT !.pc = "sweep", !.txn = 0]]
             \/ \E p \in {"taking", "taken", "limited"} : Move(a, p)
      BY <1>3, <2>2 DEF Detect, TakeCapability, JoinRuntime, leases
    <3>2. /\ \A b \in Apps \ {a} : app'[b] = app[b]
          /\ app'[a].pc \in {"sweep", "taking", "taken", "limited"}
          /\ app'[a].helper = app[a].helper
      <4>1. CASE app' = [app EXCEPT ![a] = [@ EXCEPT !.pc = "sweep", !.txn = 0]]
        BY <1>0, <4>1 DEF AppFields
      <4>2. CASE \E p \in {"taking", "taken", "limited"} : Move(a, p)
        BY <1>0, <4>2 DEF Move, AppFields
      <4> QED
        BY <3>1, <4>1, <4>2
    <3> QED
      BY <1>15, <2>1, <3>1, <3>2 DEF Linked
  <2> QED
    BY <1>2, <2>1, <2>2
<1>4. CASE SweepStep(a)
  <2>1. \E p \in {"sweep2", "sweeping", "gate"} :
          Move(a, p) /\ (p = "sweeping" => \A k \in Kinds : lease'[k] = a)
    BY <1>4 DEF SweepStep
  <2>2. app[a].pc \in {"sweep", "sweep2"} /\ helper' = helper /\ Files
    BY <1>4 DEF SweepStep, files, used
  <2>3. app[a].pc = "sweep2" => lease["transaction"] = a
    BY DEF Inv, HoldInv
  <2>4. Others
    BY <1>4, <2>3 DEF SweepStep, SweepMayTake, Free, Take, Released, Kinds, Inv, Shapes
  <2> QED
    BY <1>0, <1>15, <2>1, <2>2, <2>4 DEF Move, AppFields, Linked
<1>5. CASE Sweep(a)
  BY <1>5, SweepKeeps
<1>6. CASE TakeGate(a)
  <2>1. /\ app[a].pc = "gate" /\ Move(a, "scan") /\ helper' = helper /\ Files /\ Others
    BY <1>6 DEF TakeGate, Free, Take, Kinds, files, used, Inv, Shapes
  <2> QED
    BY <1>0, <1>15, <2>1 DEF Move, AppFields, Linked
<1>7. CASE NoticeUpdate(a)
  <2>1. /\ app[a].pc = "gate" /\ helper' = helper /\ Files /\ Others
        /\ app' = [app EXCEPT ![a] = [@ EXCEPT !.pc = "sweep", !.waited = TRUE, !.again = FALSE]]
    BY <1>7 DEF NoticeUpdate, leases, files, used
  <2> QED
    BY <1>0, <1>15, <2>1 DEF AppFields, Linked
<1>8. CASE GiveUpWaiting(a) \/ ScanStop(a)
  BY <1>2, <1>8 DEF GiveUpWaiting, ScanStop, files, used
<1>9. CASE ScanAdmit(a)
  <2>1. Files
    BY <1>9 DEF ScanAdmit, files, used
  <2>2. CASE ~AppEnds(a)
    <3>1. /\ app[a].pc = "scan" /\ helper' = helper /\ lease' = Released(a, {"startup"})
          /\ \/ Move(a, "admitted")
             \/ app' = [app EXCEPT ![a] = [@ EXCEPT !.pc = "sweep", !.waited = TRUE,
                                   !.again = FALSE]]
      BY <1>9, <2>2 DEF ScanAdmit
    <3>2. /\ \A b \in Apps \ {a} : app'[b] = app[b]
          /\ app'[a].pc \in {"sweep", "admitted"} /\ app'[a].helper = app[a].helper
      <4>1. CASE app' = [app EXCEPT ![a] = [@ EXCEPT !.pc = "sweep", !.waited = TRUE,
                                            !.again = FALSE]]
        BY <1>0, <4>1 DEF AppFields
      <4>2. CASE Move(a, "admitted")
        BY <1>0, <4>2 DEF Move, AppFields
      <4> QED
        BY <3>1, <4>1, <4>2
    <3>3. Others
      BY <3>1 DEF Released
    <3> QED
      BY <1>15, <2>1, <3>1, <3>2, <3>3 DEF Linked
  <2> QED
    BY <1>2, <2>1, <2>2
<1>10. CASE ScanRecover(a)
  BY <1>10, ScanRecoverKeeps
<1>11. CASE Recovered(a)
  BY <1>11, RecoveredKeeps
<1>12. CASE Enter(a)
  <2>1. Files
    BY <1>12 DEF Enter, files
  <2>2. CASE ~AppEnds(a)
    <3>1. /\ app[a].pc = "admitted" /\ helper' = helper /\ lease' = lease
          /\ \/ Edits(a)
             \/ app' = [app EXCEPT ![a] = [Off EXCEPT !.pc = "sweep",
                                          !.image = installed, !.restarted = TRUE]]
      BY <1>12, <2>2 DEF Enter, leases
    <3>2. /\ \A b \in Apps \ {a} : app'[b] = app[b]
          /\ app'[a].pc \in {"editing", "sweep"} /\ app'[a].helper = None
      <4>1. CASE Edits(a)
        BY <1>0, <4>1 DEF Edits, Off
      <4>2. CASE app' = [app EXCEPT ![a] = [Off EXCEPT !.pc = "sweep",
                                          !.image = installed, !.restarted = TRUE]]
        BY <1>0, <4>2 DEF Off
      <4> QED
        BY <3>1, <4>1, <4>2
    <3> QED
      BY <1>15, <2>1, <3>1, <3>2 DEF Linked
  <2> QED
    BY <1>2, <2>1, <2>2
<1>13. CASE Verify(a)
  <2>1. Files
    BY <1>13 DEF Verify, files, used
  <2>2. CASE ~AppEnds(a)
    <3>1. /\ app[a].pc = "limited" /\ Move(a, "reporting") /\ lease' = lease
          /\ helper' = [h \in Helpers |->
                          [helper[h] EXCEPT !.healthy = @ \/ helper[h].child = a]]
      BY <1>13, <2>2 DEF Verify, leases
    <3>2. ASSUME NEW h \in Helpers
          PROVE  /\ helper'[h].pc = helper[h].pc /\ helper'[h].txn = helper[h].txn
                 /\ helper'[h].mode = helper[h].mode /\ helper'[h].heard = helper[h].heard
                 /\ helper'[h].report = helper[h].report
                 /\ helper'[h].parent = helper[h].parent
      BY <3>1 DEF Inv, Shapes, HelperFields
    <3>3. Moves /\ Others
      BY <1>0, <3>1 DEF Move, AppFields, Linked
    <3> QED
      BY <1>1, <2>1, <3>2, <3>3, MoveKeeps
  <2> QED
    BY <1>2, <2>1, <2>2
<1>14. CASE Answered(a)
  <2>1. Files
    BY <1>14 DEF Answered, files, used
  <2>2. CASE ~AppEnds(a)
    <3>1. /\ app[a].pc = "reporting" /\ helper' = helper /\ lease' = lease /\ Edits(a)
      BY <1>14, <2>2 DEF Answered, leases
    <3> QED
      BY <1>0, <1>15, <2>1, <3>1 DEF Edits, Off, Linked
  <2> QED
    BY <1>2, <2>1, <2>2
<1> QED
  BY <1>3, <1>4, <1>5, <1>6, <1>7, <1>8, <1>9, <1>10, <1>11, <1>12, <1>13, <1>14
     DEF Starting


\* An application that asks for an update gives its helper a transaction that no
\* other one has (prepare_restart).
LEMMA PrepareRestartKeeps ==
  ASSUME Inv, Inv', Typed, KeptInv, NEW a \in Apps, PrepareRestart(a)
  PROVE  KeptInv'
<1> USE ProcessesAssumption
<1>1. PICK h \in Helpers :
       /\ Unheard(h)
       /\ app' = [app EXCEPT ![a] = [@ EXCEPT !.pc = "preparing", !.helper = h, !.txn = next]]
       /\ helper' = [helper EXCEPT ![h] =
                       [Idle EXCEPT !.pc = "hello", !.txn = next, !.parent = a]]
  BY DEF PrepareRestart
<1>2. /\ helper[h].pc = "off" /\ \A b \in Apps : app[b].helper # h
      /\ app[a].pc = "editing" /\ next \in Txns
      /\ staged' = staged \cup {next} /\ next' = next + 1
      /\ UNCHANGED <<lease, journal, installed>>
      /\ \A t \in Txns \ {next} : source'[t] = source[t]
  BY <1>1 DEF PrepareRestart, Unheard, leases, Typed, CountType, JournalType, Txns
<1>3. /\ \A b \in Apps \ {a} : app'[b] = app[b]
      /\ app'[a].pc = "preparing" /\ app'[a].helper = h /\ app'[a].txn = next
  BY <1>1 DEF Inv, Shapes, AppFields
<1>4. /\ \A g \in Helpers \ {h} : helper'[g] = helper[g]
      /\ helper'[h].pc = "hello" /\ helper'[h].mode = "prepare" /\ helper'[h].txn = next
      /\ helper'[h].heard = "nothing" /\ helper'[h].report = "none"
      /\ helper'[h].parent = a
  BY <1>1 DEF Inv, Shapes, Idle
<1>5. /\ journal[next] = "none"
      /\ \A g \in Helpers : helper[g].pc # "off" => helper[g].txn # next
      /\ \A b \in Apps : app[b].pc \in Linked => app[b].txn # next
      /\ next \in Nat
  BY <1>2 DEF KeptInv, NumberInv, LinkInv, Bound, Typed, CountType, JournalType
<1>6. NumberInv'
  BY <1>2, <1>4, <1>5 DEF KeptInv, NumberInv, Typed, CountType, Txns, HelperType, HelperRecord
<1>7. LinkInv'
  <2>1. \A b \in Apps \ {a} : app'[b].pc \in Linked => app[b].txn < next + 1
    BY <1>2, <1>3, <1>5 DEF KeptInv, LinkInv, Bound, Txns
  <2> QED
    BY <1>2, <1>3, <1>4, <1>5, <2>1 DEF KeptInv, LinkInv, Bound, Linked, Early
<1>8. FreshInv'
  <2>1. \A g \in Helpers \ {h} : Fresh(g)' => Fresh(g)
    BY <1>4 DEF Fresh
  <2> QED
    BY <1>2, <1>3, <1>4, <1>5, <2>1 DEF KeptInv, FreshInv, Fresh, Early
<1>9. LateInv' /\ SweepInv' /\ MixedInv'
  <2>1. \A g \in Helpers : helper'[g].pc = "restored" => helper[g].txn \in Txns \ {next}
    BY <1>4, <1>5 DEF Inv, Shapes
  <2> QED
    BY <1>2, <1>3, <1>4, <2>1 DEF KeptInv, LateInv, Late, SweepInv, MixedInv
<1> QED
  BY <1>6, <1>7, <1>8, <1>9 DEF KeptInv

\* An application quits only for a helper that is prepared and has not begun,
\* and lets go of it (authorize_exit).
LEMMA AuthorizeKeeps ==
  ASSUME Inv, Inv', Typed, KeptInv, NEW a \in Apps, Authorize(a)
  PROVE  KeptInv'
<1> USE ProcessesAssumption
<1> DEFINE h == app[a].helper
<1>1. /\ app[a].pc = "preparing" /\ h \in Helpers /\ helper[h].pc \in Early
      /\ helper[h].report = "prepared" /\ helper[h].heard = "nothing" /\ h # None
      /\ helper[h].mode = "prepare"
      /\ helper' = [helper EXCEPT ![h] = [@ EXCEPT !.heard = "authorized", !.report = "none"]]
      /\ app' = [app EXCEPT ![a] = [@ EXCEPT !.pc = "quitting", !.helper = None, !.txn = 0]]
      /\ \A b \in Apps \ {a} : app[b].helper # h
  BY DEF Authorize, KeptInv, LinkInv, Bound, Linked
<1>0. UNCHANGED <<lease, staged, journal, source, installed, next>>
  BY DEF Authorize, leases, files, used
<1>2. /\ \A b \in Apps \ {a} : app'[b] = app[b]
      /\ app'[a].pc = "quitting" /\ app'[a].helper = None
  BY <1>1 DEF Inv, Shapes, AppFields
<1> HIDE DEF h
<1>3. /\ \A g \in Helpers \ {h} : helper'[g] = helper[g]
      /\ helper'[h].heard = "authorized" /\ helper'[h].pc = helper[h].pc
      /\ helper'[h].txn = helper[h].txn /\ helper'[h].mode = helper[h].mode
  BY <1>1 DEF Inv, Shapes, HelperFields
<1>4. helper[h].pc = "prepared"
  BY <1>1 DEF KeptInv, FreshInv, Early
<1>5. NumberInv' /\ LateInv' /\ SweepInv' /\ MixedInv'
  <2>1. \A g \in Helpers : helper'[g].pc = helper[g].pc /\ helper'[g].txn = helper[g].txn
    BY <1>3
  <2>2. NumberInv' /\ LateInv'
    BY <1>0, <2>1 DEF KeptInv, NumberInv, LateInv
  <2>3. SweepInv' /\ MixedInv'
    BY <1>0, <1>2 DEF KeptInv, SweepInv, MixedInv
  <2> QED
    BY <2>2, <2>3
<1>6. LinkInv'
  <2>1. \A b \in Apps : app'[b].pc \in Linked \cup {"recovering"} \/ app'[b].helper # None
                         => b # a /\ app'[b] = app[b]
    BY <1>2 DEF Linked
  <2>2. ASSUME NEW b \in Apps, app'[b].pc \in Linked, NEW g \in Helpers
        PROVE  Bound(b, g)'
    <3>1. app'[b] = app[b] /\ app[b].helper # h
      BY <1>1, <2>2, <2>1
    <3>2. CASE g = h
      BY <1>3, <2>2, <3>1, <3>2 DEF KeptInv, LinkInv, Bound
    <3>3. CASE g # h
      BY <1>3, <2>2, <3>1, <3>3 DEF KeptInv, LinkInv, Bound
    <3> QED
      BY <3>2, <3>3
  <2> QED
    BY <1>0, <2>1, <2>2 DEF KeptInv, LinkInv, Bound, Linked
<1>7. FreshInv'
  <2>1. \A g \in Helpers : /\ Fresh(g)' => Fresh(g)
                           /\ helper'[g].pc = helper[g].pc /\ helper'[g].txn = helper[g].txn
                           /\ helper'[g].mode = helper[g].mode
    BY <1>1, <1>3 DEF Fresh, Early
  <2>2. \A g \in Helpers : Fresh(g)' /\ helper'[g].heard = "nothing" =>
                             g # h /\ Fresh(g) /\ helper'[g] = helper[g]
    BY <1>3, <2>1
  <2>3. ASSUME NEW g \in Helpers, Fresh(g)', helper'[g].pc \in Early,
               helper'[g].heard = "nothing"
        PROVE  /\ helper'[g].parent \in Apps
               /\ app'[helper'[g].parent].pc = "preparing"
               /\ app'[helper'[g].parent].helper = g
    <3>1. /\ g # h /\ helper'[g] = helper[g] /\ helper[g].parent \in Apps
          /\ app[helper[g].parent].pc = "preparing"
          /\ app[helper[g].parent].helper = g
      BY <2>2, <2>3 DEF KeptInv, FreshInv
    <3>2. helper[g].parent # a
      BY <3>1 DEF h
    <3> QED
      BY <1>2, <3>1, <3>2
  <2>4. ASSUME NEW g \in Helpers, Fresh(g)'
        PROVE  /\ helper'[g].txn \in staged' /\ journal'[helper'[g].txn] = "none"
               /\ \A f \in Helpers : helper'[f].pc # "off" /\ helper'[f].txn = helper'[g].txn
                                     => f = g
    BY <1>0, <2>1, <2>4 DEF KeptInv, FreshInv
  <2>5. ASSUME NEW g \in Helpers
        PROVE  /\ helper'[g].pc \in {"prepared", "waiting", "apply", "begin"} =>
                    helper'[g].mode = "prepare"
               /\ helper'[g].pc \in {"hello", "gate"} =>
                    helper'[g].heard # "authorized" /\ helper'[g].report = "none"
    BY <1>3, <1>4, <2>1 DEF KeptInv, FreshInv
  <2> QED
    BY <2>3, <2>4, <2>5 DEF FreshInv
<1> QED
  BY <1>5, <1>6, <1>7 DEF KeptInv

\* A helper that is given up was not authorized, so it will not begin
\* (abort_in_place).
LEMMA AbandonKeeps ==
  ASSUME Inv, Inv', Typed, KeptInv, NEW a \in Apps, Abandon(a)
  PROVE  KeptInv'
<1> USE ProcessesAssumption
<1> DEFINE h == app[a].helper
<1>1. /\ app[a].pc = "preparing" /\ h \in Helpers /\ h # None
      /\ helper' = [helper EXCEPT ![h].heard = IF helper[h].pc = "off" THEN @ ELSE "abort"]
      /\ app' = [app EXCEPT ![a].pc = "abandoning"]
      /\ UNCHANGED <<lease, staged, journal, source, installed, next>>
  BY DEF Abandon, Move, KeptInv, LinkInv, Bound, Linked, leases, files, used
<1>2. /\ \A b \in Apps \ {a} : app'[b] = app[b]
      /\ app'[a].pc = "abandoning" /\ app'[a].helper = app[a].helper
      /\ app'[a].txn = app[a].txn
  BY <1>1 DEF Inv, Shapes, AppFields
<1> HIDE DEF h
<1>3. /\ \A g \in Helpers \ {h} : helper'[g] = helper[g]
      /\ helper[h].pc # "off" => helper'[h].heard = "abort"
      /\ helper'[h].pc = helper[h].pc
      /\ helper'[h].txn = helper[h].txn /\ helper'[h].mode = helper[h].mode
      /\ helper'[h].parent = helper[h].parent /\ helper'[h].report = helper[h].report
  BY <1>1 DEF Inv, Shapes, HelperFields
<1>4. NumberInv' /\ LateInv' /\ SweepInv' /\ MixedInv'
  BY <1>1, <1>2, <1>3 DEF KeptInv, NumberInv, LateInv, Late, SweepInv, MixedInv
<1>5. LinkInv'
  <2>1. ASSUME NEW b \in Apps
        PROVE  /\ app'[b].helper = app[b].helper /\ app'[b].txn = app[b].txn
               /\ (app'[b].pc \in Linked) = (app[b].pc \in Linked)
               /\ (app'[b].pc = "recovering") = (app[b].pc = "recovering")
               /\ app'[b].pc = "preparing" => b # a /\ app[b].pc = "preparing"
    <3>1. CASE b = a
      BY <1>1, <1>2, <3>1 DEF Linked
    <3>2. CASE b # a
      BY <1>2, <3>2
    <3> QED
      BY <3>1, <3>2
  <2>2. \A b \in Apps \ {a} : app[b].helper # h
    BY <1>1 DEF KeptInv, LinkInv, h
  <2>3. ASSUME NEW b \in Apps, app[b].pc \in Linked, NEW g \in Helpers
        PROVE  Bound(b, g)'
    <3>1. Bound(b, g)
      BY <2>3 DEF KeptInv, LinkInv
    <3>2. CASE g = h
      BY <1>3, <2>1, <2>2, <3>1, <3>2 DEF Bound
    <3>3. CASE g # h
      BY <1>3, <2>1, <3>1, <3>3 DEF Bound
    <3> QED
      BY <3>2, <3>3
  <2>4. UNCHANGED <<journal, next>>
    BY <1>1
  <2> QED
    BY <2>1, <2>3, <2>4 DEF KeptInv, LinkInv
<1>6. FreshInv'
  <2>1. \A g \in Helpers : /\ Fresh(g)' => Fresh(g)
                           /\ helper'[g].pc = helper[g].pc /\ helper'[g].txn = helper[g].txn
                           /\ helper'[g].mode = helper[g].mode
                           /\ helper'[g].parent = helper[g].parent
                           /\ helper'[g].report = helper[g].report
                           /\ helper'[g].heard \in {helper[g].heard, "abort"}
    BY <1>1, <1>3 DEF Fresh, Early
  <2>2. ASSUME NEW g \in Helpers, Fresh(g)', helper'[g].pc \in Early,
               helper'[g].heard = "nothing"
        PROVE  /\ helper'[g].parent \in Apps
               /\ app'[helper'[g].parent].pc = "preparing"
               /\ app'[helper'[g].parent].helper = g
    <3>1. /\ g # h /\ Fresh(g) /\ helper'[g] = helper[g]
      BY <1>3, <2>1, <2>2 DEF Early
    <3>2. /\ helper[g].parent \in Apps
          /\ app[helper[g].parent].pc = "preparing"
          /\ app[helper[g].parent].helper = g
      BY <2>2, <3>1 DEF KeptInv, FreshInv
    <3> QED
      BY <1>2, <3>1, <3>2 DEF h
  <2> QED
    BY <1>1, <2>1, <2>2 DEF KeptInv, FreshInv
<1> QED
  BY <1>4, <1>5, <1>6 DEF KeptInv

\* What was staged goes only when the helper it was staged for is gone
\* (confirm_child_exit).
LEMMA ConfirmExitKeeps ==
  ASSUME Inv, Inv', Typed, KeptInv, NEW a \in Apps, ConfirmExit(a)
  PROVE  KeptInv'
<1> USE ProcessesAssumption
<1> DEFINE h == app[a].helper
           t == app[a].txn
<1>0. /\ app[a].pc = "abandoning" /\ h \in Helpers /\ h # None /\ t \in Txns
      /\ journal[t] = "none"
  BY DEF ConfirmExit, KeptInv, LinkInv, Bound, Linked
<1>1. /\ app' = [app EXCEPT ![a] = [@ EXCEPT !.pc = "editing", !.helper = None, !.txn = 0]]
      /\ \/ /\ helper' = [helper EXCEPT ![h] = Idle]
            /\ staged' = staged \ {t}
         \/ /\ helper' = [helper EXCEPT ![h].parent = None]
            /\ UNCHANGED staged
  BY <1>0 DEF ConfirmExit, DiscardUnstarted
<1>11. UNCHANGED <<journal, source, installed, next>>
  BY DEF ConfirmExit, used
<1>2. /\ \A b \in Apps \ {a} : app'[b] = app[b]
      /\ app'[a].pc = "editing" /\ app'[a].helper = None
  BY <1>1 DEF Inv, Shapes, AppFields
<1>3. /\ \A g \in Helpers : helper[g].pc # "off" /\ helper[g].txn = t => g = h
      /\ \A b \in Apps \ {a} : app[b].helper # h
      /\ helper[h].pc # "off" => helper[h].pc \in Early /\ helper[h].heard # "authorized"
      /\ \A b \in Apps, k \in Kinds : lease[k] = b => lease'[k] = b
  BY <1>0 DEF KeptInv, LinkInv, Bound, Linked, ConfirmExit, Released
<1>4. Fresh(h) /\ helper[h].heard = "nothing" =>
         app[helper[h].parent].pc = "preparing" /\ app[helper[h].parent].helper = h
         /\ helper[h].parent \in Apps
  BY <1>0, <1>3 DEF KeptInv, FreshInv, Fresh
<1>5. ~Fresh(h)
  BY <1>0, <1>3, <1>4 DEF Fresh, Early
<1> HIDE DEF h, t
<1>6. /\ \A g \in Helpers \ {h} : helper'[g] = helper[g]
      /\ \/ helper'[h].pc = "off" /\ staged' = staged \ {t}
         \/ /\ staged' = staged
            /\ helper'[h].pc = helper[h].pc /\ helper'[h].txn = helper[h].txn
            /\ helper'[h].mode = helper[h].mode /\ helper'[h].heard = helper[h].heard
            /\ helper'[h].report = helper[h].report
  BY <1>0, <1>1 DEF Inv, Shapes, HelperFields, Idle
<1>7. NumberInv' /\ SweepInv' /\ MixedInv'
  <2>1. \A g \in Helpers : helper'[g].pc # "off" =>
          helper[g].pc # "off" /\ helper'[g].txn = helper[g].txn
    BY <1>6
  <2>2. \A u \in Txns : u \in staged /\ journal[u] # "none" => u \in staged'
    BY <1>0, <1>6
  <2>3. NumberInv'
    BY <1>11, <2>1, <2>2 DEF KeptInv, NumberInv
  <2>4. SweepInv' /\ MixedInv'
    BY <1>2, <1>3, <1>11 DEF KeptInv, SweepInv, MixedInv
  <2> QED
    BY <2>3, <2>4
<1>8. LinkInv'
  <2>1. \A b \in Apps : app'[b].pc \in Linked \cup {"recovering"} \/ app'[b].helper # None
                         => b # a /\ app'[b] = app[b]
    BY <1>2 DEF Linked
  <2>2. ASSUME NEW b \in Apps, app'[b].pc \in Linked, NEW g \in Helpers
        PROVE  Bound(b, g)'
    <3>1. app'[b] = app[b] /\ app[b].helper # h
      BY <1>3, <2>2, <2>1
    <3>2. CASE g = h
      BY <1>6, <2>2, <3>1, <3>2 DEF KeptInv, LinkInv, Bound
    <3>3. CASE g # h
      BY <1>6, <2>2, <3>1, <3>3 DEF KeptInv, LinkInv, Bound
    <3> QED
      BY <3>2, <3>3
  <2> QED
    BY <1>11, <2>1, <2>2 DEF KeptInv, LinkInv, Bound, Linked
<1>9. FreshInv'
  <2>1. \A g \in Helpers : Fresh(g)' => g # h /\ Fresh(g)
    BY <1>5, <1>6 DEF Fresh, Early
  <2>2. \A g \in Helpers : helper'[g].pc # "off" =>
          helper[g].pc # "off" /\ helper'[g].txn = helper[g].txn
    BY <1>6
  <2>3. ASSUME NEW g \in Helpers, Fresh(g)'
        PROVE  /\ helper'[g].txn \in staged' /\ journal'[helper'[g].txn] = "none"
               /\ \A f \in Helpers : helper'[f].pc # "off" /\ helper'[f].txn = helper'[g].txn
                                     => f = g
               /\ helper'[g].pc \in Early /\ helper'[g].heard = "nothing" =>
                    /\ helper'[g].parent \in Apps
                    /\ app'[helper'[g].parent].pc = "preparing"
                    /\ app'[helper'[g].parent].helper = g
    <3>1. helper'[g] = helper[g] /\ helper[g].pc # "off" /\ Fresh(g) /\ helper[g].txn # t
      BY <1>3, <1>6, <2>1, <2>3 DEF Fresh, Early
    <3>2. \A b \in Apps : app[b].pc = "preparing" => app'[b] = app[b]
      BY <1>0, <1>2
    <3>3. helper[g].txn \in staged => helper[g].txn \in staged'
      BY <1>6, <3>1
    <3> QED
      BY <1>11, <2>2, <3>1, <3>2, <3>3 DEF KeptInv, FreshInv
  <2> QED
    BY <1>6, <2>3 DEF KeptInv, FreshInv
<1>10. LateInv'
  BY <1>0, <1>3, <1>6, <1>11 DEF KeptInv, LateInv, Late
<1> QED
  BY <1>7, <1>8, <1>9, <1>10 DEF KeptInv

\* The steps of a user and of a restart.
LEMMA RestartingKeeps ==
  ASSUME Inv, Inv', Typed, KeptInv, NEW a \in Apps,
         Launch(a) \/ PrepareRestart(a) \/ Quit(a) \/ AppDies(a) \/ Restarting(a)
  PROVE  KeptInv'
<1>1. CASE Launch(a)
  <2>1. /\ app[a].pc = "off" /\ helper' = helper /\ lease' = lease
        /\ \E v : app' = [app EXCEPT ![a] = [Off EXCEPT !.pc = "sweep", !.image = v]]
        /\ UNCHANGED <<staged, journal, source, installed, next>>
    BY <1>1 DEF Launch, files, leases
  <2>2. /\ \A b \in Apps \ {a} : app'[b] = app[b]
        /\ app'[a].pc = "sweep" /\ app'[a].helper = None
    BY <2>1 DEF Inv, Shapes, Off
  <2>3. \A h \in Helpers : Fresh(h) \/ helper[h].pc \in Late => helper[h].txn \in staged
    BY DEF KeptInv, FreshInv, LateInv
  <2> QED
    BY <2>1, <2>2, <2>3, MoveKeeps DEF Linked
<1>2. CASE Quit(a) \/ AppDies(a)
  BY <1>2, AppLeavesKeeps DEF Quit, AppDies, files, used
<1> QED
  BY <1>1, <1>2, PrepareRestartKeeps, AuthorizeKeeps, AbandonKeeps, ConfirmExitKeeps
     DEF Restarting


-----------------------------------------------------------------------------
(* What is kept by a helper's step. *)

\* A step of a helper that holds the gate leaves alone what the others have; the
\* others that have not begun have other transactions.
LEMMA WorkKeeps ==
  ASSUME Inv, Typed, KeptInv, NEW h \in Helpers,
         helper[h].pc \in Gated \ {"prepared"},
         \A a \in Apps : /\ app'[a].pc = app[a].pc /\ app'[a].txn = app[a].txn
                         /\ app'[a].helper = app[a].helper,
         \A g \in Helpers \ {h} : helper'[g] = helper[g],
         helper'[h].txn = helper[h].txn, helper'[h].mode = helper[h].mode,
         helper'[h].pc \in Late \cup {"apply", "end"},
         helper'[h].pc = "apply" => helper[h].pc = "waiting" /\ UNCHANGED <<staged, journal>>,
         helper'[h].pc \in Late => helper[h].txn \in staged',
         helper'[h].pc = "restored" => installed' = source[helper[h].txn],
         \A t \in Txns \ {helper[h].txn} : journal'[t] = journal[t]
                                           /\ (t \in staged => t \in staged'),
         journal'[helper[h].txn] # "none" => helper[h].txn \in staged',
         \A a \in Apps, k \in Kinds : lease[k] = a => lease'[k] = a,
         MixedInv',
         UNCHANGED <<source, next>>
  PROVE  KeptInv'
<1> USE ProcessesAssumption
<1>1. /\ helper[h].pc # "off" /\ helper[h].txn \in Txns /\ helper[h].txn < next
      /\ helper[h].pc \notin Early
  BY DEF Inv, Shapes, KeptInv, NumberInv, Gated, Early
<1>2. \A g \in Helpers : /\ helper'[g].pc # "off" => helper[g].pc # "off"
                         /\ helper'[g].txn = helper[g].txn
                         /\ helper'[g].mode = helper[g].mode
  BY <1>1
<1>3. NumberInv'
  BY <1>1, <1>2 DEF KeptInv, NumberInv
<1>4. \A a \in Apps : app[a].pc \in Linked => app[a].txn # helper[h].txn /\ app[a].helper # h
  BY <1>1 DEF KeptInv, LinkInv, Bound
<1>5. LinkInv'
  <2>1. ASSUME NEW a \in Apps, app[a].pc \in Linked, NEW g \in Helpers
        PROVE  Bound(a, g)'
    <3>1. CASE g = h
      BY <1>2, <1>4, <2>1, <3>1 DEF Bound
    <3>2. CASE g # h
      BY <2>1, <3>2 DEF KeptInv, LinkInv, Bound
    <3> QED
      BY <3>1, <3>2
  <2> QED
    BY <1>4, <2>1 DEF KeptInv, LinkInv, Bound
<1>6. FreshInv'
  <2>1. Fresh(h)' => Fresh(h) /\ helper'[h].pc = "apply"
    BY DEF Fresh, Early, Late
  <2>2. ASSUME NEW g \in Helpers, Fresh(g)'
        PROVE  /\ helper[g].txn \in staged' /\ journal'[helper[g].txn] = "none"
               /\ \A f \in Helpers : helper'[f].pc # "off" /\ helper[f].txn = helper[g].txn
                                     => f = g
    <3>1. CASE g = h
      BY <1>2, <2>1, <2>2, <3>1 DEF KeptInv, FreshInv
    <3>2. CASE g # h
      <4>1. Fresh(g) /\ helper[g].pc # "off"
        BY <2>2, <3>2 DEF Fresh, Early
      <4>2. helper[g].txn \in Txns \ {helper[h].txn}
        BY <1>1, <3>2, <4>1 DEF KeptInv, FreshInv, Inv, Shapes
      <4> QED
        BY <1>2, <4>1, <4>2 DEF KeptInv, FreshInv
    <3> QED
      BY <3>1, <3>2
  <2>3. ASSUME NEW g \in Helpers
        PROVE  /\ helper'[g].pc \in {"prepared", "waiting", "apply", "begin"} =>
                    helper'[g].mode = "prepare"
               /\ helper'[g].pc \in {"hello", "gate"} =>
                    helper'[g].heard # "authorized" /\ helper'[g].report = "none"
               /\ Fresh(g)' /\ helper'[g].pc \in Early /\ helper'[g].heard = "nothing" =>
                    /\ helper'[g].parent \in Apps
                    /\ app[helper'[g].parent].pc = "preparing"
                    /\ app[helper'[g].parent].helper = g
    <3>1. CASE g = h
      BY <3>1 DEF KeptInv, FreshInv, Late, Early
    <3>2. CASE g # h
      BY <3>2 DEF KeptInv, FreshInv, Fresh
    <3> QED
      BY <3>1, <3>2
  <2> QED
    BY <1>2, <2>2, <2>3 DEF FreshInv
<1>7. LateInv'
  <2>1. ASSUME NEW g \in Helpers \ {h}
        PROVE  /\ helper[g].pc \in Late => helper[g].txn \in staged'
               /\ helper[g].pc # "restored"
    <3>1. lease["transaction"] = h
      BY DEF Inv, HoldInv
    <3>2. helper[g].pc \notin Late
      BY <3>1 DEF Inv, HoldInv, Late, Gated
    <3> QED
      BY <3>2 DEF Late
  <2> QED
    BY <2>1 DEF LateInv
<1>8. SweepInv'
  BY DEF KeptInv, SweepInv
<1> QED
  BY <1>3, <1>5, <1>6, <1>7, <1>8 DEF KeptInv

\* A store of a helper that has begun, however it ends, is to its own journal
\* (DurableJournal::persist).
LEMMA StoreKeeps ==
  ASSUME Inv, Typed, KeptInv, NEW h \in Helpers, NEW phase, NEW ok, NEW bad,
         Store(h, phase, ok, bad), OnlyJournal,
         helper[h].pc \in Late \cup {"begin"}, helper[h].txn \in staged,
         {ok, bad} \subseteq (Late \ {"restored"}) \cup {"end"}, MixedInv'
  PROVE  KeptInv'
<1>1. /\ UNCHANGED <<app, lease, staged, installed, source, next>>
      /\ \A t \in Txns \ {helper[h].txn} : journal'[t] = journal[t]
  BY DEF Store, OnlyJournal, leases, Typed, JournalType
<1>2. /\ \A g \in Helpers \ {h} : helper'[g] = helper[g]
      /\ helper'[h].txn = helper[h].txn /\ helper'[h].mode = helper[h].mode
      /\ helper'[h].pc \in {ok, bad}
  <2>1. \/ \E place \in {ok, bad} : helper' = [helper EXCEPT ![h].pc = place]
        \/ \E stored \in BOOLEAN :
             helper' = [helper EXCEPT ![h] = [@ EXCEPT !.pc = bad, !.behind = stored]]
    BY DEF Store, Goto
  <2>2. CASE \E place \in {ok, bad} : helper' = [helper EXCEPT ![h].pc = place]
    BY <2>2 DEF Inv, Shapes, HelperFields
  <2>3. CASE \E stored \in BOOLEAN :
               helper' = [helper EXCEPT ![h] = [@ EXCEPT !.pc = bad, !.behind = stored]]
    BY <2>3 DEF Inv, Shapes, HelperFields
  <2> QED
    BY <2>1, <2>2, <2>3
<1>3. helper[h].pc \in Gated \ {"prepared"} /\ {ok, bad} \subseteq Late \cup {"end"}
  BY DEF Gated, Late
<1>4. helper'[h].pc # "apply" /\ helper'[h].pc # "restored"
  BY <1>2 DEF Late
<1> QED
  BY <1>1, <1>2, <1>3, <1>4, WorkKeeps

\* A helper that ends, whatever it was doing, takes away nobody's directory
\* (Ends, a killed process).
LEMMA GoneKeeps ==
  ASSUME Inv, Typed, KeptInv, NEW h \in Helpers, NEW rep,
         \A a \in Apps : /\ app'[a].pc = app[a].pc /\ app'[a].txn = app[a].txn
                         /\ app'[a].helper = app[a].helper,
         helper' = [helper EXCEPT ![h] = Gone(h, rep)],
         lease' = Released(h, Kinds),
         UNCHANGED <<staged, journal, source, installed, next>>
  PROVE  KeptInv'
<1> USE ProcessesAssumption
<1>1. /\ \A g \in Helpers \ {h} : helper'[g] = helper[g]
      /\ helper'[h].pc = "off"
  BY DEF Inv, Shapes, Gone, Idle
<1>2. /\ \A a \in Apps, k \in Kinds : lease[k] = a => lease'[k] = a
      /\ UNCHANGED <<staged, journal, source, installed, next>>
  BY DEF Released
<1>3. NumberInv' /\ SweepInv' /\ MixedInv'
  <2>1. \A g \in Helpers : helper'[g].pc # "off" => helper'[g] = helper[g]
    BY <1>1
  <2> QED
    BY <1>2, <2>1 DEF KeptInv, NumberInv, SweepInv, MixedInv
<1>4. LinkInv'
  BY <1>1 DEF KeptInv, LinkInv, Bound
<1>5. FreshInv'
  <2>1. \A g \in Helpers : Fresh(g)' => g # h /\ Fresh(g)
    BY <1>1 DEF Fresh, Early
  <2> QED
    BY <1>1, <2>1 DEF KeptInv, FreshInv
<1>6. LateInv'
  BY <1>1 DEF KeptInv, LateInv, Late
<1> QED
  BY <1>3, <1>4, <1>5, <1>6 DEF KeptInv


\* A helper that has not begun goes on with the same transaction, and only an
\* authorized one begins (run_session).
LEMMA HearKeeps ==
  ASSUME Inv, Typed, KeptInv, NEW h \in Helpers,
         helper[h].pc \in Early,
         \A g \in Helpers \ {h} : helper'[g] = helper[g],
         helper'[h].txn = helper[h].txn, helper'[h].mode = helper[h].mode,
         helper'[h].parent = helper[h].parent,
         \/ helper'[h].pc = "gate" /\ helper[h].pc = "hello"
            /\ helper'[h].heard = helper[h].heard /\ helper'[h].report = helper[h].report
         \/ helper'[h].pc = "prepared" /\ helper[h].mode = "prepare"
            /\ helper'[h].heard = helper[h].heard
         \/ helper'[h].pc = "recover" /\ helper[h].mode # "prepare"
         \/ /\ helper[h].pc = "prepared" /\ helper[h].heard = "authorized"
            /\ helper'[h].pc = "waiting",
         \A a \in Apps, k \in Kinds : lease[k] = a => lease'[k] = a,
         UNCHANGED <<app, staged, journal, source, installed, next>>
  PROVE  KeptInv'
<1> USE ProcessesAssumption
<1>1. \A g \in Helpers : /\ helper'[g].pc # "off" => helper[g].pc # "off"
                         /\ helper'[g].txn = helper[g].txn /\ helper'[g].mode = helper[g].mode
                         /\ helper'[g].parent = helper[g].parent
  BY DEF Early
<1>2. NumberInv'
  BY <1>1 DEF KeptInv, NumberInv
<1>3. LinkInv'
  <2>1. ASSUME NEW a \in Apps, app[a].pc \in Linked, NEW g \in Helpers,
               app[a].helper = g, helper'[g].pc # "off"
        PROVE  /\ helper'[g].txn = app[a].txn /\ helper'[g].mode = "prepare"
               /\ helper'[g].pc \in Early /\ helper'[g].parent = a
               /\ helper'[g].heard # "authorized"
               /\ app[a].pc = "preparing" => helper'[g].heard = "nothing"
    <3>1. /\ helper[g].txn = app[a].txn /\ helper[g].mode = "prepare"
          /\ helper[g].pc \in Early /\ helper[g].parent = a
          /\ helper[g].heard # "authorized"
          /\ app[a].pc = "preparing" => helper[g].heard = "nothing"
      BY <1>1, <2>1 DEF KeptInv, LinkInv, Bound
    <3> QED
      BY <1>1, <3>1 DEF Early
  <2>2. ASSUME NEW a \in Apps, app[a].pc \in Linked, NEW g \in Helpers,
               helper'[g].pc # "off", helper'[g].txn = app[a].txn
        PROVE  app[a].helper = g
    BY <1>1, <2>2 DEF KeptInv, LinkInv, Bound
  <2> QED
    BY <2>1, <2>2 DEF KeptInv, LinkInv, Bound
<1>4. FreshInv'
  <2>1. \A g \in Helpers : Fresh(g)' => Fresh(g)
    BY <1>1 DEF Fresh, Early
  <2>2. ASSUME NEW g \in Helpers
        PROVE  /\ helper'[g].pc \in {"prepared", "waiting", "apply", "begin"} =>
                    helper'[g].mode = "prepare"
               /\ helper'[g].pc \in {"hello", "gate"} =>
                    helper'[g].heard # "authorized" /\ helper'[g].report = "none"
               /\ Fresh(g)' /\ helper'[g].pc \in Early /\ helper'[g].heard = "nothing" =>
                    /\ helper'[g].parent \in Apps
                    /\ app[helper'[g].parent].pc = "preparing"
                    /\ app[helper'[g].parent].helper = g
    <3>1. CASE g = h
      BY <2>1, <3>1 DEF KeptInv, FreshInv, Early
    <3>2. CASE g # h
      BY <2>1, <3>2 DEF KeptInv, FreshInv
    <3> QED
      BY <3>1, <3>2
  <2>3. ASSUME NEW g \in Helpers, Fresh(g)'
        PROVE  /\ helper'[g].txn \in staged /\ journal[helper'[g].txn] = "none"
               /\ \A f \in Helpers : helper'[f].pc # "off" /\ helper'[f].txn = helper'[g].txn
                                     => f = g
    BY <1>1, <2>1, <2>3 DEF KeptInv, FreshInv
  <2> QED
    BY <2>2, <2>3 DEF FreshInv
<1>5. LateInv'
  BY DEF KeptInv, LateInv, Late
<1>6. SweepInv' /\ MixedInv'
  BY DEF KeptInv, SweepInv, MixedInv
<1> QED
  BY <1>2, <1>3, <1>4, <1>5, <1>6 DEF KeptInv

\* The steps of a session.
LEMMA SessionKeeps ==
  ASSUME Inv, Inv', Typed, KeptInv, NEW h \in Helpers, Session(h)
  PROVE  KeptInv'
<1> USE ProcessesAssumption
<1>1. ASSUME NEW rep, Ends(h, rep), UNCHANGED <<files, used>>
      PROVE  KeptInv'
  BY <1>1, GoneKeeps DEF Ends, files, used
<1>2. CASE Hello(h)
  <2>1. CASE Free("transaction")
    <3>1. /\ helper[h].pc = "hello"
          /\ UNCHANGED <<app, staged, journal, source, installed, next>>
          /\ helper' = [helper EXCEPT ![h].pc = "gate"]
          /\ \A a \in Apps, k \in Kinds : lease[k] = a => lease'[k] = a
      BY <1>2, <2>1 DEF Hello, Goto, Take, Free, files, used, Kinds, Inv, Shapes
    <3>2. /\ \A g \in Helpers \ {h} : helper'[g] = helper[g]
          /\ helper'[h].txn = helper[h].txn /\ helper'[h].mode = helper[h].mode
          /\ helper'[h].parent = helper[h].parent
          /\ helper'[h].pc = "gate"
          /\ helper'[h].heard = helper[h].heard /\ helper'[h].report = helper[h].report
      BY <3>1 DEF Inv, Shapes, HelperFields
    <3> QED
      BY <3>1, <3>2, HearKeeps DEF Early
  <2> QED
    BY <1>1, <1>2, <2>1 DEF Hello, Refuse
<1>3. CASE HelperGate(h)
  <2>1. CASE Free("startup") /\ Take("startup", h)
             /\ helper' = [helper EXCEPT ![h] =
                   [@ EXCEPT !.report = "prepared",
                             !.pc = IF helper[h].mode = "prepare" THEN "prepared"
                                    ELSE "recover"]]
    <3>1. /\ helper[h].pc = "gate" /\ UNCHANGED <<staged, journal, source, installed, next>>
          /\ \A a \in Apps, k \in Kinds : lease[k] = a => lease'[k] = a
      BY <1>3, <2>1 DEF HelperGate, Take, Free, files, used, Kinds, Inv, Shapes
    <3>2. /\ \A g \in Helpers \ {h} : helper'[g] = helper[g]
          /\ helper'[h].txn = helper[h].txn /\ helper'[h].mode = helper[h].mode
          /\ helper'[h].parent = helper[h].parent
          /\ helper'[h].pc = IF helper[h].mode = "prepare" THEN "prepared" ELSE "recover"
          /\ helper'[h].heard = helper[h].heard
      BY <2>1, <3>1 DEF Inv, Shapes, HelperFields
    <3>3. app' = app
      BY <1>3 DEF HelperGate, Refuse, Ends
    <3> QED
      BY <3>1, <3>2, <3>3, HearKeeps DEF Early
  <2> QED
    BY <1>1, <1>3, <2>1 DEF HelperGate, Refuse
<1>4. CASE Heard(h)
  <2>1. CASE helper[h].heard = "authorized"
             /\ helper' = [helper EXCEPT ![h] = [@ EXCEPT !.pc = "waiting", !.heard = "nothing"]]
             /\ UNCHANGED <<app, leases>>
    <3>1. /\ helper[h].pc = "prepared"
          /\ UNCHANGED <<app, lease, staged, journal, source, installed, next>>
      BY <1>4, <2>1 DEF Heard, leases, files, used
    <3>2. /\ \A g \in Helpers \ {h} : helper'[g] = helper[g]
          /\ helper'[h].txn = helper[h].txn /\ helper'[h].mode = helper[h].mode
          /\ helper'[h].parent = helper[h].parent /\ helper'[h].pc = "waiting"
      BY <2>1 DEF Inv, Shapes, HelperFields
    <3> QED
      BY <2>1, <3>1, <3>2, HearKeeps DEF Early
  <2> QED
    BY <1>1, <1>4, <2>1 DEF Heard
<1>5. CASE ParentExited(h)
  <2>1. /\ helper[h].pc = "waiting"
        /\ UNCHANGED <<app, staged, journal, source, installed, next>>
        /\ helper' = [helper EXCEPT ![h].pc = "apply"]
        /\ \A a \in Apps, k \in Kinds : lease[k] = a => lease'[k] = a
    BY <1>5 DEF ParentExited, NobodyRuns, Goto, Take, Free, files, used, Kinds, Inv, Shapes
  <2>2. /\ \A g \in Helpers \ {h} : helper'[g] = helper[g]
        /\ helper'[h].txn = helper[h].txn /\ helper'[h].mode = helper[h].mode
        /\ helper'[h].pc = "apply"
    BY <2>1 DEF Inv, Shapes, HelperFields
  <2>3. MixedInv' /\ helper[h].txn \in Txns
        /\ (journal[helper[h].txn] # "none" => helper[h].txn \in staged)
    BY <2>1 DEF KeptInv, MixedInv, NumberInv, Inv, Shapes
  <2> QED
    BY <2>1, <2>2, <2>3, WorkKeeps DEF Gated, Late
<1>6. CASE ParentStillRunning(h) \/ Left(h)
  BY <1>1, <1>6 DEF ParentStillRunning, Left
<1> QED
  BY <1>2, <1>3, <1>4, <1>5, <1>6, SessionEndsKeeps DEF Session


\* The receipts that go are of transactions nobody works on
\* (retire_prior_receipts).
LEMMA RetirePriorReceiptsKeeps ==
  ASSUME Inv, Typed, KeptInv, NEW h \in Helpers, RetirePriorReceipts(h)
  PROVE  KeptInv'
<1> USE ProcessesAssumption
<1>1. /\ helper[h].pc = "apply" /\ helper' = [helper EXCEPT ![h].pc = "begin"]
      /\ \A t \in Txns : journal'[t] = IF t \in Receipts THEN "none" ELSE journal[t]
      /\ staged' = staged \ Receipts
      /\ UNCHANGED <<app, lease, source, installed, next>>
  BY DEF RetirePriorReceipts, Goto, leases, used
<1>2. /\ \A g \in Helpers \ {h} : helper'[g] = helper[g]
      /\ helper'[h].pc = "begin"
      /\ \A g \in Helpers : /\ helper'[g].pc # "off" => helper[g].pc # "off"
                            /\ helper'[g].txn = helper[g].txn
                            /\ helper'[g].mode = helper[g].mode
                            /\ helper'[g].heard = helper[g].heard
                            /\ helper'[g].report = helper[g].report
                            /\ helper'[g].parent = helper[g].parent
  BY <1>1 DEF Inv, Shapes, HelperFields
<1>3. \A t \in Txns :
        /\ journal[t] = "none" => journal'[t] = "none" /\ (t \in staged => t \in staged')
        /\ journal'[t] # "none" =>
             journal[t] # "none" /\ (t \in staged => t \in staged')
  BY <1>1 DEF Receipts
<1>4. NumberInv'
  BY <1>1, <1>2, <1>3 DEF KeptInv, NumberInv
<1>5. LinkInv'
  <2>1. \A a \in Apps : app[a].pc \in Linked => journal'[app[a].txn] = "none"
    BY <1>3 DEF KeptInv, LinkInv, Bound
  <2>2. \A g \in Helpers : helper[g].pc \in Early => g # h
    BY <1>1 DEF Early
  <2>3. ASSUME NEW a \in Apps, app[a].pc \in Linked, NEW g \in Helpers
        PROVE  Bound(a, g)'
    <3>1. Bound(a, g)
      BY <2>3 DEF KeptInv, LinkInv
    <3>2. g = h => app[a].helper # g /\ app[a].txn # helper[g].txn
      BY <1>1, <3>1 DEF Bound, Early
    <3> QED
      BY <1>1, <1>2, <3>1, <3>2 DEF Bound
  <2> QED
    BY <1>1, <2>1, <2>3 DEF KeptInv, LinkInv, Bound
<1>6. FreshInv'
  <2>1. \A g \in Helpers : Fresh(g)' => Fresh(g) /\ helper[g].pc # "off"
    BY <1>1, <1>2 DEF Fresh, Early, KeptInv, FreshInv
  <2>2. ASSUME NEW g \in Helpers, Fresh(g)'
        PROVE  /\ helper'[g].txn \in staged' /\ journal'[helper'[g].txn] = "none"
               /\ \A f \in Helpers : helper'[f].pc # "off" /\ helper'[f].txn = helper'[g].txn
                                     => f = g
    <3>1. helper[g].txn \in Txns
      BY <2>1, <2>2 DEF Inv, Shapes
    <3> QED
      BY <1>2, <1>3, <2>1, <2>2, <3>1 DEF KeptInv, FreshInv
  <2>3. ASSUME NEW g \in Helpers
        PROVE  /\ helper'[g].pc \in {"prepared", "waiting", "apply", "begin"} =>
                    helper'[g].mode = "prepare"
               /\ helper'[g].pc \in {"hello", "gate"} =>
                    helper'[g].heard # "authorized" /\ helper'[g].report = "none"
    BY <1>1, <1>2 DEF KeptInv, FreshInv
  <2>4. ASSUME NEW g \in Helpers, Fresh(g)', helper'[g].pc \in Early,
               helper'[g].heard = "nothing"
        PROVE  /\ helper'[g].parent \in Apps
               /\ app[helper'[g].parent].pc = "preparing"
               /\ app[helper'[g].parent].helper = g
    BY <1>2, <2>1, <2>4 DEF KeptInv, FreshInv, Early
  <2> QED
    BY <1>1, <2>2, <2>3, <2>4 DEF FreshInv
<1>7. LateInv'
  <2>1. \A g \in Helpers \ {h} : helper[g].pc \notin Late
    <3>1. lease["transaction"] = h
      BY <1>1 DEF Inv, HoldInv, Gated
    <3> QED
      BY <3>1 DEF Inv, HoldInv, Late, Gated
  <2> QED
    BY <1>2, <2>1 DEF LateInv, Late
<1>8. SweepInv' /\ MixedInv'
  <2>1. installed # Mixed
    BY DEF RetirePriorReceipts, Settled, Stops, Pending, Live, KeptInv, MixedInv
  <2> QED
    BY <1>1, <2>1 DEF KeptInv, SweepInv, MixedInv
<1> QED
  BY <1>4, <1>5, <1>6, <1>7, <1>8 DEF KeptInv

\* Until the journal says that the files change they are a version; the version
\* a rollback restores is one, too.
LEMMA MixedKeeps ==
  ASSUME Inv, Typed, KeptInv, NEW h \in Helpers, helper[h].pc # "off",
         \A t \in Txns \ {helper[h].txn} : journal'[t] = journal[t],
         \/ installed' = installed /\ journal'[helper[h].txn] = journal[helper[h].txn]
         \/ installed' \in Versions
         \/ journal'[helper[h].txn] \in {"applying", "rolling_back", "required"}
         \/ /\ installed' = installed
            /\ journal[helper[h].txn] \notin {"applying", "rolling_back", "required"}
  PROVE  MixedInv'
<1>1. helper[h].txn \in Txns /\ Mixed \notin Versions
  BY DEF Inv, Shapes, Mixed, Versions
<1> QED
  BY <1>1 DEF KeptInv, MixedInv

\* The steps that apply an update.
LEMMA ApplyKeeps ==
  ASSUME Inv, Inv', Typed, KeptInv, NEW h \in Helpers, Apply(h)
  PROVE  KeptInv'
<1> USE ProcessesAssumption
<1> DEFINE t == helper[h].txn
<1>1. ASSUME NEW p \in {"end", "replacing", "await", "undo"}, Goto(h, p), helper[h].pc # "off"
      PROVE  /\ \A g \in Helpers \ {h} : helper'[g] = helper[g]
             /\ helper'[h].txn = helper[h].txn /\ helper'[h].mode = helper[h].mode
             /\ helper'[h].pc = p
  BY <1>1 DEF Goto, Inv, Shapes, HelperFields
<1>2. /\ helper[h].pc # "off" /\ t \in Txns /\ t \in Versions
      /\ helper[h].pc \in {"begin", "unstarted", "start", "replace", "replacing", "await"} =>
           t \in staged
      /\ helper[h].pc \in {"apply", "begin"} => journal[t] = "none"
  <2>1. helper[h].pc # "off"
    BY DEF Apply, RefuseApply, RetirePriorReceipts, Begin, Unstarted, StartApplying,
         ReplaceFiles, FilesReplaced, AwaitHealth
  <2>2. helper[h].pc \in {"apply", "begin"} => Fresh(h)
    BY DEF KeptInv, FreshInv, Fresh
  <2> QED
    BY <2>1, <2>2 DEF Inv, Shapes, KeptInv, FreshInv, LateInv, Late, Txns, Versions
<1>3. CASE RefuseApply(h) \/ Unstarted(h)
  <2>1. /\ helper[h].pc \in {"apply", "unstarted"} /\ Goto(h, "end")
        /\ staged' = IF journal[t] = "none" THEN staged \ {t} ELSE staged
        /\ UNCHANGED <<app, lease, journal, source, installed, next>>
    BY <1>3 DEF RefuseApply, Unstarted, DiscardUnstarted, leases, used
  <2>2. MixedInv' /\ (journal[t] # "none" => t \in staged)
    BY <1>2, <2>1, MixedKeeps DEF KeptInv, NumberInv
  <2>3. /\ \A g \in Helpers \ {h} : helper'[g] = helper[g]
        /\ helper'[h].txn = helper[h].txn /\ helper'[h].mode = helper[h].mode
        /\ helper'[h].pc = "end"
    BY <1>1, <1>2, <2>1
  <2> HIDE DEF t
  <2> QED
    BY <2>1, <2>2, <2>3, WorkKeeps DEF Gated, Late, t
<1>4. CASE RetirePriorReceipts(h)
  BY <1>4, RetirePriorReceiptsKeeps
<1>5. CASE Begin(h)
  <2>1. helper[h].pc = "begin" /\ Store(h, "prepared", "start", "unstarted") /\ OnlyJournal
    BY <1>5 DEF Begin
  <2>2. MixedInv'
    <3>1. /\ \A u \in Txns \ {t} : journal'[u] = journal[u]
          /\ installed' = installed
      BY <2>1 DEF Store, OnlyJournal, Typed, JournalType
    <3> QED
      BY <1>2, <2>1, <3>1, MixedKeeps
  <2> QED
    BY <1>2, <2>1, <2>2, StoreKeeps DEF Late
<1>6. CASE StartApplying(h)
  <2>1. helper[h].pc = "start" /\ Store(h, "applying", "replace", "undo") /\ OnlyJournal
    BY <1>6 DEF StartApplying
  <2>2. MixedInv'
    <3>1. /\ \A u \in Txns \ {t} : journal'[u] = journal[u]
          /\ installed' = installed /\ journal[t] = "prepared"
      BY <2>1 DEF Store, OnlyJournal, Typed, JournalType, Inv, RecordInv, Agrees
    <3> QED
      BY <1>2, <3>1, MixedKeeps
  <2> QED
    BY <1>2, <2>1, <2>2, StoreKeeps DEF Late
<1>7. CASE ReplaceFiles(h) \/ FilesReplaced(h)
  <2>1. /\ helper[h].pc \in {"replace", "replacing"} /\ journal[t] = "applying"
        /\ \E p \in {"replacing", "await", "undo"} : Goto(h, p)
        /\ UNCHANGED <<app, lease, staged, journal, source, next>>
    BY <1>7 DEF ReplaceFiles, FilesReplaced, leases, used, Inv, RecordInv, Agrees
  <2>2. MixedInv'
    BY <1>2, <2>1, MixedKeeps
  <2>3. /\ \A g \in Helpers \ {h} : helper'[g] = helper[g]
        /\ helper'[h].txn = helper[h].txn /\ helper'[h].mode = helper[h].mode
        /\ helper'[h].pc \in {"replacing", "await", "undo"}
    BY <1>1, <1>2, <2>1
  <2> QED
    BY <1>2, <2>1, <2>2, <2>3, WorkKeeps DEF Gated, Late
<1>8. CASE AwaitHealth(h)
  <2>1. helper[h].pc = "await" /\ Store(h, "awaiting", "launch", "undo") /\ OnlyJournal
    BY <1>8 DEF AwaitHealth
  <2>2. MixedInv'
    <3>1. /\ \A u \in Txns \ {t} : journal'[u] = journal[u]
          /\ installed' = t
      BY <2>1 DEF Store, OnlyJournal, Typed, JournalType, Inv, RecordInv, Agrees
    <3> QED
      BY <1>2, <3>1, MixedKeeps
  <2> QED
    BY <1>2, <2>1, <2>2, StoreKeeps DEF Late
<1> QED
  BY <1>3, <1>4, <1>5, <1>6, <1>7, <1>8 DEF Apply


\* A child is a process that was not there (ProcessLauncher::launch).
LEMMA LaunchChildKeeps ==
  ASSUME Inv, Typed, KeptInv, NEW h \in Helpers, LaunchChild(h)
  PROVE  KeptInv'
<1> USE ProcessesAssumption
<1>1. /\ helper[h].pc = "launch" /\ lease' = Released(h, {"runtime"})
      /\ UNCHANGED <<staged, journal, source, installed, next>>
      /\ helper[h].txn \in staged /\ MixedInv'
      /\ journal[helper[h].txn] # "none"
  BY DEF LaunchChild, used, KeptInv, LateInv, Late, MixedInv, Inv, RecordInv, Agrees, Live
<1>2. \A a \in Apps, k \in Kinds : lease[k] = a => lease'[k] = a
  BY <1>1 DEF Released
<1>3. CASE helper' = [helper EXCEPT ![h] = [@ EXCEPT !.pc = "stop", !.launched = TRUE]] /\ app' = app
  <2>1. /\ \A g \in Helpers \ {h} : helper'[g] = helper[g]
        /\ helper'[h].txn = helper[h].txn /\ helper'[h].mode = helper[h].mode
        /\ helper'[h].pc = "stop"
    BY <1>3 DEF Inv, Shapes, HelperFields
  <2> QED
    BY <1>1, <1>2, <1>3, <2>1, WorkKeeps DEF Gated, Late
<1>4. ASSUME NEW a \in Apps, app[a].pc = "off",
             app' = [app EXCEPT ![a] = [Off EXCEPT !.pc = "entry", !.image = installed,
                                                   !.txn = helper[h].txn]],
             helper' = [helper EXCEPT ![h] = [@ EXCEPT !.pc = "health", !.child = a,
                                      !.launched = TRUE]]
      PROVE  KeptInv'
  <2>1. /\ \A g \in Helpers \ {h} : helper'[g] = helper[g]
        /\ helper'[h].txn = helper[h].txn /\ helper'[h].mode = helper[h].mode
        /\ helper'[h].pc = "health"
    BY <1>4 DEF Inv, Shapes, HelperFields
  <2>2. /\ \A b \in Apps \ {a} : app'[b] = app[b]
        /\ app'[a].pc = "entry" /\ app'[a].helper = None
    BY <1>4 DEF Inv, Shapes, Off
  <2>3. app[a].helper = None
    BY <1>4 DEF KeptInv, LinkInv, Bound, Linked
  <2>4. \A g \in Helpers : /\ helper'[g].pc # "off" => helper[g].pc # "off"
                           /\ helper'[g].txn = helper[g].txn
    BY <1>1, <2>1
  <2>5. NumberInv' /\ SweepInv'
    BY <1>1, <1>2, <2>2, <2>4 DEF KeptInv, NumberInv, SweepInv
  <2>6. LinkInv'
    <3>1. \A b \in Apps : app'[b].pc \in Linked \cup {"recovering"} \/ app'[b].helper # None
                           => b # a /\ app'[b] = app[b]
      BY <2>2 DEF Linked
    <3>2. \A b \in Apps :
            app[b].pc \in Linked => app[b].helper # h /\ app[b].txn # helper[h].txn
      BY <1>1 DEF KeptInv, LinkInv, Bound
    <3>3. ASSUME NEW b \in Apps, app'[b].pc \in Linked, NEW g \in Helpers
          PROVE  Bound(b, g)'
      BY <2>1, <3>1, <3>2, <3>3 DEF KeptInv, LinkInv, Bound
    <3> QED
      BY <1>1, <3>1, <3>3 DEF KeptInv, LinkInv, Bound, Linked
  <2>7. FreshInv'
    <3>1. \A g \in Helpers : Fresh(g)' => g # h /\ Fresh(g)
      BY <2>1 DEF Fresh, Early
    <3>2. \A b \in Apps : app[b].pc = "preparing" => app'[b] = app[b]
      BY <1>4, <2>2
    <3>3. ASSUME NEW g \in Helpers, g # h
          PROVE  /\ helper'[g] = helper[g]
                 /\ Fresh(g) /\ helper[g].pc \in Early /\ helper[g].heard = "nothing" =>
                      /\ helper[g].parent \in Apps
                      /\ app'[helper[g].parent].pc = "preparing"
                      /\ app'[helper[g].parent].helper = g
      BY <2>1, <3>2, <3>3 DEF KeptInv, FreshInv
    <3> QED
      BY <1>1, <2>1, <2>4, <3>1, <3>3 DEF KeptInv, FreshInv
  <2>8. LateInv'
    BY <1>1, <2>1 DEF KeptInv, LateInv, Late
  <2> QED
    BY <1>1, <2>5, <2>6, <2>7, <2>8 DEF KeptInv
<1> QED
  BY <1>3, <1>4 DEF LaunchChild

\* What a helper tells its child changes neither the child's place nor its
\* links.
LEMMA TellKeepsLinks ==
  ASSUME Inv, NEW h \in Helpers, NEW what, app' = Tell(h, what)
  PROVE  \A a \in Apps : /\ app'[a].pc = app[a].pc /\ app'[a].txn = app[a].txn
                         /\ app'[a].helper = app[a].helper
BY DEF Tell, Inv, Shapes, AppFields

\* The steps of a child's health.
LEMMA HealthKeeps ==
  ASSUME Inv, Inv', Typed, KeptInv, NEW h \in Helpers, Health(h)
  PROVE  KeptInv'
<1> USE ProcessesAssumption
<1> DEFINE t == helper[h].txn
<1>1. CASE LaunchChild(h)
  BY <1>1, LaunchChildKeeps
<1>2. CASE Commit(h)
  <2>1. helper[h].pc = "commit" /\ Store(h, "committed", "notify", "stop") /\ OnlyJournal
    BY <1>2 DEF Commit
  <2>2. /\ \A u \in Txns \ {t} : journal'[u] = journal[u]
        /\ installed' = installed /\ journal[t] = "awaiting" /\ t \in staged
    <3>1. journal[t] = "awaiting" /\ t \in staged
      BY <2>1 DEF Inv, RecordInv, Agrees, KeptInv, LateInv, Late
    <3>2. installed' = installed /\ \A u \in Txns \ {t} : journal'[u] = journal[u]
      BY <2>1 DEF Store, OnlyJournal, Typed, JournalType
    <3> QED
      BY <3>1, <3>2
  <2>3. MixedInv'
    BY <2>1, <2>2, MixedKeeps
  <2> QED
    BY <2>1, <2>2, <2>3, StoreKeeps DEF Late
<1>3. CASE ChildStopped(h)
  BY <1>3, ChildStoppedKeeps
<1>4. ASSUME NEW p \in Late \cup {"end"}, p # "restored",
             helper[h].pc \in Late,
             /\ \A g \in Helpers \ {h} : helper'[g] = helper[g]
             /\ helper'[h].txn = helper[h].txn /\ helper'[h].mode = helper[h].mode
             /\ helper'[h].pc = p,
             \A a \in Apps : /\ app'[a].pc = app[a].pc /\ app'[a].txn = app[a].txn
                             /\ app'[a].helper = app[a].helper,
             \A a \in Apps, k \in Kinds : lease[k] = a => lease'[k] = a,
             UNCHANGED <<staged, journal, source, installed, next>>
      PROVE  KeptInv'
  <2>1. t \in staged /\ MixedInv' /\ helper[h].pc \in Gated \ {"prepared"}
    BY <1>4 DEF KeptInv, LateInv, MixedInv, Late, Gated
  <2>2. p # "apply"
    BY <1>4 DEF Late
  <2> QED
    BY <1>4, <2>1, <2>2, WorkKeeps
<1>5. CASE AwaitHealthy(h)
  <2>1. /\ helper[h].pc = "health"
        /\ \/ helper' = [helper EXCEPT ![h] = [@ EXCEPT !.pc = "commit", !.healthy = FALSE]]
           \/ helper' = [helper EXCEPT ![h].pc = "stop"]
        /\ UNCHANGED <<app, lease, staged, journal, source, installed, next>>
    BY <1>5 DEF AwaitHealthy, Goto, leases, files, used
  <2>2. \E p \in {"commit", "stop"} :
             /\ \A g \in Helpers \ {h} : helper'[g] = helper[g]
             /\ helper'[h].txn = helper[h].txn /\ helper'[h].mode = helper[h].mode
             /\ helper'[h].pc = p
    <3>1. CASE helper' = [helper EXCEPT ![h] = [@ EXCEPT !.pc = "commit",
                                                !.healthy = FALSE]]
      BY <3>1 DEF Inv, Shapes, HelperFields
    <3>2. CASE helper' = [helper EXCEPT ![h].pc = "stop"]
      BY <3>2 DEF Inv, Shapes, HelperFields
    <3> QED
      BY <2>1, <3>1, <3>2
  <2> QED
    BY <1>4, <2>1, <2>2 DEF Late
<1>6. CASE SendCommit(h)
  <2>1. /\ helper[h].pc = "notify" /\ \E what : app' = Tell(h, what)
        /\ helper' = [helper EXCEPT ![h] = [@ EXCEPT !.pc = "end", !.child = None]]
        /\ UNCHANGED <<lease, staged, journal, source, installed, next>>
    BY <1>6 DEF SendCommit, leases, files, used
  <2>2. /\ \A g \in Helpers \ {h} : helper'[g] = helper[g]
        /\ helper'[h].txn = helper[h].txn /\ helper'[h].mode = helper[h].mode
        /\ helper'[h].pc = "end"
    BY <2>1 DEF Inv, Shapes, HelperFields
  <2> QED
    BY <1>4, <2>1, <2>2, TellKeepsLinks DEF Late
<1>7. ASSUME NEW p \in {"stopping", "require", "undo"}, Goto(h, p), helper[h].pc \in Late,
             \A a \in Apps : /\ app'[a].pc = app[a].pc /\ app'[a].txn = app[a].txn
                             /\ app'[a].helper = app[a].helper,
             \A a \in Apps, k \in Kinds : lease[k] = a => lease'[k] = a,
             UNCHANGED <<staged, journal, source, installed, next>>
      PROVE  KeptInv'
  <2>1. /\ \A g \in Helpers \ {h} : helper'[g] = helper[g]
        /\ helper'[h].txn = helper[h].txn /\ helper'[h].mode = helper[h].mode
        /\ helper'[h].pc = p
    BY <1>7 DEF Goto, Inv, Shapes, HelperFields
  <2>2. p \in Late /\ p # "restored"
    BY <1>7 DEF Late
  <2> QED
    BY <1>4, <1>7, <2>1, <2>2
<1>8. CASE Stop(h)
  <2>1. /\ helper[h].pc = "stop" /\ app' = Tell(h, "closed") /\ Goto(h, "stopping")
        /\ UNCHANGED <<lease, staged, journal, source, installed, next>>
    BY <1>8 DEF Stop, leases, files, used
  <2> QED
    BY <1>7, <2>1, TellKeepsLinks DEF Late
<1>9. CASE StopFailed(h)
  BY <1>7, <1>9 DEF StopFailed, leases, files, Late
<1>10. CASE Reacquire(h)
  <2>1. /\ helper[h].pc = "reacquire" /\ \E p \in {"undo", "require"} : Goto(h, p)
        /\ UNCHANGED <<app, staged, journal, source, installed, next>>
    BY <1>10 DEF Reacquire, files, used
  <2>2. \A a \in Apps, k \in Kinds : lease[k] = a => lease'[k] = a
    BY <1>10 DEF Reacquire, NobodyRuns, Free, Take, Kinds, Inv, Shapes
  <2> QED
    BY <1>7, <2>1, <2>2 DEF Late
<1> QED
  BY <1>1, <1>2, <1>3, <1>5, <1>6, <1>8, <1>9, <1>10 DEF Health

\* The steps of a recovery and of a rollback.
LEMMA RollbackKeeps ==
  ASSUME Inv, Inv', Typed, KeptInv, NEW h \in Helpers, Rollback(h)
  PROVE  KeptInv'
<1> USE ProcessesAssumption
<1> DEFINE t == helper[h].txn
<1>1. /\ helper[h].pc # "off" /\ helper[h].pc # "recover" => t \in staged
      /\ source[t] \in Versions /\ t \in Txns
      /\ journal[t] # "none" => t \in staged
  <2>1. helper[h].pc \in {"recover", "undo", "restore", "restoring", "restored", "require"}
    BY DEF Rollback, Recover, Undo, RestoreFiles, FilesRestored, RolledBack, Require
  <2> QED
    BY <2>1 DEF KeptInv, LateInv, Late, NumberInv, Typed, JournalType, Inv, Shapes
<1>2. ASSUME NEW p \in {"undo", "end", "restore", "restoring", "restored", "require"},
             Goto(h, p), helper[h].pc \in Gated \ {"prepared"},
             p # "end" => t \in staged,
             p = "restored" => installed' = source[t],
             MixedInv',
             \A a \in Apps, k \in Kinds : lease[k] = a => lease'[k] = a,
             UNCHANGED <<app, staged, journal, source, next>>
      PROVE  KeptInv'
  <2>1. /\ \A g \in Helpers \ {h} : helper'[g] = helper[g]
        /\ helper'[h].txn = helper[h].txn /\ helper'[h].mode = helper[h].mode
        /\ helper'[h].pc = p
    BY <1>2 DEF Goto, Inv, Shapes, HelperFields
  <2>2. p \in Late \cup {"apply", "end"} /\ p # "apply" /\ (p \in Late => p # "end")
    BY <1>2 DEF Late
  <2> QED
    BY <1>1, <1>2, <2>1, <2>2, WorkKeeps
<1>3. CASE Recover(h)
  <2>1. CASE NobodyRuns
    <3>1. /\ helper[h].pc = "recover" /\ Take("runtime", h)
          /\ Goto(h, IF journal[t] \in Live THEN "undo" ELSE "end")
          /\ UNCHANGED <<app, staged, journal, source, installed, next>>
      BY <1>3, <2>1 DEF Recover, files, used
    <3>2. \A a \in Apps, k \in Kinds : lease[k] = a => lease'[k] = a
      BY <2>1, <3>1 DEF NobodyRuns, Free, Take, Kinds, Inv, Shapes
    <3>3. MixedInv' /\ (journal[t] \in Live => t \in staged)
      BY <1>1, <3>1 DEF KeptInv, MixedInv, Live
    <3> QED
      BY <1>2, <3>1, <3>2, <3>3 DEF Gated
  <2>2. CASE Ends(h, "blocked") /\ UNCHANGED <<files, used>>
    BY <2>2, GoneKeeps DEF Ends, files, used
  <2> QED
    BY <1>3, <2>1, <2>2 DEF Recover
<1>4. CASE Undo(h)
  <2>1. helper[h].pc = "undo" /\ OnlyJournal /\ t \in staged
    BY <1>1, <1>4 DEF Undo
  <2>2. /\ \A u \in Txns \ {t} : journal'[u] = journal[u]
        /\ installed' = installed
    BY <1>4 DEF Undo, Store, OnlyJournal, Typed, JournalType
  <2>3. MixedInv'
    <3>1. \/ journal'[t] = journal[t]
          \/ journal[t] = "prepared"
          \/ journal'[t] = "rolling_back"
      BY <1>1, <1>4 DEF Undo, Store, Typed, JournalType
    <3> QED
      BY <2>1, <2>2, <3>1, MixedKeeps
  <2>4. CASE Goto(h, "restore") /\ UNCHANGED journal
    <3>1. UNCHANGED <<app, lease, staged, source, next>>
      BY <2>1 DEF OnlyJournal, leases
    <3> QED
      BY <1>2, <2>1, <2>3, <2>4, <3>1 DEF Gated
  <2>5. CASE \/ Store(h, "rolled_back", "end", "end")
             \/ Store(h, "rolling_back", "restore", "end")
    BY <2>1, <2>3, <2>5, StoreKeeps DEF Late
  <2> QED
    BY <1>4, <2>4, <2>5 DEF Undo
<1>5. CASE RestoreFiles(h)
  <2>1. /\ helper[h].pc = "restore" /\ Goto(h, "restoring") /\ t \in staged
        /\ journal[t] = "rolling_back"
        /\ UNCHANGED <<app, lease, staged, journal, source, next>>
    BY <1>1, <1>5 DEF RestoreFiles, leases, used, Inv, RecordInv, Agrees
  <2>2. MixedInv'
    BY <2>1, MixedKeeps
  <2> QED
    BY <1>2, <2>1, <2>2 DEF Gated
<1>6. CASE FilesRestored(h)
  <2>1. /\ helper[h].pc = "restoring" /\ t \in staged
        /\ \/ Goto(h, "restored") /\ installed' = source[t]
           \/ Goto(h, "require")
        /\ journal[t] = "rolling_back"
        /\ UNCHANGED <<app, lease, staged, journal, source, next>>
    BY <1>1, <1>6 DEF FilesRestored, leases, Inv, RecordInv, Agrees
  <2>2. MixedInv'
    BY <2>1, MixedKeeps
  <2> QED
    BY <1>2, <2>1, <2>2 DEF Gated
<1>7. CASE RolledBack(h)
  <2>1. helper[h].pc = "restored" /\ Store(h, "rolled_back", "end", "end") /\ OnlyJournal
        /\ t \in staged
    BY <1>1, <1>7 DEF RolledBack
  <2>2. /\ \A u \in Txns \ {t} : journal'[u] = journal[u]
        /\ installed' \in Versions
    BY <1>1, <2>1 DEF Store, OnlyJournal, Typed, JournalType, KeptInv, LateInv
  <2>3. MixedInv'
    BY <2>1, <2>2, MixedKeeps
  <2> QED
    BY <2>1, <2>3, StoreKeeps DEF Late
<1>8. CASE Require(h)
  <2>1. helper[h].pc = "require" /\ Store(h, "required", "end", "end") /\ OnlyJournal
        /\ t \in staged
    BY <1>1, <1>8 DEF Require
  <2>2. /\ \A u \in Txns \ {t} : journal'[u] = journal[u]
        /\ installed' = installed
        /\ journal'[t] \in {journal[t], "required"}
    BY <1>1, <2>1 DEF Store, OnlyJournal, Typed, JournalType
  <2>3. MixedInv'
    BY <2>1, <2>2, MixedKeeps
  <2> QED
    BY <2>1, <2>3, StoreKeeps DEF Late
<1> QED
  BY <1>3, <1>4, <1>5, <1>6, <1>7, <1>8 DEF Rollback

\* A helper that dies leaves its child, and what it was given, alone.
LEMMA HelperDiesKeeps ==
  ASSUME Inv, Typed, KeptInv, NEW h \in Helpers, HelperDies(h)
  PROVE  KeptInv'
<1>1. /\ app' = Tell(h, "closed")
      /\ helper' = [helper EXCEPT ![h] = Gone(h, helper[h].report)]
      /\ lease' = Released(h, Kinds)
      /\ UNCHANGED <<staged, journal, source, installed, next>>
  BY DEF HelperDies, files
<1> QED
  BY <1>1, TellKeepsLinks, GoneKeeps


-----------------------------------------------------------------------------
(* The records a start reads. *)

\* At the start nothing is staged and no journal exists.
LEMMA InitKept == Init => Typed /\ KeptInv
<1> SUFFICES ASSUME Init
             PROVE  Typed /\ KeptInv
  OBVIOUS
<1> USE ProcessesAssumption, BoundsAssumption
<1>1. /\ \A a \in Apps : app[a] = Off
      /\ \A h \in Helpers : helper[h] = Idle
      /\ Off \in AppRecord /\ Idle \in HelperRecord
      /\ 0 \in Versions /\ 0 # Mixed
  BY OffType DEF Init, Versions, Mixed
<1>2. Typed
  BY <1>1 DEF Init, Typed, AppType, HelperType, LeaseType, SharedType, JournalType,
     StagedType, CountType, Free, Kinds
<1>3. KeptInv
  BY <1>1 DEF Init, Off, Idle, KeptInv, NumberInv, LinkInv, FreshInv, Fresh, LateInv, Late,
     SweepInv, MixedInv, Linked, Early
<1> QED
  BY <1>2, <1>3

\* Every step keeps what is staged and by whom.
LEMMA StepKept == Inv /\ Typed /\ KeptInv /\ [Next]_vars => Inv' /\ Typed' /\ KeptInv'
<1> SUFFICES ASSUME Inv, Typed, KeptInv, [Next]_vars
             PROVE  Inv' /\ Typed' /\ KeptInv'
  OBVIOUS
<1>1. Inv' /\ Typed'
  BY StepOK, TypesKept
<1>2. ASSUME NEW h \in Helpers, Helping(h)
      PROVE  KeptInv'
  BY <1>1, <1>2, SessionKeeps, ApplyKeeps, HealthKeeps, RollbackKeeps DEF Helping
<1>3. CASE UNCHANGED vars
  <2>1. NumberInv' /\ LinkInv' /\ SweepInv' /\ MixedInv'
    BY <1>3 DEF vars, KeptInv, NumberInv, LinkInv, Bound, SweepInv, MixedInv
  <2>2. FreshInv' /\ LateInv'
    BY <1>3 DEF vars, KeptInv, FreshInv, Fresh, LateInv
  <2> QED
    BY <1>1, <2>1, <2>2 DEF KeptInv
<1> QED
  BY <1>1, <1>2, <1>3, StartingKeeps, RestartingKeeps, HelperDiesKeeps DEF Next

\* In every reachable state the records are well formed, there is at most one
\* journal, and what a helper at work was given is still there
\* (sweep_abandoned_transactions, abort_in_place, retire_prior_receipts).
THEOREM RecordsStaySound == Spec => []RecordsAreSound
<1>1. Spec => [](Inv /\ Typed /\ KeptInv)
  BY InitOK, InitKept, StepKept, PTL DEF Spec
<1>2. Inv => OneJournal
  <2> SUFFICES ASSUME Inv
               PROVE  Cardinality({t \in Txns : journal[t] # "none"}) <= 1
    BY DEF OneJournal
  <2> DEFINE J == {t \in Txns : journal[t] # "none"}
  <2>1. CASE J = {}
    BY <2>1, FS_EmptySet
  <2>2. CASE J # {}
    <3>1. PICK t \in J : TRUE
      BY <2>2
    <3>2. J = {t}
      BY <3>1 DEF Inv, RecordInv
    <3>3. Cardinality({t}) = 1
      BY FS_Singleton
    <3> QED
      BY <3>2, <3>3
  <2> QED
    BY <2>1, <2>2
<1>3. KeptInv /\ Typed => StagingIsKept
  <2> SUFFICES ASSUME KeptInv, Typed, NEW h \in Helpers,
                      helper[h].pc \notin {"off", "hello", "gate", "recover", "end", "leaving"},
                      helper[h].pc = "prepared" => helper[h].heard \in {"nothing", "authorized"}
               PROVE  helper[h].txn \in staged
    BY DEF StagingIsKept
  <2>1. helper[h].pc \in Late \cup {"prepared", "waiting", "apply", "begin"}
    BY DEF Typed, HelperType, HelperRecord, HelperPlaces, Late
  <2>2. helper[h].pc \notin Late => Fresh(h)
    BY <2>1 DEF KeptInv, FreshInv, Fresh, Early
  <2> QED
    BY <2>2 DEF KeptInv, FreshInv, LateInv
<1>4. Inv /\ Typed /\ KeptInv => RecordsAreSound
  BY <1>2, <1>3, TypesAreTyped DEF RecordsAreSound
<1> QED
  BY <1>1, <1>4, PTL


\* No two journals exist, so a start never chooses between two
\* (ensure_prior_receipts_current, retire_prior_receipts).
THEOREM NoTwoJournals ==
  Spec => [](\A t, u \in Txns : journal[t] # "none" /\ journal[u] # "none" => t = u)
<1>1. Inv => \A t, u \in Txns : journal[t] # "none" /\ journal[u] # "none" => t = u
  BY DEF Inv, RecordInv
<1> QED
  BY <1>1, Invariance, PTL
=============================================================================
