------------------------ MODULE DocumentSessionProofs ------------------------
(***************************************************************************)
(* Proofs about DocumentSession, for every set of paths and contents and   *)
(* every number of moves of the user and of other programs.                *)
(***************************************************************************)
EXTENDS DocumentSession, FiniteSetTheorems, TLAPS

-----------------------------------------------------------------------------
(* The methods of DocumentSession keep its type.                           *)

SameDocument(s, t) ==
  /\ t.path = s.path /\ t.text = s.text /\ t.baseline = s.baseline
  /\ t.rev = s.rev /\ t.saved = s.saved /\ t.gen = s.gen
  /\ t.inFlight = s.inFlight /\ t.pending = s.pending
SameChecks(s, t) == t.gen = s.gen /\ t.checking = s.checking /\ t.recheck = s.recheck

\* reset_external_tracking forgets the checks and leaves the document alone.
LEMMA ResetFacts ==
  ASSUME NEW s \in Sessions
  PROVE  LET r == ResetExternalTracking(s) IN
         r \in Sessions /\ SameDocument(s, r) /\ ~r.checking /\ ~r.recheck
  BY DEF ResetExternalTracking, SameDocument, Sessions, Versions

\* A document just read: of another generation, unedited, nothing queued.
Fresh(s, r, p, c) ==
  /\ r.gen = s.gen + 1 /\ r.pending = NoIntent /\ r.path = p
  /\ r.text = c /\ r.baseline = c /\ r.rev = 0 /\ r.saved = 0
  /\ ~r.checking /\ ~r.recheck

\* replace_with_disk starts another generation of the document, unedited, with
\* nothing asked or recorded for the old one but the write it waits for.
LEMMA ReplaceFacts ==
  ASSUME NEW s \in Sessions, NEW c \in Contents
  PROVE  LET r == ReplaceWithDisk(s, c) IN
         r \in Sessions /\ Fresh(s, r, s.path, c) /\ r.inFlight = s.inFlight
<1> DEFINE m == [s EXCEPT !.text = c, !.rev = 0, !.saved = 0, !.gen = @ + 1, !.ime = FALSE,
                          !.baseline = c, !.present = TRUE, !.pending = NoIntent]
<1>1. NoIntent \in Intents /\ c \in Versions /\ s.gen + 1 \in Nat /\ 0 \in Nat
  BY DEF NoIntent, Intents, NoApproval, Approvals, Kinds, Versions, Sessions
<1>2. m \in Sessions
  BY <1>1, Zenon DEF Sessions
<1>3. /\ m.gen = s.gen + 1 /\ m.pending = NoIntent /\ m.path = s.path
      /\ m.text = c /\ m.baseline = c /\ m.rev = 0 /\ m.saved = 0
      /\ m.inFlight = s.inFlight
  BY DEF Sessions
<1> HIDE DEF m
<1>4. LET r == ResetExternalTracking(m) IN
      r \in Sessions /\ Fresh(s, r, s.path, c) /\ r.inFlight = s.inFlight
  BY <1>2, <1>3, ResetFacts DEF SameDocument, Fresh
<1> QED
  BY <1>4 DEF ReplaceWithDisk, m

\* adopt replaces the document and its path, and gives the slot back.
LEMMA AdoptFacts ==
  ASSUME NEW s \in Sessions, NEW p \in Paths \cup {NoPath}, NEW c \in Contents
  PROVE  LET r == Adopt(s, p, c) IN
         r \in Sessions /\ Fresh(s, r, p, c) /\ r.inFlight = NoTicket
<1> DEFINE r == ReplaceWithDisk(s, c)
<1>1. r \in Sessions /\ Fresh(s, r, s.path, c)
  BY ReplaceFacts
<1>2. NoTicket \in Tickets
  BY DEF NoTicket, Tickets
<1> HIDE DEF r
<1>3. LET t == [r EXCEPT !.path = p, !.inFlight = NoTicket] IN
        t \in Sessions /\ Fresh(s, t, p, c) /\ t.inFlight = NoTicket
  BY <1>1, <1>2 DEF Sessions, Fresh
<1> QED
  BY <1>3 DEF Adopt, r

\* Whatever is learned of the disk, the document and its slot stay as they are.
LEMMA SetExternalFacts ==
  ASSUME NEW s \in Sessions,
         NEW state \in {"inSync", "changed", "missing", "unverifiable"},
         NEW c \in Versions
  PROVE  LET t == SetExternal(s, state, c) IN
         t \in Sessions /\ SameDocument(s, t) /\ SameChecks(s, t)
  BY DEF SetExternal, SameDocument, SameChecks, Sessions

\* Whatever a read found, noting it leaves the document and its slots alone.
LEMMA ObserveFacts ==
  ASSUME NEW s \in Sessions, NEW r \in Checks \cup Verifies
  PROVE  \A t \in {ObserveFailure(s, r), ObserveBaseline(s), ObserveChange(s, r.found)} :
           t \in Sessions /\ SameDocument(s, t) /\ SameChecks(s, t)
<1>1. r.found \in Versions /\ NoFile \in Versions
  BY DEF Checks, Verifies, Versions
<1>2. \A t \in Sessions : \A b \in BOOLEAN :
        /\ SameDocument(s, t) => SameDocument(s, [t EXCEPT !.present = b])
        /\ SameChecks(s, t) => SameChecks(s, [t EXCEPT !.present = b])
        /\ [t EXCEPT !.present = b] \in Sessions
  BY DEF SameDocument, SameChecks, Sessions
<1> QED
  BY <1>1, <1>2, SetExternalFacts DEF ObserveFailure, ObserveBaseline, ObserveChange

\* A reload happens only where nothing can be lost; any other result of a check
\* leaves the document alone.
LEMMA FinishedCheckFacts ==
  ASSUME NEW s \in Sessions, NEW c \in Checks
  PROVE  LET t == FinishedCheck(s, c) IN
         /\ t \in Sessions /\ ~t.checking
         /\ \/ /\ ~IsDirty(s) /\ ~SaveInFlight(s) /\ c.found \in Contents
               /\ Fresh(s, t, s.path, c.found) /\ t.inFlight = s.inFlight
            \/ SameDocument(s, t)
<1> DEFINE free == [s EXCEPT !.checking = FALSE]
           t == FinishedCheck(s, c)
<1>1. free \in Sessions /\ SameDocument(s, free) /\ ~free.checking
  BY DEF Sessions, SameDocument
<1>2. CASE ~CheckIsCurrent(s, c)
  <2>1. t = [free EXCEPT !.recheck = @ \/ c.path = s.path]
    BY <1>2 DEF FinishedCheck
  <2>2. (free.recheck \/ c.path = s.path) \in BOOLEAN
    OBVIOUS
  <2> HIDE DEF free
  <2>3. t \in Sessions
    BY <1>1, <2>1, <2>2, Zenon DEF Sessions
  <2> QED
    BY <1>1, <2>1, <2>3 DEF SameDocument, Sessions
<1>3. CASE CheckIsCurrent(s, c)
  <2>1. \/ t \in {ObserveFailure(free, c), ObserveBaseline(free), ObserveChange(free, c.found)}
        \/ FileRead(c) /\ CanReplace(s, c) /\ t = ReplaceWithDisk(free, c.found)
    BY <1>3, Zenon DEF FinishedCheck
  <2>2. FileRead(c) => c.found \in Contents
    BY DEF FileRead, Checks, Versions
  <2> HIDE DEF t, free
  <2>3. CASE t \in {ObserveFailure(free, c), ObserveBaseline(free), ObserveChange(free, c.found)}
    <3>1. t \in Sessions /\ SameDocument(free, t) /\ SameChecks(free, t)
      BY <1>1, <2>3, ObserveFacts
    <3> QED
      BY <1>1, <3>1 DEF SameDocument, SameChecks, t
  <2>4. CASE FileRead(c) /\ CanReplace(s, c) /\ t = ReplaceWithDisk(free, c.found)
    BY <1>1, <2>2, <2>4, ReplaceFacts DEF SameDocument, Fresh, CanReplace, t
  <2> QED
    BY <2>1, <2>3, <2>4
<1> QED
  BY <1>2, <1>3

\* A confirmed discard replaces the document only while no job runs; any other result
\* of its read leaves the document alone.
LEMMA FinishedVerifyFacts ==
  ASSUME NEW s \in Sessions, NEW v \in Verifies
  PROVE  LET t == FinishedVerify(s, v) IN
         /\ t \in Sessions
         /\ \/ /\ ~SaveInFlight(s) /\ v.found \in Contents
               /\ Fresh(s, t, s.path, v.found) /\ t.inFlight = s.inFlight
            \/ SameDocument(s, t) /\ SameChecks(s, t)
<1> DEFINE free == [s EXCEPT !.verify = 0]
           t == FinishedVerify(s, v)
<1>1. free \in Sessions /\ SameDocument(s, free) /\ SameChecks(s, free)
  BY DEF Sessions, SameDocument, SameChecks
<1>2. \/ t \in {free, ObserveFailure(free, v), ObserveChange(free, v.found)}
      \/ FileRead(v) /\ ~SaveInFlight(s) /\ t = ReplaceWithDisk(free, v.found)
  BY Zenon DEF FinishedVerify
<1>3. FileRead(v) => v.found \in Contents
  BY DEF FileRead, Verifies, Versions
<1> HIDE DEF t, free
<1>4. CASE t \in {free, ObserveFailure(free, v), ObserveChange(free, v.found)}
  <2>1. t \in Sessions /\ SameDocument(s, t) /\ SameChecks(s, t)
    <3>1. CASE t = free
      BY <1>1, <3>1
    <3>2. CASE t \in {ObserveFailure(free, v), ObserveChange(free, v.found)}
      <4>1. t \in Sessions /\ SameDocument(free, t) /\ SameChecks(free, t)
        BY <1>1, <3>2, ObserveFacts
      <4> QED
        BY <1>1, <4>1 DEF SameDocument, SameChecks
    <3> QED
      BY <1>4, <3>1, <3>2
  <2> QED
    BY <2>1 DEF t
<1>5. CASE FileRead(v) /\ ~SaveInFlight(s) /\ t = ReplaceWithDisk(free, v.found)
  BY <1>1, <1>3, <1>5, ReplaceFacts DEF SameDocument, Fresh, t
<1> QED
  BY <1>2, <1>4, <1>5

-----------------------------------------------------------------------------
(* The save slot.                                                          *)

GoodIntent(i) == i.kind \in {"to", "createNew"} => i.path \in Paths

\* The job in the slot was started for this very document, from its text as it
\* was at the revision of the ticket.
JobFits(s, j) ==
  /\ j.ticket = s.inFlight /\ j.ticket.gen = s.gen /\ j.ticket.seq > 0
  /\ s.saved <= j.ticket.rev /\ j.ticket.rev <= s.rev
  /\ j.kind # "rename" /\ j.ticket.rev = s.rev => j.doc = s.text
  /\ j.kind = "rename" => Tracked(s)

SlotFits(s, js) ==
  /\ \A j, k \in js : j = k
  /\ \A j \in js : JobFits(s, j)
  /\ SaveInFlight(s) => js # {}
  /\ s.pending # NoIntent => SaveInFlight(s)
  /\ GoodIntent(s.pending)

Accepted(s) ==
  /\ s.saved <= s.rev
  /\ Tracked(s) /\ ~IsDirty(s) => s.text = s.baseline

DocInv(s, js) == s \in Sessions /\ js \subseteq Jobs /\ SlotFits(s, js) /\ Accepted(s)

\* The empty request and the empty ticket are a request and a ticket.
LEMMA NoIntentFacts == NoIntent \in Intents /\ GoodIntent(NoIntent) /\ NoTicket \in Tickets
  BY DEF NoIntent, Intents, NoApproval, Approvals, Kinds, Versions, GoodIntent, NoTicket,
         Tickets

\* While the slot is free no job runs and no request waits.
LEMMA FreeSlot ==
  ASSUME NEW s, NEW js, DocInv(s, js), ~SaveInFlight(s)
  PROVE  js = {} /\ s.pending = NoIntent
  BY DEF DocInv, SlotFits, JobFits, SaveInFlight, NoTicket

\* What the slot invariant says is about the document and the slot alone.
LEMMA SameKeeps ==
  ASSUME NEW s, NEW js, DocInv(s, js), NEW t \in Sessions, SameDocument(s, t)
  PROVE  DocInv(t, js)
  BY DEF DocInv, SlotFits, JobFits, Accepted, SaveInFlight, Tracked, IsDirty, SameDocument

\* A document is replaced only while no job runs, so no job meets another one.
LEMMA FreshKeeps ==
  ASSUME NEW s, NEW js, DocInv(s, js), ~SaveInFlight(s),
         NEW t \in Sessions, NEW p, NEW c, Fresh(s, t, p, c), ~SaveInFlight(t)
  PROVE  DocInv(t, js)
  BY FreeSlot, NoIntentFacts
     DEF DocInv, SlotFits, Accepted, SaveInFlight, Tracked, IsDirty, Fresh

\* The ticket of a slot just taken is of this document as it is.
LEMMA TakeSlotFacts ==
  ASSUME NEW s \in Sessions
  PROVE  LET t == TakeSlot(s)
             ticket == NextTicket(s)
         IN  /\ t \in Sessions
             /\ ticket \in Tickets
             /\ ticket.gen = s.gen /\ ticket.seq > 0 /\ ticket.rev = s.rev
<1>1. s.seq + 1 \in Nat /\ s.seq + 1 > 0 /\ s.gen \in Nat /\ s.rev \in Nat
  BY DEF Sessions
<1>2. /\ NextTicket(s) \in Tickets
      /\ NextTicket(s).gen = s.gen /\ NextTicket(s).seq = s.seq + 1
      /\ NextTicket(s).rev = s.rev
  BY <1>1 DEF NextTicket, Tickets
<1>3. TakeSlot(s) \in Sessions
  BY <1>1, <1>2, Zenon DEF TakeSlot, Sessions
<1> QED
  BY <1>1, <1>2, <1>3

\* A request that is granted writes the text of the document to a path.
LEMMA WriteJobFacts ==
  ASSUME NEW s \in Sessions, NEW i \in Intents, GoodIntent(i), ~RequestRefused(s, i),
         ~SaveInFlight(s)
  PROVE  LET j == WriteJob(s, i) IN
         j \in Jobs /\ j.ticket = NextTicket(s) /\ j.doc = s.text /\ j.kind # "rename"
<1> DEFINE to == IF i.kind \in {"to", "createNew"} THEN i.path ELSE s.path
           expects == CASE i.kind = "createNew" -> NoFile
                        [] i.kind = "confirmed" -> s.seen
                        [] OTHER -> ContentGuard(s)
           kind == IF i.kind = "confirmed" THEN "confirmed" ELSE "save"
           forced == i.kind = "to" /\ i.path # s.path
<1>1. to \in Paths
  BY DEF GoodIntent, RequestRefused, ApprovalExpired, Tracked, Intents, Sessions
<1>2. expects \in Versions
  BY DEF ContentGuard, Versions, Sessions
<1>3. kind \in {"save", "confirmed", "rename"} /\ kind # "rename" /\ forced \in BOOLEAN
  OBVIOUS
<1>4. NextTicket(s) \in Tickets /\ s.text \in Contents
  BY TakeSlotFacts DEF Sessions
<1>5. WriteJob(s, i) =
        [kind |-> kind, ticket |-> NextTicket(s), path |-> to, doc |-> s.text,
         forced |-> forced, expects |-> expects, status |-> "running", to |-> to]
  BY DEF WriteJob
<1> HIDE DEF to, expects, kind, forced
<1> QED
  BY <1>1, <1>2, <1>3, <1>4, <1>5 DEF Jobs

\* What save_session does with a request: nothing, or queue it, or start a write
\* of the document as it is.
LEMMA RequestKeeps ==
  ASSUME NEW s, NEW js, DocInv(s, js), NEW i \in Intents, GoodIntent(i)
  PROVE  LET t == AfterRequest(s, i) IN
         /\ DocInv(t, js \cup JobsOfRequest(s, i)) /\ SameChecks(s, t)
         /\ t.path = s.path /\ t.rev = s.rev /\ t.gen = s.gen
<1> DEFINE t == AfterRequest(s, i)
<1>0. s \in Sessions /\ js \subseteq Jobs
  BY DEF DocInv
<1>1. CASE RequestRefused(s, i)
  BY <1>0, <1>1 DEF AfterRequest, JobsOfRequest, SameChecks
<1>2. CASE ~RequestRefused(s, i) /\ SaveInFlight(s)
  <2>1. t = [s EXCEPT !.pending = i] /\ JobsOfRequest(s, i) = {}
    BY <1>2 DEF AfterRequest, JobsOfRequest
  <2>2. t \in Sessions /\ SameChecks(s, t) /\ t.inFlight = s.inFlight /\ t.pending = i
    BY <1>0, <2>1 DEF Sessions, SameChecks
  <2>3. /\ t.path = s.path /\ t.text = s.text /\ t.baseline = s.baseline
        /\ t.rev = s.rev /\ t.saved = s.saved /\ t.gen = s.gen
    BY <1>0, <2>1 DEF Sessions
  <2>4. DocInv(t, js)
    <3> HIDE DEF t
    <3> QED
      BY <1>2, <2>2, <2>3 DEF DocInv, SlotFits, JobFits, Accepted, SaveInFlight, Tracked, IsDirty
  <2> QED
    BY <2>1, <2>2, <2>3, <2>4
<1>3. CASE ~RequestRefused(s, i) /\ ~SaveInFlight(s)
  <2> DEFINE u == TakeSlot(s)
             live == IF i.kind = "confirmed" THEN 0 ELSE u.live
  <2>1. t = [u EXCEPT !.live = live]
    BY <1>3 DEF AfterRequest
  <2>2. u \in Sessions /\ live \in Nat
    BY <1>0, TakeSlotFacts DEF Sessions
  <2>3. /\ u.path = s.path /\ u.text = s.text /\ u.baseline = s.baseline
        /\ u.rev = s.rev /\ u.saved = s.saved /\ u.gen = s.gen
        /\ u.pending = s.pending /\ u.inFlight = NextTicket(s) /\ SameChecks(s, u)
    BY <1>0 DEF TakeSlot, SameChecks, Sessions
  <2> HIDE DEF u, live
  <2>4. /\ t \in Sessions /\ SameChecks(s, t)
        /\ t.path = s.path /\ t.text = s.text /\ t.baseline = s.baseline
        /\ t.rev = s.rev /\ t.saved = s.saved /\ t.gen = s.gen
        /\ t.pending = s.pending /\ t.inFlight = NextTicket(s)
    BY <2>1, <2>2, <2>3 DEF Sessions, SameChecks
  <2>5. js \cup JobsOfRequest(s, i) = {WriteJob(s, i)} /\ s.pending = NoIntent
    BY <1>3, FreeSlot DEF JobsOfRequest
  <2>6. WriteJob(s, i) \in Jobs /\ JobFits(t, WriteJob(s, i))
    <3> DEFINE j == WriteJob(s, i)
    <3>1. /\ j \in Jobs /\ j.ticket = t.inFlight /\ j.doc = t.text /\ j.kind # "rename"
          /\ j.ticket.gen = t.gen /\ j.ticket.seq > 0 /\ j.ticket.rev = t.rev
      BY <1>0, <1>3, <2>4, WriteJobFacts, TakeSlotFacts
    <3>2. t.saved <= t.rev /\ t.rev \in Nat
      BY <2>4 DEF DocInv, Accepted, Sessions
    <3> HIDE DEF j, t
    <3> QED
      BY <3>1, <3>2 DEF JobFits, j
  <2>7. DocInv(t, {WriteJob(s, i)})
    <3> HIDE DEF t
    <3> QED
      BY <2>4, <2>5, <2>6, NoIntentFacts DEF DocInv, SlotFits, Accepted, Tracked, IsDirty
  <2> QED
    BY <2>4, <2>5, <2>7
<1> QED
  BY <1>1, <1>2, <1>3

\* Taking the request that waits leaves the document, the slot and the checks alone.
LEMMA TakePendingFacts ==
  ASSUME NEW s \in Sessions
  PROVE  LET t == TakePending(s) IN
         /\ t \in Sessions /\ SameChecks(s, t) /\ t.pending = NoIntent
         /\ t.path = s.path /\ t.text = s.text /\ t.baseline = s.baseline
         /\ t.rev = s.rev /\ t.saved = s.saved /\ t.gen = s.gen
         /\ t.inFlight = s.inFlight
  BY NoIntentFacts DEF TakePending, Sessions, SameChecks

\* A write that landed makes the document clean only if it is still the text that
\* was written; any other outcome leaves what counts as saved alone.
LEMMA FinishedSaveKeeps ==
  ASSUME NEW s, NEW js, DocInv(s, js), NEW j \in js, j.kind # "rename"
  PROVE  LET d == FinishedSave(s, j) IN
         /\ d \in Sessions /\ SameChecks(s, d)
         /\ d.pending = s.pending /\ d.rev = s.rev
         /\ DocInv(TakePending(d), js \ {j})
<1> DEFINE d == FinishedSave(s, j)
           saved == IF s.rev = j.ticket.rev THEN s.rev ELSE s.saved
           live == IF s.external = "inSync" THEN s.live ELSE 0
<1>1. /\ s \in Sessions /\ j \in Jobs /\ js \ {j} = {} /\ JobFits(s, j)
      /\ j.path \in Paths /\ j.doc \in Contents /\ NoTicket \in Tickets
  BY NoIntentFacts DEF DocInv, SlotFits, Jobs
<1>2. CASE j.status = "done"
  <2>1. d = [ReleaseSlot(s) EXCEPT
               !.path = j.path, !.baseline = j.doc, !.present = TRUE,
               !.saves = @ + 1, !.external = "inSync", !.seen = NoFile,
               !.live = live, !.saved = saved]
    BY <1>1, <1>2, Zenon DEF FinishedSave, ReleaseSlot, Sessions
  <2>2. ReleaseSlot(s) \in Sessions /\ ReleaseSlot(s).saves + 1 \in Nat
    BY <1>1 DEF ReleaseSlot, Sessions
  <2>3. live \in Nat /\ saved \in Nat /\ j.doc \in Versions /\ NoFile \in Versions
    BY <1>1 DEF Sessions, Versions
  <2>4. d \in Sessions
    <3> HIDE DEF live, saved
    <3> DEFINE r == [ReleaseSlot(s) EXCEPT
                       !.path = j.path, !.baseline = j.doc, !.present = TRUE,
                       !.saves = @ + 1, !.saved = saved]
    <3>1. r \in Sessions
      BY <1>1, <2>2, <2>3, Zenon DEF Sessions
    <3>2. d = [r EXCEPT !.external = "inSync", !.seen = NoFile, !.live = live]
      BY <2>1, <2>2 DEF Sessions
    <3> HIDE DEF r, d
    <3> QED
      BY <3>1, <3>2, <2>3, Zenon DEF Sessions
  <2>5. /\ SameChecks(s, d) /\ d.pending = s.pending /\ d.rev = s.rev /\ d.gen = s.gen
        /\ d.inFlight = NoTicket /\ d.saved = saved /\ d.text = s.text
        /\ d.baseline = j.doc /\ d.path = j.path
    <3> HIDE DEF live, saved
    <3> QED
      BY <1>1, <2>1 DEF ReleaseSlot, Sessions, SameChecks
  <2>6. saved <= s.rev /\ (s.rev = saved => s.text = j.doc)
    BY <1>1 DEF DocInv, Accepted, JobFits, Sessions, Jobs, Tickets
  <2>7. DocInv(TakePending(d), {})
    <3> HIDE DEF d, saved
    <3> QED
      BY <2>4, <2>5, <2>6, TakePendingFacts, NoIntentFacts
         DEF DocInv, SlotFits, Accepted, SaveInFlight, Tracked, IsDirty
  <2> QED
    BY <1>1, <2>4, <2>5, <2>7
<1>3. CASE j.status # "done"
  <2>1. d = [s EXCEPT !.inFlight = NoTicket]
    BY <1>3 DEF FinishedSave, ReleaseSlot
  <2>2. /\ d \in Sessions /\ SameChecks(s, d)
        /\ d.path = s.path /\ d.text = s.text /\ d.baseline = s.baseline
        /\ d.rev = s.rev /\ d.saved = s.saved /\ d.gen = s.gen
        /\ d.inFlight = NoTicket /\ d.pending = s.pending
    BY <1>1, <2>1 DEF SameChecks, Sessions
  <2>3. DocInv(TakePending(d), {})
    <3> HIDE DEF d
    <3> QED
      BY <2>2, TakePendingFacts, NoIntentFacts
         DEF DocInv, SlotFits, Accepted, SaveInFlight, Tracked, IsDirty
  <2> QED
    BY <1>1, <2>2, <2>3
<1> QED
  BY <1>2, <1>3

\* A rename that landed moves a document that has a path to another one.
LEMMA FinishedRenameKeeps ==
  ASSUME NEW s, NEW js, DocInv(s, js), NEW j \in js, j.kind = "rename"
  PROVE  LET d == ReleaseSlot(FollowRename(s, j)) IN
         /\ d \in Sessions /\ SameChecks(s, d)
         /\ d.pending = s.pending /\ d.rev = s.rev
         /\ DocInv(TakePending(d), js \ {j})
<1> DEFINE f == FollowRename(s, j)
           d == ReleaseSlot(f)
<1>1. /\ s \in Sessions /\ j \in Jobs /\ js \ {j} = {} /\ Tracked(s)
      /\ j.to \in Paths /\ NoTicket \in Tickets
  BY NoIntentFacts DEF DocInv, SlotFits, Jobs, JobFits
<1>2. /\ f \in Sessions /\ SameChecks(s, f)
      /\ f.text = s.text /\ f.baseline = s.baseline
      /\ f.rev = s.rev /\ f.saved = s.saved /\ f.gen = s.gen /\ f.pending = s.pending
  BY <1>1 DEF FollowRename, Sessions, SameChecks
<1> HIDE DEF f
<1>3. /\ d \in Sessions /\ SameChecks(s, d)
      /\ d.text = s.text /\ d.baseline = s.baseline
      /\ d.rev = s.rev /\ d.saved = s.saved /\ d.gen = s.gen
      /\ d.inFlight = NoTicket /\ d.pending = s.pending
  BY <1>1, <1>2 DEF ReleaseSlot, SameChecks, Sessions
<1> HIDE DEF d
<1>4. DocInv(TakePending(d), {})
  BY <1>1, <1>3, TakePendingFacts, NoIntentFacts
     DEF DocInv, SlotFits, Accepted, SaveInFlight, Tracked, IsDirty
<1> QED
  BY <1>1, <1>3, <1>4 DEF f, d

-----------------------------------------------------------------------------
(* The check slot.                                                         *)

LookInv(s, cs) ==
  /\ cs \subseteq Checks
  /\ \A c \in cs : c.gen <= s.gen
  /\ s.checking => \E c \in cs : c.gen = s.gen
  /\ \A c, d \in cs : c.gen = s.gen /\ d.gen = s.gen => c = d /\ s.checking
  /\ s.recheck => s.checking

\* What the check invariant says is about the generation and the two check flags.
LEMMA ChecksStay ==
  ASSUME NEW s, NEW cs, LookInv(s, cs), NEW t, SameChecks(s, t)
  PROVE  LookInv(t, cs)
  BY DEF LookInv, SameChecks

\* What was asked about an older generation says nothing about the new one.
LEMMA FreshLook ==
  ASSUME NEW s \in Sessions, NEW cs \in SUBSET Checks, \A c \in cs : c.gen <= s.gen,
         NEW t, NEW p, NEW c, Fresh(s, t, p, c)
  PROVE  LookInv(t, cs)
  BY DEF LookInv, Fresh, Sessions, Checks

\* A check is started only when none is out, and only then is it handed on.
LEMMA BeginCheckKeeps ==
  ASSUME NEW s \in Sessions, NEW cs, LookInv(s, cs)
  PROVE  LET t == BeginExternalCheck(s) IN
         /\ t \in Sessions /\ SameDocument(s, t)
         /\ LookInv(t, cs \cup ChecksStarted(s))
<1> DEFINE t == BeginExternalCheck(s)
           c == [gen |-> s.gen, rev |-> s.rev, saves |-> s.saves, path |-> s.path,
                 read |-> "reading", found |-> NoFile, after |-> 0]
<1>1. CASE ~Tracked(s)
  BY <1>1 DEF BeginExternalCheck, ChecksStarted, SameDocument
<1>2. CASE Tracked(s) /\ s.checking
  <2>1. t = [s EXCEPT !.recheck = TRUE] /\ ChecksStarted(s) = {}
    BY <1>2 DEF BeginExternalCheck, ChecksStarted
  <2>2. /\ t \in Sessions /\ SameDocument(s, t)
        /\ t.gen = s.gen /\ t.checking /\ s.checking
    <3>1. [s EXCEPT !.recheck = TRUE] \in Sessions
      BY ZenonT(30) DEF Sessions
    <3>2. SameDocument(s, [s EXCEPT !.recheck = TRUE])
      BY DEF Sessions, SameDocument
    <3> QED
      BY <1>2, <2>1, <3>1, <3>2 DEF Sessions
  <2> HIDE DEF t
  <2>3. LookInv(t, cs)
    BY <2>2 DEF LookInv
  <2> QED
    BY <2>1, <2>2, <2>3 DEF t
<1>3. CASE Tracked(s) /\ ~s.checking
  <2>1. t = [s EXCEPT !.checking = TRUE] /\ ChecksStarted(s) = {c}
    BY <1>3 DEF BeginExternalCheck, ChecksStarted
  <2>2. /\ t \in Sessions /\ SameDocument(s, t)
        /\ t.gen = s.gen /\ t.checking /\ s.gen \in Nat
    BY <1>3, <2>1 DEF Sessions, SameDocument
  <2>3. c \in Checks /\ c.gen = s.gen
    BY <1>3 DEF Checks, Sessions, Tracked, Reads, Versions
  <2> HIDE DEF t, c
  <2>4. LookInv(t, cs \cup {c})
    BY <1>3, <2>2, <2>3 DEF LookInv
  <2> QED
    BY <2>1, <2>2, <2>4 DEF t
<1> QED
  BY <1>1, <1>2, <1>3

-----------------------------------------------------------------------------
(* Every step keeps the document and its slot.                             *)

\* An edit moves the document past the revision any running job was given.
LEMMA EditKeeps ==
  ASSUME NEW s, NEW js, DocInv(s, js), NEW t \in Sessions,
         t.path = s.path, t.baseline = s.baseline, t.rev = s.rev + 1, t.saved = s.saved,
         t.gen = s.gen, t.inFlight = s.inFlight, t.pending = s.pending
  PROVE  DocInv(t, js)
<1>1. s.rev \in Nat /\ s.saved \in Nat /\ s.saved <= s.rev
  BY DEF DocInv, Accepted, Sessions
<1>2. \A j \in js : j.ticket.rev \in Nat
  BY DEF DocInv, Jobs, Tickets
<1> QED
  BY <1>1, <1>2 DEF DocInv, SlotFits, JobFits, Accepted, SaveInFlight, Tracked, IsDirty

\* A job runs and reports, about the same document under the same ticket.
LEMMA JobKeeps ==
  ASSUME NEW s, NEW js, DocInv(s, js), NEW j \in js, NEW k \in Jobs,
         k.ticket = j.ticket, k.kind = j.kind, k.doc = j.doc
  PROVE  DocInv(s, (js \ {j}) \cup {k})
<1>1. (js \ {j}) \cup {k} = {k}
  BY DEF DocInv, SlotFits
<1>2. JobFits(s, k)
  BY DEF DocInv, SlotFits, JobFits
<1> QED
  BY <1>1, <1>2 DEF DocInv, SlotFits

\* begin_rename takes the slot that is free.
LEMMA RenameKeeps ==
  ASSUME NEW s, NEW js, DocInv(s, js), Tracked(s), ~SaveInFlight(s)
  PROVE  DocInv(TakeSlot(s), js \cup {[WriteJob(s, Current) EXCEPT !.kind = "rename"]})
<1> DEFINE t == TakeSlot(s)
           w == WriteJob(s, Current)
           j == [w EXCEPT !.kind = "rename"]
<1>1. s \in Sessions /\ js = {} /\ s.pending = NoIntent
  BY FreeSlot DEF DocInv
<1>2. /\ t \in Sessions /\ t.path = s.path /\ t.text = s.text /\ t.baseline = s.baseline
      /\ t.rev = s.rev /\ t.saved = s.saved /\ t.gen = s.gen
      /\ t.pending = s.pending /\ t.inFlight = NextTicket(s)
  BY <1>1, TakeSlotFacts DEF TakeSlot, Sessions
<1>3. Current \in Intents /\ Current.kind = "current"
  BY NoIntentFacts DEF Current, Intents
<1>4. w \in Jobs /\ w.ticket = NextTicket(s)
  BY <1>1, <1>3, WriteJobFacts DEF GoodIntent, RequestRefused, ApprovalExpired
<1> HIDE DEF w
<1>5. j \in Jobs /\ j.ticket = NextTicket(s) /\ j.kind = "rename"
  BY <1>4 DEF Jobs
<1> HIDE DEF t, j
<1>6. JobFits(t, j)
  BY <1>1, <1>2, <1>5, TakeSlotFacts DEF JobFits, DocInv, Accepted, Sessions, Tracked
<1>7. DocInv(t, {j})
  BY <1>1, <1>2, <1>5, <1>6, NoIntentFacts DEF DocInv, SlotFits, Accepted, Tracked, IsDirty
<1> QED
  BY <1>1, <1>7 DEF t, j, w

\* approve_resolution counts the answer; the document and its checks stay.
LEMMA ApproveFacts ==
  ASSUME NEW s \in Sessions
  PROVE  LET t == ApproveResolution(s) IN
         /\ t \in Sessions /\ SameDocument(s, t) /\ SameChecks(s, t)
         /\ t.serial \in Nat /\ t.external = s.external
<1> DEFINE t == ApproveResolution(s)
<1>1. s.serial + 1 \in Nat
  BY DEF Sessions
<1>2. t = [s EXCEPT !.serial = s.serial + 1, !.live = s.serial + 1]
  BY DEF ApproveResolution
<1>3. t \in Sessions
  BY <1>1, <1>2, ZenonT(30) DEF Sessions
<1>4. SameDocument(s, t) /\ SameChecks(s, t) /\ t.external = s.external
  <2> HIDE DEF t
  <2> QED
    BY <1>2 DEF Sessions, SameDocument, SameChecks
<1>5. t.serial \in Nat
  <2> HIDE DEF t
  <2> QED
    BY <1>3 DEF Sessions
<1> QED
  BY <1>3, <1>4, <1>5

\* Whatever a request that is answered asks for, it asks it of a path.
LEMMA IntentFacts ==
  /\ Current \in Intents /\ GoodIntent(Current)
  /\ \A p \in Paths : /\ To(p) \in Intents /\ GoodIntent(To(p))
                       /\ CreateNew(p) \in Intents /\ GoodIntent(CreateNew(p))
  /\ \A a \in Approvals : Confirmed(a) \in Intents /\ GoodIntent(Confirmed(a))
  BY NoIntentFacts DEF Current, To, CreateNew, Confirmed, Intents, GoodIntent

-----------------------------------------------------------------------------
(* The inductive invariant, and its steps.                                 *)

Problems == {"none", "conflict", "failed", "unverifiable"}

\* What surrounds the session has its type; a load under way names a path, and a
\* move to the Trash is one the environment may ask for.
Surroundings ==
  /\ disk \in [Paths -> Versions]
  /\ verifies \subseteq Verifies
  /\ prompt \in Prompts
  /\ opening \in Tasks
  /\ opening.stage # "idle" => opening.path \in Paths
  /\ trash \in Tasks
  /\ trash # Idle => "trash" \in UserActions
  /\ problem \in Problems
  /\ budget \in Nat
  /\ known \subseteq Versions
  /\ tried \in Nat

Flags ==
  /\ armed \in BOOLEAN /\ deferred \in BOOLEAN /\ notice \in BOOLEAN
  /\ active \in BOOLEAN /\ stirred \in BOOLEAN /\ cut \in BOOLEAN

IInv == DocInv(ses, jobs) /\ LookInv(ses, checks) /\ Surroundings /\ Flags

\* RunPending hands on what waited in the slot: the document is as it was.
LEMMA PendingKeeps ==
  ASSUME NEW s \in Sessions, NEW js, DocInv(TakePending(s), js), GoodIntent(s.pending),
         RunPending(s, js)
  PROVE  /\ DocInv(ses', jobs') /\ SameChecks(s, ses')
         /\ ses'.path = s.path /\ ses'.rev = s.rev /\ ses'.gen = s.gen
<1>1. s.pending \in Intents
  BY DEF Sessions
<1>2. /\ ses' = AfterRequest(TakePending(s), s.pending)
      /\ jobs' = js \cup JobsOfRequest(TakePending(s), s.pending)
  BY DEF RunPending, SaveFrom
<1>3. /\ SameChecks(s, TakePending(s)) /\ TakePending(s).path = s.path
      /\ TakePending(s).rev = s.rev /\ TakePending(s).gen = s.gen
  BY TakePendingFacts
<1>4. /\ DocInv(ses', jobs') /\ SameChecks(TakePending(s), ses')
      /\ ses'.path = TakePending(s).path /\ ses'.rev = TakePending(s).rev
      /\ ses'.gen = TakePending(s).gen
  BY <1>1, <1>2, RequestKeeps
<1> QED
  BY <1>3, <1>4 DEF SameChecks

\* The session after a job reported, before the request that waited is handed on.
LEMMA LookedFacts ==
  ASSUME NEW d \in Sessions, NEW js, DocInv(TakePending(d), js), NEW conflict \in BOOLEAN
  PROVE  LET l == IF conflict THEN BeginExternalCheck(d) ELSE d IN
         l \in Sessions /\ l.pending = d.pending /\ l.rev = d.rev /\ DocInv(TakePending(l), js)
<1> DEFINE l == IF conflict THEN BeginExternalCheck(d) ELSE d
<1>1. l \in Sessions /\ SameDocument(d, l)
  BY DEF BeginExternalCheck, SameDocument, Sessions
<1> HIDE DEF l
<1>2. TakePending(l) \in Sessions /\ SameDocument(TakePending(d), TakePending(l))
  BY <1>1, TakePendingFacts DEF SameDocument
<1>3. DocInv(TakePending(l), js)
  BY <1>2, SameKeeps
<1> QED
  BY <1>1, <1>3 DEF SameDocument, l

\* Every step keeps the document, its slot and the job that runs in it.
LEMMA DocStep ==
  ASSUME IInv, Step
  PROVE  DocInv(ses', jobs')
<1>0. DocInv(ses, jobs) /\ ses \in Sessions /\ LookInv(ses, checks) /\ Surroundings
  BY DEF IInv, DocInv
<1>1. CASE UNCHANGED <<ses, jobs>>
  BY <1>0, <1>1
<1>2. ASSUME NEW c \in Contents, Edit(c) PROVE DocInv(ses', jobs')
  <2>1. ses' = [ses EXCEPT !.text = c, !.rev = @ + 1] /\ jobs' = jobs
    BY <1>2 DEF Edit
  <2>2. ses.rev + 1 \in Nat
    BY <1>0 DEF Sessions
  <2>3. ses' \in Sessions
    BY <1>0, <2>1, <2>2, Zenon DEF Sessions
  <2>4. /\ ses'.path = ses.path /\ ses'.baseline = ses.baseline
        /\ ses'.rev = ses.rev + 1 /\ ses'.saved = ses.saved /\ ses'.gen = ses.gen
        /\ ses'.inFlight = ses.inFlight /\ ses'.pending = ses.pending
    BY <1>0, <2>1 DEF Sessions
  <2> QED
    BY <1>0, <2>1, <2>3, <2>4, EditKeeps
<1>3. ASSUME NEW c \in Contents, Compose(c) PROVE DocInv(ses', jobs')
  <2>1. ses' = [ses EXCEPT !.text = c, !.rev = @ + 1, !.ime = TRUE] /\ jobs' = jobs
    BY <1>3 DEF Compose
  <2>2. ses.rev + 1 \in Nat
    BY <1>0 DEF Sessions
  <2>3. ses' \in Sessions
    BY <1>0, <2>1, <2>2, Zenon DEF Sessions
  <2>4. /\ ses'.path = ses.path /\ ses'.baseline = ses.baseline
        /\ ses'.rev = ses.rev + 1 /\ ses'.saved = ses.saved /\ ses'.gen = ses.gen
        /\ ses'.inFlight = ses.inFlight /\ ses'.pending = ses.pending
    BY <1>0, <2>1 DEF Sessions
  <2> QED
    BY <1>0, <2>1, <2>3, <2>4, EditKeeps
<1>4. CASE EndCompose
  <2>1. ses' = [ses EXCEPT !.ime = FALSE] /\ jobs' = jobs
    BY <1>4 DEF EndCompose
  <2>2. ses' \in Sessions /\ SameDocument(ses, ses')
    BY <1>0, <2>1 DEF Sessions, SameDocument
  <2> QED
    BY <1>0, <2>1, <2>2, SameKeeps
<1>5. ASSUME NEW i \in Intents, GoodIntent(i), SaveFrom(ses, i, jobs)
      PROVE  DocInv(ses', jobs')
  BY <1>0, <1>5, RequestKeeps DEF SaveFrom
<1>6. CASE Save \/ AutosaveFires
  BY <1>1, <1>5, <1>6, IntentFacts DEF Save, AutosaveFires, RequestSave
<1>7. ASSUME NEW p \in Paths, SaveAs(p) \/ AutoName(p) PROVE DocInv(ses', jobs')
  BY <1>5, <1>7, IntentFacts DEF SaveAs, AutoName, RequestSave
<1>8. CASE Recheck \/ DeliverNotice \/ DeferredFires
  <2>1. jobs' = jobs /\ (ses' = BeginExternalCheck(ses) \/ ses' = ses)
    BY <1>8 DEF Recheck, DeliverNotice, DeferredFires, StartCheckFrom
  <2>2. CASE ses' = BeginExternalCheck(ses)
    BY <1>0, <2>1, <2>2, BeginCheckKeeps, SameKeeps
  <2> QED
    BY <1>0, <2>1, <2>2
<1>9. CASE BeginRename
  BY <1>0, <1>9, RenameKeeps DEF BeginRename
<1>10. ASSUME NEW j \in jobs, RunWrite(j) \/ RunRename(j) \/ JobFails(j)
       PROVE  DocInv(ses', jobs')
  <2>1. j \in Jobs
    BY <1>0 DEF DocInv
  <2>2. PICK k \in Jobs : /\ jobs' = (jobs \ {j}) \cup {k}
                          /\ k.ticket = j.ticket /\ k.kind = j.kind /\ k.doc = j.doc
    <3>1. \A st \in {"done", "conflict", "failed"} :
            /\ [j EXCEPT !.status = st] \in Jobs
            /\ [j EXCEPT !.status = st].ticket = j.ticket
            /\ [j EXCEPT !.status = st].kind = j.kind
            /\ [j EXCEPT !.status = st].doc = j.doc
      BY <2>1 DEF Jobs
    <3>2. \A to \in Paths :
            /\ [j EXCEPT !.status = "done", !.to = to] \in Jobs
            /\ [j EXCEPT !.status = "done", !.to = to].ticket = j.ticket
            /\ [j EXCEPT !.status = "done", !.to = to].kind = j.kind
            /\ [j EXCEPT !.status = "done", !.to = to].doc = j.doc
      BY <2>1 DEF Jobs
    <3>3. CASE RunWrite(j)
      BY <3>1, <3>3, Zenon DEF RunWrite
    <3>4. CASE RunRename(j)
      BY <3>1, <3>2, <3>4, Zenon DEF RunRename
    <3>5. CASE JobFails(j)
      BY <3>1, <3>5, Zenon DEF JobFails
    <3> QED
      BY <1>10, <3>3, <3>4, <3>5
  <2>3. ses' = ses
    BY <1>10 DEF RunWrite, RunRename, JobFails
  <2> QED
    BY <1>0, <2>2, <2>3, JobKeeps
<1>11. ASSUME NEW j \in jobs, FinishSave(j) PROVE DocInv(ses', jobs')
  <2> DEFINE done == FinishedSave(ses, j)
             conflict == j.status = "conflict"
             looked == IF conflict THEN BeginExternalCheck(done) ELSE done
  <2>1. RunPending(looked, jobs \ {j}) /\ j.kind # "rename"
    BY <1>11 DEF FinishSave
  <2>2. done \in Sessions /\ done.pending = ses.pending /\ DocInv(TakePending(done), jobs \ {j})
    BY <1>0, <2>1, FinishedSaveKeeps
  <2>3. conflict \in BOOLEAN
    OBVIOUS
  <2> HIDE DEF done, conflict
  <2>4. /\ looked \in Sessions /\ looked.pending = ses.pending
        /\ DocInv(TakePending(looked), jobs \ {j})
    BY <2>2, <2>3, LookedFacts
  <2>5. GoodIntent(ses.pending)
    BY <1>0 DEF DocInv, SlotFits
  <2> HIDE DEF looked
  <2> QED
    BY <2>1, <2>4, <2>5, PendingKeeps
<1>12. ASSUME NEW j \in jobs, FinishRename(j) PROVE DocInv(ses', jobs')
  <2> DEFINE done == ReleaseSlot(FollowRename(ses, j))
  <2>1. RunPending(done, jobs \ {j}) /\ j.kind = "rename"
    BY <1>12 DEF FinishRename
  <2>2. done \in Sessions /\ done.pending = ses.pending /\ DocInv(TakePending(done), jobs \ {j})
    BY <1>0, <2>1, FinishedRenameKeeps
  <2>3. GoodIntent(ses.pending)
    BY <1>0 DEF DocInv, SlotFits
  <2> HIDE DEF done
  <2> QED
    BY <2>1, <2>2, <2>3, PendingKeeps
<1>13. ASSUME NEW c \in checks, FinishCheck(c) PROVE DocInv(ses', jobs')
  <2> DEFINE found == FinishedCheck(ses, c)
             idle == [found EXCEPT !.recheck = FALSE]
  <2>1. /\ ses' = (IF found.recheck THEN BeginExternalCheck(idle) ELSE idle)
        /\ jobs' = jobs
    BY <1>13 DEF FinishCheck
  <2>2. /\ found \in Sessions
        /\ \/ ~SaveInFlight(ses) /\ found.inFlight = ses.inFlight
                /\ Fresh(ses, found, ses.path, c.found)
           \/ SameDocument(ses, found)
    BY <1>0, FinishedCheckFacts DEF LookInv
  <2> HIDE DEF found
  <2>3. DocInv(found, jobs)
    BY <1>0, <2>2, FreshKeeps, SameKeeps DEF SaveInFlight
  <2>4. idle \in Sessions /\ SameDocument(found, idle)
    BY <2>2 DEF Sessions, SameDocument
  <2> HIDE DEF idle
  <2>5. DocInv(idle, jobs)
    BY <2>3, <2>4, SameKeeps
  <2>6. BeginExternalCheck(idle) \in Sessions /\ SameDocument(idle, BeginExternalCheck(idle))
    BY <2>4 DEF BeginExternalCheck, SameDocument, Sessions
  <2> QED
    BY <2>1, <2>5, <2>6, SameKeeps
<1>14. CASE ConfirmOverwrite
  <2> DEFINE asked == ApproveResolution(ses)
             a == Approval(asked, "overwrite", prompt.shown)
  <2>1. asked \in Sessions /\ SameDocument(ses, asked)
    BY <1>0, ApproveFacts
  <2>2. a \in Approvals
    <3> HIDE DEF asked
    <3> QED
      BY <1>0, <2>1 DEF Approval, Approvals, Surroundings, Prompts, Kinds, Sessions
  <2>3. SaveFrom(asked, Confirmed(a), jobs)
    BY <1>14 DEF ConfirmOverwrite
  <2> HIDE DEF asked, a
  <2>4. DocInv(asked, jobs)
    BY <1>0, <2>1, SameKeeps
  <2> QED
    BY <2>2, <2>3, <2>4, IntentFacts, RequestKeeps DEF SaveFrom
<1>15. CASE ConfirmReload
  <2> DEFINE asked == ApproveResolution(ses)
  <2>1. asked \in Sessions /\ SameDocument(ses, asked) /\ asked.serial \in Nat
    BY <1>0, ApproveFacts
  <2>2. (ses' = asked \/ ses' = [asked EXCEPT !.verify = asked.serial]) /\ jobs' = jobs
    BY <1>15 DEF ConfirmReload
  <2> HIDE DEF asked
  <2>3. ses' \in Sessions /\ SameDocument(ses, ses')
    <3>1. CASE ses' = [asked EXCEPT !.verify = asked.serial]
      BY <2>1, <3>1 DEF Sessions, SameDocument
    <3> QED
      BY <2>1, <2>2, <3>1
  <2> QED
    BY <1>0, <2>2, <2>3, SameKeeps
<1>16. ASSUME NEW v \in verifies, FinishVerify(v) PROVE DocInv(ses', jobs')
  <2>1. ses' = FinishedVerify(ses, v) /\ jobs' = jobs /\ v \in Verifies
    BY <1>0, <1>16 DEF FinishVerify, Surroundings
  <2>2. /\ ses' \in Sessions
        /\ \/ ~SaveInFlight(ses) /\ ses'.inFlight = ses.inFlight
                /\ Fresh(ses, ses', ses.path, v.found)
           \/ SameDocument(ses, ses')
    BY <1>0, <2>1, FinishedVerifyFacts
  <2> QED
    BY <1>0, <2>1, <2>2, FreshKeeps, SameKeeps DEF SaveInFlight
<1>17. ASSUME NEW latest \in BOOLEAN, FinishOpen(latest) PROVE DocInv(ses', jobs')
  <2>1. CASE OpenIsRefused(latest)
    BY <1>1, <1>17, <2>1 DEF FinishOpen
  <2>2. CASE ~OpenIsRefused(latest)
    <3>1. /\ ses' = Adopt(ses, opening.path, opening.found) /\ jobs' = jobs
          /\ ~SaveInFlight(ses) /\ opening.found # NoFile
      BY <1>17, <2>2 DEF FinishOpen, OpenIsRefused
    <3>2. opening.path \in Paths \cup {NoPath} /\ opening.found \in Contents
      BY <1>0, <3>1 DEF Surroundings, Tasks, Versions
    <3>3. /\ ses' \in Sessions /\ ses'.inFlight = NoTicket
          /\ Fresh(ses, ses', opening.path, opening.found)
      BY <1>0, <3>1, <3>2, AdoptFacts
    <3> QED
      BY <1>0, <3>1, <3>3, FreshKeeps DEF SaveInFlight
  <2> QED
    BY <2>1, <2>2
<1>18. CASE FinishTrash
  <2>1. jobs' = jobs /\ (ses' = ses \/ ses' = [ses EXCEPT !.present = FALSE])
    BY <1>18 DEF FinishTrash
  <2>2. [ses EXCEPT !.present = FALSE] \in Sessions
    BY <1>0, ZenonT(30) DEF Sessions
  <2>3. SameDocument(ses, [ses EXCEPT !.present = FALSE]) /\ SameDocument(ses, ses)
    BY <1>0 DEF Sessions, SameDocument
  <2> QED
    BY <1>0, <2>1, <2>2, <2>3, SameKeeps
<1>19. ASSUME NEW kind \in {"overwrite", "reload"}, Ask(kind) PROVE DocInv(ses', jobs')
  BY <1>1, <1>19 DEF Ask
<1>20. ASSUME NEW p \in Paths, StartOpen(p) PROVE DocInv(ses', jobs')
  BY <1>1, <1>20 DEF StartOpen
<1>21. ASSUME NEW c \in checks, ReadForCheck(c) \/ CheckFails(c) \/ DropCheck(c)
       PROVE  DocInv(ses', jobs')
  BY <1>1, <1>21 DEF ReadForCheck, CheckFails, DropCheck
<1>22. ASSUME NEW v \in verifies, ReadForVerify(v) \/ VerifyFails(v) \/ DropVerify(v)
       PROVE  DocInv(ses', jobs')
  BY <1>1, <1>22 DEF ReadForVerify, VerifyFails, DropVerify
<1>23. CASE SwitchTab \/ StartTrash \/ Cancel \/ LoadFile \/ MoveToTrash
  BY <1>1, <1>23 DEF SwitchTab, StartTrash, Cancel, LoadFile, MoveToTrash
<1>24. ASSUME NEW p \in Paths, NEW v \in Versions, ExternalChange(p, v)
       PROVE  DocInv(ses', jobs')
  BY <1>1, <1>24 DEF ExternalChange
<1> QED
  BY <1>2, <1>3, <1>4, <1>6, <1>7, <1>8, <1>9, <1>10, <1>11, <1>12, <1>13, <1>14, <1>15,
     <1>16, <1>17, <1>18, <1>19, <1>20, <1>21, <1>22, <1>23, <1>24, Zenon
     DEF Step, UserStep, WorkerStep, ViewStep


\* With one job at a time, the writes that landed are a number.
LEMMA LandedFacts ==
  ASSUME DocInv(ses, jobs)
  PROVE  WritesLanded \in Nat
<1> DEFINE landed == {j \in jobs : j.kind # "rename" /\ j.status = "done"}
<1>1. landed = {} \/ \E j \in jobs : landed = {j}
  BY DEF DocInv, SlotFits
<1>2. IsFiniteSet(landed)
  BY <1>1, FS_EmptySet, FS_Singleton
<1>3. Cardinality(landed) \in Nat
  BY <1>2, FS_CardinalityType
<1>4. ses.saves \in Nat
  BY DEF DocInv, Sessions
<1> QED
  BY <1>3, <1>4 DEF WritesLanded

\* A reading check becomes a finished one about the same document.
LEMMA ReadKeepsLook ==
  ASSUME NEW s, NEW cs, LookInv(s, cs), NEW c \in cs, NEW d \in Checks, d.gen = c.gen
  PROVE  LookInv(s, (cs \ {c}) \cup {d})
  BY DEF LookInv

\* A result of another document leaves the check slot as it is.
LEMMA DropKeepsLook ==
  ASSUME NEW s, NEW cs, LookInv(s, cs), NEW c \in cs, c.gen # s.gen
  PROVE  LookInv(s, cs \ {c})
  BY DEF LookInv

\* When the check of this document reports, no other is out.
LEMMA FinishKeepsLook ==
  ASSUME NEW s, NEW cs, LookInv(s, cs), NEW c \in cs, c.gen = s.gen,
         NEW t, t.gen = s.gen, ~t.checking, ~t.recheck
  PROVE  LookInv(t, cs \ {c})
  BY DEF LookInv

\* Every step keeps the check slot.
LEMMA LookStep ==
  ASSUME IInv, Step
  PROVE  LookInv(ses', checks')
<1>0. DocInv(ses, jobs) /\ ses \in Sessions /\ LookInv(ses, checks) /\ Surroundings
  BY DEF IInv, DocInv
<1>1. CASE checks' = checks /\ SameChecks(ses, ses')
  BY <1>0, <1>1, ChecksStay
<1>2. ASSUME ses' = ses PROVE SameChecks(ses, ses')
  BY <1>2 DEF SameChecks
<1>3. ASSUME NEW p, NEW c, Fresh(ses, ses', p, c), checks' = checks
      PROVE  LookInv(ses', checks')
  BY <1>0, <1>3, FreshLook DEF LookInv
<1>4. ASSUME NEW c \in Contents, Edit(c) \/ Compose(c) PROVE LookInv(ses', checks')
  <2>1. /\ checks' = checks
        /\ \/ ses' = [ses EXCEPT !.text = c, !.rev = @ + 1]
           \/ ses' = [ses EXCEPT !.text = c, !.rev = @ + 1, !.ime = TRUE]
    BY <1>4 DEF Edit, Compose
  <2>2. SameChecks(ses, ses')
    BY <1>0, <2>1 DEF Sessions, SameChecks
  <2> QED
    BY <1>1, <2>1, <2>2
<1>5. CASE EndCompose \/ BeginRename \/ FinishTrash
  <2>1. /\ checks' = checks
        /\ \/ ses' = [ses EXCEPT !.ime = FALSE]
           \/ ses' = TakeSlot(ses)
           \/ ses' = [ses EXCEPT !.present = FALSE]
           \/ ses' = ses
    BY <1>5 DEF EndCompose, BeginRename, FinishTrash
  <2>2. SameChecks(ses, ses')
    BY <1>0, <2>1 DEF TakeSlot, Sessions, SameChecks
  <2> QED
    BY <1>1, <2>1, <2>2
<1>6. ASSUME NEW i \in Intents, GoodIntent(i), SaveFrom(ses, i, jobs), checks' = checks
      PROVE  LookInv(ses', checks')
  BY <1>0, <1>1, <1>6, RequestKeeps DEF SaveFrom
<1>7. CASE Save \/ AutosaveFires
  BY <1>1, <1>2, <1>6, <1>7, IntentFacts DEF Save, AutosaveFires, RequestSave
<1>8. ASSUME NEW p \in Paths, SaveAs(p) \/ AutoName(p) PROVE LookInv(ses', checks')
  BY <1>6, <1>8, IntentFacts DEF SaveAs, AutoName, RequestSave
<1>9. CASE Recheck \/ DeliverNotice \/ DeferredFires
  <2>1. \/ StartCheckFrom(ses)
        \/ ses' = ses /\ checks' = checks
    BY <1>9 DEF Recheck, DeliverNotice, DeferredFires
  <2> QED
    BY <1>0, <1>1, <1>2, <2>1, BeginCheckKeeps DEF StartCheckFrom
<1>10. ASSUME NEW j \in jobs, RunWrite(j) \/ RunRename(j) \/ JobFails(j)
       PROVE  LookInv(ses', checks')
  BY <1>1, <1>2, <1>10 DEF RunWrite, RunRename, JobFails
<1>11. ASSUME NEW j \in jobs, FinishSave(j) PROVE LookInv(ses', checks')
  <2> DEFINE done == FinishedSave(ses, j)
             conflict == j.status = "conflict"
             started == IF conflict THEN ChecksStarted(done) ELSE {}
             looked == IF conflict THEN BeginExternalCheck(done) ELSE done
  <2>1. /\ RunPending(looked, jobs \ {j}) /\ j.kind # "rename"
        /\ checks' = checks \cup started
    BY <1>11 DEF FinishSave
  <2>2. /\ done \in Sessions /\ done.pending = ses.pending /\ SameChecks(ses, done)
        /\ DocInv(TakePending(done), jobs \ {j})
    BY <1>0, <2>1, FinishedSaveKeeps
  <2>3. conflict \in BOOLEAN
    OBVIOUS
  <2> HIDE DEF done, conflict
  <2>4. /\ looked \in Sessions /\ looked.pending = ses.pending
        /\ DocInv(TakePending(looked), jobs \ {j})
    BY <2>2, <2>3, LookedFacts
  <2>5. GoodIntent(ses.pending)
    BY <1>0 DEF DocInv, SlotFits
  <2>6. LookInv(done, checks)
    BY <1>0, <2>2, ChecksStay
  <2>7. LookInv(looked, checks \cup started)
    BY <2>2, <2>6, BeginCheckKeeps
  <2> HIDE DEF looked, started
  <2>8. SameChecks(looked, ses')
    BY <2>1, <2>4, <2>5, PendingKeeps
  <2> QED
    BY <2>1, <2>7, <2>8, ChecksStay
<1>12. ASSUME NEW j \in jobs, FinishRename(j) PROVE LookInv(ses', checks')
  <2> DEFINE done == ReleaseSlot(FollowRename(ses, j))
  <2>1. RunPending(done, jobs \ {j}) /\ j.kind = "rename" /\ checks' = checks
    BY <1>12 DEF FinishRename
  <2>2. /\ done \in Sessions /\ done.pending = ses.pending /\ SameChecks(ses, done)
        /\ DocInv(TakePending(done), jobs \ {j})
    BY <1>0, <2>1, FinishedRenameKeeps
  <2>3. GoodIntent(ses.pending)
    BY <1>0 DEF DocInv, SlotFits
  <2> HIDE DEF done
  <2>4. SameChecks(done, ses')
    BY <2>1, <2>2, <2>3, PendingKeeps
  <2> QED
    BY <1>1, <2>1, <2>2, <2>4 DEF SameChecks
<1>13. ASSUME NEW c \in checks, FinishCheck(c) PROVE LookInv(ses', checks')
  <2> DEFINE found == FinishedCheck(ses, c)
             idle == [found EXCEPT !.recheck = FALSE]
  <2>1. /\ ses' = (IF found.recheck THEN BeginExternalCheck(idle) ELSE idle)
        /\ checks' = (checks \ {c}) \cup (IF found.recheck THEN ChecksStarted(idle) ELSE {})
        /\ c.gen = ses.gen
    BY <1>13 DEF FinishCheck
  <2>2. /\ found \in Sessions /\ ~found.checking
        /\ \/ Fresh(ses, found, ses.path, c.found)
           \/ SameDocument(ses, found)
    BY <1>0, FinishedCheckFacts DEF LookInv
  <2> HIDE DEF found
  <2>3. idle \in Sessions /\ idle.gen = found.gen /\ ~idle.checking /\ ~idle.recheck
    BY <2>2 DEF Sessions
  <2>4. LookInv(idle, checks \ {c})
    <3> HIDE DEF idle
    <3>1. CASE SameDocument(ses, found)
      BY <1>0, <2>1, <2>3, <3>1, FinishKeepsLook DEF SameDocument
    <3>2. CASE Fresh(ses, found, ses.path, c.found)
      <4>1. idle.gen = ses.gen + 1
        BY <2>3, <3>2 DEF Fresh
      <4>2. checks \ {c} \subseteq Checks /\ \A d \in checks : d.gen <= ses.gen
        BY <1>0 DEF LookInv
      <4>3. ses.gen \in Nat /\ \A d \in checks : d.gen \in Nat
        BY <1>0, <4>2 DEF Sessions, Checks, LookInv
      <4> QED
        BY <2>3, <4>1, <4>2, <4>3 DEF LookInv
    <3> QED
      BY <2>2, <3>1, <3>2
  <2> HIDE DEF idle
  <2>5. CASE found.recheck
    BY <2>1, <2>3, <2>4, <2>5, BeginCheckKeeps
  <2>6. CASE ~found.recheck
    BY <2>1, <2>4, <2>6
  <2> QED
    BY <2>5, <2>6
<1>14. CASE ConfirmOverwrite
  <2> DEFINE asked == ApproveResolution(ses)
             a == Approval(asked, "overwrite", prompt.shown)
  <2>1. asked \in Sessions /\ SameDocument(ses, asked) /\ SameChecks(ses, asked)
    BY <1>0, ApproveFacts
  <2>2. a \in Approvals
    <3> HIDE DEF asked
    <3> QED
      BY <1>0, <2>1 DEF Approval, Approvals, Surroundings, Prompts, Kinds, Sessions
  <2>3. SaveFrom(asked, Confirmed(a), jobs) /\ checks' = checks
    BY <1>14 DEF ConfirmOverwrite
  <2> HIDE DEF asked, a
  <2>4. DocInv(asked, jobs)
    BY <1>0, <2>1, SameKeeps
  <2>5. SameChecks(asked, ses')
    BY <2>2, <2>3, <2>4, IntentFacts, RequestKeeps DEF SaveFrom
  <2> QED
    BY <1>1, <2>1, <2>3, <2>5 DEF SameChecks
<1>15. CASE ConfirmReload
  <2> DEFINE asked == ApproveResolution(ses)
  <2>1. asked \in Sessions /\ SameChecks(ses, asked)
    BY <1>0, ApproveFacts
  <2>2. (ses' = asked \/ ses' = [asked EXCEPT !.verify = asked.serial]) /\ checks' = checks
    BY <1>15 DEF ConfirmReload
  <2> HIDE DEF asked
  <2>3. SameChecks(ses, ses')
    BY <2>1, <2>2 DEF Sessions, SameChecks
  <2> QED
    BY <1>1, <2>2, <2>3
<1>16. ASSUME NEW v \in verifies, FinishVerify(v) PROVE LookInv(ses', checks')
  <2>1. ses' = FinishedVerify(ses, v) /\ checks' = checks /\ v \in Verifies
    BY <1>0, <1>16 DEF FinishVerify, Surroundings
  <2> QED
    BY <1>0, <1>1, <1>3, <2>1, FinishedVerifyFacts
<1>17. ASSUME NEW latest \in BOOLEAN, FinishOpen(latest) PROVE LookInv(ses', checks')
  <2>1. CASE OpenIsRefused(latest)
    BY <1>1, <1>2, <1>17, <2>1 DEF FinishOpen
  <2>2. CASE ~OpenIsRefused(latest)
    <3>1. /\ ses' = Adopt(ses, opening.path, opening.found) /\ checks' = checks
          /\ opening.found # NoFile
      BY <1>17, <2>2 DEF FinishOpen, OpenIsRefused
    <3>2. opening.path \in Paths \cup {NoPath} /\ opening.found \in Contents
      BY <1>0, <3>1 DEF Surroundings, Tasks, Versions
    <3>3. Fresh(ses, ses', opening.path, opening.found)
      BY <1>0, <3>1, <3>2, AdoptFacts
    <3> QED
      BY <1>3, <3>1, <3>3
  <2> QED
    BY <2>1, <2>2
<1>18. ASSUME NEW kind \in {"overwrite", "reload"}, Ask(kind) PROVE LookInv(ses', checks')
  BY <1>1, <1>2, <1>18 DEF Ask
<1>19. ASSUME NEW p \in Paths, StartOpen(p) PROVE LookInv(ses', checks')
  BY <1>1, <1>2, <1>19 DEF StartOpen
<1>20. ASSUME NEW c \in checks, ReadForCheck(c) \/ CheckFails(c)
       PROVE  LookInv(ses', checks')
  <2>1. c \in Checks /\ WritesLanded \in Nat /\ NoFile \in Versions
    BY <1>0, LandedFacts DEF LookInv, Versions, IInv
  <2>2. disk[c.path] \in Versions
    BY <1>0, <2>1 DEF Surroundings, Checks
  <2>3. PICK d \in Checks : d.gen = c.gen /\ checks' = (checks \ {c}) \cup {d}
    <3>1. CASE ReadForCheck(c)
      <4> DEFINE d == [c EXCEPT !.read = "read", !.found = disk[c.path], !.after = WritesLanded]
      <4>1. d \in Checks /\ d.gen = c.gen
        BY <2>1, <2>2 DEF Checks, Reads
      <4> QED
        BY <3>1, <4>1, Zenon DEF ReadForCheck
    <3>2. CASE CheckFails(c)
      <4> DEFINE d == [c EXCEPT !.read = "unreadable", !.after = WritesLanded]
      <4>1. d \in Checks /\ d.gen = c.gen
        BY <2>1 DEF Checks, Reads
      <4> QED
        BY <3>2, <4>1, Zenon DEF CheckFails
    <3> QED
      BY <1>20, <3>1, <3>2
  <2>4. ses' = ses
    BY <1>20 DEF ReadForCheck, CheckFails
  <2> QED
    BY <1>0, <2>3, <2>4, ReadKeepsLook
<1>21. ASSUME NEW c \in checks, DropCheck(c) PROVE LookInv(ses', checks')
  BY <1>0, <1>21, DropKeepsLook DEF DropCheck
<1>22. ASSUME NEW v \in verifies, ReadForVerify(v) \/ VerifyFails(v) \/ DropVerify(v)
       PROVE  LookInv(ses', checks')
  BY <1>1, <1>2, <1>22 DEF ReadForVerify, VerifyFails, DropVerify
<1>23. CASE SwitchTab \/ StartTrash \/ Cancel \/ LoadFile \/ MoveToTrash
  BY <1>1, <1>2, <1>23 DEF SwitchTab, StartTrash, Cancel, LoadFile, MoveToTrash
<1>24. ASSUME NEW p \in Paths, NEW v \in Versions, ExternalChange(p, v)
       PROVE  LookInv(ses', checks')
  BY <1>1, <1>2, <1>24 DEF ExternalChange
<1> QED
  BY <1>4, <1>5, <1>7, <1>8, <1>9, <1>10, <1>11, <1>12, <1>13, <1>14, <1>15,
     <1>16, <1>17, <1>18, <1>19, <1>20, <1>21, <1>22, <1>23, <1>24, Zenon
     DEF Step, UserStep, WorkerStep, ViewStep


\* A task of the background executor that starts, or that has its result.
LEMMA TaskFacts ==
  /\ Idle \in Tasks
  /\ \A p \in Paths \cup {NoPath} : [Idle EXCEPT !.stage = "running", !.path = p] \in Tasks
  /\ \A t \in Tasks : [t EXCEPT !.stage = "done"] \in Tasks
  /\ \A t \in Tasks, v \in Versions : [t EXCEPT !.stage = "done", !.found = v] \in Tasks
<1>1. Idle \in Tasks
  BY DEF Idle, Tasks, Versions
<1>2. \A p \in Paths \cup {NoPath} : [Idle EXCEPT !.stage = "running", !.path = p] \in Tasks
  BY <1>1 DEF Tasks
<1>3. \A t \in Tasks : [t EXCEPT !.stage = "done"] \in Tasks
  BY DEF Tasks
<1>4. \A t \in Tasks, v \in Versions : [t EXCEPT !.stage = "done", !.found = v] \in Tasks
  BY DEF Tasks
<1> QED
  BY <1>1, <1>2, <1>3, <1>4

\* What is shown is one of the problems the view knows.
LEMMA ProblemFacts ==
  ASSUME NEW s \in Sessions, problem \in Problems
  PROVE  ProblemFor(s) \in Problems
<1>1. s.external \in {"inSync", "changed", "missing", "unverifiable"}
  BY DEF Sessions
<1> QED
  BY <1>1 DEF ProblemFor, ClearExternalProblem, Problems

\* Every step keeps the type of what surrounds the session.
LEMMA AroundStep ==
  ASSUME IInv, Step
  PROVE  Surroundings'
<1>0. /\ DocInv(ses, jobs) /\ ses \in Sessions /\ jobs \subseteq Jobs
      /\ checks \subseteq Checks /\ Surroundings
  BY DEF IInv, DocInv, LookInv
<1>1. /\ disk \in [Paths -> Versions] /\ verifies \subseteq Verifies /\ prompt \in Prompts
      /\ opening \in Tasks /\ (opening.stage # "idle" => opening.path \in Paths)
      /\ trash \in Tasks /\ problem \in Problems /\ budget \in Nat
      /\ known \subseteq Versions /\ tried \in Nat
      /\ (trash # Idle => "trash" \in UserActions)
  BY <1>0 DEF Surroundings
<1>2. NoFile \in Versions /\ Contents \subseteq Versions /\ NoPrompt \in Prompts
  BY DEF Versions, NoPrompt, Prompts, Kinds
<1>3. ASSUME NEW move, Spend(move) PROVE budget' \in Nat
  BY <1>1, <1>3 DEF Spend
<1>4. ASSUME UNCHANGED <<disk, verifies, prompt, opening, trash, problem, known, tried>>,
             budget' \in Nat
      PROVE  Surroundings'
  BY <1>1, <1>4 DEF Surroundings
<1>5. ASSUME NEW c \in Contents, Edit(c) \/ Compose(c) PROVE Surroundings'
  BY <1>3, <1>4, <1>5 DEF Edit, Compose
<1>6. CASE EndCompose \/ AutosaveFires \/ DeliverNotice \/ DeferredFires
  BY <1>1, <1>4, <1>6 DEF EndCompose, AutosaveFires, DeliverNotice, DeferredFires
<1>7. CASE Save \/ Recheck \/ BeginRename \/ SwitchTab
  BY <1>3, <1>4, <1>7 DEF Save, RequestSave, Recheck, BeginRename, SwitchTab
<1>8. ASSUME NEW p \in Paths, SaveAs(p) \/ AutoName(p) PROVE Surroundings'
  BY <1>3, <1>4, <1>8 DEF SaveAs, AutoName, RequestSave
<1>9. ASSUME NEW d \in [Paths -> Versions], disk' = d,
             UNCHANGED <<verifies, prompt, opening, trash, problem, known, tried>>,
             budget' \in Nat
      PROVE  Surroundings'
  BY <1>1, <1>9 DEF Surroundings
<1>10. ASSUME NEW j \in jobs, RunWrite(j) \/ RunRename(j) \/ JobFails(j) PROVE Surroundings'
  <2>1. j.doc \in Versions /\ disk[j.path] \in Versions
    BY <1>0, <1>1, <1>2 DEF Jobs
  <2>2. /\ [disk EXCEPT ![j.path] = j.doc] \in [Paths -> Versions]
        /\ \A to \in Paths : [disk EXCEPT ![to] = disk[j.path], ![j.path] = NoFile]
                               \in [Paths -> Versions]
    BY <1>1, <1>2, <2>1
  <2>3. CASE RunWrite(j)
    BY <1>1, <1>9, <2>2, <2>3 DEF RunWrite
  <2>4. CASE RunRename(j)
    BY <1>1, <1>9, <2>2, <2>4 DEF RunRename
  <2>5. CASE JobFails(j)
    BY <1>3, <1>4, <2>5 DEF JobFails
  <2> QED
    BY <1>10, <2>3, <2>4, <2>5
<1>11. ASSUME NEW j \in jobs, FinishSave(j) PROVE Surroundings'
  <2> DEFINE done == FinishedSave(ses, j)
             conflict == j.status = "conflict"
             looked == IF conflict THEN BeginExternalCheck(done) ELSE done
  <2>1. /\ j.kind # "rename" /\ j \in Jobs
        /\ Reported(looked, j.ticket.rev)
        /\ problem' = CASE j.status = "done" -> "none"
                        [] j.status = "conflict" -> "conflict"
                        [] j.status = "failed" -> "failed"
        /\ known' = IF j.status = "done" THEN known \cup {j.doc} ELSE known
        /\ UNCHANGED <<disk, verifies, prompt, opening, trash, budget>>
        /\ j.status # "running"
    BY <1>0, <1>11 DEF FinishSave
  <2>2. j.status \in {"done", "conflict", "failed"} /\ j.doc \in Versions
        /\ j.ticket.rev \in Nat
    BY <1>2, <2>1 DEF Jobs, Tickets
  <2>3. done \in Sessions /\ DocInv(TakePending(done), jobs \ {j})
    BY <1>0, <2>1, FinishedSaveKeeps
  <2>4. conflict \in BOOLEAN
    OBVIOUS
  <2> HIDE DEF done, conflict
  <2>5. looked.rev \in Nat
    BY <2>3, <2>4, LookedFacts DEF Sessions
  <2> HIDE DEF looked
  <2>6. tried' \in Nat
    BY <2>1, <2>2, <2>5 DEF Reported
  <2>7. problem' \in Problems
    BY <2>1, <2>2 DEF Problems
  <2>8. known' \subseteq Versions
    BY <1>1, <2>1, <2>2
  <2> QED
    BY <1>1, <2>1, <2>6, <2>7, <2>8 DEF Surroundings
<1>12. ASSUME NEW j \in jobs, FinishRename(j) PROVE Surroundings'
  <2> DEFINE done == ReleaseSlot(FollowRename(ses, j))
  <2>1. /\ j.kind = "rename" /\ Reported(done, tried)
        /\ UNCHANGED <<disk, verifies, prompt, opening, trash, problem, budget, known>>
    BY <1>12 DEF FinishRename
  <2>2. done \in Sessions
    BY <1>0, <2>1, FinishedRenameKeeps
  <2> HIDE DEF done
  <2>3. tried' \in Nat
    BY <1>1, <2>1, <2>2 DEF Reported, Sessions
  <2> QED
    BY <1>1, <2>1, <2>3 DEF Surroundings
<1>13. ASSUME NEW c \in Versions, NewDocument(c),
              UNCHANGED <<disk, prompt, trash, budget>>,
              verifies' \subseteq Verifies, opening' \in {opening, Idle}
       PROVE  Surroundings'
  <2>1. known' \subseteq Versions /\ tried' \in Nat /\ problem' \in Problems
    BY <1>13 DEF NewDocument, Problems
  <2>2. Idle.stage = "idle"
    BY DEF Idle
  <2>3. opening' \in Tasks /\ (opening'.stage # "idle" => opening'.path \in Paths)
    BY <1>1, <1>13, <2>2, TaskFacts
  <2> QED
    BY <1>1, <1>13, <2>1, <2>3 DEF Surroundings
<1>14. ASSUME NEW c \in checks, FinishCheck(c) PROVE Surroundings'
  <2> DEFINE found == FinishedCheck(ses, c)
  <2>1. /\ UNCHANGED <<disk, verifies, prompt, opening, trash, budget>>
        /\ \/ NewDocument(c.found)
           \/ /\ problem' = IF CheckIsCurrent(ses, c) THEN ProblemFor(found) ELSE problem
              /\ UNCHANGED <<known, tried>>
    BY <1>14 DEF FinishCheck
  <2>2. found \in Sessions /\ c.found \in Versions
    BY <1>0, FinishedCheckFacts DEF Checks
  <2> HIDE DEF found
  <2>3. CASE NewDocument(c.found)
    BY <1>1, <1>13, <2>1, <2>2, <2>3
  <2>4. CASE /\ problem' = IF CheckIsCurrent(ses, c) THEN ProblemFor(found) ELSE problem
             /\ UNCHANGED <<known, tried>>
    <3>1. problem' \in Problems
      BY <1>1, <2>2, <2>4, ProblemFacts
    <3> QED
      BY <1>1, <2>1, <2>4, <3>1 DEF Surroundings
  <2> QED
    BY <2>1, <2>3, <2>4
<1>15. ASSUME NEW v \in verifies, FinishVerify(v) PROVE Surroundings'
  <2> DEFINE found == FinishedVerify(ses, v)
  <2>1. /\ ses' = found /\ verifies' = verifies \ {v}
        /\ UNCHANGED <<disk, prompt, opening, trash, budget>>
        /\ \/ NewDocument(v.found)
           \/ /\ problem' = IF ses.ime \/ SaveInFlight(ses) THEN problem ELSE ProblemFor(ses')
              /\ UNCHANGED <<known, tried>>
    BY <1>15 DEF FinishVerify
  <2>2. v \in Verifies /\ verifies' \subseteq Verifies
    BY <1>1, <2>1
  <2>3. found \in Sessions /\ v.found \in Versions
    BY <1>0, <2>2, FinishedVerifyFacts DEF Verifies
  <2> HIDE DEF found
  <2>4. CASE NewDocument(v.found)
    BY <1>1, <1>13, <2>1, <2>2, <2>3, <2>4
  <2>5. CASE /\ problem' = IF ses.ime \/ SaveInFlight(ses) THEN problem ELSE ProblemFor(ses')
             /\ UNCHANGED <<known, tried>>
    <3>1. problem' \in Problems
      BY <1>1, <2>1, <2>3, <2>5, ProblemFacts
    <3> QED
      BY <1>1, <2>1, <2>2, <2>5, <3>1 DEF Surroundings
  <2> QED
    BY <2>1, <2>4, <2>5
<1>16. ASSUME NEW kind \in {"overwrite", "reload"}, Ask(kind) PROVE Surroundings'
  <2>1. prompt' \in Prompts
    BY <1>0, <1>16 DEF Ask, Prompts, Kinds, Sessions
  <2>2. budget' \in Nat /\ UNCHANGED <<disk, verifies, opening, trash, problem, known, tried>>
    BY <1>3, <1>16 DEF Ask
  <2> QED
    BY <1>1, <2>1, <2>2 DEF Surroundings
<1>17. CASE Cancel
  BY <1>1, <1>2, <1>17 DEF Cancel, Surroundings
<1>18. CASE ConfirmOverwrite
  <2>1. prompt.shown \in Versions
    BY <1>1 DEF Prompts
  <2>2. /\ prompt' = NoPrompt /\ known' = known \cup {prompt.shown}
        /\ UNCHANGED <<disk, verifies, opening, trash, problem, budget, tried>>
    BY <1>18 DEF ConfirmOverwrite
  <2> QED
    BY <1>1, <1>2, <2>1, <2>2 DEF Surroundings
<1>19. CASE ConfirmReload
  <2> DEFINE asked == ApproveResolution(ses)
             a == Approval(asked, "reload", prompt.shown)
             v == [approval |-> a, gen |-> ses.gen, rev |-> ses.rev, path |-> ses.path,
                   read |-> "reading", found |-> NoFile, after |-> 0]
  <2>1. asked \in Sessions
    BY <1>0, ApproveFacts
  <2>2. a \in Approvals
    <3> HIDE DEF asked
    <3> QED
      BY <1>1, <2>1 DEF Approval, Approvals, Prompts, Kinds, Sessions
  <2>3. Tracked(ses) => v \in Verifies
    <3> HIDE DEF a
    <3> QED
      BY <1>0, <1>2, <2>2 DEF Verifies, Reads, Sessions, Tracked
  <2>4. /\ prompt' = NoPrompt
        /\ verifies' = verifies \/ (Tracked(ses) /\ verifies' = verifies \cup {v})
        /\ UNCHANGED <<disk, opening, trash, problem, budget, known, tried>>
    BY <1>19 DEF ConfirmReload
  <2> HIDE DEF v
  <2>5. verifies' \subseteq Verifies
    BY <1>1, <2>3, <2>4
  <2> QED
    BY <1>1, <1>2, <2>4, <2>5 DEF Surroundings
<1>20. ASSUME NEW c \in checks, ReadForCheck(c) \/ CheckFails(c) \/ DropCheck(c)
       PROVE  Surroundings'
  BY <1>1, <1>3, <1>4, <1>20 DEF ReadForCheck, CheckFails, DropCheck
<1>21. ASSUME NEW v \in verifies, ReadForVerify(v) \/ VerifyFails(v) \/ DropVerify(v)
       PROVE  Surroundings'
  <2>1. v \in Verifies /\ disk[v.path] \in Versions /\ WritesLanded \in Nat
    BY <1>0, <1>1, LandedFacts DEF Verifies
  <2>2. [v EXCEPT !.read = "read", !.found = disk[v.path], !.after = WritesLanded] \in Verifies
    BY <2>1 DEF Verifies, Reads
  <2>3. [v EXCEPT !.read = "unreadable"] \in Verifies
    BY <2>1 DEF Verifies, Reads
  <2>4. verifies' \subseteq Verifies
    BY <1>1, <1>21, <2>2, <2>3 DEF ReadForVerify, VerifyFails, DropVerify
  <2>5. budget' \in Nat /\ UNCHANGED <<disk, prompt, opening, trash, problem, known, tried>>
    BY <1>1, <1>3, <1>21 DEF ReadForVerify, VerifyFails, DropVerify
  <2> QED
    BY <1>1, <2>4, <2>5 DEF Surroundings
<1>22. ASSUME NEW p \in Paths, StartOpen(p) PROVE Surroundings'
  <2>1. /\ opening' = [Idle EXCEPT !.stage = "running", !.path = p] /\ budget' \in Nat
        /\ UNCHANGED <<disk, verifies, prompt, trash, problem, known, tried>>
    BY <1>3, <1>22 DEF StartOpen
  <2>2. opening' \in Tasks
    BY <2>1, TaskFacts
  <2>3. opening'.path \in Paths
    BY <2>1, TaskFacts DEF Idle
  <2> QED
    BY <1>1, <2>1, <2>2, <2>3 DEF Surroundings
<1>23. CASE LoadFile
  <2>1. opening.stage = "running" /\ opening.path \in Paths /\ disk[opening.path] \in Versions
    BY <1>1, <1>23 DEF LoadFile
  <2>2. opening' = [opening EXCEPT !.stage = "done", !.found = disk[opening.path]]
    BY <1>23 DEF LoadFile
  <2>3. opening' \in Tasks
    BY <1>1, <2>1, <2>2, TaskFacts
  <2>4. opening'.path \in Paths
    BY <1>1, <2>1, <2>2 DEF Tasks
  <2>5. UNCHANGED <<disk, verifies, prompt, trash, problem, budget, known, tried>>
    BY <1>23 DEF LoadFile
  <2> QED
    BY <1>1, <2>3, <2>4, <2>5 DEF Surroundings
<1>24. ASSUME NEW latest \in BOOLEAN, FinishOpen(latest) PROVE Surroundings'
  <2>1. /\ opening' = Idle /\ UNCHANGED <<disk, verifies, prompt, trash, budget>>
        /\ \/ UNCHANGED <<problem, known, tried>>
           \/ NewDocument(opening.found)
    BY <1>24 DEF FinishOpen
  <2>2. opening.found \in Versions
    BY <1>1 DEF Tasks
  <2>3. Idle.stage = "idle"
    BY DEF Idle
  <2>4. CASE NewDocument(opening.found)
    BY <1>1, <1>13, <2>1, <2>2, <2>4
  <2>5. CASE UNCHANGED <<problem, known, tried>>
    BY <1>1, <2>1, <2>3, <2>5, TaskFacts DEF Surroundings
  <2> QED
    BY <2>1, <2>4, <2>5
<1>25. CASE StartTrash \/ MoveToTrash \/ FinishTrash
  <2>1. trash' \in Tasks
    <3>1. CASE StartTrash
      <4>1. ses.path \in Paths \cup {NoPath}
        BY <1>0 DEF Sessions
      <4> QED
        BY <3>1, <4>1, TaskFacts DEF StartTrash
    <3>2. CASE MoveToTrash \/ FinishTrash
      BY <1>1, <3>2, TaskFacts DEF MoveToTrash, FinishTrash
    <3> QED
      BY <1>25, <3>1, <3>2
  <2>2. /\ disk' \in [Paths -> Versions]
        /\ trash' # Idle => "trash" \in UserActions
    BY <1>1, <1>2, <1>25 DEF StartTrash, MoveToTrash, FinishTrash, Spend, Idle
  <2>3. budget' \in Nat /\ UNCHANGED <<verifies, prompt, opening, problem, known, tried>>
    BY <1>1, <1>3, <1>25 DEF StartTrash, MoveToTrash, FinishTrash
  <2> QED
    BY <1>1, <2>1, <2>2, <2>3 DEF Surroundings
<1>26. ASSUME NEW p \in Paths, NEW v \in Versions, ExternalChange(p, v) PROVE Surroundings'
  <2>1. [disk EXCEPT ![p] = v] \in [Paths -> Versions]
    BY <1>1
  <2> QED
    BY <1>3, <1>9, <1>26, <2>1 DEF ExternalChange
<1> QED
  BY <1>5, <1>6, <1>7, <1>8, <1>10, <1>11, <1>12, <1>14, <1>15, <1>16, <1>17, <1>18,
     <1>19, <1>20, <1>21, <1>22, <1>23, <1>24, <1>25, <1>26, Zenon
     DEF Step, UserStep, WorkerStep, ViewStep


\* Every step keeps the timers, the notice and the histories Boolean.
LEMMA FlagStep ==
  ASSUME IInv, Step, stirred' = Stir, cut' = Cut
  PROVE  Flags'
<1>1. /\ armed \in BOOLEAN /\ deferred \in BOOLEAN /\ notice \in BOOLEAN
      /\ active \in BOOLEAN /\ stirred \in BOOLEAN /\ cut \in BOOLEAN
  BY DEF IInv, Flags
<1>2. stirred' \in BOOLEAN /\ cut' \in BOOLEAN
  BY <1>1, Zenon DEF Stir, Cut
<1> DEFINE Timers == armed' \in BOOLEAN /\ deferred' \in BOOLEAN
           Rest == notice' \in BOOLEAN /\ active' \in BOOLEAN
<1>3. ASSUME NEW c, NewDocument(c) PROVE Timers
  BY <1>3, Zenon DEF NewDocument
<1>4. CASE UserStep
  <2>1. ASSUME NEW c \in Contents, Edit(c) \/ Compose(c) PROVE Timers /\ Rest
    BY <1>1, <2>1, Zenon DEF Edit, Compose, AutosaveDue
  <2>2. ASSUME EndCompose \/ Save \/ Recheck \/ BeginRename PROVE Timers /\ Rest
    BY <1>1, <2>2, Zenon DEF EndCompose, Save, RequestSave, Recheck, BeginRename
  <2>3. ASSUME SwitchTab \/ StartTrash \/ Cancel PROVE Timers /\ Rest
    BY <1>1, <2>3, Zenon DEF SwitchTab, StartTrash, Cancel
  <2>4. ASSUME NEW p \in Paths, SaveAs(p) \/ AutoName(p) \/ StartOpen(p) PROVE Timers /\ Rest
    BY <1>1, <2>4, Zenon DEF SaveAs, AutoName, RequestSave, StartOpen
  <2>5. ASSUME NEW kind \in {"overwrite", "reload"}, Ask(kind) PROVE Timers /\ Rest
    BY <1>1, <2>5, Zenon DEF Ask
  <2>6. ASSUME ConfirmOverwrite \/ ConfirmReload PROVE Timers /\ Rest
    BY <1>1, <2>6, Zenon DEF ConfirmOverwrite, ConfirmReload
  <2> QED
    BY <1>2, <1>4, <2>1, <2>2, <2>3, <2>4, <2>5, <2>6, Zenon DEF UserStep, Flags
<1>5. CASE WorkerStep
  <2>1. ASSUME NEW j \in jobs, RunWrite(j) \/ RunRename(j) \/ JobFails(j)
        PROVE  Timers /\ Rest
    BY <1>1, <2>1, Zenon DEF RunWrite, RunRename, JobFails, Noticed
  <2>2. ASSUME NEW c \in checks, ReadForCheck(c) \/ CheckFails(c) PROVE Timers /\ Rest
    BY <1>1, <2>2, Zenon DEF ReadForCheck, CheckFails
  <2>3. ASSUME NEW v \in verifies, ReadForVerify(v) \/ VerifyFails(v) PROVE Timers /\ Rest
    BY <1>1, <2>3, Zenon DEF ReadForVerify, VerifyFails
  <2>4. ASSUME LoadFile \/ MoveToTrash PROVE Timers /\ Rest
    BY <1>1, <2>4, Zenon DEF LoadFile, MoveToTrash, Noticed
  <2> QED
    BY <1>2, <1>5, <2>1, <2>2, <2>3, <2>4, Zenon DEF WorkerStep, Flags
<1>6. CASE ViewStep
  <2>1. ASSUME AutosaveFires \/ DeferredFires \/ DeliverNotice \/ FinishTrash PROVE Timers /\ Rest
    BY <1>1, <2>1, Zenon DEF AutosaveFires, AutosaveDue, DeferredFires, DeliverNotice,
                             FinishTrash
  <2>2. ASSUME NEW j \in jobs, FinishSave(j) \/ FinishRename(j) PROVE Timers /\ Rest
    BY <1>1, <2>2, Zenon DEF FinishSave, FinishRename, AutosaveDue
  <2>3. ASSUME NEW c \in checks, DropCheck(c) \/ FinishCheck(c) PROVE Timers /\ Rest
    BY <1>1, <1>3, <2>3, Zenon DEF DropCheck, FinishCheck
  <2>4. ASSUME NEW v \in verifies, DropVerify(v) \/ FinishVerify(v) PROVE Timers /\ Rest
    BY <1>1, <1>3, <2>4, Zenon DEF DropVerify, FinishVerify
  <2>5. ASSUME NEW latest \in BOOLEAN, FinishOpen(latest) PROVE Timers /\ Rest
    BY <1>1, <1>3, <2>5, Zenon DEF FinishOpen
  <2> QED
    BY <1>2, <1>6, <2>1, <2>2, <2>3, <2>4, <2>5, Zenon DEF ViewStep, Flags
<1>7. ASSUME NEW p \in Paths, NEW v \in Versions, ExternalChange(p, v) PROVE Timers /\ Rest
  BY <1>1, <1>7, Zenon DEF ExternalChange, Noticed
<1> QED
  BY <1>2, <1>4, <1>5, <1>6, <1>7, Zenon DEF Step, Flags

-----------------------------------------------------------------------------
(* The invariant holds in every reachable state.                           *)

\* A session just opened or created, and nothing running.
LEMMA NewSessionFacts ==
  ASSUME NEW p \in Paths \cup {NoPath}, NEW c \in Contents, NEW b \in Versions,
         p # NoPath => b = c
  PROVE  LET s == NewSession(p, c, b) IN DocInv(s, {}) /\ LookInv(s, {}) /\ s.baseline = b
<1> DEFINE s == NewSession(p, c, b)
<1>1. s \in Sessions
  BY NoIntentFacts DEF NewSession, Sessions, Versions
<1>2. /\ s.path = p /\ s.text = c /\ s.baseline = b /\ s.rev = 0 /\ s.saved = 0
      /\ s.inFlight = NoTicket /\ s.pending = NoIntent /\ ~s.checking /\ ~s.recheck
  BY DEF NewSession
<1> HIDE DEF s
<1> QED
  BY <1>1, <1>2, NoIntentFacts
     DEF DocInv, SlotFits, Accepted, LookInv, SaveInFlight, Tracked, IsDirty, s

\* The invariant holds at the start.
LEMMA InitIInv == Init => IInv
<1> SUFFICES ASSUME Init PROVE IInv
  OBVIOUS
<1> DEFINE Begun == /\ DocInv(ses, {}) /\ LookInv(ses, {}) /\ ses.baseline \in Versions
                    /\ notice \in BOOLEAN
<1>1. Begun
  <2>1. ASSUME NEW p \in Paths, disk[p] # NoFile, ses = NewSession(p, disk[p], disk[p]),
               notice = TRUE
        PROVE  Begun
    <3>1. disk[p] \in Contents /\ disk[p] \in Versions
      BY <2>1 DEF Init, Versions
    <3> QED
      BY <2>1, <3>1, NewSessionFacts
  <2>2. ASSUME NEW c \in Contents, ses = NewSession(NoPath, c, NoFile), notice = FALSE
        PROVE  Begun
    <3>1. NoFile \in Versions
      BY DEF Versions
    <3> QED
      BY <2>2, <3>1, NewSessionFacts
  <2> QED
    BY <2>1, <2>2, Zenon DEF Init
<1>2. Surroundings
  <2>1. NoPrompt \in Prompts /\ Idle.stage = "idle" /\ Budget \in Nat
    BY SessionAssumption DEF NoPrompt, Prompts, Kinds, Versions, Idle
  <2> QED
    BY <1>1, <2>1, TaskFacts DEF Init, Surroundings, Problems
<1>3. Flags
  BY <1>1, Zenon DEF Init, Flags
<1> QED
  BY <1>1, <1>2, <1>3 DEF Init, IInv

\* Every step keeps the invariant, and so does a step that changes nothing.
LEMMA NextIInv == IInv /\ [Next]_vars => IInv'
<1> SUFFICES ASSUME IInv, [Next]_vars PROVE IInv'
  OBVIOUS
<1>1. CASE Next
  BY <1>1, DocStep, LookStep, AroundStep, FlagStep, Zenon DEF Next, IInv
<1>2. CASE UNCHANGED vars
  BY <1>2, Zenon DEF vars, IInv, Surroundings, Flags
<1> QED
  BY <1>1, <1>2

\* The inductive invariant: what the session remembers of its document, the job
\* in its slot and the check that is out fit together in every reachable state.
THEOREM SessionInvariant == Spec => []IInv
  BY InitIInv, NextIInv, PTL DEF Spec

\* Every variable has its type, whatever was edited, saved, read or answered.
THEOREM SessionTypeOK == Spec => []TypeOK
<1>1. IInv => TypeOK
  BY Zenon DEF IInv, DocInv, LookInv, Surroundings, Problems, Flags, TypeOK
<1> QED
  BY <1>1, SessionInvariant, PTL

\* The slot serialises writes and renames, and a job's result always meets the
\* document it was started from (session.rs: start_write, begin_rename,
\* finish_save, replace_with_disk).
THEOREM SlotSerialises == Spec => []SlotInv
<1>1. IInv => SlotInv
  BY Zenon DEF IInv, DocInv, SlotFits, JobFits, SlotInv
<1> QED
  BY <1>1, SessionInvariant, PTL

\* One check of the current document at a time, the session waits for exactly
\* that one, and a follow-up is owed only meanwhile (session.rs:
\* begin_external_check, complete_external_check, reset_external_tracking).
THEOREM OneCheckAtATime == Spec => []CheckSlotInv
<1>1. IInv => CheckSlotInv
  BY Zenon DEF IInv, LookInv, CheckSlotInv
<1> QED
  BY <1>1, SessionInvariant, PTL

\* Both together: one job and one check, each waited for by its own document
\* (session.rs: start_write, begin_external_check).
THEOREM OneJobOneCheck == Spec => []OneAtATime
<1>1. SlotInv /\ CheckSlotInv => OneAtATime
  BY DEF OneAtATime
<1> QED
  BY <1>1, SlotSerialises, OneCheckAtATime, PTL

\* A document shown as saved holds the version it came from or was written as.
THEOREM CleanMeansBaseline == Spec => []CleanIsBaseline
<1>1. IInv => CleanIsBaseline
  BY Zenon DEF IInv, DocInv, Accepted, CleanIsBaseline
<1> QED
  BY <1>1, SessionInvariant, PTL

-----------------------------------------------------------------------------
(* What a session may forget: how the methods move what the session knows   *)
(* of the disk, its counters and the answer it still waits to act on.       *)

SeenFits(s) == s.external # "changed" => s.seen = NoFile
LiveFits(s) == s.live \in {0, s.serial}
Shown(s) == s.external = "inSync" => s.present

\* No counter goes back; and while an answer lives, what it was given about is
\* what the session knows.
Onward(s, t) ==
  /\ t.gen >= s.gen /\ (t.gen = s.gen => t.rev >= s.rev)
  /\ t.serial = s.serial /\ t.saves >= s.saves
  /\ t.live \in {s.live, 0}
  /\ SeenFits(s) => /\ SeenFits(t)
                    /\ t.live # 0 => t.external = s.external /\ t.seen = s.seen
  /\ "trash" \notin UserActions /\ Shown(s) => Shown(t)

\* Not even what is known of the disk has changed.
SameView(s, t) ==
  /\ t.gen = s.gen /\ t.rev = s.rev /\ t.serial = s.serial /\ t.saves = s.saves
  /\ t.live \in {s.live, 0} /\ t.external = s.external /\ t.seen = s.seen
  /\ s.present => t.present

\* A session that knows the same has moved on from nothing.
LEMMA SameViewOnward ==
  ASSUME NEW s \in Sessions, NEW t, SameView(s, t)
  PROVE  Onward(s, t)
  BY DEF SameView, Onward, SeenFits, Shown, Sessions

\* Steps within one handler add up.
LEMMA OnwardOnward ==
  ASSUME NEW s \in Sessions, NEW t \in Sessions, NEW u \in Sessions,
         Onward(s, t), Onward(t, u)
  PROVE  Onward(s, u)
<1>1. /\ s.gen \in Nat /\ t.gen \in Nat /\ u.gen \in Nat /\ s.rev \in Nat /\ t.rev \in Nat
      /\ u.rev \in Nat /\ s.saves \in Nat /\ t.saves \in Nat /\ u.saves \in Nat
  BY DEF Sessions
<1>2. /\ u.gen >= s.gen /\ (u.gen = s.gen => u.rev >= s.rev)
      /\ u.serial = s.serial /\ u.saves >= s.saves
  BY <1>1 DEF Onward
<1>3. u.live \in {s.live, 0}
  BY DEF Onward
<1>4. SeenFits(s) => /\ SeenFits(u)
                     /\ u.live # 0 => u.external = s.external /\ u.seen = s.seen
  BY DEF Onward
<1>5. "trash" \notin UserActions /\ Shown(s) => Shown(u)
  BY DEF Onward
<1> QED
  BY <1>2, <1>3, <1>4, <1>5 DEF Onward

\* set_external forgets the answer unless it says again what was known.
LEMMA SetExternalOnward ==
  ASSUME NEW s \in Sessions,
         NEW state \in {"inSync", "changed", "missing", "unverifiable"},
         NEW c \in Versions, state # "changed" => c = NoFile,
         NEW present \in BOOLEAN, state = "inSync" => present
  PROVE  LET t == [SetExternal(s, state, c) EXCEPT !.present = present] IN
         t \in Sessions /\ Onward(s, t)
<1> DEFINE same == /\ state = s.external
                   /\ state # "unverifiable"
                   /\ state = "changed" => c = s.seen
           m == SetExternal(s, state, c)
           t == [m EXCEPT !.present = present]
<1>1. m \in Sessions
  BY SetExternalFacts
<1>2. /\ m.gen = s.gen /\ m.rev = s.rev /\ m.serial = s.serial /\ m.saves = s.saves
      /\ m.external = state /\ m.seen = c /\ m.live = IF same THEN s.live ELSE 0
  BY DEF SetExternal, Sessions
<1> HIDE DEF m
<1>3. /\ t.gen = s.gen /\ t.rev = s.rev /\ t.serial = s.serial /\ t.saves = s.saves
      /\ t.external = state /\ t.seen = c /\ t.live = (IF same THEN s.live ELSE 0)
      /\ t.present = present /\ t \in Sessions
  BY <1>1, <1>2 DEF Sessions
<1>4. s.gen \in Nat /\ s.rev \in Nat /\ s.saves \in Nat
  BY DEF Sessions
<1> HIDE DEF t
<1>5. Onward(s, t)
  BY <1>3, <1>4 DEF Onward, SeenFits, Shown
<1> QED
  BY <1>3, <1>5 DEF m, t

\* A read that could not be made leaves the mark of presence as it was.
LEMMA UnverifiableOnward ==
  ASSUME NEW s \in Sessions
  PROVE  LET t == SetExternal(s, "unverifiable", NoFile) IN t \in Sessions /\ Onward(s, t)
<1> DEFINE t == SetExternal(s, "unverifiable", NoFile)
<1>1. t \in Sessions
  BY SetExternalFacts DEF Versions
<1>2. /\ t.gen = s.gen /\ t.rev = s.rev /\ t.serial = s.serial /\ t.saves = s.saves
      /\ t.external = "unverifiable" /\ t.seen = NoFile /\ t.live = 0
  BY DEF SetExternal, Sessions
<1>3. s.gen \in Nat /\ s.rev \in Nat /\ s.saves \in Nat
  BY DEF Sessions
<1> HIDE DEF t
<1>4. Onward(s, t)
  BY <1>2, <1>3 DEF Onward, SeenFits, Shown
<1> QED
  BY <1>1, <1>4 DEF t

\* What a read found is noted with the answer forgotten, or already known.
LEMMA ObserveOnward ==
  ASSUME NEW s \in Sessions, NEW r \in Checks \cup Verifies
  PROVE  \A t \in {ObserveFailure(s, r), ObserveBaseline(s), ObserveChange(s, r.found)} :
           t \in Sessions /\ Onward(s, t)
<1>1. r.found \in Versions /\ NoFile \in Versions
  BY DEF Checks, Verifies, Versions
<1>2. LET t == [SetExternal(s, "missing", NoFile) EXCEPT !.present = FALSE] IN
        t \in Sessions /\ Onward(s, t)
  BY <1>1, SetExternalOnward
<1>3. ObserveFailure(s, r) \in Sessions /\ Onward(s, ObserveFailure(s, r))
  BY <1>2, UnverifiableOnward DEF ObserveFailure
<1>4. ObserveBaseline(s) \in Sessions /\ Onward(s, ObserveBaseline(s))
  BY <1>1, SetExternalOnward DEF ObserveBaseline
<1>5. ObserveChange(s, r.found) \in Sessions /\ Onward(s, ObserveChange(s, r.found))
  BY <1>1, SetExternalOnward DEF ObserveChange
<1> QED
  BY <1>3, <1>4, <1>5

\* A replaced document starts over, in sync, with no answer standing.
LEMMA ReplaceOnward ==
  ASSUME NEW s \in Sessions, NEW c \in Contents
  PROVE  Onward(s, ReplaceWithDisk(s, c))
<1> DEFINE m == [s EXCEPT !.text = c, !.rev = 0, !.saved = 0, !.gen = @ + 1, !.ime = FALSE,
                          !.baseline = c, !.present = TRUE, !.pending = NoIntent]
           t == ReplaceWithDisk(s, c)
<1>1. m.gen = s.gen + 1 /\ m.serial = s.serial /\ m.saves = s.saves /\ m.present
  BY DEF Sessions
<1>2. t = [m EXCEPT !.external = "inSync", !.seen = NoFile, !.checking = FALSE,
                    !.recheck = FALSE, !.live = 0]
  BY DEF ReplaceWithDisk, ResetExternalTracking
<1>3. /\ t.gen = s.gen + 1 /\ t.serial = s.serial /\ t.saves = s.saves /\ t.live = 0
      /\ t.external = "inSync" /\ t.seen = NoFile /\ t.present
  BY <1>1, <1>2 DEF Sessions
<1>4. s.gen \in Nat /\ s.saves \in Nat
  BY DEF Sessions
<1> HIDE DEF t
<1> QED
  BY <1>3, <1>4 DEF Onward, SeenFits, Shown, t

\* adopt does that and gives the slot back.
LEMMA AdoptOnward ==
  ASSUME NEW s \in Sessions, NEW p \in Paths \cup {NoPath}, NEW c \in Contents
  PROVE  Onward(s, Adopt(s, p, c))
<1> DEFINE r == ReplaceWithDisk(s, c)
           t == [r EXCEPT !.path = p, !.inFlight = NoTicket]
<1>1. r \in Sessions /\ Onward(s, r)
  BY ReplaceFacts, ReplaceOnward
<1> HIDE DEF r
<1>2. SameView(r, t)
  BY <1>1 DEF SameView, Sessions
<1>3. t \in Sessions
  BY <1>1, NoIntentFacts DEF Sessions
<1>4. Onward(s, t)
  BY <1>1, <1>2, <1>3, SameViewOnward, OnwardOnward
<1> QED
  BY <1>4 DEF Adopt, r

\* complete_external_check.
LEMMA FinishedCheckOnward ==
  ASSUME NEW s \in Sessions, NEW c \in Checks
  PROVE  Onward(s, FinishedCheck(s, c))
<1> DEFINE free == [s EXCEPT !.checking = FALSE]
           t == FinishedCheck(s, c)
<1>1. free \in Sessions /\ Onward(s, free)
  <2>1. free \in Sessions /\ SameView(s, free)
    BY DEF Sessions, SameView
  <2> QED
    BY <2>1, SameViewOnward
<1>2. CASE ~CheckIsCurrent(s, c)
  <2>1. t = [s EXCEPT !.checking = FALSE, !.recheck = s.recheck \/ c.path = s.path]
    BY <1>2 DEF FinishedCheck, Sessions
  <2>2. SameView(s, t)
    BY <2>1 DEF SameView, Sessions
  <2> QED
    BY <2>2, SameViewOnward
<1>3. CASE CheckIsCurrent(s, c)
  <2>1. \/ t \in {ObserveFailure(free, c), ObserveBaseline(free), ObserveChange(free, c.found)}
        \/ FileRead(c) /\ t = ReplaceWithDisk(free, c.found)
    BY <1>3, Zenon DEF FinishedCheck
  <2>2. FileRead(c) => c.found \in Contents
    BY DEF FileRead, Checks, Versions
  <2> HIDE DEF t, free
  <2>3. t \in Sessions /\ Onward(free, t)
    BY <1>1, <2>1, <2>2, ObserveOnward, ReplaceFacts, ReplaceOnward
  <2> QED
    BY <1>1, <2>3, OnwardOnward DEF t
<1> QED
  BY <1>2, <1>3

\* finish_verified_reload.
LEMMA FinishedVerifyOnward ==
  ASSUME NEW s \in Sessions, NEW v \in Verifies
  PROVE  Onward(s, FinishedVerify(s, v))
<1> DEFINE free == [s EXCEPT !.verify = 0]
           t == FinishedVerify(s, v)
<1>1. free \in Sessions /\ Onward(s, free)
  <2>1. free \in Sessions /\ SameView(s, free)
    BY DEF Sessions, SameView
  <2> QED
    BY <2>1, SameViewOnward
<1>2. \/ t \in {free, ObserveFailure(free, v), ObserveChange(free, v.found)}
      \/ FileRead(v) /\ t = ReplaceWithDisk(free, v.found)
  BY Zenon DEF FinishedVerify
<1>3. FileRead(v) => v.found \in Contents
  BY DEF FileRead, Verifies, Versions
<1> HIDE DEF t, free
<1>4. CASE t = free
  BY <1>1, <1>4 DEF t
<1>5. CASE t # free
  <2>1. t \in Sessions /\ Onward(free, t)
    BY <1>1, <1>2, <1>3, <1>5, ObserveOnward, ReplaceFacts, ReplaceOnward
  <2> QED
    BY <1>1, <2>1, OnwardOnward DEF t
<1> QED
  BY <1>4, <1>5

\* finish_save: what was known of the disk gives way to what was written, and an
\* answer about it dies.
LEMMA FinishedSaveOnward ==
  ASSUME NEW s \in Sessions, NEW j \in Jobs
  PROVE  LET d == FinishedSave(s, j) IN
         Onward(s, d) /\ d.saves = s.saves + (IF j.status = "done" THEN 1 ELSE 0)
<1> DEFINE d == FinishedSave(s, j)
           live == IF s.external = "inSync" THEN s.live ELSE 0
<1>1. s.gen \in Nat /\ s.rev \in Nat /\ s.saves \in Nat
  BY DEF Sessions
<1>2. CASE j.status = "done"
  <2>1. /\ d.gen = s.gen /\ d.rev = s.rev /\ d.serial = s.serial /\ d.saves = s.saves + 1
        /\ d.external = "inSync" /\ d.seen = NoFile /\ d.live = live /\ d.present
    BY <1>2 DEF FinishedSave, ReleaseSlot, Sessions
  <2> HIDE DEF d
  <2> QED
    BY <1>1, <1>2, <2>1 DEF Onward, SeenFits, Shown, d
<1>3. CASE j.status # "done"
  <2>1. d = [s EXCEPT !.inFlight = NoTicket]
    BY <1>3 DEF FinishedSave, ReleaseSlot
  <2>2. SameView(s, d) /\ d.saves = s.saves
    BY <2>1 DEF SameView, Sessions
  <2> QED
    BY <1>1, <1>3, <2>2, SameViewOnward
<1> QED
  BY <1>2, <1>3

\* The methods that look at nothing and forget nothing.
LEMMA ViewFacts ==
  ASSUME NEW s \in Sessions
  PROVE  /\ SameView(s, BeginExternalCheck(s)) /\ SameView(s, TakePending(s))
         /\ SameView(s, TakeSlot(s)) /\ SameView(s, ReleaseSlot(s))
         /\ \A j : SameView(s, FollowRename(s, j))
         /\ \A i : SameView(s, AfterRequest(s, i))
<1>1. SameView(s, BeginExternalCheck(s)) /\ SameView(s, TakePending(s))
  BY DEF SameView, BeginExternalCheck, TakePending, Sessions
<1>2. /\ SameView(s, TakeSlot(s)) /\ SameView(s, ReleaseSlot(s)) /\ TakeSlot(s).live = s.live
      /\ DOMAIN TakeSlot(s) = DOMAIN s
  BY DEF SameView, TakeSlot, ReleaseSlot, Sessions
<1>3. ASSUME NEW j PROVE SameView(s, FollowRename(s, j))
  BY DEF SameView, FollowRename, Sessions
<1>4. ASSUME NEW i PROVE SameView(s, AfterRequest(s, i))
  <2>1. SameView(s, [s EXCEPT !.pending = i]) /\ SameView(s, s)
    BY DEF SameView, Sessions
  <2>2. \A live \in {s.live, 0} : SameView(s, [TakeSlot(s) EXCEPT !.live = live])
    BY DEF SameView, TakeSlot, Sessions
  <2>3. [TakeSlot(s) EXCEPT !.live = IF i.kind = "confirmed" THEN 0 ELSE @]
          = [TakeSlot(s) EXCEPT !.live = IF i.kind = "confirmed" THEN 0 ELSE s.live]
    BY <1>2
  <2> QED
    BY <2>1, <2>2, <2>3 DEF AfterRequest
<1> QED
  BY <1>1, <1>2, <1>3, <1>4

-----------------------------------------------------------------------------
(* Every step moves the session on.                                         *)

\* A session is where it is.
LEMMA StillOnward ==
  ASSUME NEW s \in Sessions
  PROVE  Onward(s, s)
  BY SameViewOnward DEF SameView

\* RunPending only takes the slot, or nothing, for the request that waited.
LEMMA PendingOnward ==
  ASSUME NEW s \in Sessions, NEW js, RunPending(s, js), ses' \in Sessions
  PROVE  Onward(s, ses')
<1> DEFINE t == TakePending(s)
<1>1. t \in Sessions /\ SameView(s, t) /\ ses' = AfterRequest(t, s.pending)
  BY TakePendingFacts, ViewFacts DEF RunPending, SaveFrom
<1> HIDE DEF t
<1>2. SameView(t, ses')
  BY <1>1, ViewFacts
<1> QED
  BY <1>1, <1>2, SameViewOnward, OnwardOnward

\* No handler takes a counter back, and an answer outlives a step only if what it
\* was given about is still what the session knows; a new answer comes on top.
LEMMA OnwardStep ==
  ASSUME IInv, Step
  PROVE  \/ Onward(ses, ses')
         \/ (ConfirmOverwrite \/ ConfirmReload) /\ Onward(ApproveResolution(ses), ses')
<1> DEFINE Moved == Onward(ses, ses')
           Answered == Onward(ApproveResolution(ses), ses')
<1>0. DocInv(ses, jobs) /\ ses \in Sessions /\ LookInv(ses, checks) /\ Surroundings
  BY DEF IInv, DocInv
<1>1. ses' \in Sessions
  BY DocStep DEF DocInv
<1>2. ASSUME ses' = ses PROVE Moved
  BY <1>0, <1>2, StillOnward
<1>3. ASSUME SameView(ses, ses') PROVE Moved
  BY <1>0, <1>3, SameViewOnward
<1>4. ASSUME NEW c \in Contents, Edit(c) \/ Compose(c) PROVE Moved
  <2>1. \/ ses' = [ses EXCEPT !.text = c, !.rev = @ + 1]
        \/ ses' = [ses EXCEPT !.text = c, !.rev = @ + 1, !.ime = TRUE]
    BY <1>4 DEF Edit, Compose
  <2>2. /\ ses'.gen = ses.gen /\ ses'.rev = ses.rev + 1 /\ ses'.serial = ses.serial
        /\ ses'.saves = ses.saves /\ ses'.live = ses.live
        /\ ses'.external = ses.external /\ ses'.seen = ses.seen /\ ses'.present = ses.present
    <3>1. CASE ses' = [ses EXCEPT !.text = c, !.rev = @ + 1]
      BY <1>0, <3>1 DEF Sessions
    <3>2. CASE ses' = [ses EXCEPT !.text = c, !.rev = @ + 1, !.ime = TRUE]
      BY <1>0, <3>2 DEF Sessions
    <3> QED
      BY <2>1, <3>1, <3>2
  <2>3. ses.gen \in Nat /\ ses.rev \in Nat /\ ses.saves \in Nat
    BY <1>0 DEF Sessions
  <2> QED
    BY <2>2, <2>3 DEF Onward, SeenFits, Shown
<1>5. CASE EndCompose
  <2>1. SameView(ses, ses')
    BY <1>0, <1>5 DEF EndCompose, SameView, Sessions
  <2> QED
    BY <1>3, <2>1
<1>18. CASE FinishTrash
  <2>1. /\ ses' = [ses EXCEPT !.present = FALSE] \/ ses' = ses
        /\ "trash" \in UserActions
    BY <1>0, <1>18 DEF FinishTrash, Surroundings, Idle
  <2>2. CASE ses' = [ses EXCEPT !.present = FALSE]
    <3>1. /\ ses'.gen = ses.gen /\ ses'.rev = ses.rev /\ ses'.serial = ses.serial
          /\ ses'.saves = ses.saves /\ ses'.live = ses.live
          /\ ses'.external = ses.external /\ ses'.seen = ses.seen
          /\ ses.gen \in Nat /\ ses.rev \in Nat /\ ses.saves \in Nat
      BY <1>0, <2>2 DEF Sessions
    <3> QED
      BY <2>1, <3>1 DEF Onward, SeenFits
  <2> QED
    BY <1>2, <2>1, <2>2
<1>6. ASSUME NEW i, SaveFrom(ses, i, jobs) PROVE Moved
  BY <1>0, <1>3, <1>6, ViewFacts DEF SaveFrom
<1>7. CASE Save \/ AutosaveFires
  BY <1>2, <1>6, <1>7 DEF Save, AutosaveFires, RequestSave
<1>8. ASSUME NEW p \in Paths, SaveAs(p) \/ AutoName(p) PROVE Moved
  BY <1>6, <1>8 DEF SaveAs, AutoName, RequestSave
<1>9. CASE Recheck \/ DeliverNotice \/ DeferredFires \/ BeginRename
  <2>1. ses' \in {ses, BeginExternalCheck(ses), TakeSlot(ses)}
    BY <1>9 DEF Recheck, DeliverNotice, DeferredFires, StartCheckFrom, BeginRename
  <2> QED
    BY <1>0, <1>2, <1>3, <2>1, ViewFacts
<1>10. ASSUME NEW j \in jobs, FinishSave(j) PROVE Moved
  <2> DEFINE done == FinishedSave(ses, j)
             conflict == j.status = "conflict"
             looked == IF conflict THEN BeginExternalCheck(done) ELSE done
  <2>1. RunPending(looked, jobs \ {j}) /\ j.kind # "rename" /\ j \in Jobs
    BY <1>0, <1>10 DEF FinishSave, DocInv
  <2>2. done \in Sessions /\ DocInv(TakePending(done), jobs \ {j}) /\ Onward(ses, done)
    BY <1>0, <2>1, FinishedSaveKeeps, FinishedSaveOnward
  <2>3. conflict \in BOOLEAN
    OBVIOUS
  <2> HIDE DEF done, conflict
  <2>4. looked \in Sessions
    BY <2>2, <2>3, LookedFacts
  <2>5. Onward(done, looked)
    BY <2>2, <2>3, ViewFacts, SameViewOnward, StillOnward
  <2> HIDE DEF looked
  <2>6. Onward(looked, ses')
    BY <1>1, <2>1, <2>4, PendingOnward
  <2> QED
    BY <1>0, <1>1, <2>2, <2>4, <2>5, <2>6, OnwardOnward
<1>11. ASSUME NEW j \in jobs, FinishRename(j) PROVE Moved
  <2> DEFINE followed == FollowRename(ses, j)
             done == ReleaseSlot(followed)
  <2>1. RunPending(done, jobs \ {j}) /\ j.kind = "rename" /\ j \in Jobs
    BY <1>0, <1>11 DEF FinishRename, DocInv
  <2>2. done \in Sessions
    BY <1>0, <2>1, FinishedRenameKeeps
  <2>3. followed \in Sessions /\ Onward(ses, followed)
    <3>1. followed \in Sessions
      BY <1>0, <2>1 DEF FollowRename, Sessions, Jobs
    <3> QED
      BY <1>0, <3>1, ViewFacts, SameViewOnward
  <2> HIDE DEF followed
  <2>4. Onward(followed, done)
    BY <2>3, ViewFacts, SameViewOnward
  <2> HIDE DEF done
  <2>5. Onward(done, ses')
    BY <1>1, <2>1, <2>2, PendingOnward
  <2> QED
    BY <1>0, <1>1, <2>2, <2>3, <2>4, <2>5, OnwardOnward
<1>12. ASSUME NEW c \in checks, FinishCheck(c) PROVE Moved
  <2> DEFINE found == FinishedCheck(ses, c)
             idle == [found EXCEPT !.recheck = FALSE]
  <2>1. ses' \in {idle, BeginExternalCheck(idle)}
    BY <1>12 DEF FinishCheck
  <2>2. found \in Sessions /\ Onward(ses, found)
    BY <1>0, FinishedCheckFacts, FinishedCheckOnward DEF LookInv
  <2> HIDE DEF found
  <2>3. idle \in Sessions /\ SameView(found, idle)
    BY <2>2 DEF Sessions, SameView
  <2> HIDE DEF idle
  <2>4. Onward(idle, ses')
    BY <2>1, <2>3, ViewFacts, SameViewOnward, StillOnward
  <2> QED
    BY <1>0, <1>1, <2>2, <2>3, <2>4, SameViewOnward, OnwardOnward
<1>13. ASSUME NEW v \in verifies, FinishVerify(v) PROVE Moved
  BY <1>0, <1>13, FinishedVerifyOnward DEF FinishVerify, Surroundings
<1>14. ASSUME NEW latest \in BOOLEAN, FinishOpen(latest) PROVE Moved
  <2>1. CASE OpenIsRefused(latest)
    BY <1>2, <1>14, <2>1 DEF FinishOpen
  <2>2. CASE ~OpenIsRefused(latest)
    <3>1. ses' = Adopt(ses, opening.path, opening.found) /\ opening.found # NoFile
      BY <1>14, <2>2 DEF FinishOpen, OpenIsRefused
    <3>2. opening.path \in Paths \cup {NoPath} /\ opening.found \in Contents
      BY <1>0, <3>1 DEF Surroundings, Tasks, Versions
    <3> QED
      BY <1>0, <3>1, <3>2, AdoptOnward
  <2> QED
    BY <2>1, <2>2
<1>15. CASE ConfirmOverwrite \/ ConfirmReload
  <2> DEFINE asked == ApproveResolution(ses)
  <2>1. asked \in Sessions /\ asked.serial \in Nat
    BY <1>0, ApproveFacts
  <2>2. \/ \E i : ses' = AfterRequest(asked, i)
        \/ ses' \in {asked, [asked EXCEPT !.verify = asked.serial]}
    BY <1>15 DEF ConfirmOverwrite, ConfirmReload, SaveFrom
  <2> HIDE DEF asked
  <2>3. SameView(asked, asked) /\ SameView(asked, [asked EXCEPT !.verify = asked.serial])
    BY <2>1 DEF SameView, Sessions
  <2>4. Onward(asked, ses')
    BY <2>1, <2>2, <2>3, ViewFacts, SameViewOnward
  <2> QED
    BY <1>15, <2>4 DEF asked
<1>16. ASSUME \/ \E j \in jobs : RunWrite(j) \/ RunRename(j) \/ JobFails(j)
              \/ \E c \in checks : ReadForCheck(c) \/ CheckFails(c) \/ DropCheck(c)
              \/ \E v \in verifies : ReadForVerify(v) \/ VerifyFails(v) \/ DropVerify(v)
       PROVE  Moved
  BY <1>2, <1>16 DEF RunWrite, RunRename, JobFails, ReadForCheck, CheckFails, DropCheck,
                     ReadForVerify, VerifyFails, DropVerify
<1>17. ASSUME \/ \E kind \in {"overwrite", "reload"} : Ask(kind)
              \/ \E p \in Paths : StartOpen(p)
              \/ SwitchTab \/ StartTrash \/ Cancel \/ LoadFile \/ MoveToTrash
              \/ \E p \in Paths, v \in Versions : ExternalChange(p, v)
       PROVE  Moved
  BY <1>2, <1>17 DEF Ask, StartOpen, SwitchTab, StartTrash, Cancel, LoadFile, MoveToTrash,
                     ExternalChange
<1> QED
  BY <1>4, <1>5, <1>7, <1>8, <1>9, <1>10, <1>11, <1>12, <1>13, <1>14, <1>15, <1>16, <1>17,
     <1>18, Zenon DEF Step, UserStep, WorkerStep, ViewStep

-----------------------------------------------------------------------------
(* Reads and this session's own writes.                                     *)

Landed(j) == j.kind # "rename" /\ j.status = "done"

\* A check was started at some number of this session's writes, and what it read
\* it read at some number of writes that had landed, neither of them yet to come.
ReadsFit ==
  \A c \in checks :
    /\ c.saves <= ses.saves
    /\ c.read # "reading" => c.saves <= c.after /\ c.after <= WritesLanded

\* At most one write has landed and not yet reported.
LEMMA LandedIs ==
  ASSUME NEW s, NEW js, DocInv(s, js)
  PROVE  s.saves + Cardinality({j \in js : j.kind # "rename" /\ j.status = "done"})
           = IF \E j \in js : Landed(j) THEN s.saves + 1 ELSE s.saves
<1> DEFINE landed == {j \in js : j.kind # "rename" /\ j.status = "done"}
<1>1. s.saves \in Nat
  BY DEF DocInv, Sessions
<1>2. CASE \E j \in js : Landed(j)
  <2>1. PICK j \in js : landed = {j}
    BY <1>2 DEF DocInv, SlotFits, Landed
  <2>2. Cardinality(landed) = 1
    BY <2>1, FS_Singleton
  <2> QED
    BY <1>2, <2>2
<1>3. CASE ~\E j \in js : Landed(j)
  <2>1. landed = {}
    BY <1>3 DEF Landed
  <2>2. Cardinality(landed) = 0
    BY <2>1, FS_EmptySet
  <2> QED
    BY <1>1, <1>3, <2>2
<1> QED
  BY <1>2, <1>3

\* A write that has landed stays in the slot until it is counted.
LEMMA LandedStays ==
  ASSUME IInv, Step, NEW j \in jobs, Landed(j)
  PROVE  j \in jobs' \/ ses'.saves >= ses.saves + 1
<1>0. /\ DocInv(ses, jobs) /\ ses \in Sessions /\ j \in Jobs /\ \A k \in jobs : k = j
      /\ ses' \in Sessions /\ jobs = {j}
  BY DocStep DEF IInv, DocInv, SlotFits
<1>1. CASE jobs \subseteq jobs'
  BY <1>1
<1>2. ASSUME NEW k \in jobs, FinishSave(k) PROVE ses'.saves >= ses.saves + 1
  <2> DEFINE done == FinishedSave(ses, j)
             conflict == j.status = "conflict"
             looked == IF conflict THEN BeginExternalCheck(done) ELSE done
  <2>1. RunPending(looked, jobs \ {j})
    BY <1>0, <1>2 DEF FinishSave
  <2>2. /\ done \in Sessions /\ DocInv(TakePending(done), jobs \ {j})
        /\ done.saves = ses.saves + 1
    BY <1>0, FinishedSaveKeeps, FinishedSaveOnward DEF Landed
  <2>3. looked = done
    BY DEF Landed
  <2> HIDE DEF done, looked
  <2>4. Onward(done, ses')
    BY <1>0, <2>1, <2>2, <2>3, PendingOnward
  <2> QED
    BY <2>2, <2>4 DEF Onward
<1>3. ASSUME NEW k \in jobs, RunWrite(k) \/ RunRename(k) \/ JobFails(k) \/ FinishRename(k)
      PROVE  FALSE
  BY <1>0, <1>3 DEF RunWrite, RunRename, JobFails, FinishRename, Landed
<1>4. ASSUME \/ Save \/ AutosaveFires \/ ConfirmOverwrite
             \/ \E p \in Paths : SaveAs(p) \/ AutoName(p)
      PROVE  jobs \subseteq jobs'
  BY <1>4 DEF Save, AutosaveFires, ConfirmOverwrite, SaveAs, AutoName, RequestSave, SaveFrom
<1>5. ASSUME \/ \E c \in Contents : Edit(c) \/ Compose(c)
             \/ EndCompose \/ Recheck \/ BeginRename \/ SwitchTab \/ StartTrash
             \/ Cancel \/ ConfirmReload \/ LoadFile \/ MoveToTrash
             \/ DeferredFires \/ DeliverNotice \/ FinishTrash
             \/ \E p \in Paths : StartOpen(p)
             \/ \E kind \in {"overwrite", "reload"} : Ask(kind)
      PROVE  jobs \subseteq jobs'
  BY <1>5 DEF Edit, Compose, EndCompose, Recheck, BeginRename, SwitchTab, StartTrash, Cancel,
              ConfirmReload, LoadFile, MoveToTrash, DeferredFires, DeliverNotice, FinishTrash,
              StartOpen, Ask
<1>6. ASSUME \/ \E c \in checks : \/ ReadForCheck(c) \/ CheckFails(c) \/ DropCheck(c)
                                  \/ FinishCheck(c)
             \/ \E v \in verifies : \/ ReadForVerify(v) \/ VerifyFails(v) \/ DropVerify(v)
                                    \/ FinishVerify(v)
             \/ \E latest \in BOOLEAN : FinishOpen(latest)
             \/ \E p \in Paths, v \in Versions : ExternalChange(p, v)
      PROVE  jobs \subseteq jobs'
  BY <1>6 DEF ReadForCheck, CheckFails, DropCheck, FinishCheck, ReadForVerify, VerifyFails,
              DropVerify, FinishVerify, FinishOpen, ExternalChange
<1> QED
  BY <1>1, <1>2, <1>3, <1>4, <1>5, <1>6, Zenon DEF Step, UserStep, WorkerStep, ViewStep

\* An answer counts no write.
LEMMA SavesStep ==
  ASSUME IInv, Step
  PROVE  ses'.saves >= ses.saves
<1>1. CASE Onward(ses, ses')
  BY <1>1 DEF Onward
<1>2. CASE Onward(ApproveResolution(ses), ses')
  <2>1. ApproveResolution(ses).saves = ses.saves
    BY DEF ApproveResolution, IInv, DocInv, Sessions
  <2> QED
    BY <1>2, <2>1 DEF Onward
<1> QED
  BY <1>1, <1>2, OnwardStep

\* So the number of this session's writes on the disk never goes back.
LEMMA LandedStep ==
  ASSUME IInv, Step
  PROVE  WritesLanded' >= WritesLanded
<1>1. /\ DocInv(ses, jobs) /\ DocInv(ses', jobs')
      /\ ses.saves \in Nat /\ ses'.saves \in Nat
  BY DocStep DEF IInv, DocInv, Sessions
<1>2. /\ WritesLanded = (IF \E j \in jobs : Landed(j) THEN ses.saves + 1 ELSE ses.saves)
      /\ WritesLanded' = (IF \E j \in jobs' : Landed(j) THEN ses'.saves + 1 ELSE ses'.saves)
  BY <1>1, LandedIs DEF WritesLanded
<1> QED
  BY <1>1, <1>2, LandedStays, SavesStep

\* Where a check of the next state comes from.
LEMMA ChecksStep ==
  ASSUME IInv, Step, NEW d \in checks'
  PROVE  \/ d \in checks
         \/ d.read = "reading" /\ d.saves <= ses'.saves
         \/ \E c \in checks : d.saves = c.saves /\ d.after = WritesLanded
<1>0. /\ DocInv(ses, jobs) /\ ses \in Sessions /\ LookInv(ses, checks) /\ checks \subseteq Checks
      /\ ses' \in Sessions
  BY DocStep DEF IInv, DocInv, LookInv
<1>1. ASSUME NEW s \in Sessions, d \in ChecksStarted(s), Onward(s, ses')
      PROVE  d.read = "reading" /\ d.saves <= ses'.saves
  <2>1. d.read = "reading" /\ d.saves = s.saves
    BY <1>1 DEF ChecksStarted
  <2>2. s.saves \in Nat /\ ses'.saves \in Nat
    BY <1>0 DEF Sessions
  <2> QED
    BY <1>1, <2>1, <2>2 DEF Onward
<1>2. ASSUME StartCheckFrom(ses), d \notin checks
      PROVE  d.read = "reading" /\ d.saves <= ses'.saves
  BY <1>0, <1>1, <1>2, ViewFacts, SameViewOnward DEF StartCheckFrom
<1>3. CASE Recheck \/ DeliverNotice \/ DeferredFires
  BY <1>2, <1>3 DEF Recheck, DeliverNotice, DeferredFires
<1>4. ASSUME NEW j \in jobs, FinishSave(j), d \notin checks
      PROVE  d.read = "reading" /\ d.saves <= ses'.saves
  <2> DEFINE done == FinishedSave(ses, j)
             conflict == j.status = "conflict"
             looked == IF conflict THEN BeginExternalCheck(done) ELSE done
  <2>1. /\ RunPending(looked, jobs \ {j}) /\ j.kind # "rename" /\ j \in Jobs
        /\ checks' = checks \cup (IF conflict THEN ChecksStarted(done) ELSE {})
    BY <1>0, <1>4 DEF FinishSave, DocInv
  <2>2. done \in Sessions /\ DocInv(TakePending(done), jobs \ {j})
    BY <1>0, <2>1, FinishedSaveKeeps
  <2>3. conflict \in BOOLEAN
    OBVIOUS
  <2> HIDE DEF done, conflict
  <2>4. looked \in Sessions
    BY <2>2, <2>3, LookedFacts
  <2>5. Onward(done, looked)
    BY <2>2, <2>3, ViewFacts, SameViewOnward, StillOnward
  <2> HIDE DEF looked
  <2>6. Onward(done, ses')
    BY <1>0, <2>1, <2>2, <2>4, <2>5, PendingOnward, OnwardOnward
  <2> QED
    BY <1>1, <1>4, <2>1, <2>2, <2>6
<1>5. ASSUME NEW c \in checks, FinishCheck(c), d \notin checks
      PROVE  d.read = "reading" /\ d.saves <= ses'.saves
  <2> DEFINE found == FinishedCheck(ses, c)
             idle == [found EXCEPT !.recheck = FALSE]
  <2>1. /\ ses' = (IF found.recheck THEN BeginExternalCheck(idle) ELSE idle)
        /\ checks' = (checks \ {c}) \cup (IF found.recheck THEN ChecksStarted(idle) ELSE {})
    BY <1>5 DEF FinishCheck
  <2>2. found \in Sessions
    BY <1>0, FinishedCheckFacts
  <2> HIDE DEF found
  <2>3. idle \in Sessions
    BY <2>2 DEF Sessions
  <2> HIDE DEF idle
  <2>4. found.recheck /\ Onward(idle, ses')
    BY <1>5, <2>1, <2>3, ViewFacts, SameViewOnward
  <2> QED
    BY <1>1, <1>5, <2>1, <2>3, <2>4
<1>6. ASSUME NEW c \in checks, ReadForCheck(c) \/ CheckFails(c), d \notin checks
      PROVE  d.saves = c.saves /\ d.after = WritesLanded
  <2>1. c \in Checks
    BY <1>0
  <2>2. \/ d = [c EXCEPT !.read = "read", !.found = disk[c.path], !.after = WritesLanded]
        \/ d = [c EXCEPT !.read = "unreadable", !.after = WritesLanded]
    BY <1>6 DEF ReadForCheck, CheckFails
  <2> QED
    BY <2>1, <2>2 DEF Checks
<1>7. ASSUME NEW c \in checks, DropCheck(c) PROVE d \in checks
  BY <1>7 DEF DropCheck
<1>8. ASSUME \/ Save \/ AutosaveFires \/ ConfirmOverwrite \/ ConfirmReload
             \/ EndCompose \/ BeginRename \/ SwitchTab \/ StartTrash
             \/ Cancel \/ LoadFile \/ MoveToTrash \/ FinishTrash
             \/ \E c \in Contents : Edit(c) \/ Compose(c)
             \/ \E p \in Paths : SaveAs(p) \/ AutoName(p) \/ StartOpen(p)
             \/ \E kind \in {"overwrite", "reload"} : Ask(kind)
      PROVE  d \in checks
  BY <1>8 DEF Save, AutosaveFires, ConfirmOverwrite, ConfirmReload, SaveAs, AutoName,
              RequestSave, Edit, Compose, EndCompose, BeginRename, SwitchTab, StartTrash,
              Cancel, LoadFile, MoveToTrash, FinishTrash, StartOpen, Ask
<1>9. ASSUME \/ \E j \in jobs : RunWrite(j) \/ RunRename(j) \/ JobFails(j) \/ FinishRename(j)
             \/ \E v \in verifies : \/ ReadForVerify(v) \/ VerifyFails(v) \/ DropVerify(v)
                                    \/ FinishVerify(v)
             \/ \E latest \in BOOLEAN : FinishOpen(latest)
             \/ \E p \in Paths, v \in Versions : ExternalChange(p, v)
      PROVE  d \in checks
  BY <1>9 DEF RunWrite, RunRename, JobFails, FinishRename, ReadForVerify, VerifyFails,
              DropVerify, FinishVerify, FinishOpen, ExternalChange
<1> QED
  BY <1>3, <1>4, <1>5, <1>6, <1>7, <1>8, <1>9, Zenon DEF Step, UserStep, WorkerStep, ViewStep

\* No read claims to have seen a write that has not landed.
LEMMA ReadsStep ==
  ASSUME IInv, ReadsFit, Step
  PROVE  ReadsFit'
<1>1. /\ checks \subseteq Checks /\ checks' \subseteq Checks
      /\ ses.saves \in Nat /\ ses'.saves \in Nat
      /\ DocInv(ses, jobs) /\ DocInv(ses', jobs')
  BY DocStep, LookStep DEF IInv, DocInv, LookInv, Sessions
<1>2. /\ WritesLanded \in Nat /\ WritesLanded >= ses.saves
      /\ WritesLanded' \in Nat /\ WritesLanded' >= WritesLanded /\ ses'.saves >= ses.saves
  <2>1. /\ WritesLanded = (IF \E j \in jobs : Landed(j) THEN ses.saves + 1 ELSE ses.saves)
        /\ WritesLanded' = (IF \E j \in jobs' : Landed(j) THEN ses'.saves + 1 ELSE ses'.saves)
    BY <1>1, LandedIs DEF WritesLanded
  <2> HIDE DEF WritesLanded
  <2> QED
    BY <1>1, <2>1, LandedStep, SavesStep
<1> SUFFICES ASSUME NEW d \in checks'
             PROVE  /\ d.saves <= ses'.saves
                    /\ d.read # "reading" => d.saves <= d.after /\ d.after <= WritesLanded'
  BY DEF ReadsFit
<1> HIDE DEF WritesLanded
<1>3. d.saves \in Nat /\ d.after \in Nat /\ \A c \in checks : c.saves \in Nat /\ c.after \in Nat
  BY <1>1 DEF Checks
<1>4. CASE d \in checks
  BY <1>1, <1>2, <1>3, <1>4 DEF ReadsFit
<1>5. CASE \E c \in checks : d.saves = c.saves /\ d.after = WritesLanded
  BY <1>1, <1>2, <1>3, <1>5 DEF ReadsFit
<1> QED
  BY <1>4, <1>5, ChecksStep

\* The counts fit in every reachable state.
LEMMA ReadsAlwaysFit == Spec => []ReadsFit
<1>1. Init => ReadsFit
  BY DEF Init, ReadsFit
<1>2. IInv /\ ReadsFit /\ [Next]_vars => ReadsFit'
  <2>1. ASSUME IInv, ReadsFit, Next PROVE ReadsFit'
    BY <2>1, ReadsStep DEF Next
  <2>2. ASSUME ReadsFit, UNCHANGED vars PROVE ReadsFit'
    BY <2>2 DEF vars, ReadsFit, WritesLanded
  <2> QED
    BY <2>1, <2>2
<1> QED
  BY <1>1, <1>2, SessionInvariant, PTL DEF Spec

\* A document is replaced by what a check found only while the slot is free and
\* no write of this session was counted since the check began; the read then saw
\* every one of them (session.rs: complete_external_check, start_write).
THEOREM ReloadsAreUpToDate == Spec => NoReloadPastOwnWrite
<1>1. ASSUME IInv, ReadsFit, NEW c \in checks, FinishCheck(c), ses'.gen # ses.gen
      PROVE  c.after = WritesLanded
  <2> DEFINE found == FinishedCheck(ses, c)
             idle == [found EXCEPT !.recheck = FALSE]
  <2>1. /\ DocInv(ses, jobs) /\ ses \in Sessions /\ c \in Checks
        /\ c.read # "reading" /\ ses' \in {idle, BeginExternalCheck(idle)}
    BY <1>1 DEF IInv, DocInv, LookInv, FinishCheck
  <2>2. found \in Sessions
    BY <2>1, FinishedCheckFacts
  <2>3. ses'.gen = found.gen
    <3> HIDE DEF found
    <3>1. idle \in Sessions /\ idle.gen = found.gen
      BY <2>2 DEF Sessions
    <3> HIDE DEF idle
    <3> QED
      BY <2>1, <3>1, ViewFacts DEF SameView
  <2>4. ~SaveInFlight(ses)
    <3> HIDE DEF found
    <3> QED
      BY <1>1, <2>1, <2>3, FinishedCheckFacts DEF SameDocument, found
  <2>5. c.saves = ses.saves
    <3>1. CASE CheckIsCurrent(ses, c)
      BY <3>1 DEF CheckIsCurrent
    <3>2. CASE ~CheckIsCurrent(ses, c)
      <4>1. found.gen = ses.gen
        BY <2>1, <3>2 DEF FinishedCheck, Sessions
      <4> QED
        BY <1>1, <2>3, <4>1
    <3> QED
      BY <3>1, <3>2
  <2>6. jobs = {}
    BY <2>1, <2>4, FreeSlot
  <2>7. WritesLanded = ses.saves
    BY <2>1, <2>6, LandedIs DEF WritesLanded
  <2>8. c.saves <= c.after /\ c.after <= WritesLanded /\ c.saves \in Nat /\ c.after \in Nat
    BY <1>1, <2>1 DEF ReadsFit, Checks
  <2> HIDE DEF WritesLanded
  <2> QED
    BY <2>5, <2>7, <2>8
<1>2. IInv /\ ReadsFit
        => [\A c \in checks : FinishCheck(c) /\ ses'.gen # ses.gen => c.after = WritesLanded]_vars
  BY <1>1
<1> QED
  BY <1>2, SessionInvariant, ReadsAlwaysFit, PTL DEF NoReloadPastOwnWrite

-----------------------------------------------------------------------------
(* The requests that start a write, and what waits for the slot.            *)

\* What save_session hands on: the document as it is, on top of what a report of
\* a job has just changed.
Handed(s, i) ==
  /\ s \in Sessions /\ i \in Intents
  /\ Onward(ses, s) /\ s.text = ses.text /\ s.gen = ses.gen /\ s.rev = ses.rev
  /\ ses' = AfterRequest(s, i)
  /\ i.kind # "confirmed" \/ i = ses.pending

\* The request an answered overwrite makes at once.
Answer == Confirmed(Approval(ApproveResolution(ses), "overwrite", prompt.shown))
AnswerHanded ==
  ConfirmOverwrite /\ Answer \in Intents /\ ses' = AfterRequest(ApproveResolution(ses), Answer)

\* A request that was granted was one to write, about what the session knows.
LEMMA GrantedFacts ==
  ASSUME NEW s \in Sessions, NEW i \in Intents, NEW j \in JobsOfRequest(s, i)
  PROVE  /\ j = WriteJob(s, i) /\ i.kind # "none" /\ ~SaveInFlight(s)
         /\ i.kind = "confirmed" => ApprovalIsCurrent(s, i.approval, "overwrite")
  BY DEF JobsOfRequest, RequestRefused, ApprovalExpired

\* A write starts with the kind and the text of its request.
LEMMA StartedFacts ==
  ASSUME NEW s, NEW i
  PROVE  LET j == WriteJob(s, i) IN
         /\ j.kind = (IF i.kind = "confirmed" THEN "confirmed" ELSE "save")
         /\ j.doc = s.text
         /\ i.kind = "createNew" => j.expects = NoFile
         /\ i.kind = "confirmed" => j.expects = s.seen
         /\ i.kind \notin {"createNew", "confirmed"} => j.expects = s.baseline
  BY DEF WriteJob, ContentGuard

\* What waits for the slot afterwards is what waited before, nothing, or this request.
LEMMA PendingOf ==
  ASSUME NEW s \in Sessions, NEW i
  PROVE  AfterRequest(s, i).pending \in {s.pending, i}
<1>1. [s EXCEPT !.pending = i].pending = i
  BY DEF Sessions
<1>2. /\ TakeSlot(s).pending = s.pending
      /\ [TakeSlot(s) EXCEPT !.live = IF i.kind = "confirmed" THEN 0 ELSE @].pending = s.pending
  BY DEF TakeSlot, Sessions
<1> QED
  BY <1>1, <1>2 DEF AfterRequest

\* A request leaves the accepted version and the text alone.
LEMMA RequestFacts ==
  ASSUME NEW s \in Sessions, NEW i
  PROVE  LET t == AfterRequest(s, i) IN t.baseline = s.baseline /\ t.text = s.text
<1>1. \A u \in {s, TakeSlot(s), [s EXCEPT !.pending = i]} :
        u.baseline = s.baseline /\ u.text = s.text
  BY DEF TakeSlot, Sessions
<1>2. LET t == [TakeSlot(s) EXCEPT !.live = IF i.kind = "confirmed" THEN 0 ELSE @] IN
        t.baseline = s.baseline /\ t.text = s.text
  BY DEF TakeSlot, Sessions
<1> QED
  BY <1>1, <1>2 DEF AfterRequest

\* The request that waited behind a job is handed on by the report of that job.
LEMMA HandedByReport ==
  ASSUME IInv, Step, NEW j \in jobs, FinishSave(j) \/ FinishRename(j)
  PROVE  \E s : /\ Handed(s, ses.pending)
                /\ jobs' = (jobs \ {j}) \cup JobsOfRequest(s, ses.pending)
                /\ s.pending = NoIntent
                /\ s.baseline = (IF FinishSave(j) /\ j.status = "done" THEN j.doc
                                                                      ELSE ses.baseline)
<1>0. /\ DocInv(ses, jobs) /\ ses \in Sessions /\ j \in Jobs /\ ses.pending \in Intents
  BY DEF IInv, DocInv, Sessions
<1>1. ASSUME NEW l \in Sessions, RunPending(l, jobs \ {j}), Onward(ses, l), l.text = ses.text,
             l.gen = ses.gen, l.rev = ses.rev, l.pending = ses.pending
      PROVE  LET s == TakePending(l) IN
             /\ Handed(s, ses.pending)
             /\ jobs' = (jobs \ {j}) \cup JobsOfRequest(s, ses.pending)
             /\ s.pending = NoIntent /\ s.baseline = l.baseline
  <2> DEFINE s == TakePending(l)
  <2>1. /\ s \in Sessions /\ s.text = l.text /\ s.gen = l.gen /\ s.rev = l.rev
        /\ s.pending = NoIntent /\ s.baseline = l.baseline
    BY <1>1, TakePendingFacts
  <2>2. Onward(l, s)
    BY <1>1, ViewFacts, SameViewOnward
  <2>3. /\ ses' = AfterRequest(s, ses.pending)
        /\ jobs' = (jobs \ {j}) \cup JobsOfRequest(s, ses.pending)
    BY <1>1 DEF RunPending, SaveFrom
  <2> HIDE DEF s
  <2>4. Onward(ses, s)
    BY <1>0, <1>1, <2>1, <2>2, OnwardOnward
  <2>5. Handed(s, ses.pending)
    BY <1>0, <1>1, <2>1, <2>3, <2>4 DEF Handed
  <2> QED
    BY <2>1, <2>3, <2>5 DEF s
<1>2. CASE FinishSave(j)
  <2> DEFINE done == FinishedSave(ses, j)
             conflict == j.status = "conflict"
             looked == IF conflict THEN BeginExternalCheck(done) ELSE done
  <2>1. RunPending(looked, jobs \ {j}) /\ j.kind # "rename"
    BY <1>2 DEF FinishSave
  <2>2. /\ done \in Sessions /\ done.pending = ses.pending /\ done.rev = ses.rev
        /\ done.gen = ses.gen /\ Onward(ses, done)
    BY <1>0, <2>1, FinishedSaveKeeps, FinishedSaveOnward DEF SameChecks
  <2>3. done.text = ses.text /\ done.baseline = IF j.status = "done" THEN j.doc ELSE ses.baseline
    BY <1>0 DEF FinishedSave, ReleaseSlot, Sessions
  <2>4. conflict \in BOOLEAN
    OBVIOUS
  <2> HIDE DEF done, conflict
  <2>5. looked \in Sessions /\ SameDocument(done, looked)
    BY <2>2 DEF BeginExternalCheck, SameDocument, Sessions
  <2>6. Onward(done, looked)
    BY <2>2, <2>4, ViewFacts, SameViewOnward, StillOnward
  <2> HIDE DEF looked
  <2>7. Onward(ses, looked)
    BY <1>0, <2>2, <2>5, <2>6, OnwardOnward
  <2> QED
    BY <1>1, <1>2, <2>1, <2>2, <2>3, <2>5, <2>7 DEF SameDocument
<1>3. CASE FinishRename(j)
  <2> DEFINE followed == FollowRename(ses, j)
             done == ReleaseSlot(followed)
  <2>1. RunPending(done, jobs \ {j}) /\ j.kind = "rename" /\ ~FinishSave(j)
    BY <1>3 DEF FinishRename, FinishSave
  <2>2. /\ followed \in Sessions /\ followed.text = ses.text /\ followed.gen = ses.gen
        /\ followed.rev = ses.rev /\ followed.pending = ses.pending
        /\ followed.baseline = ses.baseline
    BY <1>0, <2>1 DEF FollowRename, Sessions, Jobs
  <2>3. Onward(ses, followed)
    BY <1>0, ViewFacts, SameViewOnward
  <2> HIDE DEF followed
  <2>4. /\ done \in Sessions /\ done.text = ses.text /\ done.gen = ses.gen
        /\ done.rev = ses.rev /\ done.pending = ses.pending /\ done.baseline = ses.baseline
    BY <2>2, NoIntentFacts DEF ReleaseSlot, Sessions
  <2>5. Onward(followed, done)
    BY <2>2, ViewFacts, SameViewOnward
  <2> HIDE DEF done
  <2>6. Onward(ses, done)
    BY <1>0, <2>2, <2>3, <2>4, <2>5, OnwardOnward
  <2> QED
    BY <1>1, <2>1, <2>4, <2>6
<1> QED
  BY <1>2, <1>3

\* A request made by the user or a timer is handed on as the session stands.
LEMMA HandedByUser ==
  ASSUME IInv, NEW i \in Intents, i.kind # "confirmed", SaveFrom(ses, i, jobs)
  PROVE  Handed(ses, i) /\ jobs' = jobs \cup JobsOfRequest(ses, i)
  BY StillOnward DEF SaveFrom, Handed, IInv, DocInv

\* The answer to an overwrite question is handed on at once.
LEMMA AnswerIsHanded ==
  ASSUME IInv, ConfirmOverwrite
  PROVE  /\ AnswerHanded
         /\ jobs' = jobs \cup JobsOfRequest(ApproveResolution(ses), Answer)
<1> DEFINE asked == ApproveResolution(ses)
           a == Approval(asked, "overwrite", prompt.shown)
<1>1. ses \in Sessions /\ prompt \in Prompts
  BY DEF IInv, DocInv, Surroundings
<1>2. asked \in Sessions
  BY <1>1, ApproveFacts
<1>3. a \in Approvals
  <2> HIDE DEF asked
  <2> QED
    BY <1>1, <1>2 DEF Approval, Approvals, Prompts, Kinds, Sessions
<1>4. Answer \in Intents
  BY <1>3, IntentFacts DEF Answer
<1> QED
  BY <1>4 DEF ConfirmOverwrite, SaveFrom, Answer, AnswerHanded

\* Every write that runs was running before or starts in this step, from a request.
LEMMA JobsStep ==
  ASSUME IInv, Step, NEW j \in jobs', j \notin jobs, j.status = "running", j.kind # "rename"
  PROVE  \/ \E s, i : Handed(s, i) /\ j \in JobsOfRequest(s, i)
         \/ AnswerHanded /\ j \in JobsOfRequest(ApproveResolution(ses), Answer)
<1> DEFINE Goal == \/ \E s, i : Handed(s, i) /\ j \in JobsOfRequest(s, i)
                   \/ AnswerHanded /\ j \in JobsOfRequest(ApproveResolution(ses), Answer)
<1>1. ASSUME NEW i \in Intents, i.kind # "confirmed", SaveFrom(ses, i, jobs) PROVE Goal
  BY <1>1, HandedByUser
<1>2. /\ Current.kind # "confirmed"
      /\ \A p \in Paths : To(p).kind # "confirmed" /\ CreateNew(p).kind # "confirmed"
  BY NoIntentFacts DEF Current, To, CreateNew, NoIntent
<1>3. CASE Save \/ AutosaveFires
  BY <1>1, <1>2, <1>3, IntentFacts DEF Save, AutosaveFires, RequestSave
<1>4. ASSUME NEW p \in Paths, SaveAs(p) \/ AutoName(p) PROVE Goal
  BY <1>1, <1>2, <1>4, IntentFacts DEF SaveAs, AutoName, RequestSave
<1>5. CASE ConfirmOverwrite
  BY <1>5, AnswerIsHanded
<1>6. ASSUME NEW k \in jobs, FinishSave(k) \/ FinishRename(k) PROVE Goal
  BY <1>6, HandedByReport
<1>7. CASE BeginRename
  <2>1. j = [WriteJob(ses, Current) EXCEPT !.kind = "rename"]
    BY <1>7 DEF BeginRename
  <2> QED
    BY <2>1 DEF WriteJob
<1>8. ASSUME NEW k \in jobs, RunWrite(k) \/ RunRename(k) \/ JobFails(k) PROVE Goal
  <2>1. k \in Jobs
    BY DEF IInv, DocInv
  <2>2. \/ \E st \in {"done", "conflict", "failed"} : j = [k EXCEPT !.status = st]
        \/ \E to \in Paths : j = [k EXCEPT !.status = "done", !.to = to]
    BY <1>8, Zenon DEF RunWrite, RunRename, JobFails
  <2>3. j.status # "running"
    BY <2>1, <2>2 DEF Jobs
  <2> QED
    BY <2>3
<1>9. ASSUME \/ EndCompose \/ Recheck \/ SwitchTab \/ StartTrash
             \/ Cancel \/ ConfirmReload \/ LoadFile \/ MoveToTrash
             \/ DeferredFires \/ DeliverNotice \/ FinishTrash
             \/ \E c \in Contents : Edit(c) \/ Compose(c)
             \/ \E p \in Paths : StartOpen(p)
             \/ \E kind \in {"overwrite", "reload"} : Ask(kind)
      PROVE  jobs' = jobs
  BY <1>9 DEF Edit, Compose, EndCompose, Recheck, SwitchTab, StartTrash, Cancel,
              ConfirmReload, LoadFile, MoveToTrash, DeferredFires, DeliverNotice, FinishTrash,
              StartOpen, Ask
<1>10. ASSUME \/ \E c \in checks : \/ ReadForCheck(c) \/ CheckFails(c) \/ DropCheck(c)
                                   \/ FinishCheck(c)
              \/ \E v \in verifies : \/ ReadForVerify(v) \/ VerifyFails(v) \/ DropVerify(v)
                                     \/ FinishVerify(v)
              \/ \E latest \in BOOLEAN : FinishOpen(latest)
              \/ \E p \in Paths, v \in Versions : ExternalChange(p, v)
       PROVE  jobs' = jobs
  BY <1>10 DEF ReadForCheck, CheckFails, DropCheck, FinishCheck, ReadForVerify, VerifyFails,
               DropVerify, FinishVerify, FinishOpen, ExternalChange
<1> QED
  BY <1>3, <1>4, <1>5, <1>6, <1>7, <1>8, <1>9, <1>10, Zenon
     DEF Step, UserStep, WorkerStep, ViewStep

\* A confirmed request waits for the slot from before, or from the answer just given.
LEMMA PendingStep ==
  ASSUME IInv, Step, ses'.pending.kind = "confirmed"
  PROVE  ses'.pending = ses.pending \/ (AnswerHanded /\ ses'.pending = Answer)
<1> DEFINE Goal == ses'.pending = ses.pending \/ (AnswerHanded /\ ses'.pending = Answer)
<1>0. /\ DocInv(ses, jobs) /\ ses \in Sessions /\ LookInv(ses, checks) /\ Surroundings
      /\ NoIntent.kind # "confirmed"
  BY DEF IInv, DocInv, NoIntent
<1>1. ASSUME NEW i \in Intents, i.kind # "confirmed", SaveFrom(ses, i, jobs) PROVE Goal
  BY <1>0, <1>1, PendingOf DEF SaveFrom
<1>2. /\ Current.kind # "confirmed"
      /\ \A p \in Paths : To(p).kind # "confirmed" /\ CreateNew(p).kind # "confirmed"
  BY DEF Current, To, CreateNew, NoIntent
<1>3. CASE Save \/ AutosaveFires
  BY <1>1, <1>2, <1>3, IntentFacts DEF Save, AutosaveFires, RequestSave
<1>4. ASSUME NEW p \in Paths, SaveAs(p) \/ AutoName(p) PROVE Goal
  BY <1>1, <1>2, <1>4, IntentFacts DEF SaveAs, AutoName, RequestSave
<1>5. CASE ConfirmOverwrite
  <2>1. AnswerHanded
    BY <1>5, AnswerIsHanded
  <2>2. ApproveResolution(ses) \in Sessions /\ ApproveResolution(ses).pending = ses.pending
    BY <1>0, ApproveFacts DEF SameDocument
  <2> QED
    BY <2>1, <2>2, PendingOf DEF AnswerHanded
<1>6. ASSUME NEW k \in jobs, FinishSave(k) \/ FinishRename(k) PROVE Goal
  <2>1. PICK s : Handed(s, ses.pending) /\ s.pending = NoIntent
    BY <1>6, HandedByReport
  <2> QED
    BY <1>0, <2>1, PendingOf DEF Handed
<1>8. ASSUME NEW c \in Contents, Edit(c) \/ Compose(c) PROVE Goal
  BY <1>0, <1>8 DEF Edit, Compose, Sessions
<1>9. CASE \/ EndCompose \/ BeginRename \/ FinishTrash \/ Recheck \/ DeliverNotice
           \/ DeferredFires
  <2>1. ses'.pending = ses.pending
    BY <1>0, <1>9 DEF EndCompose, BeginRename, FinishTrash, Recheck, DeliverNotice,
         DeferredFires, StartCheckFrom, BeginExternalCheck, TakeSlot, Sessions
  <2> QED
    BY <2>1
<1>10. CASE ConfirmReload
  <2> DEFINE asked == ApproveResolution(ses)
  <2>1. asked \in Sessions /\ asked.pending = ses.pending
    BY <1>0, ApproveFacts DEF SameDocument
  <2>2. ses' = asked \/ ses' = [asked EXCEPT !.verify = asked.serial]
    BY <1>10 DEF ConfirmReload
  <2> HIDE DEF asked
  <2> QED
    BY <2>1, <2>2 DEF Sessions
<1>11. ASSUME NEW c \in checks, FinishCheck(c) PROVE Goal
  <2> DEFINE found == FinishedCheck(ses, c)
             idle == [found EXCEPT !.recheck = FALSE]
  <2>1. ses' \in {idle, BeginExternalCheck(idle)}
    BY <1>11 DEF FinishCheck
  <2>2. found \in Sessions /\ found.pending \in {ses.pending, NoIntent}
    BY <1>0, FinishedCheckFacts DEF LookInv, Fresh, SameDocument
  <2> HIDE DEF found
  <2>3. idle \in Sessions /\ idle.pending = found.pending
    BY <2>2 DEF Sessions
  <2> HIDE DEF idle
  <2>4. BeginExternalCheck(idle).pending = idle.pending
    BY <2>3 DEF BeginExternalCheck, Sessions
  <2> QED
    BY <1>0, <2>1, <2>2, <2>3, <2>4
<1>12. ASSUME NEW v \in verifies, FinishVerify(v) PROVE Goal
  <2>1. v \in Verifies /\ ses' = FinishedVerify(ses, v)
    BY <1>0, <1>12 DEF FinishVerify, Surroundings
  <2> QED
    BY <1>0, <2>1, FinishedVerifyFacts DEF Fresh, SameDocument
<1>13. ASSUME NEW latest \in BOOLEAN, FinishOpen(latest) PROVE Goal
  <2>1. CASE OpenIsRefused(latest)
    BY <1>13, <2>1 DEF FinishOpen
  <2>2. CASE ~OpenIsRefused(latest)
    <3>1. ses' = Adopt(ses, opening.path, opening.found) /\ opening.found # NoFile
      BY <1>13, <2>2 DEF FinishOpen, OpenIsRefused
    <3>2. opening.path \in Paths \cup {NoPath} /\ opening.found \in Contents
      BY <1>0, <3>1 DEF Surroundings, Tasks, Versions
    <3>3. ses'.pending = NoIntent
      BY <1>0, <3>1, <3>2, AdoptFacts DEF Fresh
    <3> QED
      BY <1>0, <3>3
  <2> QED
    BY <2>1, <2>2
<1>14. ASSUME \/ SwitchTab \/ StartTrash \/ Cancel \/ LoadFile \/ MoveToTrash
              \/ \E j \in jobs : RunWrite(j) \/ RunRename(j) \/ JobFails(j)
              \/ \E p \in Paths : StartOpen(p)
              \/ \E kind \in {"overwrite", "reload"} : Ask(kind)
              \/ \E c \in checks : ReadForCheck(c) \/ CheckFails(c) \/ DropCheck(c)
              \/ \E v \in verifies : ReadForVerify(v) \/ VerifyFails(v) \/ DropVerify(v)
              \/ \E p \in Paths, v \in Versions : ExternalChange(p, v)
       PROVE  ses' = ses
  BY <1>14 DEF SwitchTab, StartTrash, Cancel, LoadFile, MoveToTrash, RunWrite, RunRename,
               JobFails, StartOpen, Ask, ReadForCheck, CheckFails, DropCheck, ReadForVerify,
               VerifyFails, DropVerify, ExternalChange
<1> QED
  BY <1>3, <1>4, <1>5, <1>6, <1>8, <1>9, <1>10, <1>11, <1>12, <1>13, <1>14, Zenon
     DEF Step, UserStep, WorkerStep, ViewStep

-----------------------------------------------------------------------------
(* Versions this document came from, saved, or was confirmed over.          *)

Admitted == known \cup {NoFile}

\* What an ordinary save may replace is the version last accepted, what a confirmed
\* one may replace is the version the question was about: both are known versions,
\* whatever happens between the request, the slot and the write.
KnownFits ==
  /\ ses.baseline \in Admitted
  /\ \A j \in jobs : j.kind # "rename" /\ ~j.forced /\ j.status = "running"
                       => j.expects \in Admitted
  /\ ses.pending.kind = "confirmed" => ses.pending.approval.shown \in Admitted

\* What is seen is remembered as seen only of a changed file, and the answer that
\* lives is the last one given.
SeenLive == SeenFits(ses) /\ LiveFits(ses)

\* approve_resolution gives the answer another number and touches nothing else.
LEMMA ApproveView ==
  ASSUME NEW s \in Sessions
  PROVE  LET t == ApproveResolution(s) IN
         /\ t.serial = s.serial + 1 /\ t.live = t.serial /\ t.saves = s.saves
         /\ t.external = s.external /\ t.seen = s.seen /\ t.present = s.present
         /\ t.gen = s.gen /\ t.rev = s.rev /\ t.text = s.text
  BY DEF ApproveResolution, Sessions

\* Every step keeps what is remembered of the disk and of the answers consistent.
LEMMA SeenLiveStep ==
  ASSUME IInv, SeenLive, Step
  PROVE  SeenLive'
<1>0. ses \in Sessions
  BY DEF IInv, DocInv
<1>1. CASE Onward(ses, ses')
  BY <1>1 DEF Onward, SeenLive, LiveFits
<1>2. CASE Onward(ApproveResolution(ses), ses')
  <2> DEFINE t == ApproveResolution(ses)
  <2>1. t.live = t.serial /\ SeenFits(t)
    BY <1>0, ApproveView DEF SeenLive, SeenFits
  <2> HIDE DEF t
  <2> QED
    BY <1>2, <2>1 DEF Onward, SeenLive, LiveFits, t
<1> QED
  BY <1>1, <1>2, OnwardStep

\* It is so in every reachable state.
LEMMA SeenLiveAlways == Spec => []SeenLive
<1>1. Init => SeenLive
  BY DEF Init, NewSession, SeenLive, SeenFits, LiveFits
<1>2. IInv /\ SeenLive /\ [Next]_vars => SeenLive'
  <2>1. ASSUME IInv, SeenLive, Next PROVE SeenLive'
    BY <2>1, SeenLiveStep DEF Next
  <2>2. ASSUME SeenLive, UNCHANGED vars PROVE SeenLive'
    BY <2>2 DEF vars, SeenLive
  <2> QED
    BY <2>1, <2>2
<1> QED
  BY <1>1, <1>2, SessionInvariant, PTL DEF Spec

\* An approval that is current was given about the version that is seen, or about a
\* missing file.
LEMMA CurrentSeen ==
  ASSUME NEW s \in Sessions, SeenFits(s), NEW a, NEW kind, ApprovalIsCurrent(s, a, kind)
  PROVE  /\ s.seen = a.shown \/ s.seen = NoFile
         /\ a.shown = NoFile => s.seen = NoFile
         /\ a.shown # NoFile => s.external = "changed"
         /\ s.external = "inSync" => ~s.present
<1>1. a.shown \in CurrentExternal(s)
  BY DEF ApprovalIsCurrent
<1>2. CASE s.external = "changed"
  BY <1>1, <1>2 DEF CurrentExternal
<1>3. CASE s.external = "missing"
  BY <1>1, <1>3 DEF CurrentExternal, SeenFits
<1>4. CASE s.external = "inSync"
  BY <1>1, <1>4 DEF CurrentExternal, SeenFits
<1>5. CASE s.external = "unverifiable"
  BY <1>1, <1>5 DEF CurrentExternal
<1> QED
  BY <1>2, <1>3, <1>4, <1>5 DEF Sessions

\* The known versions only grow, and what is accepted is one of them; or another
\* document takes the place of this one, with no job and no request left.
LEMMA KnownMoves ==
  ASSUME IInv, Step
  PROVE  \/ known \subseteq known' /\ ses'.baseline \in {ses.baseline} \cup known'
         \/ known' = {ses'.baseline} /\ jobs' = {} /\ ses'.pending = NoIntent
<1> DEFINE Grow == known \subseteq known' /\ ses'.baseline \in {ses.baseline} \cup known'
           Another == known' = {ses'.baseline} /\ jobs' = {} /\ ses'.pending = NoIntent
<1>0. /\ DocInv(ses, jobs) /\ ses \in Sessions /\ checks \subseteq Checks
      /\ verifies \subseteq Verifies /\ Surroundings
  BY DEF IInv, DocInv, LookInv, Surroundings
<1>1. ASSUME NEW i, SaveFrom(ses, i, jobs), known' = known PROVE Grow
  BY <1>0, <1>1, RequestFacts DEF SaveFrom
<1>2. CASE Save \/ AutosaveFires
  BY <1>1, <1>2 DEF Save, AutosaveFires, RequestSave
<1>3. ASSUME NEW p \in Paths, SaveAs(p) \/ AutoName(p) PROVE Grow
  BY <1>1, <1>3 DEF SaveAs, AutoName, RequestSave
<1>4. CASE ConfirmOverwrite
  <2>1. ApproveResolution(ses) \in Sessions /\ ApproveResolution(ses).baseline = ses.baseline
    BY <1>0, ApproveFacts DEF SameDocument
  <2>2. known' = known \cup {prompt.shown}
    BY <1>4 DEF ConfirmOverwrite
  <2> QED
    BY <1>4, <2>1, <2>2, AnswerIsHanded, RequestFacts DEF AnswerHanded
<1>5. ASSUME NEW k \in jobs, FinishSave(k) \/ FinishRename(k) PROVE Grow
  <2>1. PICK s : /\ Handed(s, ses.pending)
                 /\ s.baseline = (IF FinishSave(k) /\ k.status = "done" THEN k.doc
                                                                       ELSE ses.baseline)
    BY <1>5, HandedByReport
  <2>2. ses'.baseline = s.baseline
    BY <2>1, RequestFacts DEF Handed
  <2>3. /\ known \subseteq known'
        /\ FinishSave(k) /\ k.status = "done" => k.doc \in known'
    BY <1>5 DEF FinishSave, FinishRename
  <2> QED
    BY <2>1, <2>2, <2>3
<1>6. ASSUME NEW c \in Contents, Edit(c) \/ Compose(c) PROVE Grow
  BY <1>0, <1>6 DEF Edit, Compose, Sessions
<1>7. CASE \/ EndCompose \/ BeginRename \/ FinishTrash \/ Recheck \/ DeliverNotice
           \/ DeferredFires
  <2>1. ses'.baseline = ses.baseline /\ known' = known
    BY <1>0, <1>7 DEF EndCompose, BeginRename, FinishTrash, Recheck, DeliverNotice,
         DeferredFires, StartCheckFrom, BeginExternalCheck, TakeSlot, Sessions
  <2> QED
    BY <2>1
<1>8. CASE ConfirmReload
  <2> DEFINE asked == ApproveResolution(ses)
  <2>1. asked \in Sessions /\ asked.baseline = ses.baseline
    BY <1>0, ApproveFacts DEF SameDocument
  <2>2. (ses' = asked \/ ses' = [asked EXCEPT !.verify = asked.serial]) /\ known' = known
    BY <1>8 DEF ConfirmReload
  <2> HIDE DEF asked
  <2> QED
    BY <2>1, <2>2 DEF Sessions
<1>9. ASSUME NEW c \in checks, FinishCheck(c) PROVE Grow \/ Another
  <2> DEFINE found == FinishedCheck(ses, c)
             idle == [found EXCEPT !.recheck = FALSE]
  <2>1. /\ ses' \in {idle, BeginExternalCheck(idle)} /\ jobs' = jobs
        /\ \/ found.gen # ses.gen /\ NewDocument(c.found)
           \/ found.gen = ses.gen /\ known' = known
    BY <1>9 DEF FinishCheck
  <2>2. /\ found \in Sessions
        /\ \/ ~SaveInFlight(ses) /\ Fresh(ses, found, ses.path, c.found)
           \/ SameDocument(ses, found)
    BY <1>0, FinishedCheckFacts
  <2> HIDE DEF found
  <2>3. idle \in Sessions /\ idle.pending = found.pending /\ idle.baseline = found.baseline
    BY <2>2 DEF Sessions
  <2> HIDE DEF idle
  <2>4. ses'.pending = found.pending /\ ses'.baseline = found.baseline
    <3>1. BeginExternalCheck(idle).pending = idle.pending
          /\ BeginExternalCheck(idle).baseline = idle.baseline
      BY <2>3 DEF BeginExternalCheck, Sessions
    <3> QED
      BY <2>1, <2>3, <3>1
  <2>5. CASE SameDocument(ses, found)
    BY <2>1, <2>4, <2>5 DEF SameDocument
  <2>6. CASE ~SaveInFlight(ses) /\ Fresh(ses, found, ses.path, c.found)
    <3>1. ses.gen \in Nat /\ found.gen = ses.gen + 1
      BY <1>0, <2>6 DEF Sessions, Fresh
    <3>2. jobs = {}
      BY <1>0, <2>6, FreeSlot
    <3> QED
      BY <2>1, <2>4, <2>6, <3>1, <3>2 DEF Fresh, NewDocument
  <2> QED
    BY <2>2, <2>5, <2>6
<1>10. ASSUME NEW v \in verifies, FinishVerify(v) PROVE Grow \/ Another
  <2>1. /\ v \in Verifies /\ ses' = FinishedVerify(ses, v) /\ jobs' = jobs
        /\ \/ ses'.gen # ses.gen /\ NewDocument(v.found)
           \/ ses'.gen = ses.gen /\ known' = known
    BY <1>0, <1>10 DEF FinishVerify
  <2>2. \/ ~SaveInFlight(ses) /\ Fresh(ses, ses', ses.path, v.found)
        \/ SameDocument(ses, ses')
    BY <1>0, <2>1, FinishedVerifyFacts
  <2>3. CASE SameDocument(ses, ses')
    BY <2>1, <2>3 DEF SameDocument
  <2>4. CASE ~SaveInFlight(ses) /\ Fresh(ses, ses', ses.path, v.found)
    <3>1. ses.gen \in Nat /\ ses'.gen = ses.gen + 1
      BY <1>0, <2>4 DEF Sessions, Fresh
    <3>2. jobs = {}
      BY <1>0, <2>4, FreeSlot
    <3> QED
      BY <2>1, <2>4, <3>1, <3>2 DEF Fresh, NewDocument
  <2> QED
    BY <2>2, <2>3, <2>4
<1>11. ASSUME NEW latest \in BOOLEAN, FinishOpen(latest) PROVE Grow \/ Another
  <2>1. CASE OpenIsRefused(latest)
    BY <1>11, <2>1 DEF FinishOpen
  <2>2. CASE ~OpenIsRefused(latest)
    <3>1. /\ ses' = Adopt(ses, opening.path, opening.found) /\ opening.found # NoFile
          /\ NewDocument(opening.found) /\ ~SaveInFlight(ses) /\ jobs' = jobs
      BY <1>11, <2>2 DEF FinishOpen, OpenIsRefused
    <3>2. opening.path \in Paths \cup {NoPath} /\ opening.found \in Contents
      BY <1>0, <3>1 DEF Surroundings, Tasks, Versions
    <3>3. ses'.pending = NoIntent /\ ses'.baseline = opening.found
      BY <1>0, <3>1, <3>2, AdoptFacts DEF Fresh
    <3>4. jobs = {}
      BY <1>0, <3>1, FreeSlot
    <3> QED
      BY <3>1, <3>3, <3>4 DEF NewDocument
  <2> QED
    BY <2>1, <2>2
<1>12. ASSUME \/ SwitchTab \/ StartTrash \/ Cancel \/ LoadFile \/ MoveToTrash
              \/ \E j \in jobs : RunWrite(j) \/ RunRename(j) \/ JobFails(j)
              \/ \E p \in Paths : StartOpen(p)
              \/ \E kind \in {"overwrite", "reload"} : Ask(kind)
              \/ \E c \in checks : ReadForCheck(c) \/ CheckFails(c) \/ DropCheck(c)
              \/ \E v \in verifies : ReadForVerify(v) \/ VerifyFails(v) \/ DropVerify(v)
              \/ \E p \in Paths, v \in Versions : ExternalChange(p, v)
       PROVE  ses' = ses /\ known' = known
  BY <1>12 DEF SwitchTab, StartTrash, Cancel, LoadFile, MoveToTrash, RunWrite, RunRename,
               JobFails, StartOpen, Ask, ReadForCheck, CheckFails, DropCheck, ReadForVerify,
               VerifyFails, DropVerify, ExternalChange
<1> HIDE DEF Another
<1> QED
  BY <1>2, <1>3, <1>4, <1>5, <1>6, <1>7, <1>8, <1>9, <1>10, <1>11, <1>12, Zenon
     DEF Step, UserStep, WorkerStep, ViewStep, Another

\* Every step keeps it so.
LEMMA KnownStep ==
  ASSUME IInv, SeenLive, KnownFits, Step
  PROVE  KnownFits'
<1>0. /\ ses \in Sessions /\ ses' \in Sessions /\ SeenFits(ses)
      /\ NoIntent.kind # "confirmed"
  BY DocStep DEF IInv, DocInv, SeenLive, NoIntent
<1>1. CASE known' = {ses'.baseline} /\ jobs' = {} /\ ses'.pending = NoIntent
  BY <1>0, <1>1 DEF KnownFits, Admitted
<1>2. CASE known \subseteq known' /\ ses'.baseline \in {ses.baseline} \cup known'
  <2>1. Admitted \subseteq Admitted' /\ ses'.baseline \in Admitted'
    BY <1>2 DEF KnownFits, Admitted
  <2>2. AnswerHanded => Answer.approval.shown \in Admitted'
    <3>1. Answer.approval.shown = prompt.shown
      BY DEF Answer, Confirmed, Approval, NoIntent
    <3> QED
      BY <3>1 DEF AnswerHanded, ConfirmOverwrite, Admitted
  <2>3. ASSUME ses'.pending.kind = "confirmed" PROVE ses'.pending.approval.shown \in Admitted'
    BY <2>1, <2>2, <2>3, PendingStep DEF KnownFits
  <2>4. ASSUME NEW j \in jobs', j.kind # "rename", ~j.forced, j.status = "running"
        PROVE  j.expects \in Admitted'
    <3>1. ASSUME NEW s \in Sessions, NEW i \in Intents, SeenFits(s), j \in JobsOfRequest(s, i),
                 s.baseline = ses'.baseline,
                 i.kind = "confirmed" => i.approval.shown \in Admitted'
          PROVE  j.expects \in Admitted'
      <4>1. /\ j = WriteJob(s, i)
            /\ i.kind = "confirmed" => ApprovalIsCurrent(s, i.approval, "overwrite")
        BY <3>1, GrantedFacts
      <4>2. /\ i.kind = "createNew" => j.expects = NoFile
            /\ i.kind = "confirmed" => j.expects = s.seen
            /\ i.kind \notin {"createNew", "confirmed"} => j.expects = s.baseline
        BY <4>1, StartedFacts
      <4>3. i.kind = "confirmed" => s.seen \in {i.approval.shown, NoFile}
        BY <3>1, <4>1, CurrentSeen
      <4>4. \/ j.expects \in {NoFile, ses'.baseline}
            \/ i.kind = "confirmed" /\ j.expects \in {i.approval.shown, NoFile}
        BY <3>1, <4>2, <4>3
      <4>5. NoFile \in Admitted'
        BY DEF Admitted
      <4> QED
        BY <2>1, <3>1, <4>4, <4>5
    <3>2. CASE j \in jobs
      BY <2>1, <2>4, <3>2 DEF KnownFits
    <3>3. ASSUME NEW s, NEW i, Handed(s, i), j \in JobsOfRequest(s, i)
          PROVE  j.expects \in Admitted'
      <4>1. s \in Sessions /\ i \in Intents /\ Onward(ses, s) /\ s.baseline = ses'.baseline
        BY <3>3, RequestFacts DEF Handed
      <4>2. i.kind = "confirmed" => i.approval.shown \in Admitted'
        BY <2>1, <3>3 DEF Handed, KnownFits
      <4> QED
        BY <1>0, <3>1, <3>3, <4>1, <4>2 DEF Onward
    <3>4. ASSUME AnswerHanded, j \in JobsOfRequest(ApproveResolution(ses), Answer)
          PROVE  j.expects \in Admitted'
      <4> DEFINE s == ApproveResolution(ses)
      <4>1. s \in Sessions /\ SeenFits(s)
        BY <1>0, ApproveFacts, ApproveView DEF SeenFits
      <4>2. Answer \in Intents /\ s.baseline = ses'.baseline
        <5>1. Answer \in Intents /\ ses' = AfterRequest(s, Answer)
          BY <3>4 DEF AnswerHanded
        <5> HIDE DEF s
        <5> QED
          BY <4>1, <5>1, RequestFacts
      <4> HIDE DEF s
      <4> QED
        BY <2>2, <3>1, <3>4, <4>1, <4>2 DEF s
    <3> QED
      BY <2>4, <3>2, <3>3, <3>4, JobsStep
  <2> QED
    BY <2>1, <2>3, <2>4 DEF KnownFits
<1> QED
  BY <1>1, <1>2, KnownMoves

\* It is so in every reachable state.
LEMMA KnownAlways == Spec => []KnownFits
<1>1. Init => KnownFits
  BY DEF Init, NewSession, KnownFits, Admitted, NoIntent
<1>2. IInv /\ SeenLive /\ KnownFits /\ [Next]_vars => KnownFits'
  <2>1. ASSUME IInv, SeenLive, KnownFits, Next PROVE KnownFits'
    BY <2>1, KnownStep DEF Next
  <2>2. ASSUME KnownFits, UNCHANGED vars PROVE KnownFits'
    BY <2>2 DEF vars, KnownFits, Admitted
  <2> QED
    BY <2>1, <2>2
<1> QED
  BY <1>1, <1>2, SessionInvariant, SeenLiveAlways, PTL DEF Spec

\* A write nobody forced replaces a version this document came from, saved, or was
\* confirmed over, however long it waited for the slot (session.rs: start_write,
\* request_confirmed_overwrite, complete_save, run_pending).
THEOREM WritesReplaceKnown == Spec => ReplacesOnlyKnown
<1>1. ASSUME KnownFits, NEW j \in jobs, RunWrite(j), ~j.forced, disk' # disk
      PROVE  disk[j.path] \in known \cup {NoFile}
  <2>1. j.kind # "rename" /\ j.status = "running" /\ disk[j.path] = j.expects
    BY <1>1 DEF RunWrite
  <2> QED
    BY <1>1, <2>1 DEF KnownFits, Admitted
<1>2. KnownFits => [\A j \in jobs : RunWrite(j) /\ ~j.forced /\ disk' # disk
                      => disk[j.path] \in known \cup {NoFile}]_vars
  BY <1>1
<1> QED
  BY <1>2, KnownAlways, PTL DEF ReplacesOnlyKnown

-----------------------------------------------------------------------------
(* The answers to the two destructive questions.                            *)

\* The answer a is the one the session waits to act on, about this very document.
Stands(s, a) == s.live = a.serial /\ a.gen = s.gen /\ a.rev = s.rev

\* It was given to this session, not after now.
Given(s, a) ==
  /\ a.serial > 0 /\ a.serial <= s.serial
  /\ a.gen <= s.gen /\ (a.gen = s.gen => a.rev <= s.rev)

\* Nothing moved since the last answer, and there is still something to resolve.
Unmoved == ses.external # "inSync" /\ ~stirred

\* An answer about a missing file says less where files go to the Trash.
Lasting(a) == a.shown # NoFile \/ "trash" \notin UserActions

\* While an answer stands, nothing has moved since it was given: the one that is
\* being verified, and the one that waits for the slot.
AnswersFit ==
  /\ \A v \in verifies : /\ Given(ses, v.approval)
                         /\ Stands(ses, v.approval) => Unmoved
  /\ ses.pending.kind = "confirmed" =>
       LET a == ses.pending.approval
       IN  Given(ses, a) /\ (Stands(ses, a) /\ Lasting(a) => Unmoved)
  /\ "trash" \notin UserActions => Shown(ses)

\* What there is to resolve depends on what is known of the disk alone.
LEMMA SameExternal ==
  ASSUME NEW s \in Sessions, NEW t \in Sessions, t.external = s.external, t.seen = s.seen,
         s.external # "inSync"
  PROVE  CurrentExternal(t) = CurrentExternal(s)
<1>1. CASE s.external = "changed"
  BY <1>1 DEF CurrentExternal
<1>2. CASE s.external = "missing"
  BY <1>2 DEF CurrentExternal
<1>3. CASE s.external = "unverifiable"
  BY <1>3 DEF CurrentExternal
<1> QED
  BY <1>1, <1>2, <1>3 DEF Sessions

\* While the document, the last answer and what is known of the disk stay, the
\* history stays quiet.
LEMMA StillQuiet ==
  ASSUME ses \in Sessions, ses' \in Sessions, stirred' = Stir,
         Unmoved, ses'.serial = ses.serial, ses'.gen = ses.gen, ses'.rev = ses.rev,
         ses'.external = ses.external, ses'.seen = ses.seen
  PROVE  Unmoved'
<1>1. CurrentExternal(ses') = CurrentExternal(ses)
  BY SameExternal DEF Unmoved
<1>2. ~Stir
  BY <1>1, Zenon DEF Stir, Unmoved
<1>3. ~stirred'
  BY <1>2
<1> QED
  BY <1>3 DEF Unmoved

\* The step of another answer quiets the history.
LEMMA QuietAgain ==
  ASSUME stirred' = Stir, ses'.serial # ses.serial
  PROVE  ~stirred'
<1>1. ~Stir
  BY Zenon DEF Stir
<1> QED
  BY <1>1

\* An answer that stands after a step stood before it, and nothing moved meanwhile.
LEMMA AnswerStep ==
  ASSUME IInv, SeenLive, Step, stirred' = Stir, NEW a \in Approvals, Given(ses, a)
  PROVE  /\ Given(ses', a)
         /\ Stands(ses', a) => Stands(ses, a) /\ (Unmoved => Unmoved')
<1>0. /\ ses \in Sessions /\ ses' \in Sessions /\ SeenFits(ses) /\ LiveFits(ses)
      /\ ses.gen \in Nat /\ ses.rev \in Nat /\ ses.serial \in Nat
      /\ ses'.gen \in Nat /\ ses'.rev \in Nat /\ ses'.serial \in Nat
      /\ a.gen \in Nat /\ a.rev \in Nat /\ a.serial \in Nat
  BY DocStep DEF IInv, DocInv, SeenLive, Sessions, Approvals
<1>1. CASE Onward(ses, ses')
  <2>1. Given(ses', a)
    BY <1>0, <1>1 DEF Onward, Given
  <2>2. ASSUME Stands(ses', a)
        PROVE  /\ Stands(ses, a) /\ ses'.serial = ses.serial /\ ses'.gen = ses.gen
               /\ ses'.rev = ses.rev /\ ses'.external = ses.external /\ ses'.seen = ses.seen
    <3>1. ses'.live # 0 /\ ses'.live = ses.live
      BY <1>0, <1>1, <2>2 DEF Onward, Given, Stands
    <3>2. ses'.gen = ses.gen /\ ses'.rev = ses.rev
      BY <1>0, <1>1, <2>2 DEF Onward, Given, Stands
    <3> QED
      BY <1>0, <1>1, <2>2, <3>1, <3>2 DEF Onward, Stands
  <2> QED
    BY <1>0, <2>1, <2>2, StillQuiet
<1>2. CASE Onward(ApproveResolution(ses), ses')
  <2> DEFINE t == ApproveResolution(ses)
  <2>1. t.serial = ses.serial + 1 /\ t.live = t.serial /\ t.gen = ses.gen /\ t.rev = ses.rev
    BY <1>0, ApproveView
  <2> HIDE DEF t
  <2>2. Onward(t, ses')
    BY <1>2 DEF t
  <2>3. Given(ses', a)
    BY <1>0, <2>1, <2>2 DEF Onward, Given
  <2>4. ~Stands(ses', a)
    BY <1>0, <2>1, <2>2 DEF Onward, Given, Stands
  <2> QED
    BY <2>3, <2>4
<1> QED
  BY <1>1, <1>2, OnwardStep

\* The reads that verify an answer are those of before, and that of the answer given.
LEMMA VerifiesStep ==
  ASSUME IInv, Step, NEW d \in verifies'
  PROVE  \/ \E v \in verifies : d.approval = v.approval
         \/ /\ ConfirmReload /\ ses.external = "changed"
            /\ d.approval = Approval(ApproveResolution(ses), "reload", prompt.shown)
<1>0. verifies \subseteq Verifies
  BY DEF IInv, Surroundings
<1>1. CASE d \in verifies
  BY <1>1
<1>2. ASSUME NEW v \in verifies, ReadForVerify(v) \/ VerifyFails(v), d \notin verifies
      PROVE  d.approval = v.approval
  <2>1. \/ d = [v EXCEPT !.read = "read", !.found = disk[v.path], !.after = WritesLanded]
        \/ d = [v EXCEPT !.read = "unreadable"]
    BY <1>2 DEF ReadForVerify, VerifyFails
  <2> QED
    BY <1>0, <2>1 DEF Verifies
<1>3. ASSUME ConfirmReload, d \notin verifies
      PROVE  /\ ses.external = "changed"
             /\ d.approval = Approval(ApproveResolution(ses), "reload", prompt.shown)
  BY <1>3 DEF ConfirmReload
<1>4. ASSUME \/ \E v \in verifies : DropVerify(v) \/ FinishVerify(v)
             \/ \E c \in checks : \/ ReadForCheck(c) \/ CheckFails(c) \/ DropCheck(c)
                                  \/ FinishCheck(c)
             \/ \E j \in jobs : \/ RunWrite(j) \/ RunRename(j) \/ JobFails(j)
                                \/ FinishSave(j) \/ FinishRename(j)
      PROVE  d \in verifies
  BY <1>4 DEF DropVerify, FinishVerify, ReadForCheck, CheckFails, DropCheck, FinishCheck,
              RunWrite, RunRename, JobFails, FinishSave, FinishRename
<1>5. ASSUME \/ Save \/ AutosaveFires \/ ConfirmOverwrite \/ EndCompose \/ BeginRename
             \/ Recheck \/ DeliverNotice \/ DeferredFires
             \/ SwitchTab \/ StartTrash \/ Cancel \/ LoadFile \/ MoveToTrash \/ FinishTrash
             \/ \E c \in Contents : Edit(c) \/ Compose(c)
             \/ \E p \in Paths : SaveAs(p) \/ AutoName(p) \/ StartOpen(p)
             \/ \E kind \in {"overwrite", "reload"} : Ask(kind)
             \/ \E latest \in BOOLEAN : FinishOpen(latest)
             \/ \E p \in Paths, v \in Versions : ExternalChange(p, v)
      PROVE  d \in verifies
  BY <1>5 DEF Save, AutosaveFires, ConfirmOverwrite, SaveAs, AutoName, RequestSave, Edit,
              Compose, EndCompose, BeginRename, Recheck, DeliverNotice, DeferredFires,
              SwitchTab, StartTrash, Cancel, LoadFile, MoveToTrash, FinishTrash, StartOpen,
              Ask, FinishOpen, ExternalChange
<1> QED
  BY <1>1, <1>2, <1>3, <1>4, <1>5, Zenon DEF Step, UserStep, WorkerStep, ViewStep

\* An answer just given stands, with the history quiet.
LEMMA AnswerGiven ==
  ASSUME IInv, Step, stirred' = Stir, ConfirmOverwrite \/ ConfirmReload, NEW kind
  PROVE  LET asked == ApproveResolution(ses) IN
         /\ Given(ses', Approval(asked, kind, prompt.shown))
         /\ ~stirred' /\ ses'.external = ses.external
<1> DEFINE asked == ApproveResolution(ses)
           a == Approval(asked, kind, prompt.shown)
<1>0. /\ ses \in Sessions /\ prompt \in Prompts
      /\ ses.gen \in Nat /\ ses.rev \in Nat /\ ses.serial \in Nat
  BY DEF IInv, DocInv, Sessions, Surroundings
<1>1. /\ asked.serial = ses.serial + 1 /\ asked.gen = ses.gen /\ asked.rev = ses.rev
      /\ asked.external = ses.external /\ asked \in Sessions
  BY <1>0, ApproveView, ApproveFacts
<1>2. a.serial = asked.serial /\ a.gen = asked.gen /\ a.rev = asked.rev
  BY DEF Approval
<1>3. \/ \E i : ses' = AfterRequest(asked, i)
      \/ ses' \in {asked, [asked EXCEPT !.verify = asked.serial]}
  BY DEF ConfirmOverwrite, ConfirmReload, SaveFrom
<1> HIDE DEF asked
<1>4. SameView(asked, ses')
  <2>1. SameView(asked, asked) /\ SameView(asked, [asked EXCEPT !.verify = asked.serial])
    BY <1>1 DEF SameView, Sessions
  <2> QED
    BY <1>1, <1>3, <2>1, ViewFacts
<1>5. ses'.serial = ses.serial + 1 /\ ses'.external = ses.external
  BY <1>1, <1>4 DEF SameView
<1>6. ~stirred'
  BY <1>0, <1>5, QuietAgain
<1> HIDE DEF a
<1>7. Given(ses', a)
  BY <1>0, <1>1, <1>2, <1>4 DEF Given, SameView
<1> QED
  BY <1>5, <1>6, <1>7 DEF asked, a

\* Every step keeps the answers.
LEMMA AnswersStep ==
  ASSUME IInv, SeenLive, AnswersFit, Step, stirred' = Stir
  PROVE  AnswersFit'
<1>0. /\ ses \in Sessions /\ verifies \subseteq Verifies /\ prompt \in Prompts
      /\ ses.pending.approval \in Approvals
  BY DEF IInv, DocInv, Surroundings, Sessions, Intents
<1>1. ASSUME NEW d \in verifies'
      PROVE  Given(ses', d.approval) /\ (Stands(ses', d.approval) => Unmoved')
  <2>1. ASSUME NEW v \in verifies, d.approval = v.approval
        PROVE  Given(ses', d.approval) /\ (Stands(ses', d.approval) => Unmoved')
    <3>1. v.approval \in Approvals
      BY <1>0 DEF Verifies
    <3>2. Given(ses, v.approval) /\ (Stands(ses, v.approval) => Unmoved)
      BY DEF AnswersFit
    <3> QED
      BY <2>1, <3>1, <3>2, AnswerStep
  <2>2. ASSUME ConfirmReload, ses.external = "changed",
               d.approval = Approval(ApproveResolution(ses), "reload", prompt.shown)
        PROVE  Given(ses', d.approval) /\ Unmoved'
    <3>1. Given(ses', d.approval) /\ ~stirred' /\ ses'.external = "changed"
      BY <2>2, AnswerGiven
    <3> QED
      BY <3>1 DEF Unmoved
  <2> QED
    BY <2>1, <2>2, VerifiesStep
<1>2. ASSUME ses'.pending.kind = "confirmed"
      PROVE  LET a == ses'.pending.approval
             IN  Given(ses', a) /\ (Stands(ses', a) /\ Lasting(a) => Unmoved')
  <2>1. CASE ses'.pending = ses.pending
    <3> DEFINE a == ses.pending.approval
    <3>1. Given(ses, a) /\ (Stands(ses, a) /\ Lasting(a) => Unmoved)
      BY <1>2, <2>1 DEF AnswersFit
    <3> HIDE DEF a
    <3>2. a \in Approvals
      BY <1>0 DEF a
    <3>3. Given(ses', a) /\ (Stands(ses', a) /\ Lasting(a) => Unmoved')
      BY <3>1, <3>2, AnswerStep
    <3> QED
      BY <2>1, <3>3 DEF a
  <2>2. CASE AnswerHanded /\ ses'.pending = Answer
    <3> DEFINE a == Approval(ApproveResolution(ses), "overwrite", prompt.shown)
    <3>1. Answer.approval = a
      BY DEF Answer, Confirmed, NoIntent
    <3>2. Given(ses', a) /\ ~stirred' /\ ses'.external = ses.external
      BY <2>2, AnswerGiven DEF AnswerHanded
    <3>3. a.shown = prompt.shown /\ prompt.shown \in CurrentExternal(ses)
      BY <2>2 DEF AnswerHanded, ConfirmOverwrite, AnswerFits, Approval
    <3>4. Lasting(a) => ses.external # "inSync"
      <4>1. ses.external = "inSync" => prompt.shown = NoFile /\ ~ses.present
        BY <3>3 DEF CurrentExternal
      <4>2. "trash" \notin UserActions => Shown(ses)
        BY DEF AnswersFit
      <4> HIDE DEF a
      <4> QED
        BY <3>3, <4>1, <4>2 DEF Lasting, Shown
    <3> HIDE DEF a
    <3>5. Stands(ses', a) /\ Lasting(a) => Unmoved'
      BY <3>2, <3>4 DEF Unmoved
    <3> QED
      BY <2>2, <3>1, <3>2, <3>5
  <2> QED
    BY <1>2, <2>1, <2>2, PendingStep
<1>3. "trash" \notin UserActions => Shown(ses')
  <2>1. CASE Onward(ses, ses')
    BY <2>1 DEF Onward, AnswersFit
  <2>2. CASE Onward(ApproveResolution(ses), ses')
    <3> DEFINE t == ApproveResolution(ses)
    <3>1. Shown(ses) => Shown(t)
      BY <1>0, ApproveView DEF Shown
    <3> HIDE DEF t
    <3>2. Onward(t, ses')
      BY <2>2 DEF t
    <3> QED
      BY <3>1, <3>2 DEF Onward, AnswersFit
  <2> QED
    BY <2>1, <2>2, OnwardStep
<1> QED
  BY <1>1, <1>2, <1>3 DEF AnswersFit

\* It is so in every reachable state.
LEMMA AnswersAlways == Spec => []AnswersFit
<1>1. Init => AnswersFit
  BY DEF Init, NewSession, AnswersFit, NoIntent, Shown
<1>2. IInv /\ SeenLive /\ AnswersFit /\ [Next]_vars => AnswersFit'
  <2>1. ASSUME IInv, SeenLive, AnswersFit, Next PROVE AnswersFit'
    BY <2>1, AnswersStep DEF Next
  <2>2. ASSUME AnswersFit, UNCHANGED vars PROVE AnswersFit'
    BY <2>2 DEF vars, AnswersFit, Unmoved
  <2> QED
    BY <2>1, <2>2
<1> QED
  BY <1>1, <1>2, SessionInvariant, SeenLiveAlways, PTL DEF Spec

\* A step that starts another generation of the document finishes a check, a verified
\* discard or a load.
LEMMA GenStep ==
  ASSUME IInv, Step, ses'.gen # ses.gen
  PROVE  \/ \E c \in checks : FinishCheck(c)
         \/ \E v \in verifies : FinishVerify(v)
         \/ \E latest \in BOOLEAN : FinishOpen(latest)
<1>0. ses \in Sessions
  BY DEF IInv, DocInv
<1>1. ASSUME NEW i, SaveFrom(ses, i, jobs) PROVE FALSE
  BY <1>0, <1>1, ViewFacts DEF SaveFrom, SameView
<1>2. ASSUME \/ Save \/ AutosaveFires
             \/ \E p \in Paths : SaveAs(p) \/ AutoName(p)
      PROVE  FALSE
  BY <1>1, <1>2 DEF Save, AutosaveFires, SaveAs, AutoName, RequestSave
<1>3. ASSUME NEW k \in jobs, FinishSave(k) \/ FinishRename(k) PROVE FALSE
  <2>1. PICK s : Handed(s, ses.pending)
    BY <1>3, HandedByReport
  <2> QED
    BY <2>1, ViewFacts DEF Handed, SameView
<1>4. ASSUME ConfirmOverwrite \/ ConfirmReload PROVE FALSE
  <2> DEFINE asked == ApproveResolution(ses)
  <2>1. asked \in Sessions /\ asked.gen = ses.gen
    BY <1>0, ApproveFacts DEF SameDocument
  <2>2. \/ \E i : ses' = AfterRequest(asked, i)
        \/ ses' \in {asked, [asked EXCEPT !.verify = asked.serial]}
    BY <1>4 DEF ConfirmOverwrite, ConfirmReload, SaveFrom
  <2> HIDE DEF asked
  <2>3. [asked EXCEPT !.verify = asked.serial].gen = asked.gen
    BY <2>1 DEF Sessions
  <2>4. \A i : AfterRequest(asked, i).gen = asked.gen
    BY <2>1, ViewFacts DEF SameView
  <2> QED
    BY <2>1, <2>2, <2>3, <2>4
<1>5. ASSUME \/ EndCompose \/ BeginRename \/ FinishTrash \/ Recheck \/ DeliverNotice
             \/ DeferredFires
             \/ \E c \in Contents : Edit(c) \/ Compose(c)
      PROVE  FALSE
  <2>1. CASE EndCompose \/ FinishTrash
    BY <1>0, <2>1 DEF EndCompose, FinishTrash, Sessions
  <2>2. CASE BeginRename
    BY <1>0, <2>2 DEF BeginRename, TakeSlot, Sessions
  <2>3. CASE Recheck \/ DeliverNotice \/ DeferredFires
    <3>1. ses' = ses \/ ses' = BeginExternalCheck(ses)
      BY <2>3 DEF Recheck, DeliverNotice, DeferredFires, StartCheckFrom
    <3> QED
      BY <1>0, <3>1 DEF BeginExternalCheck, Sessions
  <2>4. CASE \E c \in Contents : Edit(c) \/ Compose(c)
    BY <1>0, <2>4 DEF Edit, Compose, Sessions
  <2> QED
    BY <1>5, <2>1, <2>2, <2>3, <2>4
<1>6. ASSUME \/ SwitchTab \/ StartTrash \/ Cancel \/ LoadFile \/ MoveToTrash
             \/ \E j \in jobs : RunWrite(j) \/ RunRename(j) \/ JobFails(j)
             \/ \E p \in Paths : StartOpen(p)
             \/ \E kind \in {"overwrite", "reload"} : Ask(kind)
             \/ \E c \in checks : ReadForCheck(c) \/ CheckFails(c) \/ DropCheck(c)
             \/ \E v \in verifies : ReadForVerify(v) \/ VerifyFails(v) \/ DropVerify(v)
             \/ \E p \in Paths, v \in Versions : ExternalChange(p, v)
      PROVE  FALSE
  BY <1>6 DEF SwitchTab, StartTrash, Cancel, LoadFile, MoveToTrash, RunWrite, RunRename,
              JobFails, StartOpen, Ask, ReadForCheck, CheckFails, DropCheck, ReadForVerify,
              VerifyFails, DropVerify, ExternalChange
<1> QED
  BY <1>2, <1>3, <1>4, <1>5, <1>6, Zenon DEF Step, UserStep, WorkerStep, ViewStep

\* A verified discard replaces the document only by what was shown and found.
LEMMA DiscardFacts ==
  ASSUME NEW s \in Sessions, NEW v \in Verifies, FinishedVerify(s, v).gen # s.gen
  PROVE  /\ ApprovalIsCurrent(s, v.approval, "reload")
         /\ v.approval.shown = v.found /\ FinishedVerify(s, v).text = v.found
<1> DEFINE free == [s EXCEPT !.verify = 0]
           t == FinishedVerify(s, v)
<1>1. free \in Sessions /\ free.gen = s.gen
  BY DEF Sessions
<1>2. \/ t \in {free, ObserveFailure(free, v), ObserveChange(free, v.found)}
      \/ /\ FileRead(v) /\ ApprovalIsCurrent(s, v.approval, "reload")
         /\ v.approval.shown = v.found /\ t = ReplaceWithDisk(free, v.found)
  BY Zenon DEF FinishedVerify
<1>3. FileRead(v) => v.found \in Contents
  BY DEF FileRead, Verifies, Versions
<1> HIDE DEF t, free
<1>4. t.gen # s.gen
  BY DEF t
<1>5. t \notin {free, ObserveFailure(free, v), ObserveChange(free, v.found)}
  <2>1. ObserveFailure(free, v).gen = free.gen /\ ObserveChange(free, v.found).gen = free.gen
    BY <1>1, ObserveFacts DEF SameChecks
  <2> QED
    BY <1>1, <1>4, <2>1
<1>6. FileRead(v) => ReplaceWithDisk(free, v.found).text = v.found
  BY <1>1, <1>3, ReplaceFacts DEF Fresh
<1> QED
  BY <1>2, <1>5, <1>6 DEF t

\* Unsaved edits are given up only by the discard the user confirmed at this revision,
\* for the version then shown, with nothing moved since (session.rs:
\* complete_external_check, finish_verified_reload; view.rs: the load that lands).
THEOREM EditsAreNotLost == Spec => NoSilentLoss
<1> DEFINE Kept == ses'.gen # ses.gen /\ IsDirty(ses)
                     => \E v \in verifies :
                          /\ v.approval.rev = ses.rev /\ v.approval.gen = ses.gen
                          /\ v.approval.shown = ses'.text /\ v.found = ses'.text
                          /\ ~stirred
<1>1. ASSUME IInv, AnswersFit, Step, ses'.gen # ses.gen, IsDirty(ses)
      PROVE  \E v \in verifies :
                /\ v.approval.rev = ses.rev /\ v.approval.gen = ses.gen
                /\ v.approval.shown = ses'.text /\ v.found = ses'.text
                /\ ~stirred
  <2>0. ses \in Sessions /\ checks \subseteq Checks /\ verifies \subseteq Verifies
    BY <1>1 DEF IInv, DocInv, LookInv, Surroundings
  <2>1. ASSUME NEW c \in checks, FinishCheck(c) PROVE FALSE
    <3> DEFINE found == FinishedCheck(ses, c)
               idle == [found EXCEPT !.recheck = FALSE]
    <3>1. ses' \in {idle, BeginExternalCheck(idle)}
      BY <2>1 DEF FinishCheck
    <3>2. found \in Sessions /\ found.gen = ses.gen
      BY <1>1, <2>0, FinishedCheckFacts DEF SameDocument
    <3> HIDE DEF found
    <3>3. idle \in Sessions /\ idle.gen = found.gen
      BY <3>2 DEF Sessions
    <3> HIDE DEF idle
    <3> QED
      BY <1>1, <3>1, <3>2, <3>3, ViewFacts DEF SameView
  <2>2. ASSUME NEW latest \in BOOLEAN, FinishOpen(latest) PROVE FALSE
    BY <1>1, <2>2 DEF FinishOpen, OpenIsRefused
  <2>3. ASSUME NEW v \in verifies, FinishVerify(v)
        PROVE  /\ v.approval.rev = ses.rev /\ v.approval.gen = ses.gen
               /\ v.approval.shown = ses'.text /\ v.found = ses'.text
               /\ ~stirred
    <3>1. /\ ApprovalIsCurrent(ses, v.approval, "reload")
          /\ v.approval.shown = v.found /\ ses'.text = v.found
      BY <1>1, <2>0, <2>3, DiscardFacts DEF FinishVerify
    <3>2. Stands(ses, v.approval)
      BY <3>1 DEF ApprovalIsCurrent, Stands
    <3>3. ~stirred
      BY <1>1, <3>2 DEF AnswersFit, Unmoved
    <3> QED
      BY <3>1, <3>2, <3>3 DEF Stands
  <2> QED
    BY <1>1, <2>1, <2>2, <2>3, GenStep
<1>2. IInv /\ AnswersFit /\ [Next]_vars => [Kept]_vars
  BY <1>1 DEF Next
<1> QED
  BY <1>2, SessionInvariant, AnswersAlways, PTL DEF Spec, NoSilentLoss

\* A write the user confirmed starts for the document and the version the answer was
\* given about, at once or after it waited for the slot, and for nothing that came in
\* between (session.rs: approve_resolution, set_external, approval_is_current,
\* request_confirmed_overwrite).
THEOREM ConfirmedWritesAreFresh == Spec => ApprovalHolds
<1>1. ASSUME IInv, SeenLive, AnswersFit, Step, stirred' = Stir, NEW j \in jobs' \ jobs,
             j.kind = "confirmed", j.status = "running"
      PROVE  /\ j.doc = ses.text
             /\ ~stirred' \/ ("trash" \in UserActions /\ j.expects = NoFile)
  <2>0. /\ ses \in Sessions /\ ses' \in Sessions /\ SeenFits(ses)
    BY <1>1, DocStep DEF IInv, DocInv, SeenLive
  <2>1. ASSUME NEW s, NEW i, Handed(s, i), j \in JobsOfRequest(s, i)
        PROVE  /\ j.doc = ses.text
               /\ ~stirred' \/ ("trash" \in UserActions /\ j.expects = NoFile)
    <3> DEFINE a == i.approval
    <3>1. /\ s \in Sessions /\ i \in Intents /\ Onward(ses, s) /\ s.text = ses.text
          /\ s.gen = ses.gen /\ s.rev = ses.rev /\ ses' = AfterRequest(s, i)
      BY <2>1 DEF Handed
    <3>2. /\ j = WriteJob(s, i)
          /\ i.kind = "confirmed" => ApprovalIsCurrent(s, a, "overwrite")
      BY <2>1, <3>1, GrantedFacts
    <3>3. i.kind = "confirmed" /\ j.doc = ses.text /\ j.expects = s.seen
      BY <1>1, <3>1, <3>2, StartedFacts
    <3>4. i = ses.pending /\ ApprovalIsCurrent(s, a, "overwrite")
      BY <2>1, <3>2, <3>3 DEF Handed
    <3>5. /\ s.live # 0 /\ s.live = a.serial /\ a.gen = s.gen /\ a.rev = s.rev
          /\ ses.live = s.live /\ s.external = ses.external /\ s.seen = ses.seen
          /\ s.serial = ses.serial /\ SeenFits(s)
      BY <2>0, <3>1, <3>4 DEF ApprovalIsCurrent, Onward
    <3>6. Stands(ses, a)
      BY <3>1, <3>5 DEF Stands
    <3>7. Lasting(a) => Unmoved
      BY <1>1, <3>3, <3>4, <3>6 DEF AnswersFit
    <3>8. Unmoved => ~stirred'
      <4>1. SameView(s, ses')
        BY <3>1, ViewFacts
      <4> QED
        BY <1>1, <2>0, <3>1, <3>5, <4>1, StillQuiet DEF SameView, Unmoved
    <3>9. ~Lasting(a) => "trash" \in UserActions /\ j.expects = NoFile
      BY <3>1, <3>3, <3>4, <3>5, CurrentSeen DEF Lasting
    <3> QED
      BY <3>3, <3>7, <3>8, <3>9
  <2>2. ASSUME AnswerHanded, j \in JobsOfRequest(ApproveResolution(ses), Answer)
        PROVE  j.doc = ses.text /\ ~stirred'
    <3> DEFINE s == ApproveResolution(ses)
    <3>1. s \in Sessions /\ s.text = ses.text /\ Answer \in Intents
      BY <2>0, <2>2, ApproveFacts, ApproveView DEF AnswerHanded
    <3>2. j = WriteJob(s, Answer)
      BY <2>2, <3>1, GrantedFacts
    <3> HIDE DEF s
    <3>3. j.doc = ses.text
      BY <3>1, <3>2, StartedFacts
    <3>4. ~stirred'
      BY <1>1, <2>2, AnswerGiven DEF AnswerHanded
    <3> QED
      BY <3>3, <3>4
  <2> QED
    BY <1>1, <2>1, <2>2, JobsStep
<1>2. IInv /\ SeenLive /\ AnswersFit /\ [Next]_vars
        => [\A j \in jobs' \ jobs : j.kind = "confirmed" /\ j.status = "running"
              => /\ j.doc = ses.text
                 /\ ~stirred' \/ ("trash" \in UserActions /\ j.expects = NoFile)]_vars
  BY <1>1 DEF Next
<1> QED
  BY <1>2, SessionInvariant, SeenLiveAlways, AnswersAlways, PTL DEF Spec, ApprovalHolds

-----------------------------------------------------------------------------
(* A conflict that is known is shown.                                       *)

\* There is something to lose either way: unsaved edits over a foreign version.
Clash(s) == s.external = "changed" /\ IsDirty(s)

\* The request that waits will be granted if the session stays as it is.
WillRun(s) ==
  \/ s.pending.kind \in {"current", "to", "createNew"}
  \/ s.pending.kind = "confirmed" /\ ApprovalIsCurrent(s, s.pending.approval, "overwrite")

\* A save is on its way: a write, whose report shows the conflict or ends it, or a
\* rename behind which a request to write waits.
Owed(s, js) == \E j \in js : j.kind # "rename" \/ WillRun(s)

ClashFits(s, js, timer, shown) ==
  Clash(s) /\ ~timer /\ shown \notin {"conflict", "failed"} => Owed(s, js)

\* Where the tab stays selected and no discard is asked for.
Watched == active /\ verifies = {} /\ prompt.kind # "reload"
FewerMoves == "switch" \notin UserActions /\ "reload" \notin UserActions

ConflictFits ==
  /\ ClashFits(ses, jobs, armed, problem)
  /\ ses.external = "changed" => Tracked(ses)
  /\ Watched

\* What decides whether there is a conflict, and whether a request will be granted.
SameClash(s, t) ==
  /\ t.external = s.external /\ t.seen = s.seen /\ t.live = s.live
  /\ t.rev = s.rev /\ t.saved = s.saved /\ t.gen = s.gen /\ t.pending = s.pending
  /\ Tracked(s) => Tracked(t)

\* With these unchanged, and no job gone, a save is on its way as before.
LEMMA ClashStays ==
  ASSUME NEW s \in Sessions, NEW t \in Sessions, SameClash(s, t),
         NEW js, NEW ks, \A j \in js : \E k \in ks : k.kind = j.kind,
         NEW timer, NEW shown, ClashFits(s, js, timer, shown)
  PROVE  ClashFits(t, ks, timer, shown)
<1>1. Clash(t) => Clash(s)
  BY DEF SameClash, Clash, IsDirty
<1>2. Clash(s) /\ WillRun(s) => WillRun(t)
  BY DEF SameClash, Clash, WillRun, ApprovalIsCurrent, CurrentExternal
<1>3. Clash(s) /\ Owed(s, js) => Owed(t, ks)
  BY <1>2 DEF Owed
<1> QED
  BY <1>1, <1>3 DEF ClashFits

\* A request that will be granted is on its way once it has been handed on.
LEMMA RequestOwed ==
  ASSUME NEW s \in Sessions, NEW js, SaveInFlight(s) => js # {}, NEW i \in Intents,
         \/ i.kind \in {"current", "to", "createNew"}
         \/ i.kind = "confirmed" /\ ApprovalIsCurrent(s, i.approval, "overwrite"),
         s.external = "changed", Tracked(s)
  PROVE  Owed(AfterRequest(s, i), js \cup JobsOfRequest(s, i))
<1>1. ~RequestRefused(s, i)
  BY DEF RequestRefused, ApprovalExpired
<1>2. CASE SaveInFlight(s)
  <2> DEFINE t == [s EXCEPT !.pending = i]
  <2>1. AfterRequest(s, i) = t /\ JobsOfRequest(s, i) = {}
    BY <1>1, <1>2 DEF AfterRequest, JobsOfRequest
  <2>2. /\ t.pending = i /\ t.live = s.live /\ t.gen = s.gen /\ t.rev = s.rev
        /\ t.external = s.external /\ t.seen = s.seen
    BY DEF Sessions
  <2> HIDE DEF t
  <2>3. WillRun(t)
    BY <2>2 DEF WillRun, ApprovalIsCurrent, CurrentExternal
  <2> QED
    BY <1>2, <2>1, <2>3 DEF Owed
<1>3. CASE ~SaveInFlight(s)
  <2>1. JobsOfRequest(s, i) = {WriteJob(s, i)}
    BY <1>1, <1>3 DEF JobsOfRequest
  <2>2. WriteJob(s, i).kind # "rename"
    BY DEF WriteJob
  <2> QED
    BY <2>1, <2>2 DEF Owed
<1> QED
  BY <1>2, <1>3

\* A request that is handed on changes nothing about the conflict itself.
LEMMA RequestClash ==
  ASSUME NEW s \in Sessions, NEW i
  PROVE  LET t == AfterRequest(s, i) IN
         /\ t.external = s.external /\ t.rev = s.rev /\ t.saved = s.saved /\ t.path = s.path
<1>1. \A u \in {s, TakeSlot(s), [s EXCEPT !.pending = i]} :
        /\ u.external = s.external /\ u.rev = s.rev /\ u.saved = s.saved /\ u.path = s.path
  BY DEF TakeSlot, Sessions
<1>2. LET t == [TakeSlot(s) EXCEPT !.live = IF i.kind = "confirmed" THEN 0 ELSE @] IN
        /\ t.external = s.external /\ t.rev = s.rev /\ t.saved = s.saved /\ t.path = s.path
  BY DEF TakeSlot, Sessions
<1> QED
  BY <1>1, <1>2 DEF AfterRequest

\* Looking at the disk, or reserving the slot, changes nothing about the conflict.
LEMMA LookClash ==
  ASSUME NEW s \in Sessions
  PROVE  SameClash(s, BeginExternalCheck(s)) /\ SameClash(s, TakeSlot(s))
  BY DEF SameClash, BeginExternalCheck, TakeSlot, Tracked, Sessions

\* A save that is asked for while the document is selected keeps the conflict in view.
LEMMA SaveFits ==
  ASSUME IInv, ses.external = "changed" => Tracked(ses), NEW i \in Intents,
         i.kind \in {"current", "to", "createNew"}, SaveFrom(ses, i, jobs), NEW timer, NEW shown
  PROVE  ClashFits(ses', jobs', timer, shown) /\ (ses'.external = "changed" => Tracked(ses'))
<1>1. ses \in Sessions /\ (SaveInFlight(ses) => jobs # {})
  BY DEF IInv, DocInv, SlotFits
<1>2. ses' = AfterRequest(ses, i) /\ jobs' = jobs \cup JobsOfRequest(ses, i)
  BY DEF SaveFrom
<1>3. ses'.external = ses.external /\ ses'.path = ses.path
  BY <1>1, <1>2, RequestClash
<1>4. ses.external = "changed" => Owed(ses', jobs')
  BY <1>1, <1>2, RequestOwed
<1> QED
  BY <1>3, <1>4 DEF ClashFits, Clash, Tracked

\* A report shows the conflict, ends it, or hands on the request that resolves it.
LEMMA ReportFits ==
  ASSUME IInv, ConflictFits, NEW j \in jobs, FinishSave(j) \/ FinishRename(j)
  PROVE  ClashFits(ses', jobs', armed', problem') /\ (ses'.external = "changed" => Tracked(ses'))
<1>0. /\ DocInv(ses, jobs) /\ ses \in Sessions /\ j \in Jobs /\ jobs = {j}
      /\ ses.pending \in Intents /\ NoPath \notin Paths /\ j.path \in Paths /\ j.to \in Paths
  BY SessionAssumption DEF IInv, DocInv, Sessions, SlotFits, Jobs
<1>1. CASE FinishSave(j)
  <2> DEFINE done == FinishedSave(ses, j)
             looked == IF j.status = "conflict" THEN BeginExternalCheck(done) ELSE done
             s == TakePending(looked)
  <2>1. ses' = AfterRequest(s, ses.pending) \/ ses' = AfterRequest(s, looked.pending)
    BY <1>1 DEF FinishSave, RunPending, SaveFrom
  <2>2. done \in Sessions
    BY <1>0, <1>1, FinishedSaveKeeps DEF FinishSave
  <2>3. /\ j.status = "done" => done.external = "inSync"
        /\ done.external = "changed" => ses.external = "changed" /\ done.path = ses.path
    BY <1>0 DEF FinishedSave, ReleaseSlot, Sessions
  <2> HIDE DEF done
  <2>4. looked \in Sessions /\ looked.external = done.external /\ looked.path = done.path
    BY <2>2 DEF BeginExternalCheck, Sessions
  <2> HIDE DEF looked
  <2>5. s \in Sessions /\ s.external = looked.external /\ s.path = looked.path
    BY <2>4, NoIntentFacts DEF TakePending, Sessions
  <2> HIDE DEF s
  <2>6. ses'.external = s.external /\ ses'.path = s.path
    BY <2>1, <2>5, RequestClash
  <2>7. j.status # "done" => problem' \in {"conflict", "failed"}
    BY <1>0, <1>1 DEF FinishSave, Jobs
  <2> QED
    BY <2>3, <2>4, <2>5, <2>6, <2>7 DEF ClashFits, Clash, ConflictFits, Tracked
<1>2. CASE FinishRename(j)
  <2> DEFINE done == ReleaseSlot(FollowRename(ses, j))
             s == TakePending(done)
  <2>1. /\ ses' = AfterRequest(s, done.pending)
        /\ jobs' = (jobs \ {j}) \cup JobsOfRequest(s, done.pending)
        /\ armed' = armed /\ problem' = problem /\ j.kind = "rename"
    BY <1>2 DEF FinishRename, RunPending, SaveFrom
  <2>2. /\ done \in Sessions /\ SameClash(ses, done) /\ ~SaveInFlight(done)
    BY <1>0, NoIntentFacts
       DEF ReleaseSlot, FollowRename, SameClash, SaveInFlight, Tracked, Sessions
  <2> HIDE DEF done
  <2>3. /\ s \in Sessions /\ ~SaveInFlight(s)
        /\ s.external = done.external /\ s.seen = done.seen /\ s.live = done.live
        /\ s.rev = done.rev /\ s.saved = done.saved /\ s.gen = done.gen /\ s.path = done.path
    BY <2>2, NoIntentFacts DEF TakePending, SaveInFlight, Sessions
  <2> HIDE DEF s
  <2>4. /\ ses'.external = s.external /\ ses'.rev = s.rev /\ ses'.saved = s.saved
        /\ ses'.path = s.path
    BY <2>1, <2>3, RequestClash
  <2>5. Clash(ses') => Clash(ses)
    BY <2>2, <2>3, <2>4 DEF Clash, SameClash, IsDirty
  <2>6. ses'.external = "changed" => Tracked(ses')
    BY <2>2, <2>3, <2>4 DEF ConflictFits, SameClash, Tracked
  <2>7. ASSUME Clash(ses), ~armed, problem \notin {"conflict", "failed"} PROVE Owed(ses', jobs')
    <3>1. WillRun(ses)
      BY <1>0, <2>1, <2>7 DEF ConflictFits, ClashFits, Owed
    <3>2. s.external = "changed" /\ Tracked(s) /\ ses.external = "changed"
      BY <2>2, <2>3, <2>7 DEF ConflictFits, Clash, SameClash, Tracked
    <3>3. done.pending = ses.pending
      BY <2>2 DEF SameClash
    <3>4. \/ done.pending.kind \in {"current", "to", "createNew"}
          \/ /\ done.pending.kind = "confirmed"
             /\ ApprovalIsCurrent(s, done.pending.approval, "overwrite")
      BY <2>2, <2>3, <3>1, <3>2, <3>3
         DEF WillRun, ApprovalIsCurrent, CurrentExternal, SameClash
    <3> QED
      BY <1>0, <2>1, <2>3, <3>2, <3>3, <3>4, RequestOwed
  <2> QED
    BY <2>1, <2>5, <2>6, <2>7 DEF ClashFits
<1> QED
  BY <1>1, <1>2

\* What a check finds it shows; a check that no longer applies changes nothing.
LEMMA CheckFits ==
  ASSUME IInv, ConflictFits, NEW c \in checks, FinishCheck(c)
  PROVE  ClashFits(ses', jobs', armed', problem') /\ (ses'.external = "changed" => Tracked(ses'))
<1> DEFINE found == FinishedCheck(ses, c)
           idle == [found EXCEPT !.recheck = FALSE]
           free == [ses EXCEPT !.checking = FALSE]
<1>0. /\ ses \in Sessions /\ c \in Checks /\ c.path \in Paths /\ NoPath \notin Paths
  BY SessionAssumption DEF IInv, DocInv, LookInv, Checks
<1>1. /\ ses' \in {idle, BeginExternalCheck(idle)} /\ jobs' = jobs
      /\ \/ found.gen # ses.gen
         \/ found.gen = ses.gen /\ armed' = armed
            /\ problem' = IF CheckIsCurrent(ses, c) THEN ProblemFor(found) ELSE problem
  BY DEF FinishCheck
<1>2. /\ found \in Sessions
      /\ \/ found.gen # ses.gen /\ ~IsDirty(found) /\ found.path = ses.path
         \/ SameDocument(ses, found)
  BY <1>0, FinishedCheckFacts DEF Fresh, IsDirty, Sessions
<1>3. CheckIsCurrent(ses, c) => Tracked(ses)
  BY <1>0 DEF CheckIsCurrent, Tracked
<1>4. ~CheckIsCurrent(ses, c) => SameClash(ses, found)
  <2>1. free \in Sessions /\ SameClash(ses, free)
    BY <1>0 DEF SameClash, Tracked, Sessions
  <2> HIDE DEF free
  <2>2. SameClash(ses, [free EXCEPT !.recheck = @ \/ c.path = ses.path])
    BY <2>1 DEF SameClash, Tracked, Sessions
  <2> QED
    BY <2>2 DEF FinishedCheck, free
<1> HIDE DEF found
<1>5. idle \in Sessions /\ SameClash(found, idle)
  BY <1>2 DEF SameClash, Tracked, Sessions
<1> HIDE DEF idle
<1>6. ses' \in Sessions /\ SameClash(idle, ses')
  <2>1. SameClash(idle, idle) /\ SameClash(idle, BeginExternalCheck(idle))
    BY <1>5, LookClash DEF SameClash
  <2>2. BeginExternalCheck(idle) \in Sessions
    BY <1>5 DEF BeginExternalCheck, Sessions
  <2> QED
    BY <1>1, <1>5, <2>1, <2>2
<1>7. SameClash(found, ses')
  BY <1>5, <1>6 DEF SameClash
<1>8. CASE found.gen # ses.gen
  <2>1. ~IsDirty(ses') /\ (~CheckIsCurrent(ses, c) => FALSE)
    BY <1>2, <1>4, <1>7, <1>8 DEF SameClash, IsDirty, SameDocument
  <2> QED
    BY <1>2, <1>3, <1>7, <1>8, <2>1 DEF ClashFits, Clash, SameClash, Tracked, SameDocument
<1>9. CASE found.gen = ses.gen /\ CheckIsCurrent(ses, c)
  <2>1. Clash(ses') => Clash(found)
    BY <1>7 DEF SameClash, Clash, IsDirty
  <2>2. Clash(found) => problem' \in {"conflict", "failed"}
    BY <1>1, <1>9 DEF Clash, ProblemFor
  <2>3. Tracked(ses')
    BY <1>2, <1>3, <1>7, <1>9 DEF SameClash, Tracked, SameDocument
  <2> QED
    BY <2>1, <2>2, <2>3 DEF ClashFits
<1>10. CASE found.gen = ses.gen /\ ~CheckIsCurrent(ses, c)
  <2>1. SameClash(ses, ses')
    BY <1>4, <1>7, <1>10 DEF SameClash
  <2>2. ClashFits(ses', jobs, armed, problem)
    BY <1>0, <1>6, <2>1, ClashStays DEF ConflictFits
  <2> QED
    BY <1>1, <1>10, <2>1, <2>2 DEF ConflictFits, SameClash
<1> QED
  BY <1>8, <1>9, <1>10

\* The question on screen changes only when one is put or answered.
LEMMA PromptStays ==
  ASSUME Step, \A kind \in {"overwrite", "reload"} : ~Ask(kind),
         ~Cancel, ~ConfirmOverwrite, ~ConfirmReload
  PROVE  prompt' = prompt
<1>1. ASSUME UserStep PROVE prompt' = prompt
  BY <1>1 DEF UserStep, Edit, Compose, EndCompose, Save, Recheck, BeginRename, SwitchTab,
              StartTrash, SaveAs, AutoName, RequestSave, StartOpen
<1>2. ASSUME WorkerStep PROVE prompt' = prompt
  BY <1>2 DEF WorkerStep, RunWrite, RunRename, JobFails, ReadForCheck, CheckFails,
              ReadForVerify, VerifyFails, LoadFile, MoveToTrash
<1>3. ASSUME ViewStep PROVE prompt' = prompt
  BY <1>3 DEF ViewStep, AutosaveFires, DeferredFires, DeliverNotice, FinishSave,
              FinishRename, DropCheck, FinishCheck, DropVerify, FinishVerify, FinishTrash,
              FinishOpen
<1> QED
  BY <1>1, <1>2, <1>3 DEF Step, ExternalChange

\* The tab stays selected, and no discard is asked for, confirmed or verified.
LEMMA WatchedStep ==
  ASSUME IInv, FewerMoves, Watched, Step
  PROVE  Watched'
<1>0. prompt \in Prompts /\ NoPrompt.kind # "reload" /\ active \in BOOLEAN
  BY DEF IInv, Surroundings, Flags, NoPrompt
<1>1. ~SwitchTab /\ ~Ask("reload") /\ ~ConfirmReload
  BY DEF FewerMoves, SwitchTab, Ask, ConfirmReload, Spend, Watched
<1>2. active'
  <2>1. ASSUME NEW latest \in BOOLEAN, FinishOpen(latest) PROVE active'
    BY <2>1 DEF FinishOpen, Watched
  <2>2. ASSUME ~SwitchTab, ~(\E latest \in BOOLEAN : FinishOpen(latest)) PROVE active' = active
    <3>1. ASSUME UserStep PROVE active' = active
      BY <2>2, <3>1
         DEF UserStep, Edit, Compose, EndCompose, Save, Recheck, BeginRename, StartTrash,
             SaveAs, AutoName, RequestSave, StartOpen, Ask, Cancel, ConfirmOverwrite,
             ConfirmReload
    <3>2. ASSUME WorkerStep PROVE active' = active
      BY <3>2 DEF WorkerStep, RunWrite, RunRename, JobFails, ReadForCheck, CheckFails,
                  ReadForVerify, VerifyFails, LoadFile, MoveToTrash
    <3>3. ASSUME ViewStep PROVE active' = active
      BY <2>2, <3>3
         DEF ViewStep, AutosaveFires, DeferredFires, DeliverNotice, FinishSave, FinishRename,
             DropCheck, FinishCheck, DropVerify, FinishVerify, FinishTrash
    <3> QED
      BY <3>1, <3>2, <3>3 DEF Step, ExternalChange
  <2> QED
    BY <1>1, <2>1, <2>2 DEF Watched
<1>3. verifies' = {}
  <2>1. ASSUME NEW d \in verifies' PROVE FALSE
    BY <1>1, <2>1, VerifiesStep DEF Watched
  <2> QED
    BY <2>1
<1>4. prompt'.kind # "reload"
  <2>1. CASE Ask("overwrite")
    BY <2>1 DEF Ask
  <2>2. CASE Cancel \/ ConfirmOverwrite
    BY <1>0, <2>2 DEF Cancel, ConfirmOverwrite
  <2>3. CASE ~Ask("overwrite") /\ ~Cancel /\ ~ConfirmOverwrite
    BY <1>1, <2>3, PromptStays DEF Watched
  <2> QED
    BY <2>1, <2>2, <2>3
<1> QED
  BY <1>2, <1>3, <1>4 DEF Watched

\* Every step keeps a conflict in view.
LEMMA ConflictStep ==
  ASSUME IInv, FewerMoves, ConflictFits, Step
  PROVE  ConflictFits'
<1> DEFINE Goal == /\ ClashFits(ses', jobs', armed', problem')
                   /\ ses'.external = "changed" => Tracked(ses')
<1>0. /\ DocInv(ses, jobs) /\ ses \in Sessions /\ ses' \in Sessions /\ jobs \subseteq Jobs
      /\ Surroundings /\ ses.rev \in Nat /\ ses.saved \in Nat /\ ses.saved <= ses.rev
      /\ active /\ verifies = {} /\ NoPath \notin Paths
      /\ ClashFits(ses, jobs, armed, problem) /\ (ses.external = "changed" => Tracked(ses))
  BY DocStep, SessionAssumption
     DEF IInv, DocInv, Sessions, Accepted, ConflictFits, Watched
<1>1. ASSUME SameClash(ses, ses'), \A j \in jobs : \E k \in jobs' : k.kind = j.kind,
             UNCHANGED <<armed, problem>>
      PROVE  Goal
  BY <1>0, <1>1, ClashStays DEF SameClash
<1>2. ASSUME NEW i \in Intents, i.kind \in {"current", "to", "createNew"},
             SaveFrom(ses, i, jobs)
      PROVE  Goal
  BY <1>0, <1>2, SaveFits
<1> HIDE DEF Goal
<1>3. /\ Current.kind = "current"
      /\ \A p \in Paths : To(p).kind = "to" /\ CreateNew(p).kind = "createNew"
  BY DEF Current, To, CreateNew, NoIntent
<1>4. ASSUME Save PROVE Goal
  BY <1>2, <1>3, <1>4, IntentFacts DEF Save, RequestSave
<1>5. ASSUME NEW p \in Paths, SaveAs(p) \/ AutoName(p) PROVE Goal
  BY <1>2, <1>3, <1>5, IntentFacts DEF SaveAs, AutoName, RequestSave
<1>6. ASSUME AutosaveFires PROVE Goal
  <2>1. CASE ~ses.ime
    BY <1>0, <1>2, <1>3, <1>6, <2>1, IntentFacts DEF AutosaveFires
  <2>2. CASE ses.ime
    <3>1. ses' = ses /\ (Clash(ses) => armed')
      BY <1>0, <1>6, <2>2 DEF AutosaveFires, AutosaveDue, Clash
    <3> QED
      BY <1>0, <3>1 DEF ClashFits, Goal
  <2> QED
    BY <1>0, <2>1, <2>2 DEF Sessions
<1>7. ASSUME NEW c \in Contents, Edit(c) \/ Compose(c) PROVE Goal
  <2>1. ses'.external = ses.external /\ ses'.path = ses.path
    BY <1>0, <1>7 DEF Edit, Compose, Sessions
  <2>2. armed' = AutosaveDue(ses')
    BY <1>7 DEF Edit, Compose
  <2> QED
    BY <1>0, <2>1, <2>2 DEF ClashFits, Clash, AutosaveDue, Tracked, Goal
<1>8. ASSUME ConfirmOverwrite PROVE Goal
  <2> DEFINE asked == ApproveResolution(ses)
             a == Approval(asked, "overwrite", prompt.shown)
  <2>1. /\ ses' = AfterRequest(asked, Confirmed(a))
        /\ jobs' = jobs \cup JobsOfRequest(asked, Confirmed(a))
        /\ prompt.shown \in CurrentExternal(ses)
    BY <1>8 DEF ConfirmOverwrite, SaveFrom, AnswerFits
  <2>2. Answer = Confirmed(a) /\ Answer \in Intents
    BY <1>8, AnswerIsHanded DEF Answer, AnswerHanded
  <2>3. /\ asked \in Sessions /\ asked.serial = ses.serial + 1 /\ asked.live = asked.serial
        /\ asked.external = ses.external /\ asked.seen = ses.seen /\ ses.serial \in Nat
        /\ asked.path = ses.path /\ asked.inFlight = ses.inFlight
    BY <1>0, ApproveView, ApproveFacts DEF SameDocument, Sessions
  <2>4. /\ a.kind = "overwrite" /\ a.gen = asked.gen /\ a.rev = asked.rev
        /\ a.shown = prompt.shown /\ a.serial = asked.serial
    BY DEF Approval
  <2> HIDE DEF asked, a
  <2>5. Confirmed(a).kind = "confirmed" /\ Confirmed(a).approval = a
    BY DEF Confirmed, NoIntent
  <2>6. ses'.external = asked.external /\ ses'.path = asked.path
    BY <2>1, <2>3, RequestClash
  <2>7. ASSUME ses.external = "changed" PROVE Owed(ses', jobs')
    <3>1. ApprovalIsCurrent(asked, a, "overwrite")
      BY <2>1, <2>3, <2>4, <2>7 DEF ApprovalIsCurrent, CurrentExternal
    <3>2. SaveInFlight(asked) => jobs # {}
      BY <1>0, <2>3 DEF DocInv, SlotFits, SaveInFlight
    <3>3. Tracked(asked)
      BY <1>0, <2>3, <2>7 DEF Tracked
    <3> QED
      BY <2>1, <2>2, <2>3, <2>5, <2>7, <3>1, <3>2, <3>3, RequestOwed
  <2> QED
    BY <1>0, <2>3, <2>6, <2>7 DEF ClashFits, Clash, Tracked, Goal
<1>9. ASSUME NEW j \in jobs, FinishSave(j) \/ FinishRename(j) PROVE Goal
  BY <1>9, ReportFits DEF Goal
<1>10. ASSUME NEW c \in checks, FinishCheck(c) PROVE Goal
  BY <1>10, CheckFits DEF Goal
<1>11. ASSUME NEW latest \in BOOLEAN, FinishOpen(latest) PROVE Goal
  <2>1. CASE OpenIsRefused(latest)
    <3>1. UNCHANGED <<ses, jobs, armed, problem>>
      BY <1>11, <2>1 DEF FinishOpen
    <3> QED
      BY <1>0, <3>1 DEF Goal
  <2>2. CASE ~OpenIsRefused(latest)
    <3>1. /\ ses' = Adopt(ses, opening.path, opening.found) /\ opening.found # NoFile
          /\ opening.stage = "done"
      BY <1>11, <2>2 DEF FinishOpen, OpenIsRefused
    <3>2. opening.path \in Paths /\ opening.found \in Contents
      BY <1>0, <3>1 DEF Surroundings, Tasks, Versions
    <3>3. ~IsDirty(ses') /\ ses'.path \in Paths
      BY <1>0, <3>1, <3>2, AdoptFacts DEF Fresh, IsDirty
    <3> QED
      BY <1>0, <3>3 DEF ClashFits, Clash, Tracked, Goal
  <2> QED
    BY <2>1, <2>2
<1>12. ASSUME EndCompose \/ FinishTrash \/ Recheck \/ DeliverNotice \/ DeferredFires PROVE Goal
  <2>1. UNCHANGED <<jobs, armed, problem>>
    BY <1>12 DEF EndCompose, FinishTrash, Recheck, DeliverNotice, DeferredFires
  <2>2. SameClash(ses, ses')
    <3>1. CASE EndCompose
      BY <1>0, <3>1 DEF EndCompose, SameClash, Tracked, Sessions
    <3>2. CASE FinishTrash
      BY <1>0, <3>2 DEF FinishTrash, SameClash, Tracked, Sessions
    <3>3. CASE Recheck \/ DeliverNotice \/ DeferredFires
      <4>1. ses' \in {ses, BeginExternalCheck(ses)}
        BY <3>3 DEF Recheck, DeliverNotice, DeferredFires, StartCheckFrom
      <4> QED
        BY <1>0, <4>1, LookClash DEF SameClash
    <3> QED
      BY <1>12, <3>1, <3>2, <3>3
  <2> QED
    BY <1>1, <2>1, <2>2
<1>13. ASSUME BeginRename PROVE Goal
  <2>1. /\ ses' = TakeSlot(ses) /\ jobs \subseteq jobs' /\ UNCHANGED <<armed, problem>>
    BY <1>13 DEF BeginRename
  <2>2. \A j \in jobs : \E k \in jobs' : k.kind = j.kind
    BY <2>1
  <2> QED
    BY <1>0, <1>1, <2>1, <2>2, LookClash
<1>14. ASSUME NEW j \in jobs, RunWrite(j) \/ RunRename(j) \/ JobFails(j) PROVE Goal
  <2>1. /\ ses' = ses /\ UNCHANGED <<armed, problem>>
        /\ \E k : k.kind = j.kind /\ jobs' = (jobs \ {j}) \cup {k}
    <3>1. j \in Jobs
      BY <1>0
    <3>2. /\ \A st : [j EXCEPT !.status = st].kind = j.kind
          /\ \A to : [j EXCEPT !.status = "done", !.to = to].kind = j.kind
      BY <3>1 DEF Jobs
    <3> QED
      BY <1>14, <3>2, Zenon DEF RunWrite, RunRename, JobFails
  <2>2. \A k \in jobs : \E l \in jobs' : l.kind = k.kind
    BY <2>1
  <2>3. SameClash(ses, ses')
    BY <2>1 DEF SameClash
  <2> QED
    BY <1>1, <2>1, <2>2, <2>3
<1>15. ASSUME \/ SwitchTab \/ StartTrash \/ Cancel \/ LoadFile \/ MoveToTrash
              \/ \E p \in Paths : StartOpen(p)
              \/ \E kind \in {"overwrite", "reload"} : Ask(kind)
              \/ \E c \in checks : ReadForCheck(c) \/ CheckFails(c) \/ DropCheck(c)
              \/ \E p \in Paths, v \in Versions : ExternalChange(p, v)
       PROVE  Goal
  <2>1. UNCHANGED <<ses, jobs, armed, problem>>
    BY <1>15 DEF SwitchTab, StartTrash, Cancel, LoadFile, MoveToTrash, StartOpen, Ask,
                 ReadForCheck, CheckFails, DropCheck, ExternalChange
  <2> QED
    BY <1>0, <2>1 DEF Goal
<1>16. ~ConfirmReload
  BY DEF ConflictFits, Watched, ConfirmReload
<1>17. Goal
  BY <1>0, <1>4, <1>5, <1>6, <1>7, <1>8, <1>9, <1>10, <1>11, <1>12, <1>13, <1>14, <1>15,
     <1>16, Zenon DEF Step, UserStep, WorkerStep, ViewStep
<1> QED
  BY <1>17, WatchedStep DEF ConflictFits, Goal

\* Unsaved edits over a foreign version, and nothing on its way that would write them: the
\* conflict is on screen, or the failure of the write that was to resolve it, as long as
\* the tab stays selected and no discard is asked for (session_save.rs: finish_save,
\* schedule_autosave; document_watch.rs: the outcome of a check).
THEOREM ConflictsAreShown ==
  ASSUME FewerMoves
  PROVE  Spec => []ConflictIsShown
<1>1. Init => ConflictFits
  BY DEF Init, NewSession, ConflictFits, ClashFits, Clash, Watched, NoPrompt
<1>2. IInv /\ ConflictFits /\ [Next]_vars => ConflictFits'
  <2>1. ASSUME IInv, ConflictFits, Next PROVE ConflictFits'
    BY <2>1, ConflictStep DEF Next
  <2>2. ASSUME ConflictFits, UNCHANGED vars PROVE ConflictFits'
    BY <2>2 DEF vars, ConflictFits, Watched
  <2> QED
    BY <2>1, <2>2
<1>3. IInv /\ ConflictFits => ConflictIsShown
  <2>1. ASSUME IInv, ConflictFits, Clash(ses), ~armed, ~SaveInFlight(ses),
               problem \notin {"conflict", "failed"}
        PROVE  FALSE
    <3>1. jobs # {}
      BY <2>1 DEF ConflictFits, ClashFits, Owed
    <3> QED
      BY <2>1, <3>1 DEF IInv, DocInv, SlotFits, JobFits, SaveInFlight, NoTicket, Tickets
  <2> QED
    BY <2>1 DEF ConflictIsShown, Clash
<1> QED
  BY <1>1, <1>2, <1>3, SessionInvariant, PTL DEF Spec

-----------------------------------------------------------------------------
(* A view at rest is true.                                                  *)

LandedAt(js, p) == \E j \in js : Landed(j) /\ j.path = p

\* What the session says of its file is what the file holds.
Believes(s, v) ==
  /\ s.external = "inSync" => v = IF s.present THEN s.baseline ELSE NoFile
  /\ s.external = "changed" => v = s.seen
  /\ s.external = "missing" => v = NoFile

\* The check has read, and will be believed: no write of this session has landed
\* since it was started.
Telling(s, c) == c.read # "reading" /\ c.saves = s.saves /\ c.after <= s.saves

\* A check under way is of this path, and what it tells is what the file holds.
CheckFitsDisk(s, js, d, c) ==
  /\ c.path = s.path
  /\ Telling(s, c) => /\ ~LandedAt(js, s.path)
                      /\ c.read = "read" => c.found = d[s.path]

\* With no notice owed: a check under way tells the truth unless a follow-up is owed,
\* and with no check under way the session says the truth unless something was cut.
SightFits ==
  ~notice /\ Tracked(ses) =>
    /\ ~ses.recheck => \A c \in checks : c.gen = ses.gen => CheckFitsDisk(ses, jobs, disk, c)
    /\ ~ses.checking /\ ~cut => ~LandedAt(jobs, ses.path) /\ Believes(ses, disk[ses.path])

\* A rename is of the session's file, to another name.
RenamesFit(js, p) ==
  \A j \in js : j.kind = "rename" => j.path = p /\ (j.status = "done" => j.to # j.path)

\* Where nothing is loaded into the session, discarded or moved to the Trash.
Undisturbed == verifies = {} /\ opening = Idle /\ trash = Idle /\ prompt.kind # "reload"
CalmMoves == \A move \in {"open", "reload", "trash"} : move \notin UserActions

SightInv == SightFits /\ RenamesFit(jobs, ses.path) /\ Undisturbed

SameSight(s, t) ==
  /\ t.path = s.path /\ t.gen = s.gen /\ t.baseline = s.baseline /\ t.present = s.present
  /\ t.external = s.external /\ t.seen = s.seen /\ t.saves = s.saves
  /\ t.checking = s.checking /\ t.recheck = s.recheck

\* A request, the slot and the queue change nothing about what is seen.
LEMMA SlotSight ==
  ASSUME NEW s \in Sessions
  PROVE  /\ SameSight(s, TakeSlot(s)) /\ SameSight(s, ReleaseSlot(s))
         /\ SameSight(s, TakePending(s)) /\ SameSight(s, ApproveResolution(s))
         /\ \A i : SameSight(s, AfterRequest(s, i))
<1>1. /\ SameSight(s, TakeSlot(s)) /\ SameSight(s, ReleaseSlot(s))
      /\ SameSight(s, TakePending(s)) /\ SameSight(s, ApproveResolution(s))
  BY DEF SameSight, TakeSlot, ReleaseSlot, TakePending, ApproveResolution, Sessions
<1>2. ASSUME NEW i PROVE SameSight(s, AfterRequest(s, i))
  <2>1. SameSight(s, s) /\ SameSight(s, [s EXCEPT !.pending = i])
    BY DEF SameSight, Sessions
  <2>2. SameSight(s, [TakeSlot(s) EXCEPT !.live = IF i.kind = "confirmed" THEN 0 ELSE @])
    BY DEF SameSight, TakeSlot, Sessions
  <2> QED
    BY <1>1, <2>1, <2>2 DEF AfterRequest
<1> QED
  BY <1>1, <1>2

\* A request starts writes only, and they have not landed yet.
LEMMA RequestJobs ==
  ASSUME NEW s, NEW i, NEW js, NEW p
  PROVE  LET ks == js \cup JobsOfRequest(s, i) IN
         /\ RenamesFit(js, p) => RenamesFit(ks, p)
         /\ LandedAt(ks, p) => LandedAt(js, p)
<1>1. \A j \in JobsOfRequest(s, i) : j.kind # "rename" /\ j.status = "running"
  BY DEF JobsOfRequest, WriteJob
<1> QED
  BY <1>1 DEF RenamesFit, LandedAt, Landed

\* A step that leaves alone what the session sees, and its file unless it says so.
LEMMA SightStays ==
  ASSUME IInv, SightInv, cut' = Cut, SameSight(ses, ses'), checks' = checks,
         notice => notice', RenamesFit(jobs', ses.path),
         ~notice' /\ Tracked(ses) => /\ disk'[ses.path] = disk[ses.path]
                                     /\ LandedAt(jobs', ses.path) => LandedAt(jobs, ses.path)
  PROVE  SightFits' /\ RenamesFit(jobs', ses'.path)
<1>1. ~cut' => ~cut
  BY DEF Cut, SameSight, IInv, Flags
<1>2. Tracked(ses') <=> Tracked(ses)
  BY DEF SameSight, Tracked
<1>3. ASSUME ~notice', Tracked(ses), ~ses.recheck, NEW c \in checks, c.gen = ses.gen
      PROVE  CheckFitsDisk(ses', jobs', disk', c)
  BY <1>3 DEF SightInv, SightFits, CheckFitsDisk, Telling, SameSight
<1>4. ASSUME ~notice', Tracked(ses), ~ses.checking, ~cut
      PROVE  ~LandedAt(jobs', ses'.path) /\ Believes(ses', disk'[ses'.path])
  BY <1>4 DEF SightInv, SightFits, Believes, SameSight
<1> QED
  BY <1>1, <1>2, <1>3, <1>4 DEF SightFits, SameSight

\* The session has just been asked to look, or will be again.
LEMMA LookedAgain ==
  ASSUME LookInv(ses', checks'),
         Tracked(ses') => \/ ses'.recheck
                          \/ \E c \in checks' : /\ c.gen = ses'.gen /\ c.path = ses'.path
                                                /\ c.read = "reading"
  PROVE  SightFits'
<1>1. CASE ses'.recheck \/ ~Tracked(ses')
  BY <1>1 DEF LookInv, SightFits
<1>2. ASSUME NEW c \in checks', c.gen = ses'.gen, c.path = ses'.path, c.read = "reading"
      PROVE  SightFits'
  <2>1. ses'.checking /\ \A d \in checks' : d.gen = ses'.gen => d = c
    BY <1>2 DEF LookInv
  <2>2. CheckFitsDisk(ses', jobs', disk', c)
    BY <1>2 DEF CheckFitsDisk, Telling
  <2> QED
    BY <2>1, <2>2 DEF SightFits
<1> QED
  BY <1>1, <1>2

\* A check that is asked for is started, or owed.
LEMMA LookStarts ==
  ASSUME NEW s \in Sessions, Tracked(s)
  PROVE  LET t == BeginExternalCheck(s) IN
         \/ t.recheck
         \/ \E c \in ChecksStarted(s) : /\ c.gen = t.gen /\ c.path = t.path
                                        /\ c.read = "reading"
  BY DEF BeginExternalCheck, ChecksStarted, Sessions

\* Looking at the disk is about the same file.
LEMMA BeginCheckPath ==
  ASSUME NEW s \in Sessions
  PROVE  BeginExternalCheck(s).path = s.path
  BY DEF BeginExternalCheck, Sessions

\* What a check leaves the session to believe is what it read.
LEMMA ObserveTold ==
  ASSUME NEW s \in Sessions, NEW c \in Checks, c.read # "reading", NEW t,
         \/ /\ ~FileRead(c) /\ t = ObserveFailure(s, c)
         \/ /\ FileRead(c) /\ c.found = s.baseline /\ t = ObserveBaseline(s)
         \/ /\ FileRead(c) /\ t = ReplaceWithDisk(s, c.found)
         \/ /\ FileRead(c) /\ t = ObserveChange(s, c.found)
  PROVE  /\ Believes(t, c.found) \/ c.read # "read"
         /\ c.read # "read" => t.external = "unverifiable"
<1>1. \A state, v : LET u == SetExternal(s, state, v) IN
        /\ u.external = state /\ u.seen = v /\ u.baseline = s.baseline
        /\ \A b : LET w == [u EXCEPT !.present = b] IN
             /\ w.external = state /\ w.seen = v /\ w.baseline = s.baseline /\ w.present = b
  BY DEF SetExternal, Sessions
<1>2. CASE ~FileRead(c) /\ t = ObserveFailure(s, c)
  BY <1>1, <1>2 DEF ObserveFailure, FileRead, Believes, Checks, Reads
<1>3. CASE FileRead(c) /\ c.found = s.baseline /\ t = ObserveBaseline(s)
  <2>1. t.external = "inSync" /\ t.present = TRUE /\ t.baseline = c.found
    BY <1>1, <1>3 DEF ObserveBaseline
  <2> QED
    BY <1>3, <2>1 DEF FileRead, Believes
<1>4. CASE FileRead(c) /\ t = ReplaceWithDisk(s, c.found)
  <2>1. t.external = "inSync" /\ t.present = TRUE /\ t.baseline = c.found
    BY <1>4 DEF ReplaceWithDisk, ResetExternalTracking, Sessions
  <2> QED
    BY <1>4, <2>1 DEF FileRead, Believes
<1>5. CASE FileRead(c) /\ t = ObserveChange(s, c.found)
  <2>1. t.external = "changed" /\ t.seen = c.found
    BY <1>1, <1>5 DEF ObserveChange
  <2> QED
    BY <1>5, <2>1 DEF FileRead, Believes
<1> QED
  BY <1>2, <1>3, <1>4, <1>5

\* A write that reports is followed by another look, unless the file was seen since, or
\* will be: this is what the history variable cut is for.
LEMMA SaveSight ==
  ASSUME IInv, ReadsFit, SightInv, Step, cut' = Cut, NEW j \in jobs, FinishSave(j)
  PROVE  SightFits' /\ RenamesFit(jobs', ses'.path)
<1> DEFINE done == FinishedSave(ses, j)
           looked == IF j.status = "conflict" THEN BeginExternalCheck(done) ELSE done
           s == TakePending(looked)
<1>0. /\ DocInv(ses, jobs) /\ ses \in Sessions /\ j \in Jobs /\ jobs \ {j} = {}
      /\ j.path \in Paths /\ NoPath \notin Paths /\ j.kind # "rename"
      /\ LookInv(ses', checks') /\ ses.saves \in Nat /\ checks \subseteq Checks
  BY LookStep, SessionAssumption
     DEF IInv, DocInv, Sessions, SlotFits, Jobs, FinishSave, LookInv
<1>1. /\ ses' = AfterRequest(s, looked.pending)
      /\ jobs' = (jobs \ {j}) \cup JobsOfRequest(s, looked.pending)
      /\ checks' = checks \cup (IF j.status = "conflict" THEN ChecksStarted(done) ELSE {})
      /\ notice' = (notice \/ done.path # ses.path)
      /\ disk' = disk /\ j.status # "running"
  BY DEF FinishSave, RunPending, SaveFrom
<1>2. done \in Sessions
  BY <1>0, FinishedSaveKeeps DEF FinishSave
<1>3. /\ done.gen = ses.gen /\ done.checking = ses.checking /\ done.recheck = ses.recheck
      /\ j.status = "done" => done.path = j.path /\ done.saves = ses.saves + 1
      /\ j.status # "done" => SameSight(ses, done)
  BY <1>0 DEF FinishedSave, ReleaseSlot, SameSight, Sessions
<1> HIDE DEF done
<1>4. looked \in Sessions /\ looked.gen = done.gen /\ looked.path = done.path
  BY <1>2 DEF BeginExternalCheck, Sessions
<1> HIDE DEF looked
<1>5. s \in Sessions /\ SameSight(looked, s)
  BY <1>4, TakePendingFacts, SlotSight
<1> HIDE DEF s
<1>6. SameSight(looked, ses')
  <2>1. SameSight(s, ses')
    BY <1>1, <1>5, SlotSight
  <2> QED
    BY <1>5, <2>1 DEF SameSight
<1>7. \A p : RenamesFit(jobs', p) /\ ~LandedAt(jobs', p)
  <2>1. \A p : RenamesFit({}, p) /\ ~LandedAt({}, p)
    BY DEF RenamesFit, LandedAt
  <2> QED
    BY <1>0, <1>1, <2>1, RequestJobs
<1>8. CASE j.status = "done"
  <2>1. looked = done /\ checks' = checks
    BY <1>1, <1>8 DEF looked
  <2>2. CASE j.path # ses.path
    <3>1. notice'
      BY <1>1, <1>3, <1>8, <2>2
    <3> QED
      BY <1>7, <3>1 DEF SightFits
  <2>3. CASE j.path = ses.path
    <3>1. LandedAt(jobs, ses.path) /\ Tracked(ses)
      BY <1>0, <1>8, <2>3 DEF LandedAt, Landed, Tracked
    <3>2. ses'.gen = ses.gen /\ ses'.path = ses.path /\ ses'.saves = ses.saves + 1
          /\ ses'.checking = ses.checking /\ ses'.recheck = ses.recheck
      BY <1>3, <1>6, <1>8, <2>1, <2>3 DEF SameSight
    <3>3. ~notice' => ~notice
      BY <1>1
    <3>4. ASSUME ~notice, ~ses.recheck, NEW c \in checks, c.gen = ses.gen
          PROVE  CheckFitsDisk(ses', jobs', disk', c)
      <4>1. c.path = ses.path
        BY <3>1, <3>4 DEF SightInv, SightFits, CheckFitsDisk
      <4>2. c.saves <= ses.saves /\ c.saves \in Nat
        BY <1>0, <3>4 DEF ReadsFit, Checks
      <4>3. ~Telling(ses', c)
        BY <1>0, <3>2, <4>2 DEF Telling
      <4> QED
        BY <3>2, <4>1, <4>3 DEF CheckFitsDisk
    <3>5. ASSUME ~notice, ~ses.checking PROVE cut'
      <4>1. cut
        BY <3>1, <3>5 DEF SightInv, SightFits
      <4> QED
        BY <2>1, <4>1 DEF Cut
    <3> QED
      BY <1>7, <2>1, <3>2, <3>3, <3>4, <3>5 DEF SightFits
  <2> QED
    BY <2>2, <2>3
<1>9. CASE j.status = "conflict"
  <2>1. looked = BeginExternalCheck(done) /\ checks' = checks \cup ChecksStarted(done)
    BY <1>1, <1>9 DEF looked
  <2>2. Tracked(ses') => Tracked(done)
    BY <1>4, <1>6 DEF SameSight, Tracked
  <2>3. Tracked(ses') => \/ ses'.recheck
                         \/ \E c \in checks' : /\ c.gen = ses'.gen /\ c.path = ses'.path
                                               /\ c.read = "reading"
    BY <1>2, <1>6, <2>1, <2>2, LookStarts DEF SameSight
  <2> QED
    BY <1>0, <1>7, <2>3, LookedAgain
<1>10. CASE j.status # "done" /\ j.status # "conflict"
  <2>1. looked = done /\ checks' = checks
    BY <1>1, <1>10 DEF looked
  <2>2. SameSight(ses, ses')
    BY <1>3, <1>6, <1>10, <2>1 DEF SameSight
  <2> QED
    BY <1>1, <1>7, <2>1, <2>2, SightStays
<1> QED
  BY <1>8, <1>9, <1>10

\* A rename that reports has moved the file, which is noticed, or nothing.
LEMMA RenameSight ==
  ASSUME IInv, SightInv, cut' = Cut, NEW j \in jobs, FinishRename(j)
  PROVE  SightFits' /\ RenamesFit(jobs', ses'.path)
<1> DEFINE followed == FollowRename(ses, j)
           done == ReleaseSlot(followed)
           s == TakePending(done)
<1>0. /\ ses \in Sessions /\ j \in Jobs /\ jobs \ {j} = {} /\ j.kind = "rename"
      /\ j.path = ses.path /\ (j.status = "done" => j.to # j.path)
  BY DEF IInv, DocInv, SlotFits, FinishRename, SightInv, RenamesFit
<1>1. /\ ses' = AfterRequest(s, done.pending)
      /\ jobs' = (jobs \ {j}) \cup JobsOfRequest(s, done.pending)
      /\ notice' = (notice \/ done.path # ses.path)
      /\ disk' = disk /\ checks' = checks
  BY DEF FinishRename, RunPending, SaveFrom
<1>2. /\ followed \in Sessions
      /\ j.status = "done" => followed.path = j.to
      /\ j.status # "done" => followed = ses
  BY <1>0 DEF FollowRename, Sessions, Jobs
<1> HIDE DEF followed
<1>3. done \in Sessions /\ SameSight(followed, done)
  BY <1>2, NoIntentFacts, SlotSight DEF ReleaseSlot, Sessions
<1> HIDE DEF done
<1>4. s \in Sessions /\ SameSight(done, s)
  BY <1>3, TakePendingFacts, SlotSight
<1> HIDE DEF s
<1>5. SameSight(followed, ses')
  <2>1. SameSight(s, ses')
    BY <1>1, <1>4, SlotSight
  <2> QED
    BY <1>3, <1>4, <2>1 DEF SameSight
<1>6. \A p : RenamesFit(jobs', p) /\ ~LandedAt(jobs', p)
  <2>1. \A p : RenamesFit({}, p) /\ ~LandedAt({}, p)
    BY DEF RenamesFit, LandedAt
  <2> QED
    BY <1>0, <1>1, <2>1, RequestJobs
<1>7. CASE j.status = "done"
  <2>1. notice'
    BY <1>0, <1>1, <1>2, <1>3, <1>7 DEF SameSight
  <2> QED
    BY <1>6, <2>1 DEF SightFits
<1>8. CASE j.status # "done"
  <2>1. SameSight(ses, ses')
    BY <1>2, <1>5, <1>8
  <2> QED
    BY <1>1, <1>6, <2>1, SightStays
<1> QED
  BY <1>7, <1>8

\* What a check believes is what the file holds; what it does not believe is looked at
\* again, and what a reload forgets is marked.
LEMMA CheckSight ==
  ASSUME IInv, ReadsFit, SightInv, Step, cut' = Cut, NEW c \in checks, FinishCheck(c)
  PROVE  SightFits' /\ RenamesFit(jobs', ses'.path)
<1> DEFINE found == FinishedCheck(ses, c)
           idle == [found EXCEPT !.recheck = FALSE]
           free == [ses EXCEPT !.checking = FALSE]
<1>0. /\ ses \in Sessions /\ c \in Checks /\ LookInv(ses, checks) /\ LookInv(ses', checks')
      /\ c.gen = ses.gen /\ c.read # "reading" /\ RenamesFit(jobs, ses.path)
      /\ \A d \in checks : d.gen = ses.gen => d = c
  BY LookStep DEF IInv, DocInv, LookInv, FinishCheck, SightInv
<1>1. /\ ses' = (IF found.recheck THEN BeginExternalCheck(idle) ELSE idle)
      /\ checks' = (checks \ {c}) \cup (IF found.recheck THEN ChecksStarted(idle) ELSE {})
      /\ UNCHANGED <<disk, jobs, notice>>
  BY DEF FinishCheck
<1>2. /\ found \in Sessions /\ ~found.checking
      /\ \/ found.gen = ses.gen + 1 /\ ~found.recheck /\ found.path = ses.path
         \/ found.gen = ses.gen /\ found.path = ses.path
  BY <1>0, FinishedCheckFacts DEF Fresh, SameDocument
<1>3. idle \in Sessions /\ idle.path = found.path /\ idle.gen = found.gen
      /\ ~idle.checking /\ ~idle.recheck
      /\ idle.external = found.external /\ idle.seen = found.seen
      /\ idle.baseline = found.baseline /\ idle.present = found.present
  BY <1>2 DEF Sessions
<1>4. free \in Sessions /\ free.recheck = ses.recheck /\ free.baseline = ses.baseline
      /\ free.gen = ses.gen /\ free.path = ses.path
  BY <1>0 DEF Sessions
<1>5. ~CheckIsCurrent(ses, c) => found = [free EXCEPT !.recheck = @ \/ c.path = ses.path]
  BY DEF FinishedCheck
<1>6. CheckIsCurrent(ses, c) =>
        \/ /\ ~FileRead(c) /\ found = ObserveFailure(free, c)
        \/ /\ FileRead(c) /\ c.found = ses.baseline /\ found = ObserveBaseline(free)
        \/ /\ FileRead(c) /\ found = ReplaceWithDisk(free, c.found)
        \/ /\ FileRead(c) /\ found = ObserveChange(free, c.found)
  BY DEF FinishedCheck
<1> HIDE DEF found
<1>7. ses'.path = ses.path /\ RenamesFit(jobs', ses'.path)
  BY <1>0, <1>1, <1>2, <1>3, BeginCheckPath
<1> HIDE DEF idle, free
<1>8. CASE found.recheck
  <2>1. Tracked(ses') => Tracked(idle)
    BY <1>2, <1>3, <1>7 DEF Tracked
  <2>2. Tracked(ses') => \/ ses'.recheck
                         \/ \E d \in checks' : /\ d.gen = ses'.gen /\ d.path = ses'.path
                                               /\ d.read = "reading"
    BY <1>1, <1>3, <1>8, <2>1, LookStarts
  <2> QED
    BY <1>0, <1>7, <2>2, LookedAgain
<1>9. CASE ~found.recheck
  <2>0. ses' = idle /\ checks' = checks \ {c}
    BY <1>1, <1>9
  <2>1. ASSUME ~notice, Tracked(ses), ~cut'
        PROVE  ~LandedAt(jobs, ses.path) /\ Believes(found, disk[ses.path])
    <3>1. ~(\E d \in checks' \ checks : d.read = "reading")
      BY <2>0
    <3>2. ~(ses.recheck /\ ses'.gen # ses.gen) /\ c.after <= ses.saves
      <4>1. c.after \in Nat /\ ses.saves \in Nat /\ c \in checks \ checks'
        BY <1>0, <2>0 DEF Checks, Sessions
      <4> QED
        BY <1>0, <2>1, <3>1, <4>1 DEF Cut
    <3>3. ~ses.recheck
      <4>1. ASSUME ses.recheck, found.gen = ses.gen PROVE FALSE
        <5>1. CASE ~CheckIsCurrent(ses, c)
          BY <1>4, <1>5, <1>9, <4>1, <5>1 DEF Sessions
        <5>2. CASE CheckIsCurrent(ses, c)
          <6>1. found # ReplaceWithDisk(free, c.found) \/ ~FileRead(c)
            <7>1. FileRead(c) => c.found \in Contents
              BY <1>0 DEF FileRead, Checks, Versions
            <7>2. FileRead(c) => ReplaceWithDisk(free, c.found).gen = free.gen + 1
              BY <1>4, <7>1, ReplaceFacts DEF Fresh
            <7> QED
              BY <1>0, <1>4, <4>1, <7>2 DEF Sessions
          <6>2. found \in {ObserveFailure(free, c), ObserveBaseline(free),
                           ObserveChange(free, c.found)}
            BY <1>6, <5>2, <6>1
          <6>3. found.recheck = free.recheck
            BY <1>0, <1>4, <6>2, ObserveFacts DEF SameChecks
          <6> QED
            BY <1>4, <1>9, <4>1, <6>3
        <5> QED
          BY <5>1, <5>2
      <4> QED
        BY <1>2, <1>3, <2>0, <3>2, <4>1
    <3>4. CheckFitsDisk(ses, jobs, disk, c)
      BY <1>0, <2>1, <3>3 DEF SightInv, SightFits
    <3>5. CheckIsCurrent(ses, c)
      BY <1>4, <1>5, <1>9, <3>4 DEF CheckFitsDisk, Sessions
    <3>6. Telling(ses, c)
      BY <1>0, <3>2, <3>5 DEF Telling, CheckIsCurrent
    <3>7. ~LandedAt(jobs, ses.path) /\ (c.read = "read" => c.found = disk[ses.path])
      BY <3>4, <3>6 DEF CheckFitsDisk
    <3>8. Believes(found, c.found) \/ c.read # "read"
      BY <1>0, <1>4, <1>6, <3>5, ObserveTold
    <3>9. c.read # "read" => found.external = "unverifiable"
      BY <1>0, <1>4, <1>6, <3>5, ObserveTold DEF FileRead
    <3> QED
      BY <3>7, <3>8, <3>9 DEF Believes
  <2>2. Believes(found, disk[ses.path]) => Believes(ses', disk'[ses'.path])
    BY <1>1, <1>3, <1>7, <2>0 DEF Believes
  <2>3. \A d \in checks' : d.gen # ses'.gen
    BY <1>0, <1>3, <2>0 DEF LookInv
  <2>4. Tracked(ses') => Tracked(ses)
    BY <1>7 DEF Tracked
  <2> QED
    BY <1>1, <1>7, <2>1, <2>2, <2>3, <2>4 DEF SightFits
<1> QED
  BY <1>8, <1>9

\* What a check reads is what the file holds; it will not be believed if a write of this
\* session has landed that has not reported.
LEMMA ReadSight ==
  ASSUME IInv, SightInv, Step, cut' = Cut, NEW c \in checks, ReadForCheck(c) \/ CheckFails(c)
  PROVE  SightFits' /\ RenamesFit(jobs', ses'.path)
<1>0. /\ c \in Checks /\ c.read = "reading" /\ UNCHANGED <<ses, jobs, notice, disk>>
      /\ LookInv(ses, checks) /\ RenamesFit(jobs, ses.path) /\ ses.saves \in Nat
      /\ DocInv(ses, jobs)
  BY DEF IInv, DocInv, LookInv, ReadForCheck, CheckFails, SightInv, Sessions
<1>1. PICK d : /\ checks' = (checks \ {c}) \cup {d}
               /\ d \in {[c EXCEPT !.read = "read", !.found = disk[c.path], !.after = WritesLanded],
                         [c EXCEPT !.read = "unreadable", !.after = WritesLanded]}
  BY Zenon DEF ReadForCheck, CheckFails
<1>2. /\ d.gen = c.gen /\ d.path = c.path /\ d.read # "reading" /\ d.after = WritesLanded
      /\ d.read = "read" => d.found = disk[c.path]
  BY <1>0, <1>1 DEF Checks
<1>3. WritesLanded = IF \E j \in jobs : Landed(j) THEN ses.saves + 1 ELSE ses.saves
  BY <1>0, LandedIs DEF WritesLanded
<1>4. c.path = ses.path => CheckFitsDisk(ses, jobs, disk, d)
  BY <1>0, <1>2, <1>3 DEF CheckFitsDisk, Telling, LandedAt
<1>5. ASSUME ~notice, Tracked(ses), ~ses.recheck, NEW e \in checks', e.gen = ses.gen
      PROVE  CheckFitsDisk(ses, jobs, disk, e)
  <2>1. CASE e = d
    <3>1. c.path = ses.path
      BY <1>2, <1>5, <2>1 DEF SightInv, SightFits, CheckFitsDisk
    <3> QED
      BY <1>4, <2>1, <3>1
  <2>2. CASE e \in checks
    BY <1>5, <2>2 DEF SightInv, SightFits
  <2> QED
    BY <1>1, <1>5, <2>1, <2>2
<1>6. ~cut' => ~cut
  <2>1. ~(\E e \in checks' \ checks : e.read = "reading")
    BY <1>1, <1>2
  <2> QED
    BY <2>1 DEF Cut
<1> QED
  BY <1>0, <1>5, <1>6 DEF SightInv, SightFits

\* Nothing is loaded, discarded or moved to the Trash where nobody may ask for it.
LEMMA UndisturbedStep ==
  ASSUME IInv, CalmMoves, Undisturbed, Step
  PROVE  Undisturbed'
<1>0. /\ prompt \in Prompts /\ NoPrompt.kind # "reload"
      /\ opening.stage = "idle" /\ trash.stage = "idle"
  BY DEF IInv, Surroundings, NoPrompt, Undisturbed, Idle
<1>1. /\ ~Ask("reload") /\ ~ConfirmReload /\ ~StartTrash /\ ~(\E p \in Paths : StartOpen(p))
      /\ ~LoadFile /\ ~MoveToTrash /\ ~FinishTrash
      /\ ~(\E latest \in BOOLEAN : FinishOpen(latest))
  BY <1>0 DEF CalmMoves, Ask, ConfirmReload, StartTrash, StartOpen, Spend, Undisturbed, LoadFile,
              MoveToTrash, FinishTrash, FinishOpen
<1>2. verifies' = {}
  <2>1. ASSUME NEW d \in verifies' PROVE FALSE
    BY <1>1, <2>1, VerifiesStep DEF Undisturbed
  <2> QED
    BY <2>1
<1>3. UNCHANGED <<opening, trash>>
  <2>1. ASSUME UserStep PROVE UNCHANGED <<opening, trash>>
    BY <1>1, <2>1
       DEF UserStep, Edit, Compose, EndCompose, Save, Recheck, BeginRename, SwitchTab, SaveAs,
           AutoName, RequestSave, Ask, Cancel, ConfirmOverwrite
  <2>2. ASSUME WorkerStep PROVE UNCHANGED <<opening, trash>>
    BY <1>1, <2>2 DEF WorkerStep, RunWrite, RunRename, JobFails, ReadForCheck, CheckFails,
                      ReadForVerify, VerifyFails
  <2>3. ASSUME ViewStep PROVE UNCHANGED <<opening, trash>>
    BY <1>1, <2>3
       DEF ViewStep, AutosaveFires, DeferredFires, DeliverNotice, FinishSave, FinishRename,
           DropCheck, FinishCheck, DropVerify, FinishVerify
  <2> QED
    BY <2>1, <2>2, <2>3 DEF Step, ExternalChange
<1>4. prompt'.kind # "reload"
  <2>1. CASE Ask("overwrite")
    BY <2>1 DEF Ask
  <2>2. CASE Cancel \/ ConfirmOverwrite
    BY <1>0, <2>2 DEF Cancel, ConfirmOverwrite
  <2>3. CASE ~Ask("overwrite") /\ ~Cancel /\ ~ConfirmOverwrite
    BY <1>1, <2>3, PromptStays DEF Undisturbed
  <2> QED
    BY <2>1, <2>2, <2>3
<1> QED
  BY <1>2, <1>3, <1>4 DEF Undisturbed

\* Every step keeps the view true.
LEMMA SightStep ==
  ASSUME IInv, ReadsFit, CalmMoves, SightInv, Step, cut' = Cut
  PROVE  SightInv'
<1> DEFINE Goal == SightFits' /\ RenamesFit(jobs', ses'.path)
<1>0. /\ DocInv(ses, jobs) /\ ses \in Sessions /\ jobs \subseteq Jobs /\ SightFits
      /\ LookInv(ses, checks) /\ LookInv(ses', checks') /\ checks \subseteq Checks
      /\ Surroundings /\ disk \in [Paths -> Versions] /\ NoPath \notin Paths
      /\ RenamesFit(jobs, ses.path) /\ verifies = {}
      /\ opening.stage = "idle" /\ trash.stage = "idle" /\ ses.path \in Paths \cup {NoPath}
  BY LookStep, SessionAssumption
     DEF IInv, DocInv, Sessions, SightInv, Undisturbed, Idle, LookInv, Surroundings
<1>1. ASSUME SameSight(ses, ses'), checks' = checks, notice' = notice, disk' = disk,
             RenamesFit(jobs', ses.path), LandedAt(jobs', ses.path) => LandedAt(jobs, ses.path)
      PROVE  Goal
  BY <1>1, SightStays
<1>2. ASSUME NEW s \in Sessions, NEW i, SameSight(ses, s), SaveFrom(s, i, jobs),
             UNCHANGED <<checks, notice, disk>>
      PROVE  Goal
  <2>1. ses' = AfterRequest(s, i) /\ jobs' = jobs \cup JobsOfRequest(s, i)
    BY <1>2 DEF SaveFrom
  <2>2. SameSight(ses, ses')
    <3>1. SameSight(s, ses')
      BY <2>1, SlotSight
    <3> QED
      BY <1>2, <3>1 DEF SameSight
  <2> QED
    BY <1>0, <1>1, <1>2, <2>1, <2>2, RequestJobs
<1>3. SameSight(ses, ses)
  BY DEF SameSight
<1>4. ASSUME UNCHANGED <<ses, jobs, checks, notice, disk>> PROVE Goal
  BY <1>0, <1>1, <1>3, <1>4
<1> HIDE DEF Goal
<1>5. ASSUME Save \/ (\E p \in Paths : SaveAs(p) \/ AutoName(p)) PROVE Goal
  BY <1>0, <1>2, <1>3, <1>5 DEF Save, SaveAs, AutoName, RequestSave
<1>6. ASSUME AutosaveFires PROVE Goal
  BY <1>0, <1>2, <1>3, <1>4, <1>6 DEF AutosaveFires
<1>7. ASSUME ConfirmOverwrite PROVE Goal
  <2>1. ApproveResolution(ses) \in Sessions /\ SameSight(ses, ApproveResolution(ses))
    BY <1>0, ApproveFacts, SlotSight
  <2> QED
    BY <1>2, <1>7, <2>1 DEF ConfirmOverwrite
<1>8. ASSUME EndCompose \/ (\E c \in Contents : Edit(c) \/ Compose(c)) PROVE Goal
  <2>1. ASSUME NEW c, NEW r, NEW b
        PROVE  /\ SameSight(ses, [ses EXCEPT !.text = c, !.rev = r])
               /\ SameSight(ses, [ses EXCEPT !.text = c, !.rev = r, !.ime = b])
               /\ SameSight(ses, [ses EXCEPT !.ime = b])
    BY <1>0 DEF SameSight, Sessions
  <2>2. UNCHANGED <<jobs, checks, notice, disk>>
    BY <1>8 DEF EndCompose, Edit, Compose
  <2>3. ASSUME EndCompose PROVE SameSight(ses, ses')
    <3>1. ses' = [ses EXCEPT !.ime = FALSE]
      BY <2>3 DEF EndCompose
    <3> QED
      BY <2>1, <3>1, Zenon
  <2>4. ASSUME NEW c \in Contents, Edit(c) PROVE SameSight(ses, ses')
    <3>1. ses' = [ses EXCEPT !.text = c, !.rev = ses.rev + 1]
      BY <2>4 DEF Edit
    <3> QED
      BY <2>1, <3>1, Zenon
  <2>5. ASSUME NEW c \in Contents, Compose(c) PROVE SameSight(ses, ses')
    <3>1. ses' = [ses EXCEPT !.text = c, !.rev = ses.rev + 1, !.ime = TRUE]
      BY <2>5 DEF Compose
    <3> QED
      BY <2>1, <3>1, Zenon
  <2>6. SameSight(ses, ses')
    BY <1>8, <2>3, <2>4, <2>5
  <2> QED
    BY <1>0, <1>1, <2>2, <2>6
<1>9. ASSUME BeginRename PROVE Goal
  <2> DEFINE k == [WriteJob(ses, Current) EXCEPT !.kind = "rename"]
  <2>1. /\ ses' = TakeSlot(ses) /\ jobs' = jobs \cup {k} /\ UNCHANGED <<checks, notice, disk>>
    BY <1>9 DEF BeginRename
  <2>2. k.kind = "rename" /\ k.status = "running" /\ k.path = ses.path
    BY DEF WriteJob, Current, NoIntent
  <2> HIDE DEF k
  <2>3. /\ RenamesFit(jobs', ses.path)
        /\ LandedAt(jobs', ses.path) => LandedAt(jobs, ses.path)
    BY <1>0, <2>1, <2>2 DEF RenamesFit, LandedAt, Landed
  <2> QED
    BY <1>0, <1>1, <2>1, <2>3, SlotSight
<1>10. ASSUME NEW j \in jobs, FinishSave(j) \/ FinishRename(j) PROVE Goal
  BY <1>10, SaveSight, RenameSight DEF Goal
<1>11. ASSUME NEW c \in checks, FinishCheck(c) PROVE Goal
  BY <1>11, CheckSight DEF Goal
<1>12. ASSUME Recheck \/ DeliverNotice \/ DeferredFires PROVE Goal
  <2>1. CASE StartCheckFrom(ses) /\ jobs' = jobs
    <3>1. ses' = BeginExternalCheck(ses) /\ checks' = checks \cup ChecksStarted(ses)
      BY <2>1 DEF StartCheckFrom
    <3>2. ses'.path = ses.path
      BY <1>0, <3>1, BeginCheckPath
    <3>3. Tracked(ses') => \/ ses'.recheck
                           \/ \E c \in checks' : /\ c.gen = ses'.gen /\ c.path = ses'.path
                                                 /\ c.read = "reading"
      BY <1>0, <3>1, <3>2, LookStarts DEF Tracked
    <3>4. SightFits'
      BY <1>0, <3>3, LookedAgain
    <3> QED
      BY <1>0, <2>1, <3>2, <3>4 DEF Goal
  <2>2. CASE UNCHANGED <<ses, jobs, checks, notice, disk>>
    BY <1>4, <2>2
  <2> QED
    BY <1>12, <2>1, <2>2 DEF Recheck, DeliverNotice, DeferredFires
<1>13. ASSUME NEW j \in jobs, RunWrite(j) PROVE Goal
  <2>1. /\ ses' = ses /\ checks' = checks /\ j.kind # "rename" /\ j \in Jobs
    BY <1>0, <1>13 DEF RunWrite
  <2>2. ASSUME NEW st
        PROVE  LET k == [j EXCEPT !.status = st]
               IN  k.kind = j.kind /\ k.path = j.path /\ k.status = st
    BY <2>1 DEF Jobs
  <2>3. PICK st \in {"done", "conflict"} :
          /\ jobs' = (jobs \ {j}) \cup {[j EXCEPT !.status = st]}
          /\ \/ /\ disk' = [disk EXCEPT ![j.path] = j.doc]
                /\ Noticed(j.path)
             \/ UNCHANGED <<disk, notice>> /\ st = "conflict"
    BY <1>13, Zenon DEF RunWrite
  <2>4. RenamesFit(jobs', ses.path)
    BY <1>0, <2>1, <2>2, <2>3 DEF RenamesFit
  <2>5. notice => notice'
    BY <2>3 DEF Noticed
  <2>6. ~notice' => /\ disk'[ses.path] = disk[ses.path] \/ ~Tracked(ses)
                    /\ LandedAt(jobs', ses.path) => LandedAt(jobs, ses.path)
    <3>1. CASE st = "conflict" /\ UNCHANGED <<disk, notice>>
      BY <2>2, <2>3, <3>1 DEF LandedAt, Landed
    <3>2. CASE disk' = [disk EXCEPT ![j.path] = j.doc] /\ Noticed(j.path)
      <4>1. ~notice' => j.path # ses.path
        BY <3>2 DEF Noticed
      <4> QED
        BY <1>0, <2>2, <2>3, <3>2, <4>1 DEF LandedAt, Landed, Tracked
    <3> QED
      BY <2>3, <3>1, <3>2
  <2> QED
    BY <1>3, <2>1, <2>4, <2>5, <2>6, SightStays DEF Goal
<1>14. ASSUME NEW j \in jobs, RunRename(j) PROVE Goal
  <2>1. /\ ses' = ses /\ checks' = checks /\ j.kind = "rename" /\ j \in Jobs
        /\ j.path = ses.path
    BY <1>0, <1>14 DEF RunRename, RenamesFit
  <2>2. CASE \E to \in Paths : /\ disk[to] = NoFile /\ disk[j.path] # NoFile
                               /\ jobs' = (jobs \ {j}) \cup {[j EXCEPT !.status = "done", !.to = to]}
                               /\ Noticed(j.path)
    <3>1. PICK to \in Paths : /\ to # j.path /\ Noticed(j.path)
                              /\ jobs' = (jobs \ {j}) \cup {[j EXCEPT !.status = "done", !.to = to]}
      BY <2>2
    <3>2. LET k == [j EXCEPT !.status = "done", !.to = to]
          IN  k.kind = "rename" /\ k.path = j.path /\ k.to = to
      BY <2>1 DEF Jobs
    <3>3. notice' /\ RenamesFit(jobs', ses.path)
      BY <1>0, <2>1, <3>1, <3>2 DEF Noticed, RenamesFit
    <3> QED
      BY <2>1, <3>3 DEF SightFits, Goal
  <2>3. CASE jobs' = (jobs \ {j}) \cup {[j EXCEPT !.status = "failed"]} /\ UNCHANGED <<disk, notice>>
    <3>1. LET k == [j EXCEPT !.status = "failed"]
          IN  k.kind = "rename" /\ k.path = j.path /\ k.status = "failed"
      BY <2>1 DEF Jobs
    <3>2. /\ RenamesFit(jobs', ses.path)
          /\ LandedAt(jobs', ses.path) => LandedAt(jobs, ses.path)
      BY <1>0, <2>1, <2>3, <3>1 DEF RenamesFit, LandedAt, Landed
    <3> QED
      BY <1>1, <1>3, <2>1, <2>3, <3>2
  <2> QED
    BY <1>14, <2>2, <2>3 DEF RunRename
<1>15. ASSUME NEW j \in jobs, JobFails(j) PROVE Goal
  <2>1. /\ ses' = ses /\ UNCHANGED <<checks, notice, disk>> /\ j \in Jobs
        /\ jobs' = (jobs \ {j}) \cup {[j EXCEPT !.status = "failed"]}
    BY <1>0, <1>15 DEF JobFails
  <2>2. LET k == [j EXCEPT !.status = "failed"]
        IN  k.kind = j.kind /\ k.path = j.path /\ k.status = "failed"
    BY <2>1 DEF Jobs
  <2>3. /\ RenamesFit(jobs', ses.path)
        /\ LandedAt(jobs', ses.path) => LandedAt(jobs, ses.path)
    BY <1>0, <2>1, <2>2 DEF RenamesFit, LandedAt, Landed
  <2> QED
    BY <1>1, <1>3, <2>1, <2>3
<1>16. ASSUME NEW c \in checks, ReadForCheck(c) \/ CheckFails(c) PROVE Goal
  BY <1>16, ReadSight DEF Goal
<1>17. ASSUME NEW c \in checks, DropCheck(c) PROVE Goal
  <2>1. /\ UNCHANGED <<ses, jobs, notice, disk>> /\ checks' = checks \ {c} /\ c.gen # ses.gen
    BY <1>17 DEF DropCheck
  <2>2. ~cut' => ~cut
    BY <2>1 DEF Cut
  <2> QED
    BY <1>0, <2>1, <2>2 DEF SightFits, Goal
<1>18. ASSUME NEW p \in Paths, NEW v \in Versions, ExternalChange(p, v) PROVE Goal
  <2>1. /\ disk' = [disk EXCEPT ![p] = v] /\ Noticed(p) /\ UNCHANGED <<ses, jobs, checks>>
    BY <1>18 DEF ExternalChange
  <2>2. notice => notice'
    BY <2>1 DEF Noticed
  <2>3. ~notice' /\ Tracked(ses) => disk'[ses.path] = disk[ses.path]
    BY <1>0, <2>1 DEF Noticed, Tracked
  <2> QED
    BY <1>0, <1>3, <2>1, <2>2, <2>3, SightStays DEF Goal
<1>19. ASSUME SwitchTab \/ Cancel \/ \E kind \in {"overwrite", "reload"} : Ask(kind) PROVE Goal
  BY <1>4, <1>19 DEF SwitchTab, Cancel, Ask
<1>20. /\ ~ConfirmReload /\ ~StartTrash /\ ~(\E p \in Paths : StartOpen(p))
       /\ ~LoadFile /\ ~MoveToTrash /\ ~FinishTrash
       /\ ~(\E latest \in BOOLEAN : FinishOpen(latest))
  BY <1>0 DEF CalmMoves, SightInv, Undisturbed, ConfirmReload, StartTrash, StartOpen, Spend,
              LoadFile, MoveToTrash, FinishTrash, FinishOpen
<1>21. Goal
  BY <1>0, <1>5, <1>6, <1>7, <1>8, <1>9, <1>10, <1>11, <1>12, <1>13, <1>14, <1>15, <1>16,
     <1>17, <1>18, <1>19, <1>20, Zenon DEF Step, UserStep, WorkerStep, ViewStep
<1> QED
  BY <1>21, UndisturbedStep DEF SightInv, Goal

\* With nothing on its way, what the session says of the disk is true: of the file that
\* notifications, checks, saves and renames are about, outside the two gaps cut marks and
\* where nothing is loaded, discarded or moved to the Trash (session.rs:
\* complete_external_check, finish_save; document_watch.rs).
THEOREM QuietViewIsCurrent ==
  ASSUME CalmMoves
  PROVE  Spec => []SettledViewIsCurrent
<1>1. Init => SightInv
  <2>1. ASSUME Init PROVE SightFits
    <3>1. notice \/ ses.path = NoPath
      BY <2>1 DEF Init, NewSession
    <3> QED
      BY <3>1 DEF SightFits, Tracked
  <2>2. ASSUME Init PROVE RenamesFit(jobs, ses.path)
    BY <2>2 DEF Init, RenamesFit
  <2>3. ASSUME Init PROVE Undisturbed
    <3>1. verifies = {} /\ opening = Idle /\ trash = Idle /\ prompt = NoPrompt
      BY <2>3 DEF Init
    <3> QED
      BY <3>1 DEF Undisturbed, NoPrompt
  <2> QED
    BY <2>1, <2>2, <2>3 DEF SightInv
<1>2. IInv /\ ReadsFit /\ SightInv /\ [Next]_vars => SightInv'
  <2>1. ASSUME IInv, ReadsFit, SightInv, Next PROVE SightInv'
    BY <2>1, SightStep DEF Next
  <2>2. ASSUME SightInv, UNCHANGED vars PROVE SightInv'
    BY <2>2 DEF vars, SightInv, SightFits, Undisturbed
  <2> QED
    BY <2>1, <2>2
<1>3. IInv /\ SightInv => SettledViewIsCurrent
  <2>1. ASSUME IInv, SightInv, Settled, Tracked(ses), ~cut PROVE ViewIsCurrent
    <3>1. ~ses.checking /\ ~notice
      BY <2>1 DEF IInv, LookInv, Settled
    <3>2. Believes(ses, disk[ses.path])
      BY <2>1, <3>1 DEF SightInv, SightFits
    <3>3. ses.external \in {"inSync", "changed", "missing", "unverifiable"}
      BY <2>1 DEF IInv, DocInv, Sessions
    <3> QED
      BY <3>2, <3>3 DEF Believes, ViewIsCurrent
  <2> QED
    BY <2>1 DEF SettledViewIsCurrent
<1> QED
  BY <1>1, <1>2, <1>3, SessionInvariant, ReadsAlwaysFit, PTL DEF Spec
=============================================================================
