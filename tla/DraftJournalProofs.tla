------------------------- MODULE DraftJournalProofs -------------------------
(* What DraftJournal promises of the recovery journal, proved for any number *)
(* of drafts, folders and threads and any number of moves: the journal is    *)
(* sound at all times, it only advances, and leaving keeps the notes.        *)
(*                                                                           *)
(* The invariant Inv has a part about the threads, a part about the window,  *)
(* and one part per draft, DraftInv(d).  An action that concerns one draft   *)
(* leaves the others Untouched.  In each of the lemmas about an action,      *)
(* steps <1>0 to <1>sf restate the invariant, <1>u says what the action      *)
(* leaves alone, <1>f what it does, and <1>g what becomes of the jobs.       *)
EXTENDS DraftJournal, TLAPS

-----------------------------------------------------------------------------
(* The invariant.                                                           *)

\* A write that has not replaced the entry yet; a removal, and one that has the
\* lock; a thread that has the lock of its draft.
Pending(t, d) ==
    job[t].pc \in {"lock", "replace"} /\ job[t].kind = "write" /\ job[t].draft = d
Removing(t, d) == job[t].pc # "free" /\ job[t].kind = "remove" /\ job[t].draft = d
Begun(t, d) == Removing(t, d) /\ job[t].pc # "lock"
HasLock(t) == job[t].pc \notin {"free", "lock"}

\* A write that has not been overtaken.
Live(t, d) == Pending(t, d) /\ job[t].seq >= newest[d]

\* What the place of a thread says of its job and of the files.
JobOf(t) ==
    LET d == job[t].draft IN
    /\ job[t].pc = "replace" => job[t].kind = "write" /\ job[t].seq >= newest[d]
    /\ job[t].pc = "entry" => job[t].kind = "remove"
    /\ job[t].pc # "free" => job[t].seq < seq
    /\ Removing(t, d) => d \in named
    /\ Removing(t, d) /\ job[t].pc \in {"target", "entry"} => md[d] = {}
    /\ Removing(t, d) /\ job[t].pc = "entry" => sidecar[d] = {}
    /\ job[t].kind = "write" /\ job[t].pc \in {"text", "target"} => entry[d] # {}

\* One thread at a time has the lock of a draft.
LockInv ==
    \A t, u \in Threads : HasLock(t) /\ HasLock(u) /\ t # u => job[t].draft # job[u].draft

\* The window's own thread only writes, and only while the window leaves.
UiInv ==
    job[Ui].pc # "free" =>
        LET d == job[Ui].draft IN
        /\ job[Ui].kind = "write" /\ job[Ui].snap = Snapshot(d)
        /\ flush.after # "none" /\ Open(d) /\ d \notin flush.todo

JobInv == (\A t \in Threads : JobOf(t)) /\ LockInv /\ UiInv

\* What the window shows decides what can be under way.
FolderInv ==
    /\ folder = "off" => \A t \in Threads : job[t].pc = "free"
    /\ folder # "here" =>
          /\ \A d \in Drafts : note[d].at = "none"
          /\ armed = {} /\ flush.after = "none"
    /\ folder = "scanning" => \A d \in Drafts : Busy(d) => d \in overlap
    /\ scan.pc # "none" => folder = "scanning"
    /\ scan.pc \in {"none", "list"} => scan.cur = {} /\ scan.got = {}
    /\ \A d \in Drafts : d \in armed => note[d].at # "none" /\ note[d].dirty
    /\ flush.after = "none" => flush.todo = {}
    /\ \A d \in Drafts : d \in flush.todo => Open(d)

\* Every text there is of a draft is another document's or one its note has had.
KnownText(d, x) == x = Alien \/ \E pair \in pairs[d] : pair.text = x
KnownPair(d, pair) == pair.text = Alien \/ pair \in pairs[d]

TextOf(d) ==
    /\ \A pair \in pairs[d] : pair.text <= moves + 1
    /\ note[d].at # "none" => KnownPair(d, Snapshot(d))
    /\ \A pair \in entry[d] : KnownPair(d, pair)
    /\ \A x \in md[d] : x = 1 /\ KnownText(d, x)
    /\ \A t \in Threads : Pending(t, d) => KnownPair(d, job[t].snap)
    /\ d \in scan.cur /\ scan.pc = "target" => KnownText(d, scan.text)
    /\ \A g \in scan.got : g.draft = d => KnownText(d, g.pair.text)

\* What a recovery would bring back of a draft is one of its pairs.
WholeOf(d) == \A pair \in Held(d) : KnownPair(d, pair)

\* While nobody else works on a draft, recovery has read what is there.
ScanOf(d) ==
    d \notin overlap =>
        /\ \A g \in scan.got : g.draft = d => Held(d) = {g.pair}
        /\ d \in scan.cur => entry[d] = {}
        /\ d \in scan.cur /\ scan.pc = "target" => scan.text \in md[d]

\* From the last timer on, every write is of the last text, and one of them is
\* under way or has been accepted.
LastIsWritten(d) ==
    \E s \in Nat :
        /\ \A t \in Threads :
              Pending(t, d) /\ job[t].seq >= s => job[t].snap.text = note[d].text
        /\ IF newest[d] >= s THEN \E pair \in entry[d] : pair.text = note[d].text
           ELSE \E t \in Threads : Pending(t, d) /\ job[t].seq >= s

SettleOf(d) ==
    Mine(d) /\ note[d].dirty /\ d \notin armed /\ spoiled[d] = {} => LastIsWritten(d)

\* Once the window has written a note on its way out, the journal is the note
\* and stays so, and no removal leaves a write behind.
Written(d) == flush.after # "none" /\ Open(d) /\ d \notin flush.todo /\ ~Pending(Ui, d)

FlushOf(d) ==
    /\ Pending(Ui, d) =>
          /\ \A t \in Threads \ {Ui} : Pending(t, d) => job[t].seq < job[Ui].seq
          /\ job[Ui].seq < newest[d] => "removed" \in spoiled[d]
    /\ /\ Written(d)
       /\ \/ spoiled[d] = {}
          \/ spoiled[d] = {"failed"} /\ ~flush.failed
       => entry[d] = {Snapshot(d)} /\ \A t \in Threads : ~Live(t, d)
    /\ Written(d) /\ (\E t \in Threads : Begun(t, d)) =>
          \/ \A t \in Threads : ~Live(t, d)
          \/ \E t \in Threads : Removing(t, d) /\ ~Begun(t, d)

\* A write newer than the removal under way is of a note that is still there, or
\* another removal waits for it.
RetireOf(d) ==
    /\ d \in retired =>
          /\ d \in named
          /\ note[d].at = "none" /\ entry[d] = {} /\ md[d] = {}
          /\ \A t \in Threads : ~Live(t, d)
    /\ (\E t \in Threads : Begun(t, d)) /\ (\E t \in Threads : Live(t, d)) =>
          \/ Open(d) /\ note[d].dirty
          \/ Pending(Ui, d)
          \/ \E t \in Threads : Removing(t, d) /\ ~Begun(t, d)

\* The texts of the entry, of the writes under way in their order and of the
\* note, each no older than the one before.
AdvanceOf(d) ==
  d \notin overlap =>
    /\ Mine(d) =>
          /\ \A t \in Threads : Pending(t, d) => job[t].snap.text <= note[d].text
          /\ \A pair \in entry[d] : pair.text <= note[d].text
    /\ \A t \in Threads : Live(t, d) /\ job[t].snap.text # Alien =>
          \A pair \in entry[d] : pair.text <= job[t].snap.text
    /\ \A t, u \in Threads :
          /\ Pending(t, d) /\ Pending(u, d)
          /\ job[t].seq <= job[u].seq /\ job[u].snap.text # Alien
          => job[t].snap.text <= job[u].snap.text

-----------------------------------------------------------------------------
(* Types, field by field, and what the operators of DraftJournal do.        *)


LEMMA ThreadFacts == Ui \in Threads /\ Workers \subseteq Threads /\ Ui \notin Workers
BY DraftAssumption DEF Threads

LEMMA AlienFacts == Alien = 0 /\ Budget \in Nat /\ Root \in Targets
BY DraftAssumption DEF Alien

LEMMA TextFacts == \A x : x \in Text <=> x \in Nat /\ x <= Budget + 1
BY DraftAssumption DEF Text, Alien

LEMMA PairFacts ==
  /\ \A pair \in Pair : pair.text \in Nat /\ pair.text <= Budget + 1 /\ pair.target \in Targets
                        /\ pair = [text |-> pair.text, target |-> pair.target]
  /\ \A x \in Text, g \in Targets : [text |-> x, target |-> g] \in Pair
BY TextFacts DEF Pair

\* The types of a note, a job, a flush and a recovery.
Notes == [at : {"none", "open", "gone"}, text : Text, target : Targets, dirty : BOOLEAN]
Jobs == [pc : {"free", "lock", "replace", "text", "target", "entry"},
         kind : {"write", "remove"}, draft : Drafts, seq : Nat, snap : Pair]
Flushes == [todo : SUBSET Drafts, after : {"none", "leave", "quit", "restart"},
            failed : BOOLEAN]
Scans == [pc : {"none", "list", "next", "text", "target"},
          todo : SUBSET Drafts, cur : AtMostOne(Drafts), text : Text,
          got : SUBSET [draft : Drafts, pair : Pair]]

\* What the type says, variable by variable and field by field.
Typed ==
  /\ entry \in [Drafts -> AtMostOne(Pair)]
  /\ md \in [Drafts -> AtMostOne(Text)]
  /\ sidecar \in [Drafts -> AtMostOne(Targets)]
  /\ folder \in {"off", "away", "scanning", "here"}
  /\ note \in [Drafts -> Notes]
  /\ armed \in SUBSET Drafts
  /\ job \in [Threads -> Jobs]
  /\ flush \in Flushes
  /\ scan \in Scans
  /\ seq \in Nat
  /\ newest \in [Drafts -> 0 .. seq - 1]
  /\ named \in SUBSET Drafts /\ retired \in SUBSET Drafts
  /\ spoiled \in [Drafts -> SUBSET {"failed", "removed"}]
  /\ overlap \in SUBSET Drafts
  /\ pairs \in [Drafts -> SUBSET Pair]
  /\ moves \in 0 .. Budget

NoteFields ==
  \A d \in Drafts :
      /\ note[d].at \in {"none", "open", "gone"}
      /\ note[d].text \in Nat /\ note[d].text <= Budget + 1 /\ note[d].target \in Targets

NewestFields == seq \in Nat /\ \A d \in Drafts : newest[d] \in Nat /\ newest[d] < seq

FileFields ==
  \A d \in Drafts :
      /\ \A pair \in entry[d] : pair \in Pair /\ pair.text \in Nat
      /\ \A pair, pair2 \in entry[d] : pair = pair2
      /\ \A x \in md[d] : x \in Nat
      /\ \A x, y \in md[d] : x = y
      /\ \A x, y \in sidecar[d] : x = y
      /\ \A x \in sidecar[d] : x \in Targets

PairsFields ==
  \A d \in Drafts : \A pair \in pairs[d] : pair \in Pair /\ pair.text \in Nat

JobFields ==
  \A t \in Threads :
      /\ job[t].pc \in {"free", "lock", "replace", "text", "target", "entry"}
      /\ job[t].kind \in {"write", "remove"}
      /\ job[t].draft \in Drafts /\ job[t].seq \in Nat
      /\ job[t].snap \in Pair /\ job[t].snap.text \in Nat

FlushFields ==
  flush.todo \subseteq Drafts /\ flush.after \in {"none", "leave", "quit", "restart"}

ScanFields ==
  /\ scan.pc \in {"none", "list", "next", "text", "target"}
  /\ scan.todo \subseteq Drafts /\ scan.cur \subseteq Drafts
  /\ \A d, e \in scan.cur : d = e
  /\ scan.text \in Nat /\ scan.text <= Budget + 1
  /\ \A g \in scan.got : g.draft \in Drafts /\ g.pair \in Pair /\ g.pair.text \in Nat

Fields == /\ NoteFields /\ NewestFields /\ FileFields /\ PairsFields
          /\ JobFields /\ FlushFields /\ ScanFields

LEMMA TypedFields == TypeOK <=> Typed
BY DEF TypeOK, Typed, Notes, Jobs, Flushes, Scans

LEMMA AtMostOneFacts ==
  ASSUME NEW S, NEW A \in AtMostOne(S)
  PROVE  A \subseteq S /\ \A x, y \in A : x = y
BY DEF AtMostOne

LEMMA OneFacts ==
  ASSUME NEW S
  PROVE  {} \in AtMostOne(S) /\ \A x \in S : {x} \in AtMostOne(S)
BY DEF AtMostOne

LEMMA TypedHasFields == Typed => Fields
<1> SUFFICES ASSUME Typed PROVE Fields
  OBVIOUS
<1> USE DEF Typed
<1>1. NoteFields
  <2> SUFFICES ASSUME NEW d \in Drafts
               PROVE  /\ note[d].at \in {"none", "open", "gone"}
                      /\ note[d].text \in Nat /\ note[d].text <= Budget + 1
                      /\ note[d].target \in Targets
    BY DEF NoteFields
  <2>1. note[d] \in Notes
    OBVIOUS
  <2> QED BY <2>1, TextFacts DEF Notes
<1>2. NewestFields
  BY DEF NewestFields
<1>3. FileFields
  <2> SUFFICES ASSUME NEW d \in Drafts
               PROVE  /\ \A pair \in entry[d] : pair \in Pair /\ pair.text \in Nat
                      /\ \A pair, pair2 \in entry[d] : pair = pair2
                      /\ \A x \in md[d] : x \in Nat
                      /\ \A x, y \in md[d] : x = y
                      /\ \A x, y \in sidecar[d] : x = y
                      /\ \A x \in sidecar[d] : x \in Targets
    BY DEF FileFields
  <2>1. entry[d] \in AtMostOne(Pair) /\ md[d] \in AtMostOne(Text)
        /\ sidecar[d] \in AtMostOne(Targets)
    OBVIOUS
  <2> QED BY <2>1, AtMostOneFacts, TextFacts, PairFacts
<1>4. JobFields
  <2> SUFFICES ASSUME NEW t \in Threads
               PROVE  /\ job[t].pc \in {"free", "lock", "replace", "text", "target", "entry"}
                      /\ job[t].kind \in {"write", "remove"}
                      /\ job[t].draft \in Drafts /\ job[t].seq \in Nat
                      /\ job[t].snap \in Pair /\ job[t].snap.text \in Nat
    BY DEF JobFields
  <2>1. job[t] \in Jobs
    OBVIOUS
  <2> QED BY <2>1, PairFacts DEF Jobs
<1>5. FlushFields
  BY DEF Flushes, FlushFields
<1>6. ScanFields
  BY AtMostOneFacts, TextFacts, PairFacts DEF Scans, ScanFields
<1>7. PairsFields
  BY PairFacts DEF PairsFields
<1> QED BY <1>1, <1>2, <1>3, <1>4, <1>5, <1>6, <1>7 DEF Fields

\* A thread takes up a job, goes on in it, or is free again.
LEMMA StartFacts ==
  ASSUME Typed, NEW t \in Threads, NEW r \in Jobs, job' = [job EXCEPT ![t] = r]
  PROVE  /\ job' \in [Threads -> Jobs] /\ job'[t] = r
         /\ \A u \in Threads : u # t => job'[u] = job[u]
BY DEF Typed

LEMMA GoesFacts ==
  ASSUME Typed, NEW t \in Threads,
         NEW pc \in {"free", "lock", "replace", "text", "target", "entry"}, Goes(t, pc)
  PROVE  /\ job' \in [Threads -> Jobs]
         /\ job'[t].pc = pc /\ job'[t].kind = job[t].kind /\ job'[t].draft = job[t].draft
         /\ job'[t].seq = job[t].seq /\ job'[t].snap = job[t].snap
         /\ \A u \in Threads : u # t => job'[u] = job[u]
<1> DEFINE r == [job[t] EXCEPT !.pc = pc]
<1>1. job' = [job EXCEPT ![t] = r]
  BY DEF Goes
<1>2. job[t] \in Jobs
  BY DEF Typed
<1>3. r \in Jobs /\ r.pc = pc /\ r.kind = job[t].kind /\ r.draft = job[t].draft
      /\ r.seq = job[t].seq /\ r.snap = job[t].snap
  BY <1>2 DEF Jobs
<1> HIDE DEF r
<1> QED BY <1>1, <1>3, StartFacts

LEMMA IdleFacts ==
  ASSUME NEW d \in Drafts
  PROVE  Idle \in Jobs /\ Idle.pc = "free"
<1>1. (CHOOSE c \in Drafts : TRUE) \in Drafts
  OBVIOUS
<1>2. NoPair \in Pair
  BY PairFacts, TextFacts, AlienFacts DEF NoPair
<1> QED BY <1>1, <1>2 DEF Idle, Jobs

LEMMA DoneFacts ==
  ASSUME Typed, NEW t \in Threads, Done(t)
  PROVE  /\ job' \in [Threads -> Jobs]
         /\ job'[t].pc = "free"
         /\ \A u \in Threads : u # t => job'[u] = job[u]
<1>1. job[t].draft \in Drafts
  BY TypedHasFields DEF Fields, JobFields
<1>2. Idle \in Jobs /\ Idle.pc = "free"
  BY <1>1, IdleFacts
<1> QED BY <1>2, StartFacts DEF Done

\* A step of a file costs a move if it fails.
LEMMA OutcomeFacts ==
  ASSUME Typed, NEW ok \in BOOLEAN, Outcome(ok)
  PROVE  moves \in 0 .. Budget /\ moves' \in 0 .. Budget /\ moves <= moves'
<1>1. moves' = moves \/ (moves < Budget /\ moves' = moves + 1)
  <2>1. CASE ok
    BY <2>1 DEF Outcome
  <2>2. CASE ~ok
    BY <2>2 DEF Outcome, Move
  <2> QED BY <2>1, <2>2
<1> QED BY <1>1, AlienFacts DEF Typed

-----------------------------------------------------------------------------
(* The invariant of one draft and of all.                                   *)

DraftInv(d) ==
  /\ TextOf(d)
  /\ WholeOf(d)
  /\ ScanOf(d)
  /\ SettleOf(d)
  /\ FlushOf(d)
  /\ RetireOf(d)
  /\ AdvanceOf(d)

Inv == Typed /\ JobInv /\ FolderInv /\ \A d \in Drafts : DraftInv(d)


\* A step that does not concern the draft: nothing is changed that the invariant
\* says of it.
Untouched(e) ==
  /\ entry'[e] = entry[e] /\ md'[e] = md[e] /\ sidecar'[e] = sidecar[e]
  /\ note'[e] = note[e] /\ pairs'[e] = pairs[e] /\ newest'[e] = newest[e]
  /\ spoiled'[e] = spoiled[e]
  /\ e \in armed' <=> e \in armed
  /\ e \in named' <=> e \in named
  /\ e \in retired' <=> e \in retired
  /\ e \in overlap' <=> e \in overlap
  /\ e \in flush'.todo <=> e \in flush.todo
  /\ flush'.after = flush.after /\ (flush.failed => flush'.failed)
  /\ e \in scan'.cur => e \in scan.cur /\ scan'.pc = scan.pc /\ scan'.text = scan.text
  /\ \A g \in scan'.got : g.draft = e => g \in scan.got
  /\ moves \in Nat /\ moves' \in Nat /\ moves <= moves'
  /\ \A t \in Threads :
        \/ job'[t] = job[t]
        \/ /\ job[t].pc = "free" \/ job[t].draft # e
           /\ job'[t].pc = "free" \/ job'[t].draft # e

LEMMA UntouchedKeeps ==
  ASSUME NEW e \in Drafts, DraftInv(e), Untouched(e), PairsFields
  PROVE  DraftInv(e)'
<1> USE ThreadFacts
<1>1. Held(e)' = Held(e) /\ Mine(e)' = Mine(e) /\ Open(e)' = Open(e)
      /\ Snapshot(e)' = Snapshot(e)
  BY DEF Untouched, Held, Mine, Open, Snapshot
<1>2. \A t \in Threads :
        /\ Pending(t, e)' <=> Pending(t, e)
        /\ Removing(t, e)' <=> Removing(t, e)
        /\ Begun(t, e)' <=> Begun(t, e)
        /\ Live(t, e)' <=> Live(t, e)
        /\ Pending(t, e) => job'[t] = job[t]
  BY SMTT(20) DEF Untouched, Pending, Removing, Begun, Live
<1>3. \A x : KnownText(e, x)' <=> KnownText(e, x)
  BY DEF Untouched, KnownText
<1>4. \A pair : KnownPair(e, pair)' <=> KnownPair(e, pair)
  BY DEF Untouched, KnownPair
<1>5. TextOf(e)'
  BY <1>1, <1>2, <1>3, <1>4, SMTT(20) DEF DraftInv, TextOf, Untouched, PairsFields
<1>6. WholeOf(e)'
  BY <1>1, <1>4 DEF DraftInv, WholeOf
<1>7. ScanOf(e)'
  BY <1>1, SMTT(20) DEF DraftInv, ScanOf, Untouched
<1>8. SettleOf(e)'
  <2>1. LastIsWritten(e)' <=> LastIsWritten(e)
    BY <1>2, SMTT(20) DEF LastIsWritten, Untouched
  <2> QED BY <1>1, <2>1 DEF DraftInv, SettleOf, Untouched
<1>9. FlushOf(e)'
  <2>1. Written(e)' <=> Written(e)
    BY <1>1, <1>2 DEF Written, Untouched
  <2> QED BY <1>1, <1>2, <2>1, SMTT(20) DEF DraftInv, FlushOf, Untouched
<1>10. RetireOf(e)'
  BY <1>1, <1>2, SMTT(20) DEF DraftInv, RetireOf, Untouched
<1>11. AdvanceOf(e)'
  <2>0. entry'[e] = entry[e] /\ note'[e] = note[e] /\ (e \in overlap' <=> e \in overlap)
    BY DEF Untouched
  <2> SUFFICES ASSUME e \notin overlap
               PROVE  AdvanceOf(e)'
    BY <2>0 DEF AdvanceOf
  <2>1. AdvanceOf(e)
    BY DEF DraftInv
  <2>2. \A t, u \in Threads :
          (/\ Pending(t, e) /\ Pending(u, e)
           /\ job[t].seq <= job[u].seq /\ job[u].snap.text # Alien
           => job[t].snap.text <= job[u].snap.text)'
    BY <2>1, <1>2 DEF AdvanceOf
  <2>3. (/\ Mine(e) =>
              /\ \A t \in Threads : Pending(t, e) => job[t].snap.text <= note[e].text
              /\ \A pair \in entry[e] : pair.text <= note[e].text
         /\ \A t \in Threads : Live(t, e) /\ job[t].snap.text # Alien =>
              \A pair \in entry[e] : pair.text <= job[t].snap.text)'
    BY <2>0, <2>1, <1>1, <1>2, Zenon DEF AdvanceOf, Live
  <2> QED BY <2>2, <2>3, Zenon DEF AdvanceOf
<1> QED BY <1>5, <1>6, <1>7, <1>8, <1>9, <1>10, <1>11 DEF DraftInv

\* What a step must say of the texts of a draft.
LEMMA TextKeeps ==
  ASSUME NEW d \in Drafts, TextOf(d), pairs[d] \subseteq pairs'[d],
         \A pair \in pairs'[d] : pair.text <= moves' + 1,
         note'[d].at # "none" => KnownPair(d, Snapshot(d))',
         \A pair \in entry'[d] : pair \in entry[d] \/ KnownPair(d, pair)',
         md'[d] \subseteq md[d],
         \A t \in Threads : Pending(t, d)' =>
             \/ Pending(t, d) /\ job'[t].snap = job[t].snap
             \/ KnownPair(d, job[t].snap)',
         d \in scan'.cur /\ scan'.pc = "target" =>
             \/ d \in scan.cur /\ scan.pc = "target" /\ scan'.text = scan.text
             \/ KnownText(d, scan.text)',
         \A g \in scan'.got : g.draft = d => g \in scan.got \/ KnownText(d, g.pair.text)'
  PROVE  TextOf(d)'
<1>1. \A x : KnownText(d, x) => KnownText(d, x)'
  BY DEF KnownText
<1>2. \A pair : KnownPair(d, pair) => KnownPair(d, pair)'
  BY DEF KnownPair
<1> QED BY <1>1, <1>2, SMTT(20) DEF TextOf

-----------------------------------------------------------------------------
(* Every action keeps the invariant.                                        *)

\* A new note has its first text.
LEMMA NewNoteKeeps ==
  ASSUME Inv, NEW d \in Drafts, NewNote(d)
  PROVE  Inv'
<1> USE AlienFacts, ThreadFacts
<1>0. Typed /\ JobInv /\ FolderInv
  BY DEF Inv
<1>jf. JobFields
  BY <1>0, TypedHasFields DEF Fields
<1>nf. NoteFields /\ NewestFields
  BY <1>0, TypedHasFields DEF Fields
<1>pf. PairsFields /\ FileFields
  BY <1>0, TypedHasFields DEF Fields
<1>sf. ScanFields /\ FlushFields
  BY <1>0, TypedHasFields DEF Fields
<1>u. UNCHANGED <<entry, md, sidecar, folder, armed, job, flush, scan, newest, seq,
    named, retired, spoiled, overlap>>
  BY DEF NewNote, files, histories
<1>s1. PICK g \in Targets :
        /\ note' = [note EXCEPT ![d] = [at |-> "open", text |-> 1, target |-> g,
                                        dirty |-> FALSE]]
        /\ pairs' = [pairs EXCEPT ![d] = {[text |-> 1, target |-> g]}]
  BY DEF NewNote
<1>s2. [at |-> "open", text |-> 1, target |-> g, dirty |-> FALSE] \in Notes
  BY TextFacts DEF Notes
<1>s3. [text |-> 1, target |-> g] \in Pair
  BY PairFacts, TextFacts
<1>f. /\ folder = "here" /\ flush.after = "none" /\ note[d].at = "none" /\ pairs[d] = {}
      /\ d \notin named /\ moves < Budget /\ moves' = moves + 1
      /\ note' \in [Drafts -> Notes] /\ pairs' \in [Drafts -> SUBSET Pair]
      /\ note'[d].at = "open" /\ note'[d].text = 1 /\ note'[d].target = g /\ ~note'[d].dirty
      /\ \A e \in Drafts : e # d => note'[e] = note[e] /\ pairs'[e] = pairs[e]
      /\ pairs'[d] = {[text |-> 1, target |-> g]}
  <2> DEFINE r == [at |-> "open", text |-> 1, target |-> g, dirty |-> FALSE]
             p == {[text |-> 1, target |-> g]}
  <2>1. r \in Notes /\ r.at = "open" /\ r.text = 1 /\ r.target = g /\ ~r.dirty
    BY <1>s2
  <2>2. note' = [note EXCEPT ![d] = r] /\ pairs' = [pairs EXCEPT ![d] = p] /\ p \in SUBSET Pair
    BY <1>s1, <1>s3
  <2>3. folder = "here" /\ flush.after = "none" /\ note[d].at = "none" /\ pairs[d] = {}
        /\ d \notin named /\ moves < Budget /\ moves' = moves + 1
    BY DEF NewNote, User, Move, Working
  <2>4. note \in [Drafts -> Notes] /\ pairs \in [Drafts -> SUBSET Pair]
    BY <1>0 DEF Typed
  <2>5. pairs'[d] = {[text |-> 1, target |-> g]}
    BY <2>2, <2>4
  <2> HIDE DEF r, p
  <2> QED BY <2>1, <2>2, <2>3, <2>4, <2>5
<1>g. \A u \in Threads : /\ Pending(u, d)' <=> Pending(u, d)
                         /\ Removing(u, d)' <=> Removing(u, d)
                         /\ Begun(u, d)' <=> Begun(u, d)
                         /\ Live(u, d)' <=> Live(u, d)
  BY <1>u DEF Pending, Removing, Begun, Live
<1>1. Typed'
  BY <1>0, <1>f, <1>u, SMTT(20) DEF Typed
<1>2. JobInv'
  <2>1. \A u \in Threads : JobOf(u)'
    BY <1>0, <1>jf, <1>nf, <1>f, <1>u, SMTT(20) DEF JobInv, JobOf, Removing
  <2>2. LockInv'
    BY <1>0, <1>jf, <1>f, <1>u, SMTT(20) DEF JobInv, LockInv, HasLock
  <2>3. UiInv'
    BY <1>0, <1>jf, <1>f, <1>u, SMTT(20) DEF JobInv, UiInv, Open, Snapshot
  <2> QED BY <2>1, <2>2, <2>3 DEF JobInv
<1>3. FolderInv'
  BY <1>0, <1>jf, <1>f, <1>u, SMTT(20) DEF FolderInv, Busy, Open
<1>4. ASSUME NEW e \in Drafts, e # d
      PROVE  DraftInv(e)'
  <2>1. Untouched(e)
    BY <1>0, <1>4, <1>f, <1>u, SMTT(20) DEF Untouched, Typed
  <2> QED BY <1>4, <1>pf, <2>1, UntouchedKeeps DEF Inv
<1>5. DraftInv(d)
  BY DEF Inv
<1>6. TextOf(d)'
  <2>0. TextOf(d)
    BY <1>5 DEF DraftInv
  <2>1. /\ pairs[d] \subseteq pairs'[d]
        /\ \A pair \in pairs'[d] : pair.text <= moves' + 1
    BY <1>f, <1>u, <2>0, <1>g, <1>pf, <1>0, SMTT(20) DEF TextOf, PairsFields, Typed
  <2>2. note'[d].at # "none" => KnownPair(d, Snapshot(d))'
    BY <1>f, <1>u, <2>0, <1>g, SMTT(20) DEF TextOf, KnownPair, Snapshot
  <2>3. /\ \A pair \in entry'[d] : pair \in entry[d] \/ KnownPair(d, pair)'
        /\ md'[d] \subseteq md[d]
    BY <1>f, <1>u, <2>0, <1>g, SMTT(20)
  <2>4. \A v \in Threads : Pending(v, d)' =>
          \/ Pending(v, d) /\ job'[v].snap = job[v].snap
          \/ KnownPair(d, job[v].snap)'
    BY <1>f, <1>u, <2>0, <1>g, SMTT(20)
  <2>5. /\ d \in scan'.cur /\ scan'.pc = "target" =>
              \/ d \in scan.cur /\ scan.pc = "target" /\ scan'.text = scan.text
              \/ KnownText(d, scan.text)'
        /\ \A h \in scan'.got : h.draft = d => h \in scan.got \/ KnownText(d, h.pair.text)'
    BY <1>f, <1>u, <2>0, <1>g, SMTT(20)
  <2> QED BY <2>0, <2>1, <2>2, <2>3, <2>4, <2>5, TextKeeps
<1>7. WholeOf(d)'
  BY <1>5, <1>f, <1>u, <1>g, SMTT(20) DEF DraftInv, WholeOf, Held, KnownPair
<1>8. ScanOf(d)'
  BY <1>5, <1>f, <1>u, <1>g, SMTT(20) DEF DraftInv, ScanOf, Held
<1>9. SettleOf(d)'
  BY <1>5, <1>f, <1>u, <1>g, <1>jf, <1>nf, SMTT(20) DEF DraftInv, SettleOf,
      LastIsWritten, Mine, Open
<1>10. FlushOf(d)'
  BY <1>5, <1>f, <1>u, <1>g, <1>jf, <1>nf, SMTT(20) DEF DraftInv, FlushOf, Written,
      Snapshot, Open
<1>11. RetireOf(d)'
  BY <1>5, <1>f, <1>u, <1>g, <1>jf, <1>nf, SMTT(20) DEF DraftInv, RetireOf, Open
<1>12. AdvanceOf(d)'
  <2>1. TextOf(d) /\ AdvanceOf(d)
    BY <1>5 DEF DraftInv
  <2>2. /\ \A pair \in entry[d] : pair.text = Alien
        /\ \A u \in Threads : Pending(u, d) => job[u].snap.text = Alien
    BY <2>1, <1>f DEF TextOf, KnownPair
  <2> QED BY <2>1, <2>2, <1>f, <1>u, <1>g, <1>jf, SMTT(20) DEF AdvanceOf, Mine
<1>13. DraftInv(d)'
  BY <1>6, <1>7, <1>8, <1>9, <1>10, <1>11, <1>12 DEF DraftInv
<1> QED BY <1>1, <1>2, <1>3, <1>4, <1>13 DEF Inv

\* An edit makes a text the note has not had, and arms the timer.
LEMMA EditKeeps ==
  ASSUME Inv, NEW d \in Drafts, Edit(d)
  PROVE  Inv'
<1> USE AlienFacts, ThreadFacts
<1>0. Typed /\ JobInv /\ FolderInv
  BY DEF Inv
<1>jf. JobFields
  BY <1>0, TypedHasFields DEF Fields
<1>nf. NoteFields /\ NewestFields
  BY <1>0, TypedHasFields DEF Fields
<1>pf. PairsFields /\ FileFields
  BY <1>0, TypedHasFields DEF Fields
<1>sf. ScanFields /\ FlushFields
  BY <1>0, TypedHasFields DEF Fields
<1>u. UNCHANGED <<entry, md, sidecar, folder, job, flush, scan, newest, seq, named,
    retired, spoiled, overlap>>
  BY DEF Edit, files, histories
<1>s1. PICK x \in Text :
        /\ IF note[d].text = Alien THEN x = Alien ELSE IsNextText(d, x)
        /\ note' = [note EXCEPT ![d] = [@ EXCEPT !.text = x, !.dirty = TRUE]]
        /\ pairs' = IF x = Alien THEN pairs
                    ELSE [pairs EXCEPT ![d] = @ \cup {[text |-> x,
                                                      target |-> note[d].target]}]
  BY DEF Edit
<1>s2. /\ note' \in [Drafts -> Notes]
      /\ note'[d].at = note[d].at /\ note'[d].text = x /\ note'[d].target = note[d].target
      /\ note'[d].dirty
      /\ \A e \in Drafts : e # d => note'[e] = note[e]
  <2> DEFINE T == TRUE
             r1 == [note[d] EXCEPT !.text = x]
             r2 == [r1 EXCEPT !.dirty = T]
  <2>0. T \in BOOLEAN /\ T
    OBVIOUS
  <2>1. note' = [note EXCEPT ![d] = [@ EXCEPT !.text = x, !.dirty = T]]
    BY <1>s1
  <2> HIDE DEF T
  <2>2. note' = [[note EXCEPT ![d].text = x] EXCEPT ![d].dirty = T]
    BY <2>1
  <2>3. [note EXCEPT ![d].text = x] = [note EXCEPT ![d] = r1]
    OBVIOUS
  <2>4. note[d] \in Notes /\ note \in [Drafts -> Notes]
    BY <1>0 DEF Typed
  <2>5. [note EXCEPT ![d] = r1][d] = r1
    BY <2>4
  <2>6. note' = [[note EXCEPT ![d] = r1] EXCEPT ![d] = r2]
    BY <2>2, <2>3, <2>5
  <2>7. r1 \in Notes /\ r1.at = note[d].at /\ r1.text = x /\ r1.target = note[d].target
    BY <2>4 DEF Notes
  <2> HIDE DEF r1
  <2>8. /\ r2 \in Notes /\ r2.at = r1.at /\ r2.text = r1.text
        /\ r2.target = r1.target /\ r2.dirty = T
    BY <2>7, <2>0 DEF Notes
  <2> HIDE DEF r2
  <2> QED BY <2>4, <2>6, <2>7, <2>8, <2>0
<1>s3. [text |-> x, target |-> note[d].target] \in Pair
  BY <1>nf, PairFacts DEF NoteFields
<1>s4. x = Alien => pairs' = pairs
  BY <1>s1
<1>s5. x # Alien =>
        pairs' = [pairs EXCEPT ![d] = pairs[d] \cup {[text |-> x, target |-> note[d].target]}]
  BY <1>s1
<1>s6. folder = "here" /\ flush.after = "none" /\ note[d].at = "open" /\ moves < Budget
      /\ moves' = moves + 1 /\ armed' = armed \cup {d}
  BY DEF Edit, User, Move, Working, Open
<1>f. /\ folder = "here" /\ flush.after = "none" /\ note[d].at = "open"
      /\ moves < Budget /\ moves' = moves + 1 /\ armed' = armed \cup {d}
      /\ note' \in [Drafts -> Notes] /\ pairs' \in [Drafts -> SUBSET Pair]
      /\ note'[d].at = "open" /\ note'[d].text = x /\ note'[d].target = note[d].target
      /\ note'[d].dirty
      /\ \A e \in Drafts : e # d => note'[e] = note[e] /\ pairs'[e] = pairs[e]
      /\ pairs[d] \subseteq pairs'[d]
      /\ note[d].text = Alien <=> x = Alien
      /\ x = Alien => pairs'[d] = pairs[d]
      /\ x # Alien => /\ pairs'[d] = pairs[d] \cup {[text |-> x, target |-> note[d].target]}
                      /\ \A pair \in pairs[d] : pair.text < x
                      /\ \E pair \in pairs[d] : x = pair.text + 1
  <2>1. pairs' \in [Drafts -> SUBSET Pair]
    BY <1>0, <1>s3, <1>s4, <1>s5 DEF Typed
  <2>2. /\ \A e \in Drafts : e # d => pairs'[e] = pairs[e]
        /\ pairs[d] \subseteq pairs'[d]
        /\ x = Alien => pairs'[d] = pairs[d]
        /\ x # Alien => pairs'[d] = pairs[d] \cup {[text |-> x, target |-> note[d].target]}
    BY <1>0, <1>s4, <1>s5 DEF Typed
  <2>3. /\ note[d].text = Alien <=> x = Alien
        /\ x # Alien => /\ \A pair \in pairs[d] : pair.text < x
                        /\ \E pair \in pairs[d] : x = pair.text + 1
    BY <1>s1, <1>pf, AlienFacts DEF IsNextText, PairsFields
  <2> QED BY <1>s2, <1>s6, <2>1, <2>2, <2>3
<1>g. \A u \in Threads : /\ Pending(u, d)' <=> Pending(u, d)
                         /\ Removing(u, d)' <=> Removing(u, d)
                         /\ Begun(u, d)' <=> Begun(u, d)
                         /\ Live(u, d)' <=> Live(u, d)
  BY <1>u DEF Pending, Removing, Begun, Live
<1>1. Typed'
  BY <1>0, <1>f, <1>u, SMTT(20) DEF Typed
<1>2. JobInv'
  <2>1. \A u \in Threads : JobOf(u)'
    BY <1>0, <1>jf, <1>nf, <1>f, <1>u, SMTT(20) DEF JobInv, JobOf, Removing
  <2>2. LockInv'
    BY <1>0, <1>jf, <1>f, <1>u, SMTT(20) DEF JobInv, LockInv, HasLock
  <2>3. UiInv'
    BY <1>0, <1>jf, <1>f, <1>u, SMTT(20) DEF JobInv, UiInv, Open, Snapshot
  <2> QED BY <2>1, <2>2, <2>3 DEF JobInv
<1>3. FolderInv'
  BY <1>0, <1>jf, <1>f, <1>u, SMTT(20) DEF FolderInv, Busy, Open
<1>4. ASSUME NEW e \in Drafts, e # d
      PROVE  DraftInv(e)'
  <2>1. Untouched(e)
    BY <1>0, <1>4, <1>f, <1>u, SMTT(20) DEF Untouched, Typed
  <2> QED BY <1>4, <1>pf, <2>1, UntouchedKeeps DEF Inv
<1>5. DraftInv(d)
  BY DEF Inv
<1>6. TextOf(d)'
  <2>0. TextOf(d)
    BY <1>5 DEF DraftInv
  <2>1. /\ pairs[d] \subseteq pairs'[d]
        /\ \A pair \in pairs'[d] : pair.text <= moves' + 1
    BY <1>f, <1>u, <2>0, <1>g, <1>pf, <1>0, SMTT(20) DEF TextOf, PairsFields, Typed
  <2>2. note'[d].at # "none" => KnownPair(d, Snapshot(d))'
    BY <1>f, <1>u, <2>0, <1>g, SMTT(20) DEF TextOf, KnownPair, Snapshot
  <2>3. /\ \A pair \in entry'[d] : pair \in entry[d] \/ KnownPair(d, pair)'
        /\ md'[d] \subseteq md[d]
    BY <1>f, <1>u, <2>0, <1>g, SMTT(20)
  <2>4. \A v \in Threads : Pending(v, d)' =>
          \/ Pending(v, d) /\ job'[v].snap = job[v].snap
          \/ KnownPair(d, job[v].snap)'
    BY <1>f, <1>u, <2>0, <1>g, SMTT(20)
  <2>5. /\ d \in scan'.cur /\ scan'.pc = "target" =>
              \/ d \in scan.cur /\ scan.pc = "target" /\ scan'.text = scan.text
              \/ KnownText(d, scan.text)'
        /\ \A h \in scan'.got : h.draft = d => h \in scan.got \/ KnownText(d, h.pair.text)'
    BY <1>f, <1>u, <2>0, <1>g, SMTT(20)
  <2> QED BY <2>0, <2>1, <2>2, <2>3, <2>4, <2>5, TextKeeps
<1>7. WholeOf(d)'
  BY <1>5, <1>f, <1>u, <1>g, SMTT(20) DEF DraftInv, WholeOf, Held, KnownPair
<1>8. ScanOf(d)'
  BY <1>5, <1>f, <1>u, <1>g, SMTT(20) DEF DraftInv, ScanOf, Held
<1>9. SettleOf(d)'
  BY <1>5, <1>f, <1>u, <1>g, <1>jf, <1>nf, SMTT(20) DEF DraftInv, SettleOf,
      LastIsWritten, Mine, Open
<1>10. FlushOf(d)'
  BY <1>5, <1>f, <1>u, <1>g, <1>jf, <1>nf, SMTT(20) DEF DraftInv, FlushOf, Written,
      Snapshot, Open
<1>11. RetireOf(d)'
  BY <1>5, <1>f, <1>u, <1>g, <1>jf, <1>nf, SMTT(20) DEF DraftInv, RetireOf, Open
<1>12. AdvanceOf(d)'
  <2>1. TextOf(d) /\ AdvanceOf(d)
    BY <1>5 DEF DraftInv
  <2>2. x # Alien =>
        /\ \A pair \in entry[d] : pair.text <= x
        /\ \A u \in Threads : Pending(u, d) => job[u].snap.text <= x
    BY <2>1, <1>f, <1>pf DEF TextOf, KnownPair, PairsFields
  <2> QED BY <2>1, <2>2, <1>f, <1>u, <1>g, <1>jf, SMTT(20) DEF AdvanceOf, Mine
<1>13. DraftInv(d)'
  BY <1>6, <1>7, <1>8, <1>9, <1>10, <1>11, <1>12 DEF DraftInv
<1> QED BY <1>1, <1>2, <1>3, <1>4, <1>13 DEF Inv

\* The note goes to another folder with the text it has.
LEMMA RetargetKeeps ==
  ASSUME Inv, NEW d \in Drafts, Retarget(d)
  PROVE  Inv'
<1> USE AlienFacts, ThreadFacts
<1>0. Typed /\ JobInv /\ FolderInv
  BY DEF Inv
<1>jf. JobFields
  BY <1>0, TypedHasFields DEF Fields
<1>nf. NoteFields /\ NewestFields
  BY <1>0, TypedHasFields DEF Fields
<1>pf. PairsFields /\ FileFields
  BY <1>0, TypedHasFields DEF Fields
<1>sf. ScanFields /\ FlushFields
  BY <1>0, TypedHasFields DEF Fields
<1>u. UNCHANGED <<entry, md, sidecar, folder, armed, job, flush, scan, newest, seq,
    named, retired, spoiled, overlap>>
  BY DEF Retarget, files, histories
<1>s1. PICK g \in Targets :
        /\ note' = [note EXCEPT ![d].target = g]
        /\ pairs' = IF note[d].text = Alien THEN pairs
                    ELSE [pairs EXCEPT ![d] = @ \cup {[text |-> note[d].text, target |-> g]}]
  BY DEF Retarget
<1> DEFINE r == [note[d] EXCEPT !.target = g]
<1>s2. note[d] \in Notes
  BY <1>0 DEF Typed
<1>s3. /\ r \in Notes /\ r.at = note[d].at /\ r.text = note[d].text /\ r.target = g
      /\ r.dirty = note[d].dirty
  BY <1>s2 DEF Notes
<1>s4. [text |-> note[d].text, target |-> g] \in Pair
  BY <1>nf, PairFacts, TextFacts DEF NoteFields
<1>s5. note' = [note EXCEPT ![d] = r]
  BY <1>s1
<1> HIDE DEF r
<1>f. /\ folder = "here" /\ flush.after = "none" /\ note[d].at = "open"
      /\ moves < Budget /\ moves' = moves + 1
      /\ note' \in [Drafts -> Notes] /\ pairs' \in [Drafts -> SUBSET Pair]
      /\ note'[d].at = "open" /\ note'[d].text = note[d].text /\ note'[d].target = g
      /\ note'[d].dirty = note[d].dirty
      /\ \A e \in Drafts : e # d => note'[e] = note[e] /\ pairs'[e] = pairs[e]
      /\ pairs[d] \subseteq pairs'[d]
      /\ note[d].text = Alien => pairs'[d] = pairs[d]
      /\ note[d].text # Alien =>
           pairs'[d] = pairs[d] \cup {[text |-> note[d].text, target |-> g]}
  <2>1. note[d].text = Alien => pairs' = pairs
    BY <1>s1
  <2>2. note[d].text # Alien =>
          pairs' = [pairs EXCEPT ![d] = pairs[d] \cup {[text |-> note[d].text, target |-> g]}]
    BY <1>s1
  <2>3. folder = "here" /\ flush.after = "none" /\ note[d].at = "open" /\ moves < Budget
        /\ moves' = moves + 1
    BY DEF Retarget, User, Move, Working, Open
  <2> QED BY <1>0, <1>s3, <1>s4, <1>s5, <2>1, <2>2, <2>3 DEF Typed
<1>g. \A u \in Threads : /\ Pending(u, d)' <=> Pending(u, d)
                         /\ Removing(u, d)' <=> Removing(u, d)
                         /\ Begun(u, d)' <=> Begun(u, d)
                         /\ Live(u, d)' <=> Live(u, d)
  BY <1>u DEF Pending, Removing, Begun, Live
<1>1. Typed'
  BY <1>0, <1>f, <1>u, SMTT(20) DEF Typed
<1>2. JobInv'
  <2>1. \A u \in Threads : JobOf(u)'
    BY <1>0, <1>jf, <1>nf, <1>f, <1>u, SMTT(20) DEF JobInv, JobOf, Removing
  <2>2. LockInv'
    BY <1>0, <1>jf, <1>f, <1>u, SMTT(20) DEF JobInv, LockInv, HasLock
  <2>3. UiInv'
    BY <1>0, <1>jf, <1>f, <1>u, SMTT(20) DEF JobInv, UiInv, Open, Snapshot
  <2> QED BY <2>1, <2>2, <2>3 DEF JobInv
<1>3. FolderInv'
  BY <1>0, <1>jf, <1>f, <1>u, SMTT(20) DEF FolderInv, Busy, Open
<1>4. ASSUME NEW e \in Drafts, e # d
      PROVE  DraftInv(e)'
  <2>1. Untouched(e)
    BY <1>0, <1>4, <1>f, <1>u, SMTT(20) DEF Untouched, Typed
  <2> QED BY <1>4, <1>pf, <2>1, UntouchedKeeps DEF Inv
<1>5. DraftInv(d)
  BY DEF Inv
<1>6. TextOf(d)'
  <2>0. TextOf(d)
    BY <1>5 DEF DraftInv
  <2>1. /\ pairs[d] \subseteq pairs'[d]
        /\ \A pair \in pairs'[d] : pair.text <= moves' + 1
    <3>1. note[d].text # Alien => \E pair \in pairs[d] : pair.text = note[d].text
      BY <2>0, <1>f DEF TextOf, KnownPair, Snapshot
    <3> QED BY <3>1, <1>f, <2>0, <1>pf, <1>0, SMTT(10) DEF TextOf, PairsFields, Typed
  <2>2. note'[d].at # "none" => KnownPair(d, Snapshot(d))'
    BY <1>f, <1>u, <2>0, <1>g, SMTT(20) DEF TextOf, KnownPair, Snapshot
  <2>3. /\ \A pair \in entry'[d] : pair \in entry[d] \/ KnownPair(d, pair)'
        /\ md'[d] \subseteq md[d]
    BY <1>f, <1>u, <2>0, <1>g, SMTT(20)
  <2>4. \A v \in Threads : Pending(v, d)' =>
          \/ Pending(v, d) /\ job'[v].snap = job[v].snap
          \/ KnownPair(d, job[v].snap)'
    BY <1>f, <1>u, <2>0, <1>g, SMTT(20)
  <2>5. /\ d \in scan'.cur /\ scan'.pc = "target" =>
              \/ d \in scan.cur /\ scan.pc = "target" /\ scan'.text = scan.text
              \/ KnownText(d, scan.text)'
        /\ \A h \in scan'.got : h.draft = d => h \in scan.got \/ KnownText(d, h.pair.text)'
    BY <1>f, <1>u, <2>0, <1>g, SMTT(20)
  <2> QED BY <2>0, <2>1, <2>2, <2>3, <2>4, <2>5, TextKeeps
<1>7. WholeOf(d)'
  BY <1>5, <1>f, <1>u, <1>g, SMTT(20) DEF DraftInv, WholeOf, Held, KnownPair
<1>8. ScanOf(d)'
  BY <1>5, <1>f, <1>u, <1>g, SMTT(20) DEF DraftInv, ScanOf, Held
<1>9. SettleOf(d)'
  BY <1>5, <1>f, <1>u, <1>g, <1>jf, <1>nf, SMTT(20) DEF DraftInv, SettleOf,
      LastIsWritten, Mine, Open
<1>10. FlushOf(d)'
  BY <1>5, <1>f, <1>u, <1>g, <1>jf, <1>nf, SMTT(20) DEF DraftInv, FlushOf, Written,
      Snapshot, Open
<1>11. RetireOf(d)'
  BY <1>5, <1>f, <1>u, <1>g, <1>jf, <1>nf, SMTT(20) DEF DraftInv, RetireOf, Open
<1>12. AdvanceOf(d)'
  BY <1>5, <1>f, <1>u, <1>g, <1>jf, <1>nf, SMTT(20) DEF DraftInv, AdvanceOf, Mine,
      Open
<1>13. DraftInv(d)'
  BY <1>6, <1>7, <1>8, <1>9, <1>10, <1>11, <1>12 DEF DraftInv
<1> QED BY <1>1, <1>2, <1>3, <1>4, <1>13 DEF Inv

\* The timer hands over the last text, with the newest number.
LEMMA TimerFiresKeeps ==
  ASSUME Inv, NEW d \in Drafts, TimerFires(d)
  PROVE  Inv'
<1> USE AlienFacts, ThreadFacts
<1>0. Typed /\ JobInv /\ FolderInv
  BY DEF Inv
<1>jf. JobFields
  BY <1>0, TypedHasFields DEF Fields
<1>nf. NoteFields /\ NewestFields
  BY <1>0, TypedHasFields DEF Fields
<1>pf. PairsFields /\ FileFields
  BY <1>0, TypedHasFields DEF Fields
<1>sf. ScanFields /\ FlushFields
  BY <1>0, TypedHasFields DEF Fields
<1>u. UNCHANGED <<entry, md, sidecar, folder, note, flush, scan, newest, named,
    retired, spoiled, pairs, overlap, moves>>
  BY DEF TimerFires, files, histories
<1> DEFINE r == [pc |-> "lock", kind |-> "write", draft |-> d, seq |-> seq,
                 snap |-> Snapshot(d)]
<1>s1. PICK w \in Workers : job[w].pc = "free" /\ job' = [job EXCEPT ![w] = r]
  BY DEF TimerFires
<1>s2. Snapshot(d) \in Pair
  BY <1>nf, PairFacts, TextFacts DEF Snapshot, NoteFields
<1>s3. r \in Jobs
  BY <1>0, <1>s2 DEF Jobs, Typed
<1>s4. /\ r.pc = "lock" /\ r.kind = "write" /\ r.draft = d /\ r.seq = seq
      /\ r.snap = Snapshot(d)
  OBVIOUS
<1> HIDE DEF r
<1>f. /\ folder = "here" /\ flush.after = "none" /\ note[d].at = "open" /\ d \in armed
      /\ armed' = armed \ {d} /\ seq' = seq + 1 /\ seq \in Nat
      /\ w \in Threads /\ w # Ui /\ job[w].pc = "free"
      /\ job'[w].pc = "lock" /\ job'[w].kind = "write" /\ job'[w].draft = d
      /\ job'[w].seq = seq /\ job'[w].snap = Snapshot(d) /\ Snapshot(d) \in Pair
      /\ job' \in [Threads -> Jobs] /\ \A u \in Threads : u # w => job'[u] = job[u]
  BY <1>0, <1>s1, <1>s2, <1>s3, <1>s4, StartFacts
     DEF TimerFires, TakeSequence, Working, Open, Typed
<1>g. \A u \in Threads : /\ Pending(u, d)' <=> Pending(u, d) \/ u = w
                         /\ ~Pending(w, d) /\ ~Removing(w, d)
                         /\ Removing(u, d)' <=> Removing(u, d)
                         /\ Begun(u, d)' <=> Begun(u, d)
                         /\ Live(u, d)' <=> Live(u, d) \/ u = w
                         /\ u # w => job'[u] = job[u]
                         /\ Pending(u, d) => u # w
  BY <1>f, <1>u, <1>nf DEF Pending, Removing, Begun, Live, NewestFields
<1>h. /\ note[d].dirty /\ ~Pending(Ui, d)
      /\ \A u \in Threads : Pending(u, d) => job[u].seq < seq
  BY <1>0, <1>f DEF JobInv, JobOf, UiInv, FolderInv, Pending
<1>1. Typed'
  BY <1>0, <1>f, <1>u, SMTT(20) DEF Typed
<1>2. JobInv'
  <2>1. \A u \in Threads : JobOf(u)'
    <3> SUFFICES ASSUME NEW u \in Threads PROVE JobOf(u)'
      OBVIOUS
    <3>0. JobOf(u)
      BY <1>0 DEF JobInv
    <3>1. ASSUME u = w PROVE JobOf(u)'
      BY <3>0, <3>1, <1>jf, <1>nf, <1>f, <1>u, SMTT(60) DEF JobOf, Removing, HasLock,
          NewestFields, JobFields
    <3>2. ASSUME u # w PROVE JobOf(u)'
      BY <3>0, <3>2, <1>jf, <1>nf, <1>f, <1>u, SMTT(60) DEF JobOf, Removing, HasLock,
          NewestFields, JobFields
    <3> QED BY <3>1, <3>2
  <2>2. LockInv'
    BY <1>0, <1>jf, <1>f, <1>u, SMTT(20) DEF JobInv, LockInv, HasLock
  <2>3. UiInv'
    BY <1>0, <1>jf, <1>f, <1>u, SMTT(20) DEF JobInv, UiInv, Open, Snapshot
  <2> QED BY <2>1, <2>2, <2>3 DEF JobInv
<1>3. FolderInv'
  BY <1>0, <1>jf, <1>f, <1>u, SMTT(20) DEF FolderInv, Busy, Open
<1>4. ASSUME NEW e \in Drafts, e # d
      PROVE  DraftInv(e)'
  <2>1. Untouched(e)
    BY <1>0, <1>4, <1>f, <1>u, SMTT(20) DEF Untouched, Typed
  <2> QED BY <1>4, <1>pf, <2>1, UntouchedKeeps DEF Inv
<1>5. DraftInv(d)
  BY DEF Inv
<1>6. TextOf(d)'
  <2>0. TextOf(d)
    BY <1>5 DEF DraftInv
  <2>1. /\ pairs[d] \subseteq pairs'[d]
        /\ \A pair \in pairs'[d] : pair.text <= moves' + 1
    BY <1>f, <1>u, <2>0, <1>g, <1>pf, <1>0, SMTT(20) DEF TextOf, PairsFields, Typed
  <2>2. note'[d].at # "none" => KnownPair(d, Snapshot(d))'
    BY <1>f, <1>u, <2>0, <1>g, SMTT(20) DEF TextOf, KnownPair, Snapshot
  <2>3. /\ \A pair \in entry'[d] : pair \in entry[d] \/ KnownPair(d, pair)'
        /\ md'[d] \subseteq md[d]
    BY <1>f, <1>u, <2>0, <1>g, SMTT(20)
  <2>4. \A v \in Threads : Pending(v, d)' =>
          \/ Pending(v, d) /\ job'[v].snap = job[v].snap
          \/ KnownPair(d, job[v].snap)'
    <3>1. KnownPair(d, job[w].snap)'
      BY <2>0, <1>f, <1>u DEF TextOf, KnownPair
    <3> QED BY <3>1, <1>g
  <2>5. /\ d \in scan'.cur /\ scan'.pc = "target" =>
              \/ d \in scan.cur /\ scan.pc = "target" /\ scan'.text = scan.text
              \/ KnownText(d, scan.text)'
        /\ \A h \in scan'.got : h.draft = d => h \in scan.got \/ KnownText(d, h.pair.text)'
    BY <1>f, <1>u, <2>0, <1>g, SMTT(20)
  <2> QED BY <2>0, <2>1, <2>2, <2>3, <2>4, <2>5, TextKeeps
<1>7. WholeOf(d)'
  BY <1>5, <1>f, <1>u, <1>g, SMTT(20) DEF DraftInv, WholeOf, Held, KnownPair
<1>8. ScanOf(d)'
  BY <1>5, <1>f, <1>u, <1>g, SMTT(20) DEF DraftInv, ScanOf, Held
<1>9. SettleOf(d)'
  <2>1. LastIsWritten(d)'
    <3>1. newest'[d] < seq /\ newest'[d] \in Nat
      BY <1>u, <1>nf DEF NewestFields
    <3>2. \A u \in Threads : Pending(u, d)' /\ job'[u].seq >= seq => u = w
      BY <1>g, <1>h, <1>jf, <1>f DEF JobFields
    <3>3. job'[w].snap.text = note'[d].text
      BY <1>f, <1>u DEF Snapshot
    <3>4. Pending(w, d)' /\ job'[w].seq >= seq
      BY <1>f, <1>g
    <3>5. newest'[d] >= seq => FALSE
      BY <1>f, <3>1
    <3> QED BY <1>f, <3>2, <3>3, <3>4, <3>5 DEF LastIsWritten
  <2> QED BY <2>1 DEF SettleOf
<1>10. FlushOf(d)'
  BY <1>f, <1>u, <1>g, <1>h DEF FlushOf, Written
<1>11. RetireOf(d)'
  BY <1>5, <1>f, <1>u, <1>g, <1>h DEF DraftInv, RetireOf, Open
<1>12. AdvanceOf(d)'
  <2>0. AdvanceOf(d)
    BY <1>5 DEF DraftInv
  <2>1. job'[w].snap.text = note[d].text /\ note[d].text \in Nat
    BY <1>f, <1>nf DEF Snapshot, NoteFields
  <2> SUFFICES ASSUME d \notin overlap PROVE AdvanceOf(d)'
    BY <1>u DEF AdvanceOf
  <2>2. (Mine(d) =>
          /\ \A u \in Threads : Pending(u, d) => job[u].snap.text <= note[d].text
          /\ \A pair \in entry[d] : pair.text <= note[d].text)'
    BY <2>0, <2>1, <1>u, <1>g DEF AdvanceOf, Mine, Open
  <2>4. (\A u \in Threads : Live(u, d) /\ job[u].snap.text # Alien =>
          \A pair \in entry[d] : pair.text <= job[u].snap.text)'
    BY <2>0, <2>1, <1>u, <1>g, <1>f DEF AdvanceOf, Mine, Open
  <2>5. (\A v, u \in Threads :
          /\ Pending(v, d) /\ Pending(u, d)
          /\ job[v].seq <= job[u].seq /\ job[u].snap.text # Alien
          => job[v].snap.text <= job[u].snap.text)'
    <3> SUFFICES ASSUME NEW v \in Threads, NEW u \in Threads, Pending(v, d)', Pending(u, d)',
                        job'[v].seq <= job'[u].seq, job'[u].snap.text # Alien
                 PROVE  job'[v].snap.text <= job'[u].snap.text
      OBVIOUS
    <3>1. CASE u = w /\ v = w
      BY <3>1, <2>1
    <3>2. CASE u = w /\ v # w
      BY <3>2, <2>1, <2>0, <1>g, <1>f DEF AdvanceOf, Mine, Open
    <3>3. CASE u # w /\ v = w
      BY <3>3, <1>g, <1>h, <1>f, <1>jf DEF JobFields
    <3>4. CASE u # w /\ v # w
      BY <3>4, <1>g, <2>0 DEF AdvanceOf
    <3> QED BY <3>1, <3>2, <3>3, <3>4
  <2> QED BY <2>2, <2>4, <2>5 DEF AdvanceOf
<1>13. DraftInv(d)'
  BY <1>6, <1>7, <1>8, <1>9, <1>10, <1>11, <1>12 DEF DraftInv
<1> QED BY <1>1, <1>2, <1>3, <1>4, <1>13 DEF Inv

\* A note that is named leaves a removal to a thread.
LEMMA NameKeeps ==
  ASSUME Inv, NEW d \in Drafts, Name(d)
  PROVE  Inv'
<1> USE AlienFacts, ThreadFacts
<1>0. Typed /\ JobInv /\ FolderInv
  BY DEF Inv
<1>jf. JobFields
  BY <1>0, TypedHasFields DEF Fields
<1>nf. NoteFields /\ NewestFields
  BY <1>0, TypedHasFields DEF Fields
<1>pf. PairsFields /\ FileFields
  BY <1>0, TypedHasFields DEF Fields
<1>sf. ScanFields /\ FlushFields
  BY <1>0, TypedHasFields DEF Fields
<1>u. UNCHANGED <<entry, md, sidecar, folder, flush, scan, newest, seq, retired,
    spoiled, pairs, overlap>>
  BY DEF Name, files, histories
<1> DEFINE r == [pc |-> "lock", kind |-> "remove", draft |-> d, seq |-> 0, snap |-> NoPair]
<1>s1. PICK w \in Workers : job[w].pc = "free" /\ job' = [job EXCEPT ![w] = r]
  BY DEF Name
<1>s2. NoPair \in Pair
  BY PairFacts, TextFacts DEF NoPair
<1>s3. r \in Jobs /\ r.pc = "lock" /\ r.kind = "remove" /\ r.draft = d /\ r.seq = 0
  BY <1>s2 DEF Jobs
<1>s4. Absent \in Notes /\ Absent.at = "none" /\ Absent.text = Alien
  BY TextFacts DEF Absent, Notes
<1> HIDE DEF r
<1>f. /\ folder = "here" /\ flush.after = "none" /\ note[d].at = "open"
      /\ moves < Budget /\ moves' = moves + 1
      /\ armed' = armed \ {d} /\ named' = named \cup {d}
      /\ note' \in [Drafts -> Notes] /\ note'[d].at = "none"
      /\ \A e \in Drafts : e # d => note'[e] = note[e]
      /\ w \in Threads /\ w # Ui /\ job[w].pc = "free"
      /\ job'[w].pc = "lock" /\ job'[w].kind = "remove" /\ job'[w].draft = d
      /\ job'[w].seq = 0
      /\ job' \in [Threads -> Jobs] /\ \A u \in Threads : u # w => job'[u] = job[u]
  BY <1>0, <1>s1, <1>s3, <1>s4, StartFacts DEF Name, User, Move, Working, Open, Typed
<1>g. \A u \in Threads : /\ Pending(u, d)' <=> Pending(u, d)
                         /\ Removing(u, d)' <=> Removing(u, d) \/ u = w
                         /\ Begun(u, d)' <=> Begun(u, d)
                         /\ Live(u, d)' <=> Live(u, d)
                         /\ ~Begun(w, d)
                         /\ Pending(u, d) => job'[u] = job[u]
  BY <1>f, <1>u DEF Pending, Removing, Begun, Live
<1>h. ~Pending(Ui, d)
  BY <1>0, <1>f DEF JobInv, UiInv, Pending
<1>1. Typed'
  BY <1>0, <1>f, <1>u, SMTT(20) DEF Typed
<1>2. JobInv'
  <2>1. \A u \in Threads : JobOf(u)'
    <3> SUFFICES ASSUME NEW u \in Threads PROVE JobOf(u)'
      OBVIOUS
    <3>0. JobOf(u)
      BY <1>0 DEF JobInv
    <3>1. ASSUME u = w PROVE JobOf(u)'
      BY <3>0, <3>1, <1>jf, <1>nf, <1>f, <1>u, SMTT(60) DEF JobOf, Removing, HasLock,
          NewestFields, JobFields
    <3>2. ASSUME u # w PROVE JobOf(u)'
      BY <3>0, <3>2, <1>jf, <1>nf, <1>f, <1>u, SMTT(60) DEF JobOf, Removing, HasLock,
          NewestFields, JobFields
    <3> QED BY <3>1, <3>2
  <2>2. LockInv'
    BY <1>0, <1>jf, <1>f, <1>u, SMTT(20) DEF JobInv, LockInv, HasLock
  <2>3. UiInv'
    BY <1>0, <1>jf, <1>f, <1>u, SMTT(20) DEF JobInv, UiInv, Open, Snapshot
  <2> QED BY <2>1, <2>2, <2>3 DEF JobInv
<1>3. FolderInv'
  BY <1>0, <1>jf, <1>f, <1>u, SMTT(20) DEF FolderInv, Busy, Open
<1>4. ASSUME NEW e \in Drafts, e # d
      PROVE  DraftInv(e)'
  <2>1. Untouched(e)
    BY <1>0, <1>4, <1>f, <1>u, SMTT(20) DEF Untouched, Typed
  <2> QED BY <1>4, <1>pf, <2>1, UntouchedKeeps DEF Inv
<1>5. DraftInv(d)
  BY DEF Inv
<1>6. TextOf(d)'
  <2>0. TextOf(d)
    BY <1>5 DEF DraftInv
  <2>1. /\ pairs[d] \subseteq pairs'[d]
        /\ \A pair \in pairs'[d] : pair.text <= moves' + 1
    BY <1>f, <1>u, <2>0, <1>g, <1>pf, <1>0, SMTT(20) DEF TextOf, PairsFields, Typed
  <2>2. note'[d].at # "none" => KnownPair(d, Snapshot(d))'
    BY <1>f, <1>u, <2>0, <1>g, SMTT(20) DEF TextOf, KnownPair, Snapshot
  <2>3. /\ \A pair \in entry'[d] : pair \in entry[d] \/ KnownPair(d, pair)'
        /\ md'[d] \subseteq md[d]
    BY <1>f, <1>u, <2>0, <1>g, SMTT(20)
  <2>4. \A v \in Threads : Pending(v, d)' =>
          \/ Pending(v, d) /\ job'[v].snap = job[v].snap
          \/ KnownPair(d, job[v].snap)'
    BY <1>f, <1>u, <2>0, <1>g, SMTT(20)
  <2>5. /\ d \in scan'.cur /\ scan'.pc = "target" =>
              \/ d \in scan.cur /\ scan.pc = "target" /\ scan'.text = scan.text
              \/ KnownText(d, scan.text)'
        /\ \A h \in scan'.got : h.draft = d => h \in scan.got \/ KnownText(d, h.pair.text)'
    BY <1>f, <1>u, <2>0, <1>g, SMTT(20)
  <2> QED BY <2>0, <2>1, <2>2, <2>3, <2>4, <2>5, TextKeeps
<1>7. WholeOf(d)'
  BY <1>5, <1>f, <1>u, <1>g, SMTT(20) DEF DraftInv, WholeOf, Held, KnownPair
<1>8. ScanOf(d)'
  BY <1>5, <1>f, <1>u, <1>g, SMTT(20) DEF DraftInv, ScanOf, Held
<1>9. SettleOf(d)'
  BY <1>5, <1>f, <1>u, <1>g, <1>jf, <1>nf, SMTT(20) DEF DraftInv, SettleOf,
      LastIsWritten, Mine, Open
<1>10. FlushOf(d)'
  BY <1>f, <1>u, <1>g, <1>h DEF FlushOf, Written
<1>11. RetireOf(d)'
  BY <1>5, <1>f, <1>u, <1>g, <1>jf, <1>nf, SMTT(20) DEF DraftInv, RetireOf, Open
<1>12. AdvanceOf(d)'
  <2>0. AdvanceOf(d)
    BY <1>5 DEF DraftInv
  <2>1. ~Mine(d)'
    BY <1>f DEF Mine, Open
  <2> SUFFICES ASSUME d \notin overlap PROVE AdvanceOf(d)'
    BY <1>u DEF AdvanceOf
  <2>2. (\A v, u \in Threads :
          /\ Pending(v, d) /\ Pending(u, d)
          /\ job[v].seq <= job[u].seq /\ job[u].snap.text # Alien
          => job[v].snap.text <= job[u].snap.text)'
    BY <2>0, <1>u, <1>g DEF AdvanceOf
  <2>3. (\A u \in Threads : Live(u, d) /\ job[u].snap.text # Alien =>
          \A pair \in entry[d] : pair.text <= job[u].snap.text)'
    BY <2>0, <1>u, <1>g DEF AdvanceOf, Live
  <2> QED BY <2>1, <2>2, <2>3, <1>u DEF AdvanceOf
<1>13. DraftInv(d)'
  BY <1>6, <1>7, <1>8, <1>9, <1>10, <1>11, <1>12 DEF DraftInv
<1> QED BY <1>1, <1>2, <1>3, <1>4, <1>13 DEF Inv

\* A clean session is closed.
LEMMA CloseKeeps ==
  ASSUME Inv, NEW d \in Drafts, Close(d)
  PROVE  Inv'
<1> USE AlienFacts, ThreadFacts
<1>0. Typed /\ JobInv /\ FolderInv
  BY DEF Inv
<1>jf. JobFields
  BY <1>0, TypedHasFields DEF Fields
<1>nf. NoteFields /\ NewestFields
  BY <1>0, TypedHasFields DEF Fields
<1>pf. PairsFields /\ FileFields
  BY <1>0, TypedHasFields DEF Fields
<1>sf. ScanFields /\ FlushFields
  BY <1>0, TypedHasFields DEF Fields
<1>u. UNCHANGED <<entry, md, sidecar, folder, armed, job, flush, scan, newest, seq,
    named, retired, spoiled, pairs, overlap>>
  BY DEF Close, files, histories
<1>s1. note' = [note EXCEPT ![d].at = "gone"] /\ note[d] \in Notes /\ note \in [Drafts -> Notes]
  BY <1>0 DEF Close, Typed
<1> DEFINE r == [note[d] EXCEPT !.at = "gone"]
<1>s2. /\ r \in Notes /\ r.at = "gone" /\ r.text = note[d].text /\ r.target = note[d].target
      /\ r.dirty = note[d].dirty
  BY <1>s1 DEF Notes
<1>s3. note' = [note EXCEPT ![d] = r]
  BY <1>s1
<1> HIDE DEF r
<1>s4. folder = "here" /\ flush.after = "none" /\ note[d].at = "open" /\ ~note[d].dirty
  BY DEF Close, Working, Open
<1>f. /\ folder = "here" /\ flush.after = "none" /\ note[d].at = "open" /\ ~note[d].dirty
      /\ note' \in [Drafts -> Notes]
      /\ note'[d].at = "gone" /\ note'[d].text = note[d].text
      /\ note'[d].target = note[d].target /\ note'[d].dirty = note[d].dirty
      /\ \A e \in Drafts : e # d => note'[e] = note[e]
      /\ moves \in 0 .. Budget /\ moves' \in 0 .. Budget /\ moves <= moves'
  BY <1>0, <1>s1, <1>s2, <1>s3, <1>s4 DEF Typed, Close, User, Move
<1>g. \A u \in Threads : /\ Pending(u, d)' <=> Pending(u, d)
                         /\ Removing(u, d)' <=> Removing(u, d)
                         /\ Begun(u, d)' <=> Begun(u, d)
                         /\ Live(u, d)' <=> Live(u, d)
  BY <1>u DEF Pending, Removing, Begun, Live
<1>1. Typed'
  BY <1>0, <1>f, <1>u, SMTT(20) DEF Typed
<1>2. JobInv'
  <2>1. \A u \in Threads : JobOf(u)'
    BY <1>0, <1>jf, <1>nf, <1>f, <1>u, SMTT(20) DEF JobInv, JobOf, Removing
  <2>2. LockInv'
    BY <1>0, <1>jf, <1>f, <1>u, SMTT(20) DEF JobInv, LockInv, HasLock
  <2>3. UiInv'
    BY <1>0, <1>jf, <1>f, <1>u, SMTT(20) DEF JobInv, UiInv, Open, Snapshot
  <2> QED BY <2>1, <2>2, <2>3 DEF JobInv
<1>3. FolderInv'
  BY <1>0, <1>jf, <1>f, <1>u, SMTT(20) DEF FolderInv, Busy, Open
<1>4. ASSUME NEW e \in Drafts, e # d
      PROVE  DraftInv(e)'
  <2>1. Untouched(e)
    BY <1>0, <1>4, <1>f, <1>u, SMTT(20) DEF Untouched, Typed
  <2> QED BY <1>4, <1>pf, <2>1, UntouchedKeeps DEF Inv
<1>5. DraftInv(d)
  BY DEF Inv
<1>6. TextOf(d)'
  <2>0. TextOf(d)
    BY <1>5 DEF DraftInv
  <2>1. /\ pairs[d] \subseteq pairs'[d]
        /\ \A pair \in pairs'[d] : pair.text <= moves' + 1
    BY <1>f, <1>u, <2>0, <1>g, <1>pf, <1>0, SMTT(20) DEF TextOf, PairsFields, Typed
  <2>2. note'[d].at # "none" => KnownPair(d, Snapshot(d))'
    BY <1>f, <1>u, <2>0, <1>g, SMTT(20) DEF TextOf, KnownPair, Snapshot
  <2>3. /\ \A pair \in entry'[d] : pair \in entry[d] \/ KnownPair(d, pair)'
        /\ md'[d] \subseteq md[d]
    BY <1>f, <1>u, <2>0, <1>g, SMTT(20)
  <2>4. \A v \in Threads : Pending(v, d)' =>
          \/ Pending(v, d) /\ job'[v].snap = job[v].snap
          \/ KnownPair(d, job[v].snap)'
    BY <1>f, <1>u, <2>0, <1>g, SMTT(20)
  <2>5. /\ d \in scan'.cur /\ scan'.pc = "target" =>
              \/ d \in scan.cur /\ scan.pc = "target" /\ scan'.text = scan.text
              \/ KnownText(d, scan.text)'
        /\ \A h \in scan'.got : h.draft = d => h \in scan.got \/ KnownText(d, h.pair.text)'
    BY <1>f, <1>u, <2>0, <1>g, SMTT(20)
  <2> QED BY <2>0, <2>1, <2>2, <2>3, <2>4, <2>5, TextKeeps
<1>7. WholeOf(d)'
  BY <1>5, <1>f, <1>u, <1>g, SMTT(20) DEF DraftInv, WholeOf, Held, KnownPair
<1>8. ScanOf(d)'
  BY <1>5, <1>f, <1>u, <1>g, SMTT(20) DEF DraftInv, ScanOf, Held
<1>9. SettleOf(d)'
  BY <1>5, <1>f, <1>u, <1>g, <1>jf, <1>nf, SMTT(20) DEF DraftInv, SettleOf,
      LastIsWritten, Mine, Open
<1>10. FlushOf(d)'
  BY <1>5, <1>f, <1>u, <1>g, <1>jf, <1>nf, SMTT(20) DEF DraftInv, FlushOf, Written,
      Snapshot, Open
<1>11. RetireOf(d)'
  BY <1>5, <1>f, <1>u, <1>g, <1>jf, <1>nf, SMTT(20) DEF DraftInv, RetireOf, Open
<1>12. AdvanceOf(d)'
  BY <1>5, <1>f, <1>u, <1>g, <1>jf, <1>nf, SMTT(20) DEF DraftInv, AdvanceOf, Mine,
      Open
<1>13. DraftInv(d)'
  BY <1>6, <1>7, <1>8, <1>9, <1>10, <1>11, <1>12 DEF DraftInv
<1> QED BY <1>1, <1>2, <1>3, <1>4, <1>13 DEF Inv

\* A file takes the place of the text of a clean note.
LEMMA OpenFileKeeps ==
  ASSUME Inv, NEW d \in Drafts, OpenFile(d)
  PROVE  Inv'
<1> USE AlienFacts, ThreadFacts
<1>0. Typed /\ JobInv /\ FolderInv
  BY DEF Inv
<1>jf. JobFields
  BY <1>0, TypedHasFields DEF Fields
<1>nf. NoteFields /\ NewestFields
  BY <1>0, TypedHasFields DEF Fields
<1>pf. PairsFields /\ FileFields
  BY <1>0, TypedHasFields DEF Fields
<1>sf. ScanFields /\ FlushFields
  BY <1>0, TypedHasFields DEF Fields
<1>u. UNCHANGED <<entry, md, sidecar, folder, armed, job, flush, scan, newest, seq,
    named, retired, spoiled, pairs, overlap>>
  BY DEF OpenFile, files, histories
<1>s1. note' = [note EXCEPT ![d].text = Alien] /\ note[d] \in Notes /\ note \in [Drafts -> Notes]
  BY <1>0 DEF OpenFile, Typed
<1> DEFINE r == [note[d] EXCEPT !.text = Alien]
<1>s2. /\ r \in Notes /\ r.at = note[d].at /\ r.text = Alien /\ r.target = note[d].target
      /\ r.dirty = note[d].dirty
  BY <1>s1, TextFacts DEF Notes
<1>s3. note' = [note EXCEPT ![d] = r]
  BY <1>s1
<1> HIDE DEF r
<1>s4. folder = "here" /\ flush.after = "none" /\ note[d].at = "open" /\ ~note[d].dirty
  BY DEF OpenFile, Working, Open
<1>f. /\ folder = "here" /\ flush.after = "none" /\ note[d].at = "open" /\ ~note[d].dirty
      /\ note' \in [Drafts -> Notes]
      /\ note'[d].at = "open" /\ note'[d].text = Alien
      /\ note'[d].target = note[d].target /\ note'[d].dirty = note[d].dirty
      /\ \A e \in Drafts : e # d => note'[e] = note[e]
      /\ moves \in 0 .. Budget /\ moves' \in 0 .. Budget /\ moves <= moves'
  BY <1>0, <1>s1, <1>s2, <1>s3, <1>s4 DEF Typed, OpenFile, User, Move
<1>g. \A u \in Threads : /\ Pending(u, d)' <=> Pending(u, d)
                         /\ Removing(u, d)' <=> Removing(u, d)
                         /\ Begun(u, d)' <=> Begun(u, d)
                         /\ Live(u, d)' <=> Live(u, d)
  BY <1>u DEF Pending, Removing, Begun, Live
<1>1. Typed'
  BY <1>0, <1>f, <1>u, SMTT(20) DEF Typed
<1>2. JobInv'
  <2>1. \A u \in Threads : JobOf(u)'
    BY <1>0, <1>jf, <1>nf, <1>f, <1>u, SMTT(20) DEF JobInv, JobOf, Removing
  <2>2. LockInv'
    BY <1>0, <1>jf, <1>f, <1>u, SMTT(20) DEF JobInv, LockInv, HasLock
  <2>3. UiInv'
    BY <1>0, <1>jf, <1>f, <1>u, SMTT(20) DEF JobInv, UiInv, Open, Snapshot
  <2> QED BY <2>1, <2>2, <2>3 DEF JobInv
<1>3. FolderInv'
  BY <1>0, <1>jf, <1>f, <1>u, SMTT(20) DEF FolderInv, Busy, Open
<1>4. ASSUME NEW e \in Drafts, e # d
      PROVE  DraftInv(e)'
  <2>1. Untouched(e)
    BY <1>0, <1>4, <1>f, <1>u, SMTT(20) DEF Untouched, Typed
  <2> QED BY <1>4, <1>pf, <2>1, UntouchedKeeps DEF Inv
<1>5. DraftInv(d)
  BY DEF Inv
<1>6. TextOf(d)'
  <2>0. TextOf(d)
    BY <1>5 DEF DraftInv
  <2>1. /\ pairs[d] \subseteq pairs'[d]
        /\ \A pair \in pairs'[d] : pair.text <= moves' + 1
    BY <1>f, <1>u, <2>0, <1>g, <1>pf, <1>0, SMTT(20) DEF TextOf, PairsFields, Typed
  <2>2. note'[d].at # "none" => KnownPair(d, Snapshot(d))'
    BY <1>f, <1>u, <2>0, <1>g, SMTT(20) DEF TextOf, KnownPair, Snapshot
  <2>3. /\ \A pair \in entry'[d] : pair \in entry[d] \/ KnownPair(d, pair)'
        /\ md'[d] \subseteq md[d]
    BY <1>f, <1>u, <2>0, <1>g, SMTT(20)
  <2>4. \A v \in Threads : Pending(v, d)' =>
          \/ Pending(v, d) /\ job'[v].snap = job[v].snap
          \/ KnownPair(d, job[v].snap)'
    BY <1>f, <1>u, <2>0, <1>g, SMTT(20)
  <2>5. /\ d \in scan'.cur /\ scan'.pc = "target" =>
              \/ d \in scan.cur /\ scan.pc = "target" /\ scan'.text = scan.text
              \/ KnownText(d, scan.text)'
        /\ \A h \in scan'.got : h.draft = d => h \in scan.got \/ KnownText(d, h.pair.text)'
    BY <1>f, <1>u, <2>0, <1>g, SMTT(20)
  <2> QED BY <2>0, <2>1, <2>2, <2>3, <2>4, <2>5, TextKeeps
<1>7. WholeOf(d)'
  BY <1>5, <1>f, <1>u, <1>g, SMTT(20) DEF DraftInv, WholeOf, Held, KnownPair
<1>8. ScanOf(d)'
  BY <1>5, <1>f, <1>u, <1>g, SMTT(20) DEF DraftInv, ScanOf, Held
<1>9. SettleOf(d)'
  BY <1>5, <1>f, <1>u, <1>g, <1>jf, <1>nf, SMTT(20) DEF DraftInv, SettleOf,
      LastIsWritten, Mine, Open
<1>10. FlushOf(d)'
  BY <1>5, <1>f, <1>u, <1>g, <1>jf, <1>nf, SMTT(20) DEF DraftInv, FlushOf, Written,
      Snapshot, Open
<1>11. RetireOf(d)'
  BY <1>5, <1>f, <1>u, <1>g, <1>jf, <1>nf, SMTT(20) DEF DraftInv, RetireOf, Open
<1>12. AdvanceOf(d)'
  BY <1>5, <1>f, <1>u, <1>g, <1>jf, <1>nf, SMTT(20) DEF DraftInv, AdvanceOf, Mine,
      Open
<1>13. DraftInv(d)'
  BY <1>6, <1>7, <1>8, <1>9, <1>10, <1>11, <1>12 DEF DraftInv
<1> QED BY <1>1, <1>2, <1>3, <1>4, <1>13 DEF Inv

\* The window writes the next of its notes itself, with the newest number.
LEMMA FlushNextKeeps ==
  ASSUME Inv, NEW d \in Drafts, FlushNext(d)
  PROVE  Inv'
<1> USE AlienFacts, ThreadFacts
<1>0. Typed /\ JobInv /\ FolderInv
  BY DEF Inv
<1>jf. JobFields
  BY <1>0, TypedHasFields DEF Fields
<1>nf. NoteFields /\ NewestFields
  BY <1>0, TypedHasFields DEF Fields
<1>pf. PairsFields /\ FileFields
  BY <1>0, TypedHasFields DEF Fields
<1>sf. ScanFields /\ FlushFields
  BY <1>0, TypedHasFields DEF Fields
<1>u. UNCHANGED <<entry, md, sidecar, folder, note, armed, scan, newest, named,
    retired, spoiled, pairs, overlap, moves>>
  BY DEF FlushNext, files, histories
<1> DEFINE w == Ui
           r == [pc |-> "lock", kind |-> "write", draft |-> d, seq |-> seq,
                 snap |-> Snapshot(d)]
<1>s1. job[w].pc = "free" /\ job' = [job EXCEPT ![w] = r]
  BY DEF FlushNext
<1>s2. Snapshot(d) \in Pair
  BY <1>nf, PairFacts, TextFacts DEF Snapshot, NoteFields
<1>s3. r \in Jobs
  BY <1>0, <1>s2 DEF Jobs, Typed
<1>s4. /\ r.pc = "lock" /\ r.kind = "write" /\ r.draft = d /\ r.seq = seq
      /\ r.snap = Snapshot(d)
  OBVIOUS
<1>s5a. d \in flush.todo /\ flush' = [flush EXCEPT !.todo = flush.todo \ {d}]
  BY DEF FlushNext
<1>s5b. /\ flush' \in Flushes /\ flush'.todo = flush.todo \ {d}
       /\ flush'.after = flush.after /\ flush'.failed = flush.failed
  BY <1>0, <1>s5a DEF Flushes, Typed
<1>s5c. w \in Threads /\ w = Ui
  OBVIOUS
<1> HIDE DEF r, w
<1>s5d. note[d].at = "open" /\ flush.after # "none"
  BY <1>0, <1>s5a DEF FolderInv, Open
<1>f. /\ flush.after # "none" /\ note[d].at = "open" /\ d \in flush.todo
      /\ flush' \in Flushes /\ flush'.todo = flush.todo \ {d}
      /\ flush'.after = flush.after /\ flush'.failed = flush.failed
      /\ seq' = seq + 1 /\ seq \in Nat
      /\ w \in Threads /\ w = Ui /\ job[w].pc = "free"
      /\ job'[w].pc = "lock" /\ job'[w].kind = "write" /\ job'[w].draft = d
      /\ job'[w].seq = seq /\ job'[w].snap = Snapshot(d) /\ Snapshot(d) \in Pair
      /\ job' \in [Threads -> Jobs] /\ \A u \in Threads : u # w => job'[u] = job[u]
  BY <1>0, <1>s1, <1>s2, <1>s3, <1>s4, <1>s5a, <1>s5b, <1>s5c, <1>s5d, StartFacts
     DEF FlushNext, TakeSequence, Typed
<1>g. \A u \in Threads : /\ Pending(u, d)' <=> Pending(u, d) \/ u = w
                         /\ ~Pending(w, d) /\ ~Removing(w, d)
                         /\ Removing(u, d)' <=> Removing(u, d)
                         /\ Begun(u, d)' <=> Begun(u, d)
                         /\ Live(u, d)' <=> Live(u, d) \/ u = w
                         /\ u # w => job'[u] = job[u]
                         /\ Pending(u, d) => u # w
  BY <1>f, <1>u, <1>nf DEF Pending, Removing, Begun, Live, NewestFields
<1>h. /\ \A u \in Threads : Pending(u, d) => job[u].seq < seq
      /\ newest[d] < seq /\ newest[d] \in Nat
  BY <1>0, <1>f, <1>nf DEF JobInv, JobOf, Pending, NewestFields
<1>1. Typed'
  BY <1>0, <1>f, <1>u, SMTT(20) DEF Typed
<1>2. JobInv'
  <2>1. \A u \in Threads : JobOf(u)'
    <3> SUFFICES ASSUME NEW u \in Threads PROVE JobOf(u)'
      OBVIOUS
    <3>0. JobOf(u)
      BY <1>0 DEF JobInv
    <3>1. ASSUME u = w PROVE JobOf(u)'
      BY <3>0, <3>1, <1>jf, <1>nf, <1>f, <1>u, SMTT(60) DEF JobOf, Removing, HasLock,
          NewestFields, JobFields
    <3>2. ASSUME u # w PROVE JobOf(u)'
      BY <3>0, <3>2, <1>jf, <1>nf, <1>f, <1>u, SMTT(60) DEF JobOf, Removing, HasLock,
          NewestFields, JobFields
    <3> QED BY <3>1, <3>2
  <2>2. LockInv'
    BY <1>0, <1>jf, <1>f, <1>u, SMTT(20) DEF JobInv, LockInv, HasLock
  <2>3. UiInv'
    BY <1>0, <1>jf, <1>f, <1>u, SMTT(20) DEF JobInv, UiInv, Open, Snapshot
  <2> QED BY <2>1, <2>2, <2>3 DEF JobInv
<1>3. FolderInv'
  BY <1>0, <1>jf, <1>f, <1>u, SMTT(20) DEF FolderInv, Busy, Open
<1>4. ASSUME NEW e \in Drafts, e # d
      PROVE  DraftInv(e)'
  <2>1. Untouched(e)
    BY <1>0, <1>4, <1>f, <1>u, SMTT(20) DEF Untouched, Typed
  <2> QED BY <1>4, <1>pf, <2>1, UntouchedKeeps DEF Inv
<1>5. DraftInv(d)
  BY DEF Inv
<1>6. TextOf(d)'
  <2>0. TextOf(d)
    BY <1>5 DEF DraftInv
  <2>1. /\ pairs[d] \subseteq pairs'[d]
        /\ \A pair \in pairs'[d] : pair.text <= moves' + 1
    BY <1>f, <1>u, <2>0, <1>g, <1>pf, <1>0, SMTT(20) DEF TextOf, PairsFields, Typed
  <2>2. note'[d].at # "none" => KnownPair(d, Snapshot(d))'
    BY <1>f, <1>u, <2>0, <1>g, SMTT(20) DEF TextOf, KnownPair, Snapshot
  <2>3. /\ \A pair \in entry'[d] : pair \in entry[d] \/ KnownPair(d, pair)'
        /\ md'[d] \subseteq md[d]
    BY <1>f, <1>u, <2>0, <1>g, SMTT(20)
  <2>4. \A v \in Threads : Pending(v, d)' =>
          \/ Pending(v, d) /\ job'[v].snap = job[v].snap
          \/ KnownPair(d, job[v].snap)'
    <3>1. KnownPair(d, job[w].snap)'
      BY <2>0, <1>f, <1>u DEF TextOf, KnownPair
    <3> QED BY <3>1, <1>g
  <2>5. /\ d \in scan'.cur /\ scan'.pc = "target" =>
              \/ d \in scan.cur /\ scan.pc = "target" /\ scan'.text = scan.text
              \/ KnownText(d, scan.text)'
        /\ \A h \in scan'.got : h.draft = d => h \in scan.got \/ KnownText(d, h.pair.text)'
    BY <1>f, <1>u, <2>0, <1>g, SMTT(20)
  <2> QED BY <2>0, <2>1, <2>2, <2>3, <2>4, <2>5, TextKeeps
<1>7. WholeOf(d)'
  BY <1>5, <1>f, <1>u, <1>g, SMTT(20) DEF DraftInv, WholeOf, Held, KnownPair
<1>8. ScanOf(d)'
  BY <1>5, <1>f, <1>u, <1>g, SMTT(20) DEF DraftInv, ScanOf, Held
<1>9. SettleOf(d)'
  <2>1. LastIsWritten(d)'
    <3>1. newest'[d] < seq /\ newest'[d] \in Nat
      BY <1>u, <1>nf DEF NewestFields
    <3>2. \A u \in Threads : Pending(u, d)' /\ job'[u].seq >= seq => u = w
      BY <1>g, <1>h, <1>jf, <1>f DEF JobFields
    <3>3. job'[w].snap.text = note'[d].text
      BY <1>f, <1>u DEF Snapshot
    <3>4. Pending(w, d)' /\ job'[w].seq >= seq
      BY <1>f, <1>g
    <3>5. newest'[d] >= seq => FALSE
      BY <1>f, <3>1
    <3> QED BY <1>f, <3>2, <3>3, <3>4, <3>5 DEF LastIsWritten
  <2> QED BY <2>1 DEF SettleOf
<1>10. FlushOf(d)'
  BY <1>f, <1>u, <1>g, <1>h, <1>jf DEF FlushOf, Written, JobFields
<1>11. RetireOf(d)'
  BY <1>5, <1>f, <1>u, <1>g, <1>h DEF DraftInv, RetireOf, Open
<1>12. AdvanceOf(d)'
  <2>0. AdvanceOf(d)
    BY <1>5 DEF DraftInv
  <2>1. job'[w].snap.text = note[d].text /\ note[d].text \in Nat
    BY <1>f, <1>nf DEF Snapshot, NoteFields
  <2> SUFFICES ASSUME d \notin overlap PROVE AdvanceOf(d)'
    BY <1>u DEF AdvanceOf
  <2>2. (Mine(d) =>
          /\ \A u \in Threads : Pending(u, d) => job[u].snap.text <= note[d].text
          /\ \A pair \in entry[d] : pair.text <= note[d].text)'
    BY <2>0, <2>1, <1>u, <1>g DEF AdvanceOf, Mine, Open
  <2>4. (\A u \in Threads : Live(u, d) /\ job[u].snap.text # Alien =>
          \A pair \in entry[d] : pair.text <= job[u].snap.text)'
    BY <2>0, <2>1, <1>u, <1>g, <1>f DEF AdvanceOf, Mine, Open
  <2>5. (\A v, u \in Threads :
          /\ Pending(v, d) /\ Pending(u, d)
          /\ job[v].seq <= job[u].seq /\ job[u].snap.text # Alien
          => job[v].snap.text <= job[u].snap.text)'
    <3> SUFFICES ASSUME NEW v \in Threads, NEW u \in Threads, Pending(v, d)', Pending(u, d)',
                        job'[v].seq <= job'[u].seq, job'[u].snap.text # Alien
                 PROVE  job'[v].snap.text <= job'[u].snap.text
      OBVIOUS
    <3>1. CASE u = w /\ v = w
      BY <3>1, <2>1
    <3>2. CASE u = w /\ v # w
      BY <3>2, <2>1, <2>0, <1>g, <1>f DEF AdvanceOf, Mine, Open
    <3>3. CASE u # w /\ v = w
      BY <3>3, <1>g, <1>h, <1>f, <1>jf DEF JobFields
    <3>4. CASE u # w /\ v # w
      BY <3>4, <1>g, <2>0 DEF AdvanceOf
    <3> QED BY <3>1, <3>2, <3>3, <3>4
  <2> QED BY <2>2, <2>4, <2>5 DEF AdvanceOf
<1>13. DraftInv(d)'
  BY <1>6, <1>7, <1>8, <1>9, <1>10, <1>11, <1>12 DEF DraftInv
<1> QED BY <1>1, <1>2, <1>3, <1>4, <1>13 DEF Inv

\* Every note that is open is to be written.
LEMMA LeaveKeeps ==
  ASSUME Inv, NEW after \in {"leave", "quit", "restart"}, Leave(after)
  PROVE  Inv'
<1> USE AlienFacts, ThreadFacts
<1>0. Typed /\ JobInv /\ FolderInv
  BY DEF Inv
<1>jf. JobFields
  BY <1>0, TypedHasFields DEF Fields
<1>nf. NoteFields /\ NewestFields
  BY <1>0, TypedHasFields DEF Fields
<1>pf. PairsFields /\ FileFields
  BY <1>0, TypedHasFields DEF Fields
<1>sf. ScanFields /\ FlushFields
  BY <1>0, TypedHasFields DEF Fields
<1>u. UNCHANGED <<entry, md, sidecar, folder, note, armed, job, scan, newest, seq,
    named, retired, spoiled, pairs, overlap>>
  BY DEF Leave, files, histories
<1>s1. flush' = [todo |-> ToFlush, after |-> after, failed |-> FALSE]
  BY DEF Leave
<1>f. /\ folder = "here" /\ flush.after = "none"
      /\ flush' \in Flushes /\ flush'.todo = {d \in Drafts : Open(d)}
      /\ flush'.after = after /\ flush'.after # "none"
      /\ moves \in 0 .. Budget /\ moves' \in 0 .. Budget /\ moves <= moves'
      /\ job[Ui].pc = "free"
  BY <1>0, <1>s1 DEF Leave, User, Move, Working, Flushes, ToFlush, JobInv, UiInv, Typed
<1>1. Typed'
  BY <1>0, <1>f, <1>u, SMTT(20) DEF Typed
<1>2. JobInv'
  <2>1. \A u \in Threads : JobOf(u)'
    BY <1>0, <1>jf, <1>nf, <1>f, <1>u, SMTT(20) DEF JobInv, JobOf, Removing
  <2>2. LockInv'
    BY <1>0, <1>jf, <1>f, <1>u, SMTT(20) DEF JobInv, LockInv, HasLock
  <2>3. UiInv'
    BY <1>0, <1>jf, <1>f, <1>u, SMTT(20) DEF JobInv, UiInv, Open, Snapshot
  <2> QED BY <2>1, <2>2, <2>3 DEF JobInv
<1>3. FolderInv'
  BY <1>0, <1>jf, <1>f, <1>u, SMTT(20) DEF FolderInv, Busy, Open
<1>4. ASSUME NEW e \in Drafts
      PROVE  DraftInv(e)'
  <2>0. DraftInv(e)
    BY DEF Inv
  <2>g. \A u \in Threads : /\ Pending(u, e)' <=> Pending(u, e)
                           /\ Removing(u, e)' <=> Removing(u, e)
                           /\ Begun(u, e)' <=> Begun(u, e)
                           /\ Live(u, e)' <=> Live(u, e)
    BY <1>u DEF Pending, Removing, Begun, Live
  <2>1. TextOf(e)'
    <3>0. TextOf(e)
      BY <2>0 DEF DraftInv
    <3>1. /\ pairs[e] \subseteq pairs'[e]
          /\ \A pair \in pairs'[e] : pair.text <= moves' + 1
      BY <1>f, <1>u, <3>0, <1>pf, <1>0, SMTT(20) DEF TextOf, PairsFields, Typed
    <3>2. note'[e].at # "none" => KnownPair(e, Snapshot(e))'
      BY <1>f, <1>u, <3>0, SMTT(20) DEF TextOf, KnownPair, Snapshot
    <3>3. /\ \A pair \in entry'[e] : pair \in entry[e] \/ KnownPair(e, pair)'
          /\ md'[e] \subseteq md[e]
      BY <1>f, <1>u, <3>0, SMTT(20)
    <3>4. \A v \in Threads : Pending(v, e)' =>
            \/ Pending(v, e) /\ job'[v].snap = job[v].snap
            \/ KnownPair(e, job[v].snap)'
      BY <1>f, <1>u, <3>0, SMTT(20) DEF Pending
    <3>5. /\ e \in scan'.cur /\ scan'.pc = "target" =>
                \/ e \in scan.cur /\ scan.pc = "target" /\ scan'.text = scan.text
                \/ KnownText(e, scan.text)'
          /\ \A h \in scan'.got : h.draft = e => h \in scan.got \/ KnownText(e, h.pair.text)'
      BY <1>f, <1>u, <3>0, SMTT(20)
    <3> QED BY <3>0, <3>1, <3>2, <3>3, <3>4, <3>5, TextKeeps
  <2>2. WholeOf(e)'
    BY <2>0, <1>4, <1>f, <1>u, <2>g, SMTT(20) DEF DraftInv, WholeOf, Held, KnownPair
  <2>3. ScanOf(e)'
    BY <2>0, <1>4, <1>f, <1>u, <2>g, SMTT(20) DEF DraftInv, ScanOf, Held
  <2>4. SettleOf(e)'
    BY <2>0, <1>4, <1>f, <1>u, <2>g, <1>jf, <1>nf, SMTT(20) DEF DraftInv, SettleOf,
        LastIsWritten, Mine, Open
  <2>5. FlushOf(e)'
    BY <2>0, <1>4, <1>f, <1>u, <2>g, <1>jf, <1>nf, SMTT(20) DEF DraftInv, FlushOf,
        Written, Snapshot, Open
  <2>6. RetireOf(e)'
    BY <2>0, <1>4, <1>f, <1>u, <2>g, <1>jf, <1>nf, SMTT(20) DEF DraftInv, RetireOf,
        Open
  <2>7. AdvanceOf(e)'
    BY <2>0, <1>4, <1>f, <1>u, <2>g, <1>jf, <1>nf, SMTT(20) DEF DraftInv, AdvanceOf,
        Mine, Open
  <2> QED BY <2>1, <2>2, <2>3, <2>4, <2>5, <2>6, <2>7 DEF DraftInv
<1> QED BY <1>1, <1>2, <1>3, <1>4 DEF Inv

\* The sessions go; the threads go on.
LEMMA LeaveFolderKeeps ==
  ASSUME Inv, LeaveFolder
  PROVE  Inv'
<1> USE AlienFacts, ThreadFacts
<1>0. Typed /\ JobInv /\ FolderInv
  BY DEF Inv
<1>jf. JobFields
  BY <1>0, TypedHasFields DEF Fields
<1>nf. NoteFields /\ NewestFields
  BY <1>0, TypedHasFields DEF Fields
<1>pf. PairsFields /\ FileFields
  BY <1>0, TypedHasFields DEF Fields
<1>sf. ScanFields /\ FlushFields
  BY <1>0, TypedHasFields DEF Fields
<1>u. UNCHANGED <<entry, md, sidecar, job, scan, newest, seq, named, retired, spoiled,
    pairs, overlap, moves>>
  BY DEF LeaveFolder, files, histories
<1>a. Absent \in Notes /\ Absent.at = "none"
  BY TextFacts, AlienFacts DEF Absent, Notes
<1>b. NoFlush \in Flushes /\ NoFlush.todo = {} /\ NoFlush.after = "none"
  BY DEF NoFlush, Flushes
<1>f. /\ flush.after = "leave" /\ flush.todo = {} /\ job[Ui].pc = "free"
      /\ folder' = "away" /\ armed' = {} /\ flush' \in Flushes
      /\ flush'.todo = {} /\ flush'.after = "none"
      /\ note' \in [Drafts -> Notes] /\ \A e \in Drafts : note'[e].at = "none"
      /\ folder = "here"
  BY <1>0, <1>a, <1>b DEF LeaveFolder, Flushed, FolderInv
<1>1. Typed'
  BY <1>0, <1>f, <1>u, SMTT(20) DEF Typed
<1>2. JobInv'
  <2>1. \A u \in Threads : JobOf(u)'
    BY <1>0, <1>jf, <1>nf, <1>f, <1>u, SMTT(20) DEF JobInv, JobOf, Removing
  <2>2. LockInv'
    BY <1>0, <1>jf, <1>f, <1>u, SMTT(20) DEF JobInv, LockInv, HasLock
  <2>3. UiInv'
    BY <1>0, <1>jf, <1>f, <1>u, SMTT(20) DEF JobInv, UiInv, Open, Snapshot
  <2> QED BY <2>1, <2>2, <2>3 DEF JobInv
<1>3. FolderInv'
  BY <1>0, <1>jf, <1>f, <1>u, SMTT(20) DEF FolderInv, Busy, Open
<1>4. ASSUME NEW e \in Drafts
      PROVE  DraftInv(e)'
  <2>0. DraftInv(e)
    BY DEF Inv
  <2>g. \A u \in Threads : /\ Pending(u, e)' <=> Pending(u, e)
                           /\ Removing(u, e)' <=> Removing(u, e)
                           /\ Begun(u, e)' <=> Begun(u, e)
                           /\ Live(u, e)' <=> Live(u, e)
    BY <1>u DEF Pending, Removing, Begun, Live
  <2>1. TextOf(e)'
    <3>0. TextOf(e)
      BY <2>0 DEF DraftInv
    <3>1. /\ pairs[e] \subseteq pairs'[e]
          /\ \A pair \in pairs'[e] : pair.text <= moves' + 1
      BY <1>f, <1>u, <3>0, <1>pf, <1>0, SMTT(20) DEF TextOf, PairsFields, Typed
    <3>2. note'[e].at # "none" => KnownPair(e, Snapshot(e))'
      BY <1>f, <1>u, <3>0, SMTT(20) DEF TextOf, KnownPair, Snapshot
    <3>3. /\ \A pair \in entry'[e] : pair \in entry[e] \/ KnownPair(e, pair)'
          /\ md'[e] \subseteq md[e]
      BY <1>f, <1>u, <3>0, SMTT(20)
    <3>4. \A v \in Threads : Pending(v, e)' =>
            \/ Pending(v, e) /\ job'[v].snap = job[v].snap
            \/ KnownPair(e, job[v].snap)'
      BY <1>f, <1>u, <3>0, SMTT(20) DEF Pending
    <3>5. /\ e \in scan'.cur /\ scan'.pc = "target" =>
                \/ e \in scan.cur /\ scan.pc = "target" /\ scan'.text = scan.text
                \/ KnownText(e, scan.text)'
          /\ \A h \in scan'.got : h.draft = e => h \in scan.got \/ KnownText(e, h.pair.text)'
      BY <1>f, <1>u, <3>0, SMTT(20)
    <3> QED BY <3>0, <3>1, <3>2, <3>3, <3>4, <3>5, TextKeeps
  <2>2. WholeOf(e)'
    BY <2>0, <1>4, <1>f, <1>u, <2>g, SMTT(20) DEF DraftInv, WholeOf, Held, KnownPair
  <2>3. ScanOf(e)'
    BY <2>0, <1>4, <1>f, <1>u, <2>g, SMTT(20) DEF DraftInv, ScanOf, Held
  <2>4. SettleOf(e)'
    BY <2>0, <1>4, <1>f, <1>u, <2>g, <1>jf, <1>nf, SMTT(20) DEF DraftInv, SettleOf,
        LastIsWritten, Mine, Open
  <2>5. FlushOf(e)'
    BY <2>0, <1>4, <1>f, <1>u, <2>g, <1>jf, <1>nf, SMTT(20) DEF DraftInv, FlushOf,
        Written, Snapshot, Open
  <2>6. RetireOf(e)'
    <3>1. ~Pending(Ui, e)
      BY <1>f DEF Pending
    <3>2. /\ Written(e) => Open(e)
          /\ Open(e) => Written(e)
      BY <1>f, <3>1 DEF Written
    <3>3. RetireOf(e) /\ FlushOf(e)
      BY <2>0 DEF DraftInv
    <3>4. (\E t \in Threads : Begun(t, e)) /\ (\E t \in Threads : Live(t, e)) =>
            \E t \in Threads : Removing(t, e) /\ ~Begun(t, e)
      BY <3>1, <3>2, <3>3 DEF RetireOf, FlushOf
    <3> QED BY <3>3, <3>4, <1>f, <1>u, <2>g DEF RetireOf
  <2>7. AdvanceOf(e)'
    BY <2>0, <1>4, <1>f, <1>u, <2>g, <1>jf, <1>nf, SMTT(20) DEF DraftInv, AdvanceOf,
        Mine, Open
  <2> QED BY <2>1, <2>2, <2>3, <2>4, <2>5, <2>6, <2>7 DEF DraftInv
<1> QED BY <1>1, <1>2, <1>3, <1>4 DEF Inv

\* A restart that could not write a note is given up.
LEMMA RestartBlockedKeeps ==
  ASSUME Inv, RestartBlocked
  PROVE  Inv'
<1> USE AlienFacts, ThreadFacts
<1>0. Typed /\ JobInv /\ FolderInv
  BY DEF Inv
<1>jf. JobFields
  BY <1>0, TypedHasFields DEF Fields
<1>nf. NoteFields /\ NewestFields
  BY <1>0, TypedHasFields DEF Fields
<1>pf. PairsFields /\ FileFields
  BY <1>0, TypedHasFields DEF Fields
<1>sf. ScanFields /\ FlushFields
  BY <1>0, TypedHasFields DEF Fields
<1>u. UNCHANGED <<entry, md, sidecar, folder, note, armed, job, scan, newest, seq,
    named, retired, spoiled, pairs, overlap, moves>>
  BY DEF RestartBlocked, files, histories
<1>a. Absent \in Notes /\ Absent.at = "none"
  BY TextFacts, AlienFacts DEF Absent, Notes
<1>b. NoFlush \in Flushes /\ NoFlush.todo = {} /\ NoFlush.after = "none"
  BY DEF NoFlush, Flushes
<1>f. /\ flush.after = "restart" /\ flush.todo = {} /\ job[Ui].pc = "free"
      /\ flush' \in Flushes /\ flush'.todo = {} /\ flush'.after = "none"
      /\ folder = "here"
  BY <1>0, <1>b DEF RestartBlocked, Flushed, FolderInv
<1>1. Typed'
  BY <1>0, <1>f, <1>u, SMTT(20) DEF Typed
<1>2. JobInv'
  <2>1. \A u \in Threads : JobOf(u)'
    BY <1>0, <1>jf, <1>nf, <1>f, <1>u, SMTT(20) DEF JobInv, JobOf, Removing
  <2>2. LockInv'
    BY <1>0, <1>jf, <1>f, <1>u, SMTT(20) DEF JobInv, LockInv, HasLock
  <2>3. UiInv'
    BY <1>0, <1>jf, <1>f, <1>u, SMTT(20) DEF JobInv, UiInv, Open, Snapshot
  <2> QED BY <2>1, <2>2, <2>3 DEF JobInv
<1>3. FolderInv'
  BY <1>0, <1>jf, <1>f, <1>u, SMTT(20) DEF FolderInv, Busy, Open
<1>4. ASSUME NEW e \in Drafts
      PROVE  DraftInv(e)'
  <2>0. DraftInv(e)
    BY DEF Inv
  <2>g. \A u \in Threads : /\ Pending(u, e)' <=> Pending(u, e)
                           /\ Removing(u, e)' <=> Removing(u, e)
                           /\ Begun(u, e)' <=> Begun(u, e)
                           /\ Live(u, e)' <=> Live(u, e)
    BY <1>u DEF Pending, Removing, Begun, Live
  <2>1. TextOf(e)'
    <3>0. TextOf(e)
      BY <2>0 DEF DraftInv
    <3>1. /\ pairs[e] \subseteq pairs'[e]
          /\ \A pair \in pairs'[e] : pair.text <= moves' + 1
      BY <1>f, <1>u, <3>0, <1>pf, <1>0, SMTT(20) DEF TextOf, PairsFields, Typed
    <3>2. note'[e].at # "none" => KnownPair(e, Snapshot(e))'
      BY <1>f, <1>u, <3>0, SMTT(20) DEF TextOf, KnownPair, Snapshot
    <3>3. /\ \A pair \in entry'[e] : pair \in entry[e] \/ KnownPair(e, pair)'
          /\ md'[e] \subseteq md[e]
      BY <1>f, <1>u, <3>0, SMTT(20)
    <3>4. \A v \in Threads : Pending(v, e)' =>
            \/ Pending(v, e) /\ job'[v].snap = job[v].snap
            \/ KnownPair(e, job[v].snap)'
      BY <1>f, <1>u, <3>0, SMTT(20) DEF Pending
    <3>5. /\ e \in scan'.cur /\ scan'.pc = "target" =>
                \/ e \in scan.cur /\ scan.pc = "target" /\ scan'.text = scan.text
                \/ KnownText(e, scan.text)'
          /\ \A h \in scan'.got : h.draft = e => h \in scan.got \/ KnownText(e, h.pair.text)'
      BY <1>f, <1>u, <3>0, SMTT(20)
    <3> QED BY <3>0, <3>1, <3>2, <3>3, <3>4, <3>5, TextKeeps
  <2>2. WholeOf(e)'
    BY <2>0, <1>4, <1>f, <1>u, <2>g, SMTT(20) DEF DraftInv, WholeOf, Held, KnownPair
  <2>3. ScanOf(e)'
    BY <2>0, <1>4, <1>f, <1>u, <2>g, SMTT(20) DEF DraftInv, ScanOf, Held
  <2>4. SettleOf(e)'
    BY <2>0, <1>4, <1>f, <1>u, <2>g, <1>jf, <1>nf, SMTT(20) DEF DraftInv, SettleOf,
        LastIsWritten, Mine, Open
  <2>5. FlushOf(e)'
    BY <2>0, <1>4, <1>f, <1>u, <2>g, <1>jf, <1>nf, SMTT(20) DEF DraftInv, FlushOf,
        Written, Snapshot, Open
  <2>6. RetireOf(e)'
    BY <2>0, <1>4, <1>f, <1>u, <2>g, <1>jf, <1>nf, SMTT(20) DEF DraftInv, RetireOf,
        Open
  <2>7. AdvanceOf(e)'
    BY <2>0, <1>4, <1>f, <1>u, <2>g, <1>jf, <1>nf, SMTT(20) DEF DraftInv, AdvanceOf,
        Mine, Open
  <2> QED BY <2>1, <2>2, <2>3, <2>4, <2>5, <2>6, <2>7 DEF DraftInv
<1> QED BY <1>1, <1>2, <1>3, <1>4 DEF Inv

\* What is not on the disk goes with the process.
LEMMA QuitKeeps ==
  ASSUME Inv, Quit
  PROVE  Inv'
<1> USE AlienFacts, ThreadFacts
<1>0. Typed /\ JobInv /\ FolderInv
  BY DEF Inv
<1>jf. JobFields
  BY <1>0, TypedHasFields DEF Fields
<1>nf. NoteFields /\ NewestFields
  BY <1>0, TypedHasFields DEF Fields
<1>pf. PairsFields /\ FileFields
  BY <1>0, TypedHasFields DEF Fields
<1>sf. ScanFields /\ FlushFields
  BY <1>0, TypedHasFields DEF Fields
<1>u. UNCHANGED <<entry, md, sidecar, named, retired, spoiled, pairs, overlap>>
  BY DEF Quit, files, histories, Ends
<1>a. Absent \in Notes /\ Absent.at = "none"
  BY TextFacts, AlienFacts DEF Absent, Notes
<1>b. NoFlush \in Flushes /\ NoFlush.todo = {} /\ NoFlush.after = "none"
  BY DEF NoFlush, Flushes
<1>c. NoScan \in Scans /\ NoScan.pc = "none" /\ NoScan.cur = {} /\ NoScan.got = {}
  BY TextFacts, AlienFacts, OneFacts DEF NoScan, Scans
<1>d. Drafts # {} => Idle \in Jobs
  BY IdleFacts
<1>e. Idle.pc = "free"
  BY DEF Idle
<1>d2. Drafts # {}
  BY <1>0, <1>jf DEF JobFields
<1>f. /\ folder' = "off" /\ armed' = {} /\ flush' \in Flushes
      /\ flush'.todo = {} /\ flush'.after = "none"
      /\ note' \in [Drafts -> Notes] /\ \A e \in Drafts : note'[e].at = "none"
      /\ job' \in [Threads -> Jobs] /\ \A u \in Threads : job'[u].pc = "free"
      /\ scan' \in Scans /\ scan'.pc = "none" /\ scan'.cur = {} /\ scan'.got = {}
      /\ newest' \in [Drafts -> 0 .. seq' - 1] /\ seq' = 1 /\ seq' \in Nat
      /\ moves \in 0 .. Budget /\ moves' \in 0 .. Budget /\ moves <= moves'
  BY <1>0, <1>a, <1>b, <1>c, <1>d, <1>d2, <1>e DEF Ends, Quit, Move, Typed
<1>1. Typed'
  BY <1>0, <1>f, <1>u, SMTT(20) DEF Typed
<1>2. JobInv'
  <2>1. \A u \in Threads : JobOf(u)'
    BY <1>0, <1>jf, <1>nf, <1>f, <1>u, SMTT(20) DEF JobInv, JobOf, Removing
  <2>2. LockInv'
    BY <1>0, <1>jf, <1>f, <1>u, SMTT(20) DEF JobInv, LockInv, HasLock
  <2>3. UiInv'
    BY <1>0, <1>jf, <1>f, <1>u, SMTT(20) DEF JobInv, UiInv, Open, Snapshot
  <2> QED BY <2>1, <2>2, <2>3 DEF JobInv
<1>3. FolderInv'
  BY <1>0, <1>jf, <1>f, <1>u, SMTT(20) DEF FolderInv, Busy, Open
<1>4. ASSUME NEW e \in Drafts
      PROVE  DraftInv(e)'
  <2>0. DraftInv(e)
    BY DEF Inv
  <2>g. \A u \in Threads : ~Pending(u, e)' /\ ~Removing(u, e)' /\ ~Begun(u, e)' /\ ~Live(u, e)'
    BY <1>f DEF Pending, Removing, Begun, Live
  <2>1. TextOf(e)'
    <3>0. TextOf(e)
      BY <2>0 DEF DraftInv
    <3>1. /\ pairs[e] \subseteq pairs'[e]
          /\ \A pair \in pairs'[e] : pair.text <= moves' + 1
      BY <1>f, <1>u, <3>0, <1>pf, <1>0, SMTT(20) DEF TextOf, PairsFields, Typed
    <3>2. note'[e].at # "none" => KnownPair(e, Snapshot(e))'
      BY <1>f, <1>u, <3>0, SMTT(20) DEF TextOf, KnownPair, Snapshot
    <3>3. /\ \A pair \in entry'[e] : pair \in entry[e] \/ KnownPair(e, pair)'
          /\ md'[e] \subseteq md[e]
      BY <1>f, <1>u, <3>0, SMTT(20)
    <3>4. \A v \in Threads : Pending(v, e)' =>
            \/ Pending(v, e) /\ job'[v].snap = job[v].snap
            \/ KnownPair(e, job[v].snap)'
      BY <1>f, <1>u, <3>0, SMTT(20) DEF Pending
    <3>5. /\ e \in scan'.cur /\ scan'.pc = "target" =>
                \/ e \in scan.cur /\ scan.pc = "target" /\ scan'.text = scan.text
                \/ KnownText(e, scan.text)'
          /\ \A h \in scan'.got : h.draft = e => h \in scan.got \/ KnownText(e, h.pair.text)'
      BY <1>f, <1>u, <3>0, SMTT(20)
    <3> QED BY <3>0, <3>1, <3>2, <3>3, <3>4, <3>5, TextKeeps
  <2>2. WholeOf(e)'
    BY <2>0, <1>4, <1>f, <1>u, <2>g, SMTT(20) DEF DraftInv, WholeOf, Held, KnownPair
  <2>3. ScanOf(e)'
    BY <2>0, <1>4, <1>f, <1>u, <2>g, SMTT(20) DEF DraftInv, ScanOf, Held
  <2>4. SettleOf(e)'
    BY <2>0, <1>4, <1>f, <1>u, <2>g, <1>jf, <1>nf, SMTT(20) DEF DraftInv, SettleOf,
        LastIsWritten, Mine, Open
  <2>5. FlushOf(e)'
    BY <2>0, <1>4, <1>f, <1>u, <2>g, <1>jf, <1>nf, SMTT(20) DEF DraftInv, FlushOf,
        Written, Snapshot, Open
  <2>6. RetireOf(e)'
    BY <2>0, <1>4, <1>f, <1>u, <2>g, <1>jf, <1>nf, SMTT(20) DEF DraftInv, RetireOf,
        Open
  <2>7. AdvanceOf(e)'
    BY <2>0, <1>4, <1>f, <1>u, <2>g, <1>jf, <1>nf, SMTT(20) DEF DraftInv, AdvanceOf,
        Mine, Open
  <2> QED BY <2>1, <2>2, <2>3, <2>4, <2>5, <2>6, <2>7 DEF DraftInv
<1> QED BY <1>1, <1>2, <1>3, <1>4 DEF Inv

\* What is not on the disk goes with the process.
LEMMA CrashKeeps ==
  ASSUME Inv, Crash
  PROVE  Inv'
<1> USE AlienFacts, ThreadFacts
<1>0. Typed /\ JobInv /\ FolderInv
  BY DEF Inv
<1>jf. JobFields
  BY <1>0, TypedHasFields DEF Fields
<1>nf. NoteFields /\ NewestFields
  BY <1>0, TypedHasFields DEF Fields
<1>pf. PairsFields /\ FileFields
  BY <1>0, TypedHasFields DEF Fields
<1>sf. ScanFields /\ FlushFields
  BY <1>0, TypedHasFields DEF Fields
<1>u. UNCHANGED <<entry, md, sidecar, named, retired, spoiled, pairs, overlap>>
  BY DEF Crash, files, histories, Ends
<1>a. Absent \in Notes /\ Absent.at = "none"
  BY TextFacts, AlienFacts DEF Absent, Notes
<1>b. NoFlush \in Flushes /\ NoFlush.todo = {} /\ NoFlush.after = "none"
  BY DEF NoFlush, Flushes
<1>c. NoScan \in Scans /\ NoScan.pc = "none" /\ NoScan.cur = {} /\ NoScan.got = {}
  BY TextFacts, AlienFacts, OneFacts DEF NoScan, Scans
<1>d. Drafts # {} => Idle \in Jobs
  BY IdleFacts
<1>e. Idle.pc = "free"
  BY DEF Idle
<1>d2. Drafts # {}
  BY <1>0, <1>jf DEF JobFields
<1>f. /\ folder' = "off" /\ armed' = {} /\ flush' \in Flushes
      /\ flush'.todo = {} /\ flush'.after = "none"
      /\ note' \in [Drafts -> Notes] /\ \A e \in Drafts : note'[e].at = "none"
      /\ job' \in [Threads -> Jobs] /\ \A u \in Threads : job'[u].pc = "free"
      /\ scan' \in Scans /\ scan'.pc = "none" /\ scan'.cur = {} /\ scan'.got = {}
      /\ newest' \in [Drafts -> 0 .. seq' - 1] /\ seq' = 1 /\ seq' \in Nat
      /\ moves \in 0 .. Budget /\ moves' \in 0 .. Budget /\ moves <= moves'
  BY <1>0, <1>a, <1>b, <1>c, <1>d, <1>d2, <1>e DEF Ends, Crash, Move, Typed
<1>1. Typed'
  BY <1>0, <1>f, <1>u, SMTT(20) DEF Typed
<1>2. JobInv'
  <2>1. \A u \in Threads : JobOf(u)'
    BY <1>0, <1>jf, <1>nf, <1>f, <1>u, SMTT(20) DEF JobInv, JobOf, Removing
  <2>2. LockInv'
    BY <1>0, <1>jf, <1>f, <1>u, SMTT(20) DEF JobInv, LockInv, HasLock
  <2>3. UiInv'
    BY <1>0, <1>jf, <1>f, <1>u, SMTT(20) DEF JobInv, UiInv, Open, Snapshot
  <2> QED BY <2>1, <2>2, <2>3 DEF JobInv
<1>3. FolderInv'
  BY <1>0, <1>jf, <1>f, <1>u, SMTT(20) DEF FolderInv, Busy, Open
<1>4. ASSUME NEW e \in Drafts
      PROVE  DraftInv(e)'
  <2>0. DraftInv(e)
    BY DEF Inv
  <2>g. \A u \in Threads : ~Pending(u, e)' /\ ~Removing(u, e)' /\ ~Begun(u, e)' /\ ~Live(u, e)'
    BY <1>f DEF Pending, Removing, Begun, Live
  <2>1. TextOf(e)'
    <3>0. TextOf(e)
      BY <2>0 DEF DraftInv
    <3>1. /\ pairs[e] \subseteq pairs'[e]
          /\ \A pair \in pairs'[e] : pair.text <= moves' + 1
      BY <1>f, <1>u, <3>0, <1>pf, <1>0, SMTT(20) DEF TextOf, PairsFields, Typed
    <3>2. note'[e].at # "none" => KnownPair(e, Snapshot(e))'
      BY <1>f, <1>u, <3>0, SMTT(20) DEF TextOf, KnownPair, Snapshot
    <3>3. /\ \A pair \in entry'[e] : pair \in entry[e] \/ KnownPair(e, pair)'
          /\ md'[e] \subseteq md[e]
      BY <1>f, <1>u, <3>0, SMTT(20)
    <3>4. \A v \in Threads : Pending(v, e)' =>
            \/ Pending(v, e) /\ job'[v].snap = job[v].snap
            \/ KnownPair(e, job[v].snap)'
      BY <1>f, <1>u, <3>0, SMTT(20) DEF Pending
    <3>5. /\ e \in scan'.cur /\ scan'.pc = "target" =>
                \/ e \in scan.cur /\ scan.pc = "target" /\ scan'.text = scan.text
                \/ KnownText(e, scan.text)'
          /\ \A h \in scan'.got : h.draft = e => h \in scan.got \/ KnownText(e, h.pair.text)'
      BY <1>f, <1>u, <3>0, SMTT(20)
    <3> QED BY <3>0, <3>1, <3>2, <3>3, <3>4, <3>5, TextKeeps
  <2>2. WholeOf(e)'
    BY <2>0, <1>4, <1>f, <1>u, <2>g, SMTT(20) DEF DraftInv, WholeOf, Held, KnownPair
  <2>3. ScanOf(e)'
    BY <2>0, <1>4, <1>f, <1>u, <2>g, SMTT(20) DEF DraftInv, ScanOf, Held
  <2>4. SettleOf(e)'
    BY <2>0, <1>4, <1>f, <1>u, <2>g, <1>jf, <1>nf, SMTT(20) DEF DraftInv, SettleOf,
        LastIsWritten, Mine, Open
  <2>5. FlushOf(e)'
    BY <2>0, <1>4, <1>f, <1>u, <2>g, <1>jf, <1>nf, SMTT(20) DEF DraftInv, FlushOf,
        Written, Snapshot, Open
  <2>6. RetireOf(e)'
    BY <2>0, <1>4, <1>f, <1>u, <2>g, <1>jf, <1>nf, SMTT(20) DEF DraftInv, RetireOf,
        Open
  <2>7. AdvanceOf(e)'
    BY <2>0, <1>4, <1>f, <1>u, <2>g, <1>jf, <1>nf, SMTT(20) DEF DraftInv, AdvanceOf,
        Mine, Open
  <2> QED BY <2>1, <2>2, <2>3, <2>4, <2>5, <2>6, <2>7 DEF DraftInv
<1> QED BY <1>1, <1>2, <1>3, <1>4 DEF Inv

\* The application is started.
LEMMA LaunchKeeps ==
  ASSUME Inv, Launch
  PROVE  Inv'
<1> USE AlienFacts, ThreadFacts
<1>0. Typed /\ JobInv /\ FolderInv
  BY DEF Inv
<1>jf. JobFields
  BY <1>0, TypedHasFields DEF Fields
<1>nf. NoteFields /\ NewestFields
  BY <1>0, TypedHasFields DEF Fields
<1>pf. PairsFields /\ FileFields
  BY <1>0, TypedHasFields DEF Fields
<1>sf. ScanFields /\ FlushFields
  BY <1>0, TypedHasFields DEF Fields
<1>u. UNCHANGED <<entry, md, sidecar, note, armed, job, flush, scan, newest, seq,
    named, retired, spoiled, pairs, overlap, moves>>
  BY DEF Launch, files, histories
<1>f. folder = "off" /\ folder' = "away"
  BY DEF Launch
<1>1. Typed'
  BY <1>0, <1>f, <1>u, SMTT(20) DEF Typed
<1>2. JobInv'
  <2>1. \A u \in Threads : JobOf(u)'
    BY <1>0, <1>jf, <1>nf, <1>f, <1>u, SMTT(20) DEF JobInv, JobOf, Removing
  <2>2. LockInv'
    BY <1>0, <1>jf, <1>f, <1>u, SMTT(20) DEF JobInv, LockInv, HasLock
  <2>3. UiInv'
    BY <1>0, <1>jf, <1>f, <1>u, SMTT(20) DEF JobInv, UiInv, Open, Snapshot
  <2> QED BY <2>1, <2>2, <2>3 DEF JobInv
<1>3. FolderInv'
  BY <1>0, <1>jf, <1>f, <1>u, SMTT(20) DEF FolderInv, Busy, Open
<1>4. ASSUME NEW e \in Drafts
      PROVE  DraftInv(e)'
  <2>1. Untouched(e)
    BY <1>0, <1>4, <1>f, <1>u DEF Untouched, Typed
  <2> QED BY <1>4, <1>pf, <2>1, UntouchedKeeps DEF Inv
<1> QED BY <1>1, <1>2, <1>3, <1>4 DEF Inv

\* Recovery begins with nothing read.
LEMMA OpenFolderKeeps ==
  ASSUME Inv, OpenFolder
  PROVE  Inv'
<1> USE AlienFacts, ThreadFacts
<1>0. Typed /\ JobInv /\ FolderInv
  BY DEF Inv
<1>jf. JobFields
  BY <1>0, TypedHasFields DEF Fields
<1>nf. NoteFields /\ NewestFields
  BY <1>0, TypedHasFields DEF Fields
<1>pf. PairsFields /\ FileFields
  BY <1>0, TypedHasFields DEF Fields
<1>sf. ScanFields /\ FlushFields
  BY <1>0, TypedHasFields DEF Fields
<1>u. UNCHANGED <<entry, md, sidecar, note, armed, job, flush, newest, seq, named,
    retired, pairs, moves>>
  BY DEF OpenFolder, files, histories
<1>b. /\ NoScan.cur = {} /\ NoScan.got = {} /\ NoScan.pc = "none"
      /\ {} \in AtMostOne(Drafts)
  BY OneFacts DEF NoScan
<1>b1. NoScan \in Scans
  BY <1>b, TextFacts, AlienFacts DEF NoScan, Scans
<1>c. [NoScan EXCEPT !.pc = "list"] \in Scans /\ NoScan.cur = {} /\ NoScan.got = {}
      /\ [NoScan EXCEPT !.pc = "list"].pc = "list"
      /\ [NoScan EXCEPT !.pc = "list"].cur = {}
      /\ [NoScan EXCEPT !.pc = "list"].got = {}
      /\ NoScan \in Scans /\ NoScan.pc = "none"
  BY <1>b, <1>b1 DEF Scans
<1>f. /\ folder = "away" /\ folder' = "scanning"
      /\ scan' \in Scans /\ scan'.pc = "list" /\ scan'.cur = {} /\ scan'.got = {}
      /\ spoiled' \in [Drafts -> SUBSET {"failed", "removed"}]
      /\ overlap' = {e \in Drafts : Busy(e)}
      /\ \A e \in Drafts : note[e].at = "none"
      /\ flush.after = "none" /\ job[Ui].pc = "free"
  BY <1>0, <1>c DEF OpenFolder, FolderInv, JobInv, UiInv
<1>1. Typed'
  BY <1>0, <1>f, <1>u, SMTT(20) DEF Typed
<1>2. JobInv'
  <2>1. \A u \in Threads : JobOf(u)'
    BY <1>0, <1>jf, <1>nf, <1>f, <1>u, SMTT(20) DEF JobInv, JobOf, Removing
  <2>2. LockInv'
    BY <1>0, <1>jf, <1>f, <1>u, SMTT(20) DEF JobInv, LockInv, HasLock
  <2>3. UiInv'
    BY <1>0, <1>jf, <1>f, <1>u, SMTT(20) DEF JobInv, UiInv, Open, Snapshot
  <2> QED BY <2>1, <2>2, <2>3 DEF JobInv
<1>3. FolderInv'
  BY <1>0, <1>jf, <1>f, <1>u, SMTT(20) DEF FolderInv, Busy, Open
<1>4. ASSUME NEW e \in Drafts
      PROVE  DraftInv(e)'
  <2>0. DraftInv(e)
    BY DEF Inv
  <2>g. \A u \in Threads : /\ Pending(u, e)' <=> Pending(u, e)
                           /\ Removing(u, e)' <=> Removing(u, e)
                           /\ Begun(u, e)' <=> Begun(u, e)
                           /\ Live(u, e)' <=> Live(u, e)
    BY <1>u DEF Pending, Removing, Begun, Live
  <2>1. TextOf(e)'
    <3>0. TextOf(e)
      BY <2>0 DEF DraftInv
    <3>1. /\ pairs[e] \subseteq pairs'[e]
          /\ \A pair \in pairs'[e] : pair.text <= moves' + 1
      BY <1>f, <1>u, <3>0, <1>pf, <1>0, SMTT(20) DEF TextOf, PairsFields, Typed
    <3>2. note'[e].at # "none" => KnownPair(e, Snapshot(e))'
      BY <1>f, <1>u, <3>0, SMTT(20) DEF TextOf, KnownPair, Snapshot
    <3>3. /\ \A pair \in entry'[e] : pair \in entry[e] \/ KnownPair(e, pair)'
          /\ md'[e] \subseteq md[e]
      BY <1>f, <1>u, <3>0, SMTT(20)
    <3>4. \A v \in Threads : Pending(v, e)' =>
            \/ Pending(v, e) /\ job'[v].snap = job[v].snap
            \/ KnownPair(e, job[v].snap)'
      BY <1>f, <1>u, <3>0, SMTT(20) DEF Pending
    <3>5. /\ e \in scan'.cur /\ scan'.pc = "target" =>
                \/ e \in scan.cur /\ scan.pc = "target" /\ scan'.text = scan.text
                \/ KnownText(e, scan.text)'
          /\ \A h \in scan'.got : h.draft = e => h \in scan.got \/ KnownText(e, h.pair.text)'
      BY <1>f, <1>u, <3>0, SMTT(20)
    <3> QED BY <3>0, <3>1, <3>2, <3>3, <3>4, <3>5, TextKeeps
  <2>2. WholeOf(e)'
    BY <2>0, <1>4, <1>f, <1>u, <2>g, SMTT(20) DEF DraftInv, WholeOf, Held, KnownPair
  <2>3. ScanOf(e)'
    BY <2>0, <1>4, <1>f, <1>u, <2>g, SMTT(20) DEF DraftInv, ScanOf, Held
  <2>4. SettleOf(e)'
    BY <2>0, <1>4, <1>f, <1>u, <2>g, <1>jf, <1>nf, SMTT(20) DEF DraftInv, SettleOf,
        LastIsWritten, Mine, Open
  <2>5. FlushOf(e)'
    <3>1. ~Pending(Ui, e) /\ ~Written(e)'
      BY <1>f, <1>u DEF Pending, Written
    <3> QED BY <3>1, <2>g DEF FlushOf
  <2>6. RetireOf(e)'
    BY <2>0, <1>4, <1>f, <1>u, <2>g, <1>jf, <1>nf, SMTT(20) DEF DraftInv, RetireOf,
        Open
  <2>7. AdvanceOf(e)'
    <3> SUFFICES ASSUME e \notin overlap' PROVE AdvanceOf(e)'
      BY DEF AdvanceOf
    <3>1. \A u \in Threads : ~Pending(u, e)
      BY <1>f DEF Busy, Pending
    <3>2. \A u \in Threads : ~Pending(u, e)' /\ ~Live(u, e)'
      BY <3>1, <2>g DEF Live
    <3>3. ~Mine(e)'
      BY <1>f, <1>u DEF Mine, Open
    <3> QED BY <3>2, <3>3 DEF AdvanceOf
  <2> QED BY <2>1, <2>2, <2>3, <2>4, <2>5, <2>6, <2>7 DEF DraftInv
<1> QED BY <1>1, <1>2, <1>3, <1>4 DEF Inv

\* The result of a recovery is dropped.
LEMMA AbandonScanKeeps ==
  ASSUME Inv, AbandonScan
  PROVE  Inv'
<1> USE AlienFacts, ThreadFacts
<1>0. Typed /\ JobInv /\ FolderInv
  BY DEF Inv
<1>jf. JobFields
  BY <1>0, TypedHasFields DEF Fields
<1>nf. NoteFields /\ NewestFields
  BY <1>0, TypedHasFields DEF Fields
<1>pf. PairsFields /\ FileFields
  BY <1>0, TypedHasFields DEF Fields
<1>sf. ScanFields /\ FlushFields
  BY <1>0, TypedHasFields DEF Fields
<1>u. UNCHANGED <<entry, md, sidecar, note, armed, job, flush, newest, seq, named,
    retired, spoiled, pairs, overlap>>
  BY DEF AbandonScan, files, histories
<1>b. /\ NoScan.cur = {} /\ NoScan.got = {} /\ NoScan.pc = "none"
      /\ {} \in AtMostOne(Drafts)
  BY OneFacts DEF NoScan
<1>b1. NoScan \in Scans
  BY <1>b, TextFacts, AlienFacts DEF NoScan, Scans
<1>c. [NoScan EXCEPT !.pc = "list"] \in Scans /\ NoScan.cur = {} /\ NoScan.got = {}
      /\ [NoScan EXCEPT !.pc = "list"].pc = "list"
      /\ [NoScan EXCEPT !.pc = "list"].cur = {}
      /\ [NoScan EXCEPT !.pc = "list"].got = {}
      /\ NoScan \in Scans /\ NoScan.pc = "none"
  BY <1>b, <1>b1 DEF Scans
<1>f. /\ folder = "scanning" /\ folder' = "away"
      /\ scan' \in Scans /\ scan'.pc = "none" /\ scan'.cur = {} /\ scan'.got = {}
      /\ moves \in 0 .. Budget /\ moves' \in 0 .. Budget /\ moves <= moves'
  BY <1>0, <1>c DEF AbandonScan, User, Move, Typed
<1>1. Typed'
  BY <1>0, <1>f, <1>u, SMTT(20) DEF Typed
<1>2. JobInv'
  <2>1. \A u \in Threads : JobOf(u)'
    BY <1>0, <1>jf, <1>nf, <1>f, <1>u, SMTT(20) DEF JobInv, JobOf, Removing
  <2>2. LockInv'
    BY <1>0, <1>jf, <1>f, <1>u, SMTT(20) DEF JobInv, LockInv, HasLock
  <2>3. UiInv'
    BY <1>0, <1>jf, <1>f, <1>u, SMTT(20) DEF JobInv, UiInv, Open, Snapshot
  <2> QED BY <2>1, <2>2, <2>3 DEF JobInv
<1>3. FolderInv'
  BY <1>0, <1>jf, <1>f, <1>u, SMTT(20) DEF FolderInv, Busy, Open
<1>4. ASSUME NEW e \in Drafts
      PROVE  DraftInv(e)'
  <2>1. Untouched(e)
    BY <1>0, <1>4, <1>f, <1>u DEF Untouched, Typed
  <2> QED BY <1>4, <1>pf, <2>1, UntouchedKeeps DEF Inv
<1> QED BY <1>1, <1>2, <1>3, <1>4 DEF Inv

\* Recovery lists the drafts.
LEMMA ScanListKeeps ==
  ASSUME Inv, ScanList
  PROVE  Inv'
<1> USE AlienFacts, ThreadFacts
<1>0. Typed /\ JobInv /\ FolderInv
  BY DEF Inv
<1>jf. JobFields
  BY <1>0, TypedHasFields DEF Fields
<1>nf. NoteFields /\ NewestFields
  BY <1>0, TypedHasFields DEF Fields
<1>pf. PairsFields /\ FileFields
  BY <1>0, TypedHasFields DEF Fields
<1>sf. ScanFields /\ FlushFields
  BY <1>0, TypedHasFields DEF Fields
<1>u. UNCHANGED <<entry, md, sidecar, folder, note, armed, job, flush, newest, seq,
    named, retired, spoiled, pairs, overlap, moves>>
  BY DEF ScanList, files, histories
<1>c. scan' = [scan EXCEPT !.pc = "next",
                             !.todo = {d \in Drafts : entry[d] # {} \/ md[d] # {}}]
  BY DEF ScanList
<1>d. {d \in Drafts : entry[d] # {} \/ md[d] # {}} \in SUBSET Drafts /\ scan \in Scans
  BY <1>0 DEF Typed
<1> DEFINE all == {d \in Drafts : entry[d] # {} \/ md[d] # {}}
<1> HIDE DEF all
<1>e. scan' = [scan EXCEPT !.pc = "next", !.todo = all] /\ all \in SUBSET Drafts
  BY <1>c, <1>d DEF all
<1>f. /\ scan.pc = "list" /\ scan' \in Scans /\ scan'.pc = "next" /\ scan'.cur = scan.cur
      /\ scan'.got = scan.got /\ scan'.text = scan.text
      /\ scan.cur = {}
  BY <1>0, <1>d, <1>e DEF ScanList, Scans, FolderInv
<1>1. Typed'
  BY <1>0, <1>f, <1>u, SMTT(20) DEF Typed
<1>2. JobInv'
  <2>1. \A u \in Threads : JobOf(u)'
    BY <1>0, <1>jf, <1>nf, <1>f, <1>u, SMTT(20) DEF JobInv, JobOf, Removing
  <2>2. LockInv'
    BY <1>0, <1>jf, <1>f, <1>u, SMTT(20) DEF JobInv, LockInv, HasLock
  <2>3. UiInv'
    BY <1>0, <1>jf, <1>f, <1>u, SMTT(20) DEF JobInv, UiInv, Open, Snapshot
  <2> QED BY <2>1, <2>2, <2>3 DEF JobInv
<1>3. FolderInv'
  BY <1>0, <1>jf, <1>f, <1>u, SMTT(20) DEF FolderInv, Busy, Open
<1>4. ASSUME NEW e \in Drafts
      PROVE  DraftInv(e)'
  <2>1. Untouched(e)
    BY <1>0, <1>4, <1>f, <1>u DEF Untouched, Typed
  <2> QED BY <1>4, <1>pf, <2>1, UntouchedKeeps DEF Inv
<1> QED BY <1>1, <1>2, <1>3, <1>4 DEF Inv

\* Recovery reads the entry of a draft, if there is one.
LEMMA ReadEntryKeeps ==
  ASSUME Inv, NEW d \in Drafts, ReadEntry(d)
  PROVE  Inv'
<1> USE AlienFacts, ThreadFacts
<1>0. Typed /\ JobInv /\ FolderInv
  BY DEF Inv
<1>jf. JobFields
  BY <1>0, TypedHasFields DEF Fields
<1>nf. NoteFields /\ NewestFields
  BY <1>0, TypedHasFields DEF Fields
<1>pf. PairsFields /\ FileFields
  BY <1>0, TypedHasFields DEF Fields
<1>sf. ScanFields /\ FlushFields
  BY <1>0, TypedHasFields DEF Fields
<1>u. UNCHANGED <<entry, md, sidecar, folder, note, armed, job, flush, newest, seq,
    named, retired, spoiled, pairs, overlap>>
  BY DEF ReadEntry, files, histories
<1> DEFINE rest == scan.todo \ {d}
           one(pair) == scan.got \cup {[draft |-> d, pair |-> pair]}
<1>a. PICK ok \in BOOLEAN :
        /\ Outcome(ok)
        /\ \/ scan' = [scan EXCEPT !.todo = rest]
           \/ /\ entry[d] = {}
              /\ scan' = [scan EXCEPT !.pc = "text", !.cur = {d}, !.todo = rest]
           \/ \E pair \in entry[d] : scan' = [scan EXCEPT !.todo = rest, !.got = one(pair)]
  BY DEF ReadEntry
<1>b. moves \in 0 .. Budget /\ moves' \in 0 .. Budget /\ moves <= moves'
  BY <1>0, <1>a, OutcomeFacts
<1>c. scan \in Scans /\ rest \in SUBSET Drafts /\ {d} \in AtMostOne(Drafts)
  BY <1>0, OneFacts DEF Typed, Scans
<1>d. \A pair \in entry[d] : one(pair) \in SUBSET [draft : Drafts, pair : Pair]
  BY <1>c, <1>pf DEF Scans, FileFields
<1>e. \A pair \in entry[d] : \A h \in one(pair) :
        h \in scan.got \/ (h.draft = d /\ h.pair = pair)
  <2>1. ASSUME NEW pair \in entry[d], NEW h \in one(pair), h \notin scan.got
        PROVE  h.draft = d /\ h.pair = pair
    <3>1. h = [draft |-> d, pair |-> pair]
      BY <2>1
    <3> QED BY <3>1
  <2> HIDE DEF one
  <2> QED BY <2>1
<1> HIDE DEF rest, one
<1>i. /\ scan' \in Scans /\ scan'.text = scan.text
      /\ \/ scan'.pc = scan.pc /\ scan'.cur = scan.cur /\ scan'.got = scan.got
         \/ /\ scan'.pc = "text" /\ scan'.cur = {d} /\ scan'.got = scan.got
            /\ entry[d] = {}
         \/ /\ scan'.pc = scan.pc /\ scan'.cur = scan.cur
            /\ \E pair \in entry[d] : scan'.got = one(pair)
  BY <1>a, <1>c, <1>d DEF Scans
<1>f. /\ scan.pc = "next" /\ scan' \in Scans /\ scan'.pc \in {"next", "text"}
      /\ scan'.text = scan.text
      /\ d \in scan'.cur => d \in scan.cur \/ entry[d] = {}
      /\ \A e \in scan'.cur : e # d => e \in scan.cur /\ scan'.pc = scan.pc
      /\ \A h \in scan'.got : h \in scan.got \/ (h.draft = d /\ h.pair \in entry[d])
      /\ moves \in 0 .. Budget /\ moves' \in 0 .. Budget /\ moves <= moves'
  <2>1. \A h \in scan'.got : h \in scan.got \/ (h.draft = d /\ h.pair \in entry[d])
    <3> SUFFICES ASSUME NEW h \in scan'.got, h \notin scan.got
                 PROVE  h.draft = d /\ h.pair \in entry[d]
      OBVIOUS
    <3>1. PICK pair \in entry[d] : scan'.got = one(pair)
      BY <1>i
    <3> QED BY <1>e, <3>1
  <2>2. scan.pc = "next"
    BY DEF ReadEntry
  <2>3. d \in scan'.cur => d \in scan.cur \/ entry[d] = {}
    BY <1>i
  <2>4. \A e \in scan'.cur : e # d => e \in scan.cur /\ scan'.pc = scan.pc
    BY <1>i
  <2> QED BY <1>b, <1>i, <2>1, <2>2, <2>3, <2>4
<1>g. \A u \in Threads : /\ Pending(u, d)' <=> Pending(u, d)
                         /\ Removing(u, d)' <=> Removing(u, d)
                         /\ Begun(u, d)' <=> Begun(u, d)
                         /\ Live(u, d)' <=> Live(u, d)
  BY <1>u DEF Pending, Removing, Begun, Live
<1>1. Typed'
  BY <1>0, <1>f, <1>u, SMTT(20) DEF Typed
<1>2. JobInv'
  <2>1. \A u \in Threads : JobOf(u)'
    BY <1>0, <1>jf, <1>nf, <1>f, <1>u, SMTT(20) DEF JobInv, JobOf, Removing
  <2>2. LockInv'
    BY <1>0, <1>jf, <1>f, <1>u, SMTT(20) DEF JobInv, LockInv, HasLock
  <2>3. UiInv'
    BY <1>0, <1>jf, <1>f, <1>u, SMTT(20) DEF JobInv, UiInv, Open, Snapshot
  <2> QED BY <2>1, <2>2, <2>3 DEF JobInv
<1>3. FolderInv'
  BY <1>0, <1>jf, <1>f, <1>u, SMTT(20) DEF FolderInv, Busy, Open
<1>4. ASSUME NEW e \in Drafts, e # d
      PROVE  DraftInv(e)'
  <2>1. Untouched(e)
    BY <1>0, <1>4, <1>f, <1>u, SMTT(20) DEF Untouched, Typed
  <2> QED BY <1>4, <1>pf, <2>1, UntouchedKeeps DEF Inv
<1>5. DraftInv(d)
  BY DEF Inv
<1>6. TextOf(d)'
  <2>0. TextOf(d)
    BY <1>5 DEF DraftInv
  <2>1. /\ pairs[d] \subseteq pairs'[d]
        /\ \A pair \in pairs'[d] : pair.text <= moves' + 1
    BY <1>f, <1>u, <2>0, <1>g, <1>pf, <1>0, SMTT(20) DEF TextOf, PairsFields, Typed
  <2>2. note'[d].at # "none" => KnownPair(d, Snapshot(d))'
    BY <1>f, <1>u, <2>0, <1>g, SMTT(20) DEF TextOf, KnownPair, Snapshot
  <2>3. /\ \A pair \in entry'[d] : pair \in entry[d] \/ KnownPair(d, pair)'
        /\ md'[d] \subseteq md[d]
    BY <1>f, <1>u, <2>0, <1>g, SMTT(20)
  <2>4. \A v \in Threads : Pending(v, d)' =>
          \/ Pending(v, d) /\ job'[v].snap = job[v].snap
          \/ KnownPair(d, job[v].snap)'
    BY <1>f, <1>u, <2>0, <1>g, SMTT(20)
  <2>5. /\ d \in scan'.cur /\ scan'.pc = "target" =>
              \/ d \in scan.cur /\ scan.pc = "target" /\ scan'.text = scan.text
              \/ KnownText(d, scan.text)'
        /\ \A h \in scan'.got : h.draft = d => h \in scan.got \/ KnownText(d, h.pair.text)'
    <3>1. \A h \in scan'.got : h.draft = d => h \in scan.got \/ KnownText(d, h.pair.text)'
      BY <1>f, <1>u, <2>0 DEF TextOf, KnownPair, KnownText
    <3> QED BY <3>1, <1>f
  <2> QED BY <2>0, <2>1, <2>2, <2>3, <2>4, <2>5, TextKeeps
<1>7. WholeOf(d)'
  BY <1>5, <1>f, <1>u, <1>g, SMTT(20) DEF DraftInv, WholeOf, Held, KnownPair
<1>8. ScanOf(d)'
  <2>0. ScanOf(d)
    BY <1>5 DEF DraftInv
  <2>1. Held(d)' = Held(d)
    BY <1>u DEF Held
  <2>2. \A pair \in entry[d] : Held(d) = {pair}
    BY <1>pf DEF Held, FileFields
  <2>3. \A h \in scan'.got : h.draft = d => h \in scan.got \/ Held(d) = {h.pair}
    BY <2>2, <1>f
  <2>4. d \in scan'.cur => d \in scan.cur \/ entry[d] = {}
    BY <1>f
  <2> QED BY <2>0, <2>1, <2>3, <2>4, <1>f, <1>u DEF ScanOf
<1>9. SettleOf(d)'
  BY <1>5, <1>f, <1>u, <1>g, <1>jf, <1>nf, SMTT(20) DEF DraftInv, SettleOf,
      LastIsWritten, Mine, Open
<1>10. FlushOf(d)'
  BY <1>5, <1>f, <1>u, <1>g, <1>jf, <1>nf, SMTT(20) DEF DraftInv, FlushOf, Written,
      Snapshot, Open
<1>11. RetireOf(d)'
  BY <1>5, <1>f, <1>u, <1>g, <1>jf, <1>nf, SMTT(20) DEF DraftInv, RetireOf, Open
<1>12. AdvanceOf(d)'
  BY <1>5, <1>f, <1>u, <1>g, <1>jf, <1>nf, SMTT(20) DEF DraftInv, AdvanceOf, Mine,
      Open
<1>13. DraftInv(d)'
  BY <1>6, <1>7, <1>8, <1>9, <1>10, <1>11, <1>12 DEF DraftInv
<1> QED BY <1>1, <1>2, <1>3, <1>4, <1>13 DEF Inv

\* Recovery reads the text of an older version.
LEMMA ReadTextKeeps ==
  ASSUME Inv, NEW d \in Drafts, ReadText(d)
  PROVE  Inv'
<1> USE AlienFacts, ThreadFacts
<1>0. Typed /\ JobInv /\ FolderInv
  BY DEF Inv
<1>jf. JobFields
  BY <1>0, TypedHasFields DEF Fields
<1>nf. NoteFields /\ NewestFields
  BY <1>0, TypedHasFields DEF Fields
<1>pf. PairsFields /\ FileFields
  BY <1>0, TypedHasFields DEF Fields
<1>sf. ScanFields /\ FlushFields
  BY <1>0, TypedHasFields DEF Fields
<1>u. UNCHANGED <<entry, md, sidecar, folder, note, armed, job, flush, newest, seq,
    named, retired, spoiled, pairs, overlap>>
  BY DEF ReadText, files, histories
<1>a. PICK ok \in BOOLEAN :
        /\ Outcome(ok)
        /\ \/ scan' = [scan EXCEPT !.pc = "next", !.cur = {}, !.text = Alien]
           \/ \E x \in md[d] : scan' = [scan EXCEPT !.pc = "target", !.text = x]
  BY DEF ReadText, ReadFailed
<1>b. moves \in 0 .. Budget /\ moves' \in 0 .. Budget /\ moves <= moves'
  BY <1>0, <1>a, OutcomeFacts
<1>c. scan \in Scans /\ {} \in AtMostOne(Drafts)
  BY <1>0, OneFacts DEF Typed
<1>d. \A x \in md[d] : x \in Text
  <2>1. md[d] \in AtMostOne(Text)
    BY <1>0 DEF Typed
  <2> QED BY <2>1, AtMostOneFacts
<1>e. Alien \in Text
  BY TextFacts
<1>f. /\ scan.pc = "text" /\ d \in scan.cur /\ scan' \in Scans /\ scan'.got = scan.got
      /\ \/ scan'.pc = "next" /\ scan'.cur = {}
         \/ scan'.pc = "target" /\ scan'.cur = scan.cur /\ scan'.text \in md[d]
      /\ moves \in 0 .. Budget /\ moves' \in 0 .. Budget /\ moves <= moves'
  BY <1>a, <1>b, <1>c, <1>d, <1>e DEF ReadText, Scans
<1>g. \A u \in Threads : /\ Pending(u, d)' <=> Pending(u, d)
                         /\ Removing(u, d)' <=> Removing(u, d)
                         /\ Begun(u, d)' <=> Begun(u, d)
                         /\ Live(u, d)' <=> Live(u, d)
  BY <1>u DEF Pending, Removing, Begun, Live
<1>1. Typed'
  BY <1>0, <1>f, <1>u, SMTT(20) DEF Typed
<1>2. JobInv'
  <2>1. \A u \in Threads : JobOf(u)'
    BY <1>0, <1>jf, <1>nf, <1>f, <1>u, SMTT(20) DEF JobInv, JobOf, Removing
  <2>2. LockInv'
    BY <1>0, <1>jf, <1>f, <1>u, SMTT(20) DEF JobInv, LockInv, HasLock
  <2>3. UiInv'
    BY <1>0, <1>jf, <1>f, <1>u, SMTT(20) DEF JobInv, UiInv, Open, Snapshot
  <2> QED BY <2>1, <2>2, <2>3 DEF JobInv
<1>3. FolderInv'
  BY <1>0, <1>jf, <1>f, <1>u, SMTT(20) DEF FolderInv, Busy, Open
<1>4. ASSUME NEW e \in Drafts, e # d
      PROVE  DraftInv(e)'
  <2>1. Untouched(e)
    BY <1>0, <1>4, <1>f, <1>u, <1>sf, SMTT(20) DEF Untouched, Typed, ScanFields
  <2> QED BY <1>4, <1>pf, <2>1, UntouchedKeeps DEF Inv
<1>5. DraftInv(d)
  BY DEF Inv
<1>6. TextOf(d)'
  <2>0. TextOf(d)
    BY <1>5 DEF DraftInv
  <2>1. /\ pairs[d] \subseteq pairs'[d]
        /\ \A pair \in pairs'[d] : pair.text <= moves' + 1
    BY <1>f, <1>u, <2>0, <1>g, <1>pf, <1>0, SMTT(20) DEF TextOf, PairsFields, Typed
  <2>2. note'[d].at # "none" => KnownPair(d, Snapshot(d))'
    BY <1>f, <1>u, <2>0, <1>g, SMTT(20) DEF TextOf, KnownPair, Snapshot
  <2>3. /\ \A pair \in entry'[d] : pair \in entry[d] \/ KnownPair(d, pair)'
        /\ md'[d] \subseteq md[d]
    BY <1>f, <1>u, <2>0, <1>g, SMTT(20)
  <2>4. \A v \in Threads : Pending(v, d)' =>
          \/ Pending(v, d) /\ job'[v].snap = job[v].snap
          \/ KnownPair(d, job[v].snap)'
    BY <1>f, <1>u, <2>0, <1>g, SMTT(20)
  <2>5. /\ d \in scan'.cur /\ scan'.pc = "target" =>
              \/ d \in scan.cur /\ scan.pc = "target" /\ scan'.text = scan.text
              \/ KnownText(d, scan.text)'
        /\ \A h \in scan'.got : h.draft = d => h \in scan.got \/ KnownText(d, h.pair.text)'
    <3>1. scan'.text \in md[d] => KnownText(d, scan.text)'
      BY <1>u, <2>0 DEF TextOf, KnownText
    <3> QED BY <3>1, <1>f
  <2> QED BY <2>0, <2>1, <2>2, <2>3, <2>4, <2>5, TextKeeps
<1>7. WholeOf(d)'
  BY <1>5, <1>f, <1>u, <1>g, SMTT(20) DEF DraftInv, WholeOf, Held, KnownPair
<1>8. ScanOf(d)'
  BY <1>5, <1>f, <1>u, <1>g, SMTT(20) DEF DraftInv, ScanOf, Held
<1>9. SettleOf(d)'
  BY <1>5, <1>f, <1>u, <1>g, <1>jf, <1>nf, SMTT(20) DEF DraftInv, SettleOf,
      LastIsWritten, Mine, Open
<1>10. FlushOf(d)'
  BY <1>5, <1>f, <1>u, <1>g, <1>jf, <1>nf, SMTT(20) DEF DraftInv, FlushOf, Written,
      Snapshot, Open
<1>11. RetireOf(d)'
  BY <1>5, <1>f, <1>u, <1>g, <1>jf, <1>nf, SMTT(20) DEF DraftInv, RetireOf, Open
<1>12. AdvanceOf(d)'
  BY <1>5, <1>f, <1>u, <1>g, <1>jf, <1>nf, SMTT(20) DEF DraftInv, AdvanceOf, Mine,
      Open
<1>13. DraftInv(d)'
  BY <1>6, <1>7, <1>8, <1>9, <1>10, <1>11, <1>12 DEF DraftInv
<1> QED BY <1>1, <1>2, <1>3, <1>4, <1>13 DEF Inv

\* Recovery reads the target of an older version.
LEMMA ReadTargetKeeps ==
  ASSUME Inv, NEW d \in Drafts, ReadTarget(d)
  PROVE  Inv'
<1> USE AlienFacts, ThreadFacts
<1>0. Typed /\ JobInv /\ FolderInv
  BY DEF Inv
<1>jf. JobFields
  BY <1>0, TypedHasFields DEF Fields
<1>nf. NoteFields /\ NewestFields
  BY <1>0, TypedHasFields DEF Fields
<1>pf. PairsFields /\ FileFields
  BY <1>0, TypedHasFields DEF Fields
<1>sf. ScanFields /\ FlushFields
  BY <1>0, TypedHasFields DEF Fields
<1>u. UNCHANGED <<entry, md, sidecar, folder, note, armed, job, flush, newest, seq,
    named, retired, spoiled, pairs, overlap>>
  BY DEF ReadTarget, files, histories
<1> DEFINE one(t) == scan.got \cup
                       {[draft |-> d, pair |-> [text |-> scan.text, target |-> t]]}
           held == IF sidecar[d] = {} THEN {Root} ELSE sidecar[d]
           blank == {}
<1>a. PICK ok \in BOOLEAN :
        /\ Outcome(ok)
        /\ \/ scan' = [scan EXCEPT !.pc = "next", !.cur = blank, !.text = Alien]
           \/ \E t \in held :
                scan' = [scan EXCEPT !.pc = "next", !.cur = blank, !.text = Alien,
                                     !.got = one(t)]
  BY DEF ReadTarget, ReadFailed, UnreadTarget, Found
<1>b. moves \in 0 .. Budget /\ moves' \in 0 .. Budget /\ moves <= moves'
  BY <1>0, <1>a, OutcomeFacts
<1>c. scan \in Scans /\ blank \in AtMostOne(Drafts) /\ Alien \in Text
  BY <1>0, OneFacts, TextFacts DEF Typed
<1>d. \A t \in held : one(t) \in SUBSET [draft : Drafts, pair : Pair]
  <2> SUFFICES ASSUME NEW t \in held PROVE one(t) \in SUBSET [draft : Drafts, pair : Pair]
    OBVIOUS
  <2>1. t \in Targets /\ scan.text \in Text
    BY <1>c, <1>pf DEF FileFields, Scans
  <2>2. [text |-> scan.text, target |-> t] \in Pair
    BY <2>1, PairFacts
  <2> QED BY <2>2, <1>c DEF Scans
<1>e. \A t \in held : \A h \in one(t) :
        \/ h \in scan.got
        \/ h.draft = d /\ h.pair = [text |-> scan.text, target |-> t]
  OBVIOUS
<1>e2. blank = {}
  OBVIOUS
<1> HIDE DEF one, blank
<1>e3. /\ scan' \in Scans /\ scan'.pc = "next" /\ scan'.cur = blank
       /\ scan'.got = scan.got \/ \E t \in held : scan'.got = one(t)
  <2>1. CASE scan' = [scan EXCEPT !.pc = "next", !.cur = blank, !.text = Alien]
    BY <2>1, <1>c DEF Scans
  <2>2. ASSUME NEW t \in held,
               scan' = [scan EXCEPT !.pc = "next", !.cur = blank, !.text = Alien,
                                    !.got = one(t)]
        PROVE  scan' \in Scans /\ scan'.pc = "next" /\ scan'.cur = blank
               /\ scan'.got = one(t)
    <3>1. one(t) \in SUBSET [draft : Drafts, pair : Pair]
      BY <1>d
    <3> QED BY <2>2, <3>1, <1>c DEF Scans
  <2> QED BY <1>a, <2>1, <2>2
<1>f. /\ scan.pc = "target" /\ d \in scan.cur /\ scan' \in Scans
      /\ scan'.pc = "next" /\ scan'.cur = {}
      /\ \A h \in scan'.got :
            \/ h \in scan.got
            \/ /\ h.draft = d
               /\ \E t \in held : h.pair = [text |-> scan.text, target |-> t]
      /\ moves \in 0 .. Budget /\ moves' \in 0 .. Budget /\ moves <= moves'
  <2>1. \A h \in scan'.got :
            \/ h \in scan.got
            \/ /\ h.draft = d
               /\ \E t \in held : h.pair = [text |-> scan.text, target |-> t]
    <3> HIDE DEF held
    <3> SUFFICES ASSUME NEW h \in scan'.got, h \notin scan.got
                 PROVE  /\ h.draft = d
                        /\ \E t \in held : h.pair = [text |-> scan.text, target |-> t]
      OBVIOUS
    <3>1. PICK t \in held : scan'.got = one(t)
      BY <1>e3
    <3>2. h \in one(t)
      BY <3>1
    <3>3. h.draft = d /\ h.pair = [text |-> scan.text, target |-> t]
      BY <1>e, <3>2
    <3> QED BY <3>3
  <2>2. scan.pc = "target" /\ d \in scan.cur
    BY DEF ReadTarget
  <2> HIDE DEF held
  <2> QED BY <1>b, <1>e2, <1>e3, <2>1, <2>2
<1>g. \A u \in Threads : /\ Pending(u, d)' <=> Pending(u, d)
                         /\ Removing(u, d)' <=> Removing(u, d)
                         /\ Begun(u, d)' <=> Begun(u, d)
                         /\ Live(u, d)' <=> Live(u, d)
  BY <1>u DEF Pending, Removing, Begun, Live
<1>1. Typed'
  BY <1>0, <1>f, <1>u, SMTT(20) DEF Typed
<1>2. JobInv'
  <2>1. \A u \in Threads : JobOf(u)'
    BY <1>0, <1>jf, <1>nf, <1>f, <1>u, SMTT(20) DEF JobInv, JobOf, Removing
  <2>2. LockInv'
    BY <1>0, <1>jf, <1>f, <1>u, SMTT(20) DEF JobInv, LockInv, HasLock
  <2>3. UiInv'
    BY <1>0, <1>jf, <1>f, <1>u, SMTT(20) DEF JobInv, UiInv, Open, Snapshot
  <2> QED BY <2>1, <2>2, <2>3 DEF JobInv
<1>3. FolderInv'
  BY <1>0, <1>jf, <1>f, <1>u, SMTT(20) DEF FolderInv, Busy, Open
<1>4. ASSUME NEW e \in Drafts, e # d
      PROVE  DraftInv(e)'
  <2>1. Untouched(e)
    BY <1>0, <1>4, <1>f, <1>u, SMTT(20) DEF Untouched, Typed
  <2> QED BY <1>4, <1>pf, <2>1, UntouchedKeeps DEF Inv
<1>5. DraftInv(d)
  BY DEF Inv
<1>6. TextOf(d)'
  <2>0. TextOf(d)
    BY <1>5 DEF DraftInv
  <2>1. /\ pairs[d] \subseteq pairs'[d]
        /\ \A pair \in pairs'[d] : pair.text <= moves' + 1
    BY <1>f, <1>u, <2>0, <1>g, <1>pf, <1>0, SMTT(20) DEF TextOf, PairsFields, Typed
  <2>2. note'[d].at # "none" => KnownPair(d, Snapshot(d))'
    BY <1>f, <1>u, <2>0, <1>g, SMTT(20) DEF TextOf, KnownPair, Snapshot
  <2>3. /\ \A pair \in entry'[d] : pair \in entry[d] \/ KnownPair(d, pair)'
        /\ md'[d] \subseteq md[d]
    BY <1>f, <1>u, <2>0, <1>g, SMTT(20)
  <2>4. \A v \in Threads : Pending(v, d)' =>
          \/ Pending(v, d) /\ job'[v].snap = job[v].snap
          \/ KnownPair(d, job[v].snap)'
    BY <1>f, <1>u, <2>0, <1>g, SMTT(20)
  <2>5. /\ d \in scan'.cur /\ scan'.pc = "target" =>
              \/ d \in scan.cur /\ scan.pc = "target" /\ scan'.text = scan.text
              \/ KnownText(d, scan.text)'
        /\ \A h \in scan'.got : h.draft = d => h \in scan.got \/ KnownText(d, h.pair.text)'
    <3>0. scan'.cur = {}
      BY <1>f
    <3>1. ASSUME NEW h \in scan'.got, h.draft = d
          PROVE  h \in scan.got \/ KnownText(d, h.pair.text)'
      <4> SUFFICES ASSUME NEW t, h.pair = [text |-> scan.text, target |-> t]
                   PROVE  KnownText(d, h.pair.text)'
        BY <3>1, <1>f
      <4>1. h.pair.text = scan.text
        OBVIOUS
      <4>2. KnownText(d, scan.text)
        BY <1>f, <2>0 DEF TextOf
      <4> QED BY <4>1, <4>2, <1>u DEF KnownText
    <3> QED BY <3>0, <3>1
  <2> QED BY <2>0, <2>1, <2>2, <2>3, <2>4, <2>5, TextKeeps
<1>7. WholeOf(d)'
  BY <1>5, <1>f, <1>u, <1>g, SMTT(20) DEF DraftInv, WholeOf, Held, KnownPair
<1>8. ScanOf(d)'
  <2> SUFFICES ASSUME d \notin overlap, NEW h \in scan'.got, h.draft = d
               PROVE  Held(d)' = {h.pair}
    BY <1>f, <1>u DEF ScanOf
  <2>1. ScanOf(d)
    BY <1>5 DEF DraftInv
  <2>2. Held(d)' = Held(d)
    BY <1>u DEF Held
  <2>3. CASE h \in scan.got
    BY <2>1, <2>2, <2>3 DEF ScanOf
  <2>4. ASSUME NEW t \in held, h.pair = [text |-> scan.text, target |-> t]
        PROVE  Held(d)' = {h.pair}
    <3>1. entry[d] = {} /\ scan.text \in md[d]
      BY <2>1, <1>f DEF ScanOf
    <3>2. md[d] = {scan.text}
      BY <3>1, <1>pf DEF FileFields
    <3>3. held = {t}
      BY <2>4, <1>pf DEF FileFields
    <3>4. Held(d) = {[text |-> x, target |-> c] : x \in md[d], c \in held}
      BY <3>1 DEF Held
    <3> HIDE DEF held
    <3> QED BY <2>2, <2>4, <3>2, <3>3, <3>4
  <2> QED BY <1>f, <2>3, <2>4
<1>9. SettleOf(d)'
  BY <1>5, <1>f, <1>u, <1>g, <1>jf, <1>nf, SMTT(20) DEF DraftInv, SettleOf,
      LastIsWritten, Mine, Open
<1>10. FlushOf(d)'
  BY <1>5, <1>f, <1>u, <1>g, <1>jf, <1>nf, SMTT(20) DEF DraftInv, FlushOf, Written,
      Snapshot, Open
<1>11. RetireOf(d)'
  BY <1>5, <1>f, <1>u, <1>g, <1>jf, <1>nf, SMTT(20) DEF DraftInv, RetireOf, Open
<1>12. AdvanceOf(d)'
  BY <1>5, <1>f, <1>u, <1>g, <1>jf, <1>nf, SMTT(20) DEF DraftInv, AdvanceOf, Mine,
      Open
<1>13. DraftInv(d)'
  BY <1>6, <1>7, <1>8, <1>9, <1>10, <1>11, <1>12 DEF DraftInv
<1> QED BY <1>1, <1>2, <1>3, <1>4, <1>13 DEF Inv

\* Each draft that was read becomes a note, with the pair that was read.
LEMMA InstallDraftsKeeps ==
  ASSUME Inv, InstallDrafts
  PROVE  Inv'
<1> USE AlienFacts, ThreadFacts
<1>0. Typed /\ JobInv /\ FolderInv
  BY DEF Inv
<1>jf. JobFields
  BY <1>0, TypedHasFields DEF Fields
<1>nf. NoteFields /\ NewestFields
  BY <1>0, TypedHasFields DEF Fields
<1>pf. PairsFields /\ FileFields
  BY <1>0, TypedHasFields DEF Fields
<1>sf. ScanFields /\ FlushFields
  BY <1>0, TypedHasFields DEF Fields
<1>u. UNCHANGED <<entry, md, sidecar, armed, job, flush, newest, seq, named, spoiled,
    overlap, moves>>
  BY DEF InstallDrafts, files, histories
<1> DEFINE back == {h.draft : h \in scan.got}
           first(e) == CHOOSE h \in scan.got : h.draft = e
           was(e) == [at |-> "open", text |-> first(e).pair.text,
                      target |-> first(e).pair.target, dirty |-> FALSE]
<1>a. /\ folder = "scanning" /\ scan.pc = "next" /\ folder' = "here" /\ scan' = NoScan
      /\ note' = [e \in Drafts |-> IF e \in back THEN was(e) ELSE Absent]
      /\ retired' = retired \ back
      /\ pairs' = [e \in Drafts |-> IF e \in back \cap overlap
                                    THEN pairs[e] \cup {first(e).pair} ELSE pairs[e]]
  BY DEF InstallDrafts
<1>b. \A e \in back : first(e) \in scan.got /\ first(e).draft = e
  OBVIOUS
<1>c. \A e \in back : first(e).pair \in Pair
  BY <1>b, <1>sf DEF ScanFields
<1> HIDE DEF first
<1>d. \A e \in back :
        /\ was(e).at = "open" /\ was(e).text = first(e).pair.text
        /\ was(e).target = first(e).pair.target /\ ~was(e).dirty
        /\ was(e) \in Notes
  BY <1>c, PairFacts, TextFacts DEF Notes
<1>e. Absent \in Notes /\ Absent.at = "none"
  BY TextFacts DEF Absent, Notes
<1>h. /\ NoScan.cur = {} /\ NoScan.got = {} /\ NoScan.pc = "none"
      /\ {} \in AtMostOne(Drafts)
  BY OneFacts DEF NoScan
<1>h1. NoScan \in Scans
  BY <1>h, TextFacts DEF NoScan, Scans
<1> HIDE DEF was
<1>h2. note' \in [Drafts -> Notes] /\ pairs' \in [Drafts -> SUBSET Pair]
  BY <1>0, <1>a, <1>c, <1>d, <1>e DEF Typed
<1>h3. \A e \in Drafts :
        \/ /\ e \notin back /\ note'[e].at = "none" /\ pairs'[e] = pairs[e]
        \/ \E h \in scan.got :
             /\ h.draft = e /\ h.pair \in Pair /\ e \notin retired'
             /\ note'[e].at = "open" /\ note'[e].text = h.pair.text
             /\ note'[e].target = h.pair.target /\ ~note'[e].dirty
             /\ pairs'[e] = IF e \in overlap THEN pairs[e] \cup {h.pair} ELSE pairs[e]
  <2> SUFFICES ASSUME NEW e \in Drafts, e \in back
               PROVE  LET h == first(e) IN
             /\ h \in scan.got /\ h.draft = e /\ h.pair \in Pair /\ e \notin retired'
             /\ note'[e].at = "open" /\ note'[e].text = h.pair.text
             /\ note'[e].target = h.pair.target /\ ~note'[e].dirty
             /\ pairs'[e] = IF e \in overlap THEN pairs[e] \cup {h.pair} ELSE pairs[e]
    BY <1>a, <1>e
  <2>1. note'[e] = was(e)
    BY <1>a
  <2>2. pairs'[e] = IF e \in overlap THEN pairs[e] \cup {first(e).pair} ELSE pairs[e]
    BY <1>a
  <2>3. e \notin retired'
    BY <1>a
  <2> QED BY <2>1, <2>2, <2>3, <1>b, <1>c, <1>d
<1>f. /\ folder = "scanning" /\ folder' = "here"
      /\ scan' \in Scans /\ scan'.pc = "none" /\ scan'.cur = {} /\ scan'.got = {}
      /\ note' \in [Drafts -> Notes] /\ pairs' \in [Drafts -> SUBSET Pair]
      /\ retired' \subseteq retired
      /\ flush.after = "none" /\ job[Ui].pc = "free" /\ armed = {} /\ flush.todo = {}
      /\ \A e \in Drafts : note[e].at = "none" /\ (Busy(e) => e \in overlap)
  BY <1>0, <1>a, <1>h, <1>h1, <1>h2 DEF FolderInv, JobInv, UiInv
<1> HIDE DEF back
<1>1. Typed'
  BY <1>0, <1>f, <1>u, SMTT(20) DEF Typed
<1>2. JobInv'
  <2>1. \A u \in Threads : JobOf(u)'
    BY <1>0, <1>jf, <1>nf, <1>f, <1>u, SMTT(20) DEF JobInv, JobOf, Removing
  <2>2. LockInv'
    BY <1>0, <1>jf, <1>f, <1>u, SMTT(20) DEF JobInv, LockInv, HasLock
  <2>3. UiInv'
    BY <1>0, <1>jf, <1>f, <1>u, SMTT(20) DEF JobInv, UiInv, Open, Snapshot
  <2> QED BY <2>1, <2>2, <2>3 DEF JobInv
<1>3. FolderInv'
  BY <1>0, <1>jf, <1>f, <1>u, SMTT(20) DEF FolderInv, Busy, Open
<1>4. ASSUME NEW e \in Drafts
      PROVE  DraftInv(e)'
  <2>0. DraftInv(e)
    BY DEF Inv
  <2>g. \A u \in Threads : /\ Pending(u, e)' <=> Pending(u, e)
                           /\ Removing(u, e)' <=> Removing(u, e)
                           /\ Begun(u, e)' <=> Begun(u, e)
                           /\ Live(u, e)' <=> Live(u, e)
    BY <1>u DEF Pending, Removing, Begun, Live
  <2>h0. entry' = entry /\ md' = md /\ sidecar' = sidecar
    BY <1>u
  <2>h. Held(e)' = Held(e)
    BY ONLY <2>h0, SMTT(20) DEF Held
  <2>1. pairs[e] \subseteq pairs'[e]
    BY <1>h3, ZenonT(40)
  <2>2. note'[e].at # "none" =>
          \E h \in scan.got :
             /\ h.draft = e /\ h.pair \in Pair /\ e \notin retired'
             /\ note'[e].at = "open" /\ note'[e].text = h.pair.text
             /\ note'[e].target = h.pair.target /\ ~note'[e].dirty
             /\ pairs'[e] = IF e \in overlap THEN pairs[e] \cup {h.pair} ELSE pairs[e]
    BY <1>h3
  <2>3. \A pair \in pairs'[e] : pair.text <= moves' + 1
    <3>1. TextOf(e)
      BY <2>0 DEF DraftInv
    <3>2. \A h \in scan.got : h.draft = e => h.pair.text <= moves + 1
      BY <3>1, <1>0, <1>pf DEF TextOf, KnownText, Typed, PairsFields
    <3>3. \A pair \in pairs'[e] :
            pair \in pairs[e] \/ \E h \in scan.got : h.draft = e /\ pair = h.pair
      <4>1. CASE note'[e].at = "none" /\ pairs'[e] = pairs[e]
        BY <4>1
      <4>2. ASSUME NEW h \in scan.got, h.draft = e,
                   pairs'[e] = IF e \in overlap THEN pairs[e] \cup {h.pair} ELSE pairs[e]
            PROVE  \A pair \in pairs'[e] :
                     pair \in pairs[e] \/ \E k \in scan.got : k.draft = e /\ pair = k.pair
        <5>1. \A pair \in pairs'[e] : pair \in pairs[e] \/ pair = h.pair
          BY <4>2
        <5> QED BY <4>2, <5>1
      <4> QED BY <4>1, <4>2, <1>h3
    <3> QED BY <3>1, <3>2, <3>3, <1>u DEF TextOf
  <2>4. note'[e].at # "none" => KnownPair(e, Snapshot(e))'
    <3> SUFFICES ASSUME NEW h \in scan.got, h.draft = e, h.pair \in Pair,
                        note'[e].text = h.pair.text, note'[e].target = h.pair.target,
                        pairs'[e] = IF e \in overlap THEN pairs[e] \cup {h.pair}
                                    ELSE pairs[e]
                 PROVE  KnownPair(e, Snapshot(e))'
      BY <2>2
    <3>1. Snapshot(e)' = h.pair
      BY PairFacts DEF Snapshot
    <3>2. e \notin overlap => KnownPair(e, h.pair)
      BY <2>0 DEF DraftInv, ScanOf, WholeOf
    <3> QED BY <3>1, <3>2, <2>1 DEF KnownPair
  <2>5. TextOf(e)'
    <3>1. TextOf(e)
      BY <2>0 DEF DraftInv
    <3> QED BY <3>1, <2>1, <2>3, <2>4, <2>g, <1>f, <1>u, TextKeeps
  <2>6. WholeOf(e)'
    BY <2>0, <2>1, <2>h DEF DraftInv, WholeOf, KnownPair
  <2>7. ScanOf(e)'
    BY <1>f DEF ScanOf
  <2>8. SettleOf(e)'
    BY <2>2 DEF SettleOf, Mine, Open
  <2>9. FlushOf(e)'
    <3>1. ~Pending(Ui, e) /\ ~Written(e)'
      BY <1>f, <1>u DEF Pending, Written
    <3> QED BY <3>1, <2>g DEF FlushOf
  <2>10. RetireOf(e)'
    <3>1. RetireOf(e) /\ ~Open(e)
      BY <2>0, <1>f DEF DraftInv, Open
    <3>2. e \in retired' => e \in retired /\ note'[e].at = "none"
      BY <2>2, <1>f, <1>h2 DEF Notes
    <3> QED BY <3>1, <3>2, <2>g, <1>f, <1>u DEF RetireOf
  <2>11. AdvanceOf(e)'
    <3> SUFFICES ASSUME e \notin overlap PROVE AdvanceOf(e)'
      BY <1>u DEF AdvanceOf
    <3>1. \A u \in Threads : ~Pending(u, e)
      BY <1>f DEF Busy, Pending
    <3>2. \A u \in Threads : ~Pending(u, e)' /\ ~Live(u, e)'
      BY <3>1, <2>g DEF Live
    <3>3. note'[e].at # "none" => \A pair \in entry[e] : pair.text = note'[e].text
      <4> SUFFICES ASSUME NEW h \in scan.got, h.draft = e, note'[e].text = h.pair.text,
                          NEW pair \in entry[e]
                   PROVE  pair.text = note'[e].text
        BY <2>2
      <4>1. Held(e) = {h.pair}
        BY <2>0 DEF DraftInv, ScanOf
      <4>2. Held(e) = entry[e]
        BY DEF Held
      <4> QED BY <4>1, <4>2
    <3>4. Mine(e)' => \A pair \in entry'[e] : pair.text <= note'[e].text
      BY <3>3, <1>u, <1>pf DEF Mine, Open, FileFields
    <3> QED BY <3>2, <3>4 DEF AdvanceOf
  <2> QED BY <2>5, <2>6, <2>7, <2>8, <2>9, <2>10, <2>11 DEF DraftInv
<1> QED BY <1>1, <1>2, <1>3, <1>4 DEF Inv

\* A write that has the lock goes on, unless it has been overtaken.
LEMMA TakeLockKeeps ==
  ASSUME Inv, NEW t \in Threads, TakeLock(t)
  PROVE  Inv'
<1> USE AlienFacts, ThreadFacts
<1>0. Typed /\ JobInv /\ FolderInv
  BY DEF Inv
<1>jf. JobFields
  BY <1>0, TypedHasFields DEF Fields
<1>nf. NoteFields /\ NewestFields
  BY <1>0, TypedHasFields DEF Fields
<1>pf. PairsFields /\ FileFields
  BY <1>0, TypedHasFields DEF Fields
<1>sf. ScanFields /\ FlushFields
  BY <1>0, TypedHasFields DEF Fields
<1>u. UNCHANGED <<entry, md, sidecar, folder, note, armed, flush, scan, newest, seq,
    named, retired, spoiled, pairs, overlap, moves>>
  BY DEF TakeLock, files, histories
<1>a. PICK d \in Drafts : job[t].draft = d
  BY <1>jf DEF JobFields
<1>b. /\ d \in overlap \/ (scan.cur = {} /\ scan.got = {})
      /\ job[t].pc # "free"
  BY <1>0, <1>a DEF FolderInv, Busy, TakeLock
<1>c. Superseded(t) =>
        /\ job' \in [Threads -> Jobs] /\ job'[t].pc = "free"
        /\ \A u \in Threads : u # t => job'[u] = job[u]
  BY <1>0, DoneFacts DEF TakeLock
<1>d. ~Superseded(t) =>
        /\ job' \in [Threads -> Jobs] /\ job'[t].pc = "replace"
        /\ job'[t].kind = job[t].kind /\ job'[t].draft = job[t].draft
        /\ job'[t].seq = job[t].seq /\ job'[t].snap = job[t].snap
        /\ \A u \in Threads : u # t => job'[u] = job[u]
  BY <1>0, GoesFacts DEF TakeLock
<1>f. /\ job[t].pc = "lock" /\ job[t].kind = "write" /\ job[t].draft = d
      /\ job' \in [Threads -> Jobs]
      /\ \A u \in Threads : u # t => job'[u] = job[u]
      /\ \/ job'[t].pc = "free" /\ job[t].seq < newest[d]
         \/ /\ job'[t].pc = "replace" /\ ~(job[t].seq < newest[d])
            /\ job'[t].kind = "write" /\ job'[t].draft = d
            /\ job'[t].seq = job[t].seq /\ job'[t].snap = job[t].snap
      /\ \A u \in Threads : u # t /\ HasLock(u) => job[u].draft # d
  BY <1>a, <1>c, <1>d DEF TakeLock, LockFree, Superseded, HasLock
<1>g. \A u \in Threads : /\ Pending(u, d)' =>
                              /\ Pending(u, d) /\ job'[u].seq = job[u].seq
                              /\ job'[u].snap = job[u].snap
                         /\ Removing(u, d)' <=> Removing(u, d)
                         /\ Begun(u, d)' <=> Begun(u, d)
                         /\ Live(u, d)' <=> Live(u, d)
                         /\ Pending(u, d) /\ ~Pending(u, d)' => u = t
  BY <1>f, <1>u, <1>jf, <1>nf DEF Pending, Removing, Begun, Live, JobFields, NewestFields
<1>h. Pending(t, d) /\ ~Pending(t, d)' => job[t].seq < newest[d]
  BY <1>f DEF Pending
<1>1. Typed'
  BY <1>0, <1>f, <1>u, SMTT(20) DEF Typed
<1>2. JobInv'
  <2>1. \A u \in Threads : JobOf(u)'
    <3> SUFFICES ASSUME NEW u \in Threads PROVE JobOf(u)'
      OBVIOUS
    <3>0. JobOf(u)
      BY <1>0 DEF JobInv
    <3>1. ASSUME u = t PROVE JobOf(u)'
      BY <3>0, <3>1, <1>jf, <1>nf, <1>f, <1>u, SMTT(60) DEF JobOf, Removing, HasLock,
          NewestFields, JobFields
    <3>2. ASSUME u # t PROVE JobOf(u)'
      BY <3>0, <3>2, <1>jf, <1>nf, <1>f, <1>u, SMTT(60) DEF JobOf, Removing, HasLock,
          NewestFields, JobFields
    <3> QED BY <3>1, <3>2
  <2>2. LockInv'
    BY <1>0, <1>jf, <1>f, <1>u, SMTT(20) DEF JobInv, LockInv, HasLock
  <2>3. UiInv'
    BY <1>0, <1>jf, <1>f, <1>u, SMTT(20) DEF JobInv, UiInv, Open, Snapshot
  <2> QED BY <2>1, <2>2, <2>3 DEF JobInv
<1>3. FolderInv'
  BY <1>0, <1>jf, <1>f, <1>u, SMTT(20) DEF FolderInv, Busy, Open
<1>4. ASSUME NEW e \in Drafts, e # d
      PROVE  DraftInv(e)'
  <2>1. Untouched(e)
    BY <1>0, <1>4, <1>f, <1>u, SMTT(20) DEF Untouched, Typed
  <2> QED BY <1>4, <1>pf, <2>1, UntouchedKeeps DEF Inv
<1>5. DraftInv(d)
  BY DEF Inv
<1>6. TextOf(d)'
  <2>0. TextOf(d)
    BY <1>5 DEF DraftInv
  <2>1. /\ pairs[d] \subseteq pairs'[d]
        /\ \A pair \in pairs'[d] : pair.text <= moves' + 1
    BY <1>f, <1>u, <2>0, <1>g, <1>pf, <1>0, SMTT(20) DEF TextOf, PairsFields, Typed
  <2>2. note'[d].at # "none" => KnownPair(d, Snapshot(d))'
    BY <1>f, <1>u, <2>0, <1>g, SMTT(20) DEF TextOf, KnownPair, Snapshot
  <2>3. /\ \A pair \in entry'[d] : pair \in entry[d] \/ KnownPair(d, pair)'
        /\ md'[d] \subseteq md[d]
    BY <1>f, <1>u, <2>0, <1>g, SMTT(20)
  <2>4. \A v \in Threads : Pending(v, d)' =>
          \/ Pending(v, d) /\ job'[v].snap = job[v].snap
          \/ KnownPair(d, job[v].snap)'
    BY <1>f, <1>u, <2>0, <1>g, SMTT(20)
  <2>5. /\ d \in scan'.cur /\ scan'.pc = "target" =>
              \/ d \in scan.cur /\ scan.pc = "target" /\ scan'.text = scan.text
              \/ KnownText(d, scan.text)'
        /\ \A h \in scan'.got : h.draft = d => h \in scan.got \/ KnownText(d, h.pair.text)'
    BY <1>f, <1>u, <2>0, <1>g, SMTT(20)
  <2> QED BY <2>0, <2>1, <2>2, <2>3, <2>4, <2>5, TextKeeps
<1>7. WholeOf(d)'
  BY <1>5, <1>f, <1>u, <1>g, SMTT(20) DEF DraftInv, WholeOf, Held, KnownPair
<1>8. ScanOf(d)'
  BY <1>b, <1>u DEF ScanOf
<1>9. SettleOf(d)'
  <2>0. SettleOf(d)
    BY <1>5 DEF DraftInv
  <2> SUFFICES ASSUME LastIsWritten(d) PROVE LastIsWritten(d)'
    BY <2>0, <1>u DEF SettleOf, Mine, Open
  <2>1. PICK s \in Nat :
          /\ \A u \in Threads :
                Pending(u, d) /\ job[u].seq >= s => job[u].snap.text = note[d].text
          /\ IF newest[d] >= s THEN \E pair \in entry[d] : pair.text = note[d].text
             ELSE \E u \in Threads : Pending(u, d) /\ job[u].seq >= s
    BY DEF LastIsWritten
  <2>2. \A u \in Threads :
          Pending(u, d)' /\ job'[u].seq >= s => job'[u].snap.text = note[d].text
    BY <2>1, <1>g
  <2>3. ASSUME ~(newest[d] >= s), NEW u \in Threads, Pending(u, d), job[u].seq >= s
        PROVE  Pending(u, d)' /\ job'[u].seq >= s
    BY <2>3, <1>g, <1>h, <1>jf, <1>nf DEF JobFields, NewestFields
  <2> QED BY <2>1, <2>2, <2>3, <1>u DEF LastIsWritten
<1>10. FlushOf(d)'
  <2>0. FlushOf(d) /\ RetireOf(d)
    BY <1>5 DEF DraftInv
  <2>1. CASE Pending(Ui, d) /\ ~Pending(Ui, d)'
    <3>1. \A u \in Threads : ~Live(u, d)
      BY <2>0, <2>1, <1>g, <1>h, <1>jf, <1>nf DEF FlushOf, Live, JobFields, NewestFields
    <3>2. "removed" \in spoiled[d]
      BY <2>0, <2>1, <1>g, <1>h DEF FlushOf
    <3> QED BY <2>1, <3>1, <3>2, <1>g, <1>u DEF FlushOf
  <2>2. CASE ~(Pending(Ui, d) /\ ~Pending(Ui, d)')
    <3>1. Written(d)' => Written(d)
      BY <2>2, <1>g, <1>u DEF Written, Open
    <3>2. Snapshot(d)' = Snapshot(d)
      BY <1>u DEF Snapshot
    <3>3. (Pending(Ui, d) =>
             /\ \A v \in Threads \ {Ui} : Pending(v, d) => job[v].seq < job[Ui].seq
             /\ job[Ui].seq < newest[d] => "removed" \in spoiled[d])'
      BY <2>0, <1>g, <1>u DEF FlushOf
    <3> QED BY <2>0, <3>1, <3>2, <3>3, <1>g, <1>u DEF FlushOf
  <2> QED BY <2>1, <2>2
<1>11. RetireOf(d)'
  <2>0. FlushOf(d) /\ RetireOf(d)
    BY <1>5 DEF DraftInv
  <2>1. CASE Pending(Ui, d) /\ ~Pending(Ui, d)'
    <3>1. \A u \in Threads : ~Live(u, d)
      BY <2>0, <2>1, <1>g, <1>h, <1>jf, <1>nf DEF FlushOf, Live, JobFields, NewestFields
    <3> QED BY <2>0, <3>1, <1>g, <1>u DEF RetireOf
  <2>2. CASE ~(Pending(Ui, d) /\ ~Pending(Ui, d)')
    BY <2>0, <2>2, <1>g, <1>u DEF RetireOf, Open
  <2> QED BY <2>1, <2>2
<1>12. AdvanceOf(d)'
  <2>0. AdvanceOf(d)
    BY <1>5 DEF DraftInv
  <2> SUFFICES ASSUME d \notin overlap PROVE AdvanceOf(d)'
    BY <1>u DEF AdvanceOf
  <2>1. (Mine(d) =>
          /\ \A u \in Threads : Pending(u, d) => job[u].snap.text <= note[d].text
          /\ \A pair \in entry[d] : pair.text <= note[d].text)'
    BY <2>0, <1>g, <1>u DEF AdvanceOf, Mine, Open
  <2>2. (\A v, u \in Threads :
          /\ Pending(v, d) /\ Pending(u, d)
          /\ job[v].seq <= job[u].seq /\ job[u].snap.text # Alien
          => job[v].snap.text <= job[u].snap.text)'
    BY <2>0, <1>g DEF AdvanceOf
  <2>3. (\A u \in Threads : Live(u, d) /\ job[u].snap.text # Alien =>
          \A pair \in entry[d] : pair.text <= job[u].snap.text)'
    BY <2>0, <1>g, <1>u DEF AdvanceOf, Live
  <2> QED BY <2>1, <2>2, <2>3 DEF AdvanceOf
<1>13. DraftInv(d)'
  BY <1>6, <1>7, <1>8, <1>9, <1>10, <1>11, <1>12 DEF DraftInv
<1> QED BY <1>1, <1>2, <1>3, <1>4, <1>13 DEF Inv

\* A removal is newer than every write there is.
LEMMA BeginRemovalKeeps ==
  ASSUME Inv, NEW t \in Threads, BeginRemoval(t)
  PROVE  Inv'
<1> USE AlienFacts, ThreadFacts
<1>0. Typed /\ JobInv /\ FolderInv
  BY DEF Inv
<1>jf. JobFields
  BY <1>0, TypedHasFields DEF Fields
<1>nf. NoteFields /\ NewestFields
  BY <1>0, TypedHasFields DEF Fields
<1>pf. PairsFields /\ FileFields
  BY <1>0, TypedHasFields DEF Fields
<1>sf. ScanFields /\ FlushFields
  BY <1>0, TypedHasFields DEF Fields
<1>u. UNCHANGED <<entry, md, sidecar, folder, note, armed, flush, scan, named,
    retired, pairs, overlap, moves>>
  BY DEF BeginRemoval, files, histories
<1>a. PICK d \in Drafts : job[t].draft = d
  BY <1>jf DEF JobFields
<1>b. /\ d \in overlap \/ (scan.cur = {} /\ scan.got = {})
      /\ job[t].pc # "free"
  BY <1>0, <1>a DEF FolderInv, Busy, BeginRemoval
<1>f. /\ job[t].pc = "lock" /\ job[t].kind = "remove" /\ job[t].draft = d
      /\ job' \in [Threads -> Jobs]
      /\ \A u \in Threads : u # t => job'[u] = job[u]
      /\ job'[t].pc = "text" /\ job'[t].kind = "remove" /\ job'[t].draft = d
      /\ job'[t].seq = job[t].seq
      /\ \A u \in Threads : u # t /\ HasLock(u) => job[u].draft # d
      /\ seq' = seq + 1 /\ newest'[d] = seq
      /\ newest' \in [Drafts -> 0 .. seq' - 1]
      /\ \A e \in Drafts : e # d => newest'[e] = newest[e]
      /\ spoiled' \in [Drafts -> SUBSET {"failed", "removed"}]
      /\ \A e \in Drafts : e # d => spoiled'[e] = spoiled[e]
      /\ Open(d) => "removed" \in spoiled'[d]
  <2>1. Goes(t, "text") /\ newest' = [newest EXCEPT ![d] = seq] /\ seq' = seq + 1
    BY <1>a DEF BeginRemoval, RemovalOrdered, TakeSequence
  <2>2. newest \in [Drafts -> 0 .. seq - 1] /\ seq \in Nat
        /\ spoiled \in [Drafts -> SUBSET {"failed", "removed"}]
    BY <1>0 DEF Typed
  <2>3. newest' \in [Drafts -> 0 .. seq' - 1]
    BY <2>1, <2>2
  <2>4. /\ spoiled' \in [Drafts -> SUBSET {"failed", "removed"}]
        /\ \A e \in Drafts : e # d => spoiled'[e] = spoiled[e]
        /\ Open(d) => "removed" \in spoiled'[d]
    <3>1. Open(d) => spoiled' = [spoiled EXCEPT ![d] = spoiled[d] \cup {"removed"}]
      BY <1>a DEF BeginRemoval
    <3>2. ~Open(d) => spoiled' = spoiled
      BY <1>a DEF BeginRemoval
    <3> QED BY <2>2, <3>1, <3>2
  <2>5. /\ job[t].pc = "lock" /\ job[t].kind = "remove"
        /\ \A u \in Threads : u # t /\ HasLock(u) => job[u].draft # d
    BY <1>a DEF BeginRemoval, LockFree, HasLock
  <2>6. /\ job' \in [Threads -> Jobs]
        /\ \A u \in Threads : u # t => job'[u] = job[u]
        /\ job'[t].pc = "text" /\ job'[t].kind = "remove" /\ job'[t].draft = d
        /\ job'[t].seq = job[t].seq
    BY <1>0, <1>a, <2>1, <2>5, GoesFacts
  <2> QED BY <1>a, <2>1, <2>2, <2>3, <2>4, <2>5, <2>6
<1>g. \A u \in Threads : /\ Pending(u, d)' <=> Pending(u, d)
                         /\ Pending(u, d) => job'[u] = job[u] /\ job[u].seq < seq
                         /\ Removing(u, d)' <=> Removing(u, d)
                         /\ ~Live(u, d)'
  <2>1. \A u \in Threads : /\ Pending(u, d)' <=> Pending(u, d)
                           /\ Pending(u, d) => job'[u] = job[u] /\ job[u].seq < seq
                           /\ Removing(u, d)' <=> Removing(u, d)
    BY <1>0, <1>f DEF JobInv, JobOf, Pending, Removing
  <2>2. \A u \in Threads : ~Live(u, d)'
    BY <2>1, <1>f, <1>jf, <1>nf DEF Live, JobFields, NewestFields
  <2> QED BY <2>1, <2>2
<1>1. Typed'
  BY <1>0, <1>f, <1>u, SMTT(20) DEF Typed
<1>2. JobInv'
  <2>1. \A u \in Threads : JobOf(u)'
    <3> SUFFICES ASSUME NEW u \in Threads PROVE JobOf(u)'
      OBVIOUS
    <3>0. JobOf(u)
      BY <1>0 DEF JobInv
    <3>1. ASSUME u = t PROVE JobOf(u)'
      BY <3>0, <3>1, <1>jf, <1>nf, <1>f, <1>u, SMTT(40)
         DEF JobOf, Removing, NewestFields, JobFields
    <3>2. ASSUME u # t PROVE JobOf(u)'
      <4>1. job'[u] = job[u] /\ job[u].draft \in Drafts /\ job[u].seq \in Nat
        BY <3>2, <1>f, <1>jf DEF JobFields
      <4>2. job[u].pc = "replace" => newest'[job[u].draft] = newest[job[u].draft]
        BY <3>2, <4>1, <1>f DEF HasLock
      <4> QED BY <3>0, <4>1, <4>2, <1>u, <1>f, <1>nf DEF JobOf, Removing, NewestFields
    <3> QED BY <3>1, <3>2
  <2>2. LockInv'
    BY <1>0, <1>jf, <1>f, <1>u, SMTT(20) DEF JobInv, LockInv, HasLock
  <2>3. UiInv'
    BY <1>0, <1>jf, <1>f, <1>u, SMTT(20) DEF JobInv, UiInv, Open, Snapshot
  <2> QED BY <2>1, <2>2, <2>3 DEF JobInv
<1>3. FolderInv'
  BY <1>0, <1>jf, <1>f, <1>u, SMTT(20) DEF FolderInv, Busy, Open
<1>4. ASSUME NEW e \in Drafts, e # d
      PROVE  DraftInv(e)'
  <2>1. Untouched(e)
    BY <1>0, <1>4, <1>f, <1>u, SMTT(20) DEF Untouched, Typed
  <2> QED BY <1>4, <1>pf, <2>1, UntouchedKeeps DEF Inv
<1>5. DraftInv(d)
  BY DEF Inv
<1>6. TextOf(d)'
  <2>0. TextOf(d)
    BY <1>5 DEF DraftInv
  <2>1. /\ pairs[d] \subseteq pairs'[d]
        /\ \A pair \in pairs'[d] : pair.text <= moves' + 1
    BY <1>f, <1>u, <2>0, <1>g, <1>pf, <1>0, SMTT(20) DEF TextOf, PairsFields, Typed
  <2>2. note'[d].at # "none" => KnownPair(d, Snapshot(d))'
    BY <1>f, <1>u, <2>0, <1>g, SMTT(20) DEF TextOf, KnownPair, Snapshot
  <2>3. /\ \A pair \in entry'[d] : pair \in entry[d] \/ KnownPair(d, pair)'
        /\ md'[d] \subseteq md[d]
    BY <1>f, <1>u, <2>0, <1>g, SMTT(20)
  <2>4. \A v \in Threads : Pending(v, d)' =>
          \/ Pending(v, d) /\ job'[v].snap = job[v].snap
          \/ KnownPair(d, job[v].snap)'
    BY <1>g
  <2>5. /\ d \in scan'.cur /\ scan'.pc = "target" =>
              \/ d \in scan.cur /\ scan.pc = "target" /\ scan'.text = scan.text
              \/ KnownText(d, scan.text)'
        /\ \A h \in scan'.got : h.draft = d => h \in scan.got \/ KnownText(d, h.pair.text)'
    BY <1>f, <1>u, <2>0, <1>g, SMTT(20)
  <2> QED BY <2>0, <2>1, <2>2, <2>3, <2>4, <2>5, TextKeeps
<1>7. WholeOf(d)'
  BY <1>5, <1>f, <1>u, <1>g, SMTT(20) DEF DraftInv, WholeOf, Held, KnownPair
<1>8. ScanOf(d)'
  BY <1>b, <1>u DEF ScanOf
<1>9. SettleOf(d)'
  BY <1>f, <1>u DEF SettleOf, Mine, Open
<1>10. FlushOf(d)'
  <2>0. FlushOf(d)
    BY <1>5 DEF DraftInv
  <2>1. Pending(Ui, d) => Open(d)
    BY <1>0 DEF JobInv, UiInv, Pending
  <2>2. (Pending(Ui, d) =>
           /\ \A v \in Threads \ {Ui} : Pending(v, d) => job[v].seq < job[Ui].seq
           /\ job[Ui].seq < newest[d] => "removed" \in spoiled[d])'
    BY <2>0, <2>1, <1>f, <1>g DEF FlushOf
  <2>3. Written(d)' => "removed" \in spoiled'[d]
    BY <1>f, <1>u DEF Written, Open
  <2> QED BY <2>2, <2>3, <1>g DEF FlushOf
<1>11. RetireOf(d)'
  BY <1>5, <1>g, <1>u DEF DraftInv, RetireOf
<1>12. AdvanceOf(d)'
  <2>0. AdvanceOf(d)
    BY <1>5 DEF DraftInv
  <2> SUFFICES ASSUME d \notin overlap PROVE AdvanceOf(d)'
    BY <1>u DEF AdvanceOf
  <2>1. (Mine(d) =>
          /\ \A u \in Threads : Pending(u, d) => job[u].snap.text <= note[d].text
          /\ \A pair \in entry[d] : pair.text <= note[d].text)'
    BY <2>0, <1>g, <1>u DEF AdvanceOf, Mine, Open
  <2>2. (\A v, u \in Threads :
          /\ Pending(v, d) /\ Pending(u, d)
          /\ job[v].seq <= job[u].seq /\ job[u].snap.text # Alien
          => job[v].snap.text <= job[u].snap.text)'
    BY <2>0, <1>g DEF AdvanceOf
  <2> QED BY <2>1, <2>2, <1>g DEF AdvanceOf
<1>13. DraftInv(d)'
  BY <1>6, <1>7, <1>8, <1>9, <1>10, <1>11, <1>12 DEF DraftInv
<1> QED BY <1>1, <1>2, <1>3, <1>4, <1>13 DEF Inv

\* The two outcomes of the replacement.
Replaces(t) ==
  LET d == job[t].draft IN
  /\ job[t].pc = "replace" /\ Goes(t, "text")
  /\ entry' = [entry EXCEPT ![d] = {job[t].snap}]
  /\ newest' = [newest EXCEPT ![d] = job[t].seq]
  /\ spoiled' = IF Snapshot(d) = job[t].snap /\ Newest(t) THEN [spoiled EXCEPT ![d] = {}]
                ELSE spoiled
  /\ UNCHANGED <<md, sidecar, folder, note, armed, flush, scan, seq, named, retired,
                 pairs, overlap, moves>>

ReplaceFails(t) ==
  LET d == job[t].draft IN
  /\ job[t].pc = "replace" /\ Done(t) /\ Move
  /\ spoiled' = [spoiled EXCEPT ![d] = spoiled[d] \cup {"failed"}]
  /\ flush' = IF t = Ui THEN [flush EXCEPT !.failed = TRUE] ELSE flush
  /\ UNCHANGED <<entry, md, sidecar, folder, note, armed, scan, newest, seq, named,
                 retired, pairs, overlap>>

LEMMA ReplaceOutcomes ==
  ASSUME NEW t \in Threads, ReplaceEntry(t)
  PROVE  Replaces(t) \/ ReplaceFails(t)
<1>1. PICK ok \in BOOLEAN :
        /\ Outcome(ok)
        /\ IF ok
           THEN /\ entry' = [entry EXCEPT ![job[t].draft] = {job[t].snap}]
                /\ newest' = [newest EXCEPT ![job[t].draft] = job[t].seq]
                /\ spoiled' = IF Snapshot(job[t].draft) = job[t].snap /\ Newest(t)
                              THEN [spoiled EXCEPT ![job[t].draft] = {}] ELSE spoiled
                /\ Goes(t, "text")
                /\ UNCHANGED flush
           ELSE /\ spoiled' = [spoiled EXCEPT ![job[t].draft] = @ \cup {"failed"}]
                /\ Done(t)
                /\ flush' = IF t = Ui THEN [flush EXCEPT !.failed = TRUE] ELSE flush
                /\ UNCHANGED <<entry, newest>>
  BY DEF ReplaceEntry
<1>2. job[t].pc = "replace"
      /\ UNCHANGED <<md, sidecar, folder, note, armed, scan, seq, named, retired,
                     pairs, overlap>>
  BY DEF ReplaceEntry
<1>3. CASE ok
  BY <1>1, <1>2, <1>3 DEF Replaces, Outcome
<1>4. CASE ~ok
  BY <1>1, <1>2, <1>4 DEF ReplaceFails, Outcome
<1> QED BY <1>3, <1>4

\* The entry is the snapshot of the write, and the write is the newest.
LEMMA ReplacesKeeps ==
  ASSUME Inv, NEW t \in Threads, Replaces(t)
  PROVE  Inv'
<1> USE AlienFacts, ThreadFacts
<1>0. Typed /\ JobInv /\ FolderInv
  BY DEF Inv
<1>jf. JobFields
  BY <1>0, TypedHasFields DEF Fields
<1>nf. NoteFields /\ NewestFields
  BY <1>0, TypedHasFields DEF Fields
<1>pf. PairsFields /\ FileFields
  BY <1>0, TypedHasFields DEF Fields
<1>sf. ScanFields /\ FlushFields
  BY <1>0, TypedHasFields DEF Fields
<1>u. UNCHANGED <<md, sidecar, folder, note, armed, flush, scan, seq, named, retired,
    pairs, overlap, moves>>
  BY DEF Replaces, files, histories
<1>a. PICK d \in Drafts : job[t].draft = d
  BY <1>jf DEF JobFields
<1>b. /\ d \in overlap \/ (scan.cur = {} /\ scan.got = {})
      /\ job[t].pc # "free"
  BY <1>0, <1>a DEF FolderInv, Busy, Replaces
<1>c. /\ job[t].kind = "write" /\ job[t].seq \in Nat /\ job[t].seq < seq
      /\ newest[d] <= job[t].seq /\ job[t].snap \in Pair /\ job[t].pc = "replace"
      /\ \A u \in Threads : u # t /\ HasLock(u) => job[u].draft # d
  <2>1. job[t].pc = "replace"
    BY DEF Replaces
  <2>2. HasLock(t) /\ JobOf(t) /\ LockInv
    BY <1>0, <2>1 DEF HasLock, JobInv
  <2> QED BY <1>a, <1>jf, <1>nf, <2>1, <2>2 DEF JobOf, LockInv, JobFields, NewestFields
<1>f. /\ job[t].pc = "replace" /\ job[t].kind = "write" /\ job[t].draft = d
      /\ job' \in [Threads -> Jobs]
      /\ \A u \in Threads : u # t => job'[u] = job[u]
      /\ job'[t].pc = "text" /\ job'[t].kind = "write" /\ job'[t].draft = d
      /\ job'[t].seq = job[t].seq /\ job'[t].snap = job[t].snap
      /\ entry' \in [Drafts -> AtMostOne(Pair)]
      /\ entry'[d] = {job[t].snap}
      /\ \A e \in Drafts : e # d => entry'[e] = entry[e]
      /\ newest'[d] = job[t].seq
      /\ newest' \in [Drafts -> 0 .. seq - 1]
      /\ \A e \in Drafts : e # d => newest'[e] = newest[e]
      /\ spoiled' \in [Drafts -> SUBSET {"failed", "removed"}]
      /\ \A e \in Drafts : e # d => spoiled'[e] = spoiled[e]
      /\ \/ spoiled'[d] = spoiled[d]
         \/ Snapshot(d) = job[t].snap /\ Newest(t)
      /\ Snapshot(d) = job[t].snap /\ Newest(t) => spoiled'[d] = {}
  <2>1. /\ Goes(t, "text") /\ entry' = [entry EXCEPT ![d] = {job[t].snap}]
        /\ newest' = [newest EXCEPT ![d] = job[t].seq]
    BY <1>a DEF Replaces
  <2>2. /\ newest \in [Drafts -> 0 .. seq - 1] /\ seq \in Nat
        /\ spoiled \in [Drafts -> SUBSET {"failed", "removed"}]
        /\ entry \in [Drafts -> AtMostOne(Pair)]
        /\ {job[t].snap} \in AtMostOne(Pair)
    BY <1>0, <1>c, OneFacts DEF Typed
  <2>3. newest' \in [Drafts -> 0 .. seq - 1]
    BY <1>c, <2>1, <2>2
  <2>4. /\ spoiled' \in [Drafts -> SUBSET {"failed", "removed"}]
        /\ \A e \in Drafts : e # d => spoiled'[e] = spoiled[e]
        /\ \/ spoiled'[d] = spoiled[d]
           \/ Snapshot(d) = job[t].snap /\ Newest(t)
        /\ Snapshot(d) = job[t].snap /\ Newest(t) => spoiled'[d] = {}
    <3>1. Snapshot(d) = job[t].snap /\ Newest(t) => spoiled' = [spoiled EXCEPT ![d] = {}]
      BY <1>a DEF Replaces
    <3>2. ~(Snapshot(d) = job[t].snap /\ Newest(t)) => spoiled' = spoiled
      BY <1>a DEF Replaces
    <3> QED BY <2>2, <3>1, <3>2
  <2>5. /\ job' \in [Threads -> Jobs]
        /\ \A u \in Threads : u # t => job'[u] = job[u]
        /\ job'[t].pc = "text" /\ job'[t].kind = "write" /\ job'[t].draft = d
        /\ job'[t].seq = job[t].seq /\ job'[t].snap = job[t].snap
    BY <1>0, <1>a, <1>c, <2>1, GoesFacts
  <2>6. entry' \in [Drafts -> AtMostOne(Pair)] /\ entry'[d] = {job[t].snap}
        /\ \A e \in Drafts : e # d => entry'[e] = entry[e]
    BY <2>1, <2>2
  <2> QED BY <1>a, <1>c, <2>1, <2>2, <2>3, <2>4, <2>5, <2>6
<1>g. \A u \in Threads : /\ Pending(u, d)' <=> Pending(u, d) /\ u # t
                         /\ Pending(u, d)' => job'[u] = job[u]
                         /\ Removing(u, d)' <=> Removing(u, d)
                         /\ ~Begun(u, d) /\ ~Begun(u, d)'
                         /\ Live(u, d)' =>
                              Live(u, d) /\ u # t /\ job[t].seq <= job[u].seq
  <2>1. \A u \in Threads : /\ Pending(u, d)' <=> Pending(u, d) /\ u # t
                           /\ Pending(u, d)' => job'[u] = job[u]
                           /\ Removing(u, d)' <=> Removing(u, d)
    BY <1>f DEF Pending, Removing
  <2>2. \A u \in Threads : ~Begun(u, d)
    BY <1>c, <1>f, <1>jf DEF Begun, Removing, HasLock, JobFields
  <2>3. \A u \in Threads : ~Begun(u, d)'
    BY <2>2, <1>f DEF Begun, Removing
  <2>4. ASSUME NEW u \in Threads, Live(u, d)'
        PROVE  Live(u, d) /\ u # t /\ job[t].seq <= job[u].seq
    <3>1. Pending(u, d) /\ u # t /\ job'[u].seq = job[u].seq /\ job[u].seq >= job[t].seq
      BY <2>1, <2>4, <1>f DEF Live
    <3> QED BY <3>1, <1>c, <1>jf, <1>nf DEF Live, JobFields, NewestFields
  <2> QED BY <2>1, <2>2, <2>3, <2>4
<1>h. Pending(t, d) /\ Live(t, d) /\ ~Pending(t, d)'
  BY <1>c, <1>f, <1>nf DEF Pending, Live, NewestFields
<1>1. Typed'
  BY <1>0, <1>f, <1>u, SMTT(20) DEF Typed
<1>2. JobInv'
  <2>1. \A u \in Threads : JobOf(u)'
    <3> SUFFICES ASSUME NEW u \in Threads PROVE JobOf(u)'
      OBVIOUS
    <3>0. JobOf(u)
      BY <1>0 DEF JobInv
    <3>1. ASSUME u = t PROVE JobOf(u)'
      BY <3>0, <3>1, <1>jf, <1>nf, <1>f, <1>u, <1>c, SMTT(40)
         DEF JobOf, Removing, NewestFields, JobFields
    <3>2. ASSUME u # t PROVE JobOf(u)'
      <4>1. job'[u] = job[u] /\ job[u].draft \in Drafts /\ job[u].seq \in Nat
        BY <3>2, <1>f, <1>jf DEF JobFields
      <4>2. job[u].pc \notin {"free", "lock"} =>
               /\ newest'[job[u].draft] = newest[job[u].draft]
               /\ entry'[job[u].draft] = entry[job[u].draft]
        BY <3>2, <4>1, <1>f, <1>c DEF HasLock
      <4> QED BY <3>0, <4>1, <4>2, <1>u, <1>nf DEF JobOf, Removing, NewestFields
    <3> QED BY <3>1, <3>2
  <2>2. LockInv'
    BY <1>0, <1>jf, <1>f, <1>u, SMTT(20) DEF JobInv, LockInv, HasLock
  <2>3. UiInv'
    BY <1>0, <1>jf, <1>f, <1>u, SMTT(20) DEF JobInv, UiInv, Open, Snapshot
  <2> QED BY <2>1, <2>2, <2>3 DEF JobInv
<1>3. FolderInv'
  BY <1>0, <1>jf, <1>f, <1>u, SMTT(20) DEF FolderInv, Busy, Open
<1>4. ASSUME NEW e \in Drafts, e # d
      PROVE  DraftInv(e)'
  <2>1. Untouched(e)
    BY <1>0, <1>4, <1>f, <1>u, SMTT(20) DEF Untouched, Typed
  <2> QED BY <1>4, <1>pf, <2>1, UntouchedKeeps DEF Inv
<1>5. DraftInv(d)
  BY DEF Inv
<1>6. TextOf(d)'
  <2>0. TextOf(d)
    BY <1>5 DEF DraftInv
  <2>1. /\ pairs[d] \subseteq pairs'[d]
        /\ \A pair \in pairs'[d] : pair.text <= moves' + 1
    BY <1>f, <1>u, <2>0, <1>g, <1>pf, <1>0, SMTT(20) DEF TextOf, PairsFields, Typed
  <2>2. note'[d].at # "none" => KnownPair(d, Snapshot(d))'
    BY <1>f, <1>u, <2>0, <1>g, SMTT(20) DEF TextOf, KnownPair, Snapshot
  <2>3. /\ \A pair \in entry'[d] : pair \in entry[d] \/ KnownPair(d, pair)'
        /\ md'[d] \subseteq md[d]
    <3>1. KnownPair(d, job[t].snap)
      BY <2>0, <1>h DEF TextOf
    <3> QED BY <3>1, <1>f, <1>u DEF KnownPair
  <2>4. \A v \in Threads : Pending(v, d)' =>
          \/ Pending(v, d) /\ job'[v].snap = job[v].snap
          \/ KnownPair(d, job[v].snap)'
    BY <1>g
  <2>5. /\ d \in scan'.cur /\ scan'.pc = "target" =>
              \/ d \in scan.cur /\ scan.pc = "target" /\ scan'.text = scan.text
              \/ KnownText(d, scan.text)'
        /\ \A h \in scan'.got : h.draft = d => h \in scan.got \/ KnownText(d, h.pair.text)'
    BY <1>f, <1>u, <2>0, <1>g, SMTT(20)
  <2> QED BY <2>0, <2>1, <2>2, <2>3, <2>4, <2>5, TextKeeps
<1>7. WholeOf(d)'
  <2>1. KnownPair(d, job[t].snap)
    BY <1>5, <1>h DEF DraftInv, TextOf
  <2>2. Held(d)' = {job[t].snap}
    BY <1>f DEF Held
  <2> QED BY <2>1, <2>2, <1>u DEF WholeOf, KnownPair
<1>8. ScanOf(d)'
  BY <1>b, <1>u DEF ScanOf
<1>9. SettleOf(d)'
  <2>0. SettleOf(d)
    BY <1>5 DEF DraftInv
  <2> SUFFICES ASSUME Mine(d), note[d].dirty, d \notin armed, spoiled'[d] = {}
               PROVE  LastIsWritten(d)'
    BY <1>u DEF SettleOf, Mine, Open
  <2>1. CASE Snapshot(d) = job[t].snap /\ Newest(t)
    <3>1. \A u \in Threads : Pending(u, d)' => ~(job'[u].seq >= job[t].seq)
      BY <2>1, <1>g, <1>a, <1>c, <1>jf DEF Newest, Pending, JobFields
    <3>2. job[t].snap.text = note[d].text
      BY <2>1 DEF Snapshot
    <3> QED BY <3>1, <3>2, <1>f, <1>u, <1>c DEF LastIsWritten
  <2>2. CASE spoiled'[d] = spoiled[d]
    <3>1. PICK s \in Nat :
            /\ \A u \in Threads :
                  Pending(u, d) /\ job[u].seq >= s => job[u].snap.text = note[d].text
            /\ IF newest[d] >= s THEN \E pair \in entry[d] : pair.text = note[d].text
               ELSE \E u \in Threads : Pending(u, d) /\ job[u].seq >= s
      BY <2>0, <2>2 DEF SettleOf, LastIsWritten
    <3>2. \A u \in Threads :
            Pending(u, d)' /\ job'[u].seq >= s => job'[u].snap.text = note[d].text
      BY <3>1, <1>g
    <3>3. job[t].seq >= s => \E pair \in entry'[d] : pair.text = note[d].text
      BY <3>1, <1>h, <1>f
    <3>4. ~(job[t].seq >= s) => \E u \in Threads : Pending(u, d)' /\ job'[u].seq >= s
      <4> SUFFICES ASSUME ~(job[t].seq >= s)
                   PROVE  \E u \in Threads : Pending(u, d)' /\ job'[u].seq >= s
        OBVIOUS
      <4>1. ~(newest[d] >= s)
        BY <1>c, <1>nf DEF NewestFields
      <4>2. PICK u \in Threads : Pending(u, d) /\ job[u].seq >= s
        BY <3>1, <4>1
      <4> QED BY <4>2, <1>g
    <3> QED BY <3>2, <3>3, <3>4, <1>f, <1>u DEF LastIsWritten
  <2> QED BY <2>1, <2>2, <1>f
<1>10. FlushOf(d)'
  <2>0. FlushOf(d)
    BY <1>5 DEF DraftInv
  <2>1. Snapshot(d)' = Snapshot(d)
    BY <1>u DEF Snapshot
  <2>2. (Pending(Ui, d) =>
           /\ \A v \in Threads \ {Ui} : Pending(v, d) => job[v].seq < job[Ui].seq
           /\ job[Ui].seq < newest[d] => "removed" \in spoiled[d])'
    <3> SUFFICES ASSUME Pending(Ui, d)'
                 PROVE  (/\ \A v \in Threads \ {Ui} : Pending(v, d) => job[v].seq < job[Ui].seq
                         /\ job[Ui].seq < newest[d] => "removed" \in spoiled[d])'
      OBVIOUS
    <3>1. Pending(Ui, d) /\ t # Ui /\ job[t].seq < job[Ui].seq
      BY <2>0, <1>g, <1>h DEF FlushOf
    <3>2. ~(job'[Ui].seq < newest'[d])
      BY <3>1, <1>f, <1>g, <1>jf, <1>c DEF JobFields
    <3> QED BY <2>0, <3>1, <3>2, <1>g DEF FlushOf
  <2>3. ASSUME Written(d)', spoiled'[d] = {} \/ (spoiled'[d] = {"failed"} /\ ~flush'.failed)
        PROVE  entry'[d] = {Snapshot(d)} /\ \A u \in Threads : ~Live(u, d)'
    <3>1. CASE t = Ui
      <4>1. job[t].snap = Snapshot(d)
        BY <3>1, <1>0, <1>a, <1>f DEF JobInv, UiInv
      <4>2. \A u \in Threads : u # t /\ Pending(u, d) => job[u].seq < job[t].seq
        BY <2>0, <3>1, <1>h DEF FlushOf
      <4>3. ASSUME NEW u \in Threads, Live(u, d)'
            PROVE  FALSE
        <5>1. Live(u, d) /\ u # t /\ job[t].seq <= job[u].seq
          BY <4>3, <1>g
        <5> QED BY <5>1, <4>2, <1>jf, <1>c DEF Live, JobFields
      <4> QED BY <4>1, <4>3, <1>f
    <3>2. CASE t # Ui
      <4>1. Written(d)
        BY <3>2, <2>3, <1>g, <1>u DEF Written, Open
      <4>2. ~(spoiled[d] = {} \/ (spoiled[d] = {"failed"} /\ ~flush.failed))
        BY <2>0, <4>1, <1>h DEF FlushOf
      <4>3. Snapshot(d) = job[t].snap /\ Newest(t)
        BY <2>3, <4>2, <1>f, <1>u
      <4>4. ASSUME NEW u \in Threads, Live(u, d)'
            PROVE  FALSE
        <5>1. Live(u, d) /\ u # t /\ job[t].seq <= job[u].seq
          BY <4>4, <1>g
        <5> QED BY <5>1, <4>3, <1>a, <1>jf, <1>c DEF Live, Pending, Newest, JobFields
      <4> QED BY <4>3, <4>4, <1>f
    <3> QED BY <3>1, <3>2
  <2> QED BY <2>1, <2>2, <2>3, <1>g DEF FlushOf
<1>11. RetireOf(d)'
  BY <1>5, <1>g, <1>h, <1>u DEF DraftInv, RetireOf
<1>12. AdvanceOf(d)'
  <2>0. AdvanceOf(d)
    BY <1>5 DEF DraftInv
  <2> SUFFICES ASSUME d \notin overlap PROVE AdvanceOf(d)'
    BY <1>u DEF AdvanceOf
  <2>1. (Mine(d) =>
          /\ \A u \in Threads : Pending(u, d) => job[u].snap.text <= note[d].text
          /\ \A pair \in entry[d] : pair.text <= note[d].text)'
    BY <2>0, <1>g, <1>f, <1>h, <1>u DEF AdvanceOf, Mine, Open
  <2>2. (\A v, u \in Threads :
          /\ Pending(v, d) /\ Pending(u, d)
          /\ job[v].seq <= job[u].seq /\ job[u].snap.text # Alien
          => job[v].snap.text <= job[u].snap.text)'
    BY <2>0, <1>g DEF AdvanceOf
  <2>3. (\A u \in Threads : Live(u, d) /\ job[u].snap.text # Alien =>
          \A pair \in entry[d] : pair.text <= job[u].snap.text)'
    <3> SUFFICES ASSUME NEW u \in Threads, Live(u, d)', job'[u].snap.text # Alien
                 PROVE  job[t].snap.text <= job'[u].snap.text
      BY <1>f
    <3>1. Live(u, d) /\ u # t /\ job[t].seq <= job[u].seq /\ job'[u] = job[u]
      BY <1>g DEF Live
    <3>2. Pending(u, d) /\ Pending(t, d)
      BY <3>1, <1>h DEF Live
    <3> QED BY <2>0, <3>1, <3>2 DEF AdvanceOf
  <2> QED BY <2>1, <2>2, <2>3 DEF AdvanceOf
<1>13. DraftInv(d)'
  BY <1>6, <1>7, <1>8, <1>9, <1>10, <1>11, <1>12 DEF DraftInv
<1> QED BY <1>1, <1>2, <1>3, <1>4, <1>13 DEF Inv

\* A write that failed is given up, and the window remembers a failure of
\* its own.
LEMMA ReplaceFailsKeeps ==
  ASSUME Inv, NEW t \in Threads, ReplaceFails(t)
  PROVE  Inv'
<1> USE AlienFacts, ThreadFacts
<1>0. Typed /\ JobInv /\ FolderInv
  BY DEF Inv
<1>jf. JobFields
  BY <1>0, TypedHasFields DEF Fields
<1>nf. NoteFields /\ NewestFields
  BY <1>0, TypedHasFields DEF Fields
<1>pf. PairsFields /\ FileFields
  BY <1>0, TypedHasFields DEF Fields
<1>sf. ScanFields /\ FlushFields
  BY <1>0, TypedHasFields DEF Fields
<1>u. UNCHANGED <<entry, md, sidecar, folder, note, armed, scan, newest, seq, named,
    retired, pairs, overlap>>
  BY DEF ReplaceFails, files, histories
<1>a. PICK d \in Drafts : job[t].draft = d
  BY <1>jf DEF JobFields
<1>b. /\ d \in overlap \/ (scan.cur = {} /\ scan.got = {})
      /\ job[t].pc # "free"
  BY <1>0, <1>a DEF FolderInv, Busy, ReplaceFails
<1>c. /\ JobOf(t) /\ job[t].pc \notin {"free", "lock"}
      /\ \A u \in Threads : u # t /\ HasLock(u) => job[u].draft # d
  <2>1. job[t].pc \notin {"free", "lock"}
    BY DEF ReplaceFails
  <2>2. HasLock(t) /\ JobOf(t) /\ LockInv
    BY <1>0, <2>1 DEF HasLock, JobInv
  <2> QED BY <1>a, <2>1, <2>2 DEF LockInv
<1>d. /\ job[t].pc = "replace" /\ job[t].kind = "write" /\ newest[d] <= job[t].seq
  BY <1>a, <1>c, <1>jf, <1>nf DEF ReplaceFails, JobOf, JobFields, NewestFields
<1>f. /\ job[t].pc = "replace" /\ job[t].kind = "write" /\ job[t].draft = d
      /\ job' \in [Threads -> Jobs] /\ job'[t].pc = "free"
      /\ \A u \in Threads : u # t => job'[u] = job[u]
      /\ spoiled' \in [Drafts -> SUBSET {"failed", "removed"}]
      /\ \A e \in Drafts : e # d => spoiled'[e] = spoiled[e]
      /\ spoiled'[d] = spoiled[d] \cup {"failed"}
      /\ flush' \in Flushes /\ flush'.todo = flush.todo /\ flush'.after = flush.after
      /\ flush.failed => flush'.failed
      /\ t = Ui => flush'.failed
      /\ t # Ui => flush' = flush
      /\ moves \in 0 .. Budget /\ moves' \in 0 .. Budget /\ moves <= moves'
  <2> DEFINE T == TRUE
  <2>0. T \in BOOLEAN /\ T
    OBVIOUS
  <2>1. /\ Done(t) /\ Move
        /\ spoiled' = [spoiled EXCEPT ![d] = spoiled[d] \cup {"failed"}]
        /\ t = Ui => flush' = [flush EXCEPT !.failed = T]
        /\ t # Ui => flush' = flush
    BY <1>a DEF ReplaceFails
  <2> HIDE DEF T
  <2>2. /\ spoiled \in [Drafts -> SUBSET {"failed", "removed"}] /\ flush \in Flushes
        /\ moves \in 0 .. Budget
    BY <1>0 DEF Typed
  <2>3. /\ flush' \in Flushes /\ flush'.todo = flush.todo /\ flush'.after = flush.after
        /\ t = Ui => flush'.failed = T
    BY <2>0, <2>1, <2>2 DEF Flushes
  <2>4. /\ job' \in [Threads -> Jobs] /\ job'[t].pc = "free"
        /\ \A u \in Threads : u # t => job'[u] = job[u]
    BY <1>0, <2>1, DoneFacts
  <2>5. /\ spoiled' \in [Drafts -> SUBSET {"failed", "removed"}]
        /\ \A e \in Drafts : e # d => spoiled'[e] = spoiled[e]
        /\ spoiled'[d] = spoiled[d] \cup {"failed"}
    BY <2>1, <2>2
  <2>6. (t = Ui => flush'.failed) /\ (flush.failed => flush'.failed)
    BY <2>0, <2>1, <2>3
  <2>7. moves' \in 0 .. Budget /\ moves <= moves'
    BY <2>1, <2>2 DEF Move
  <2> QED BY <1>a, <1>d, <2>1, <2>2, <2>3, <2>4, <2>5, <2>6, <2>7
<1>g. \A u \in Threads : /\ Pending(u, d)' <=> Pending(u, d) /\ u # t
                         /\ Pending(u, d)' => job'[u] = job[u]
                         /\ Removing(u, d)' <=> Removing(u, d)
                         /\ ~Begun(u, d) /\ ~Begun(u, d)'
                         /\ Live(u, d)' => Live(u, d)
  <2>1. \A u \in Threads : /\ Pending(u, d)' <=> Pending(u, d) /\ u # t
                           /\ Pending(u, d)' => job'[u] = job[u]
                           /\ Removing(u, d)' <=> Removing(u, d)
    BY <1>f DEF Pending, Removing
  <2>2. \A u \in Threads : ~Begun(u, d)
    BY <1>c, <1>f, <1>jf DEF Begun, Removing, HasLock, JobFields
  <2>3. \A u \in Threads : ~Begun(u, d)'
    BY <2>2, <1>f DEF Begun, Removing
  <2> QED BY <2>1, <2>2, <2>3, <1>u DEF Live
<1>h. Pending(t, d) /\ Live(t, d) /\ ~Pending(t, d)'
  BY <1>d, <1>f, <1>jf, <1>nf DEF Pending, Live, NewestFields, JobFields
<1>1. Typed'
  BY <1>0, <1>f, <1>u, SMTT(20) DEF Typed
<1>2. JobInv'
  <2>1. \A u \in Threads : JobOf(u)'
    <3> SUFFICES ASSUME NEW u \in Threads PROVE JobOf(u)'
      OBVIOUS
    <3>0. JobOf(u)
      BY <1>0 DEF JobInv
    <3>1. ASSUME u = t PROVE JobOf(u)'
      BY <3>0, <3>1, <1>jf, <1>nf, <1>f, <1>u, SMTT(60) DEF JobOf, Removing, HasLock,
          NewestFields, JobFields
    <3>2. ASSUME u # t PROVE JobOf(u)'
      BY <3>0, <3>2, <1>jf, <1>nf, <1>f, <1>u, SMTT(60) DEF JobOf, Removing, HasLock,
          NewestFields, JobFields
    <3> QED BY <3>1, <3>2
  <2>2. LockInv'
    BY <1>0, <1>jf, <1>f, <1>u, SMTT(20) DEF JobInv, LockInv, HasLock
  <2>3. UiInv'
    BY <1>0, <1>jf, <1>f, <1>u, SMTT(20) DEF JobInv, UiInv, Open, Snapshot
  <2> QED BY <2>1, <2>2, <2>3 DEF JobInv
<1>3. FolderInv'
  BY <1>0, <1>jf, <1>f, <1>u, SMTT(20) DEF FolderInv, Busy, Open
<1>4. ASSUME NEW e \in Drafts, e # d
      PROVE  DraftInv(e)'
  <2>1. Untouched(e)
    BY <1>0, <1>4, <1>f, <1>u, SMTT(20) DEF Untouched, Typed
  <2> QED BY <1>4, <1>pf, <2>1, UntouchedKeeps DEF Inv
<1>5. DraftInv(d)
  BY DEF Inv
<1>6. TextOf(d)'
  <2>0. TextOf(d)
    BY <1>5 DEF DraftInv
  <2>1. /\ pairs[d] \subseteq pairs'[d]
        /\ \A pair \in pairs'[d] : pair.text <= moves' + 1
    BY <1>f, <1>u, <2>0, <1>g, <1>pf, <1>0, SMTT(20) DEF TextOf, PairsFields, Typed
  <2>2. note'[d].at # "none" => KnownPair(d, Snapshot(d))'
    BY <1>f, <1>u, <2>0, <1>g, SMTT(20) DEF TextOf, KnownPair, Snapshot
  <2>3. /\ \A pair \in entry'[d] : pair \in entry[d] \/ KnownPair(d, pair)'
        /\ md'[d] \subseteq md[d]
    BY <1>f, <1>u, <2>0, <1>g, SMTT(20)
  <2>4. \A v \in Threads : Pending(v, d)' =>
          \/ Pending(v, d) /\ job'[v].snap = job[v].snap
          \/ KnownPair(d, job[v].snap)'
    BY <1>g
  <2>5. /\ d \in scan'.cur /\ scan'.pc = "target" =>
              \/ d \in scan.cur /\ scan.pc = "target" /\ scan'.text = scan.text
              \/ KnownText(d, scan.text)'
        /\ \A h \in scan'.got : h.draft = d => h \in scan.got \/ KnownText(d, h.pair.text)'
    BY <1>f, <1>u, <2>0, <1>g, SMTT(20)
  <2> QED BY <2>0, <2>1, <2>2, <2>3, <2>4, <2>5, TextKeeps
<1>7. WholeOf(d)'
  BY <1>5, <1>f, <1>u, <1>g, SMTT(20) DEF DraftInv, WholeOf, Held, KnownPair
<1>8. ScanOf(d)'
  BY <1>b, <1>u DEF ScanOf
<1>9. SettleOf(d)'
  BY <1>f DEF SettleOf
<1>10. FlushOf(d)'
  <2>0. FlushOf(d)
    BY <1>5 DEF DraftInv
  <2>2. (Pending(Ui, d) =>
           /\ \A v \in Threads \ {Ui} : Pending(v, d) => job[v].seq < job[Ui].seq
           /\ job[Ui].seq < newest[d] => "removed" \in spoiled[d])'
    BY <2>0, <1>f, <1>g, <1>u DEF FlushOf
  <2>3. ASSUME Written(d)', spoiled'[d] = {} \/ (spoiled'[d] = {"failed"} /\ ~flush'.failed)
        PROVE  FALSE
    <3>1. t # Ui /\ flush' = flush
      BY <2>3, <1>f
    <3>2. Written(d)
      BY <2>3, <3>1, <1>g, <1>u DEF Written, Open
    <3>3. spoiled[d] = {} \/ (spoiled[d] = {"failed"} /\ ~flush.failed)
      <4>1. spoiled[d] \subseteq {"failed"}
        BY <2>3, <1>f
      <4> QED BY <4>1, <2>3, <3>1, <1>f
    <3> QED BY <2>0, <3>2, <3>3, <1>h DEF FlushOf
  <2> QED BY <2>2, <2>3, <1>g DEF FlushOf
<1>11. RetireOf(d)'
  BY <1>5, <1>g, <1>h, <1>u DEF DraftInv, RetireOf
<1>12. AdvanceOf(d)'
  <2>0. AdvanceOf(d)
    BY <1>5 DEF DraftInv
  <2> SUFFICES ASSUME d \notin overlap PROVE AdvanceOf(d)'
    BY <1>u DEF AdvanceOf
  <2>1. (Mine(d) =>
          /\ \A u \in Threads : Pending(u, d) => job[u].snap.text <= note[d].text
          /\ \A pair \in entry[d] : pair.text <= note[d].text)'
    BY <2>0, <1>g, <1>u DEF AdvanceOf, Mine, Open
  <2>2. (\A v, u \in Threads :
          /\ Pending(v, d) /\ Pending(u, d)
          /\ job[v].seq <= job[u].seq /\ job[u].snap.text # Alien
          => job[v].snap.text <= job[u].snap.text)'
    BY <2>0, <1>g DEF AdvanceOf
  <2>3. (\A u \in Threads : Live(u, d) /\ job[u].snap.text # Alien =>
          \A pair \in entry[d] : pair.text <= job[u].snap.text)'
    BY <2>0, <1>g, <1>u DEF AdvanceOf, Live
  <2> QED BY <2>1, <2>2, <2>3 DEF AdvanceOf
<1>13. DraftInv(d)'
  BY <1>6, <1>7, <1>8, <1>9, <1>10, <1>11, <1>12 DEF DraftInv
<1> QED BY <1>1, <1>2, <1>3, <1>4, <1>13 DEF Inv

\* The text of an older version goes; a removal ends where it cannot.
LEMMA RemoveTextKeeps ==
  ASSUME Inv, NEW t \in Threads, RemoveText(t)
  PROVE  Inv'
<1> USE AlienFacts, ThreadFacts
<1>0. Typed /\ JobInv /\ FolderInv
  BY DEF Inv
<1>jf. JobFields
  BY <1>0, TypedHasFields DEF Fields
<1>nf. NoteFields /\ NewestFields
  BY <1>0, TypedHasFields DEF Fields
<1>pf. PairsFields /\ FileFields
  BY <1>0, TypedHasFields DEF Fields
<1>sf. ScanFields /\ FlushFields
  BY <1>0, TypedHasFields DEF Fields
<1>u. UNCHANGED <<entry, sidecar, folder, note, armed, flush, scan, newest, seq,
    named, retired, spoiled, pairs, overlap>>
  BY DEF RemoveText, files, histories
<1>a. PICK d \in Drafts : job[t].draft = d
  BY <1>jf DEF JobFields
<1>b. /\ d \in overlap \/ (scan.cur = {} /\ scan.got = {})
      /\ job[t].pc # "free"
  BY <1>0, <1>a DEF FolderInv, Busy, RemoveText
<1>c. /\ JobOf(t) /\ job[t].pc \notin {"free", "lock"}
      /\ \A u \in Threads : u # t /\ HasLock(u) => job[u].draft # d
  <2>1. job[t].pc \notin {"free", "lock"}
    BY DEF RemoveText
  <2>2. HasLock(t) /\ JobOf(t) /\ LockInv
    BY <1>0, <2>1 DEF HasLock, JobInv
  <2> QED BY <1>a, <2>1, <2>2 DEF LockInv
<1>d. /\ md \in [Drafts -> AtMostOne(Text)] /\ {} \in AtMostOne(Text)
  BY <1>0, OneFacts DEF Typed
<1>f. /\ job[t].pc = "text" /\ job[t].draft = d
      /\ job' \in [Threads -> Jobs]
      /\ \A u \in Threads : u # t => job'[u] = job[u]
      /\ \/ job'[t].pc = "free"
         \/ /\ job'[t].pc = "target" /\ job'[t].kind = job[t].kind /\ job'[t].draft = d
            /\ job'[t].seq = job[t].seq /\ job'[t].snap = job[t].snap
            /\ job[t].kind = "write" \/ md'[d] = {}
      /\ md' \in [Drafts -> AtMostOne(Text)]
      /\ md'[d] \subseteq md[d]
      /\ \A e \in Drafts : e # d => md'[e] = md[e]
      /\ moves \in 0 .. Budget /\ moves' \in 0 .. Budget /\ moves <= moves'
  <2>1. PICK ok \in BOOLEAN :
          /\ md' = IF ok THEN [md EXCEPT ![d] = {}] ELSE md
          /\ Outcome(ok)
          /\ IF ok \/ job[t].kind = "write" THEN Goes(t, "target") ELSE Done(t)
    BY <1>a DEF RemoveText, Gives
  <2>2. moves \in 0 .. Budget /\ moves' \in 0 .. Budget /\ moves <= moves'
    BY <1>0, <2>1, OutcomeFacts
  <2>3. job[t].pc = "text"
    BY DEF RemoveText
  <2>4. Goes(t, "target") =>
          /\ job' \in [Threads -> Jobs]
          /\ \A u \in Threads : u # t => job'[u] = job[u]
          /\ job'[t].pc = "target" /\ job'[t].kind = job[t].kind
          /\ job'[t].draft = job[t].draft
          /\ job'[t].seq = job[t].seq /\ job'[t].snap = job[t].snap
    BY <1>0, GoesFacts
  <2>5. Done(t) =>
          /\ job' \in [Threads -> Jobs] /\ job'[t].pc = "free"
          /\ \A u \in Threads : u # t => job'[u] = job[u]
    BY <1>0, DoneFacts
  <2>6. CASE ok
    <3>1. md' = [md EXCEPT ![d] = {}] /\ Goes(t, "target")
      BY <2>1, <2>6
    <3>2. /\ md' \in [Drafts -> AtMostOne(Text)] /\ md'[d] = {}
          /\ \A e \in Drafts : e # d => md'[e] = md[e]
      BY <1>d, <3>1
    <3> QED BY <1>a, <2>2, <2>3, <2>4, <3>1, <3>2
  <2>7. CASE ~ok
    <3>1. md' = md /\ IF job[t].kind = "write" THEN Goes(t, "target") ELSE Done(t)
      BY <2>1, <2>7
    <3> QED BY <1>a, <1>d, <2>2, <2>3, <2>4, <2>5, <3>1
  <2> QED BY <2>6, <2>7
<1>g. \A u \in Threads : /\ Pending(u, d)' <=> Pending(u, d)
                         /\ Pending(u, d) => job'[u] = job[u]
                         /\ Removing(u, d)' => Removing(u, d)
                         /\ Begun(u, d)' => Begun(u, d)
                         /\ Removing(u, d) /\ ~Begun(u, d) =>
                              Removing(u, d)' /\ ~Begun(u, d)'
                         /\ Live(u, d)' <=> Live(u, d)
  BY <1>c, <1>f, <1>u DEF Pending, Removing, Begun, Live
<1>1. Typed'
  BY <1>0, <1>f, <1>u, SMTT(20) DEF Typed
<1>2. JobInv'
  <2>1. \A u \in Threads : JobOf(u)'
    <3> SUFFICES ASSUME NEW u \in Threads PROVE JobOf(u)'
      OBVIOUS
    <3>0. JobOf(u)
      BY <1>0 DEF JobInv
    <3>1. ASSUME u = t PROVE JobOf(u)'
      BY <3>0, <3>1, <1>jf, <1>nf, <1>f, <1>u, SMTT(40)
         DEF JobOf, Removing, NewestFields, JobFields
    <3>2. ASSUME u # t PROVE JobOf(u)'
      <4>1. job'[u] = job[u] /\ job[u].draft \in Drafts
        BY <3>2, <1>f, <1>jf DEF JobFields
      <4>2. job[u].pc \notin {"free", "lock"} =>
               /\ entry'[job[u].draft] = entry[job[u].draft]
               /\ md'[job[u].draft] = md[job[u].draft]
               /\ sidecar'[job[u].draft] = sidecar[job[u].draft]
        BY <3>2, <4>1, <1>f, <1>c, <1>u DEF HasLock
      <4> QED BY <3>0, <4>1, <4>2, <1>u DEF JobOf, Removing
    <3> QED BY <3>1, <3>2
  <2>2. LockInv'
    BY <1>0, <1>jf, <1>f, <1>u, SMTT(20) DEF JobInv, LockInv, HasLock
  <2>3. UiInv'
    BY <1>0, <1>jf, <1>f, <1>u, SMTT(20) DEF JobInv, UiInv, Open, Snapshot
  <2> QED BY <2>1, <2>2, <2>3 DEF JobInv
<1>3. FolderInv'
  BY <1>0, <1>jf, <1>f, <1>u, SMTT(20) DEF FolderInv, Busy, Open
<1>4. ASSUME NEW e \in Drafts, e # d
      PROVE  DraftInv(e)'
  <2>1. Untouched(e)
    BY <1>0, <1>4, <1>f, <1>u, SMTT(20) DEF Untouched, Typed
  <2> QED BY <1>4, <1>pf, <2>1, UntouchedKeeps DEF Inv
<1>5. DraftInv(d)
  BY DEF Inv
<1>6. TextOf(d)'
  <2>0. TextOf(d)
    BY <1>5 DEF DraftInv
  <2>1. /\ pairs[d] \subseteq pairs'[d]
        /\ \A pair \in pairs'[d] : pair.text <= moves' + 1
    BY <1>f, <1>u, <2>0, <1>g, <1>pf, <1>0, SMTT(20) DEF TextOf, PairsFields, Typed
  <2>2. note'[d].at # "none" => KnownPair(d, Snapshot(d))'
    BY <1>f, <1>u, <2>0, <1>g, SMTT(20) DEF TextOf, KnownPair, Snapshot
  <2>3. /\ \A pair \in entry'[d] : pair \in entry[d] \/ KnownPair(d, pair)'
        /\ md'[d] \subseteq md[d]
    BY <1>f, <1>u, <2>0, <1>g, SMTT(20)
  <2>4. \A v \in Threads : Pending(v, d)' =>
          \/ Pending(v, d) /\ job'[v].snap = job[v].snap
          \/ KnownPair(d, job[v].snap)'
    BY <1>g
  <2>5. /\ d \in scan'.cur /\ scan'.pc = "target" =>
              \/ d \in scan.cur /\ scan.pc = "target" /\ scan'.text = scan.text
              \/ KnownText(d, scan.text)'
        /\ \A h \in scan'.got : h.draft = d => h \in scan.got \/ KnownText(d, h.pair.text)'
    BY <1>f, <1>u, <2>0, <1>g, SMTT(20)
  <2> QED BY <2>0, <2>1, <2>2, <2>3, <2>4, <2>5, TextKeeps
<1>7. WholeOf(d)'
  <2>1. Held(d)' \subseteq Held(d)
    BY <1>f, <1>u DEF Held
  <2> QED BY <1>5, <2>1, <1>u DEF DraftInv, WholeOf, KnownPair
<1>8. ScanOf(d)'
  BY <1>b, <1>u DEF ScanOf
<1>9. SettleOf(d)'
  BY <1>5, <1>f, <1>u, <1>g, <1>jf, <1>nf, SMTT(20) DEF DraftInv, SettleOf,
      LastIsWritten, Mine, Open
<1>10. FlushOf(d)'
  BY <1>5, <1>g, <1>u DEF DraftInv, FlushOf, Written, Open, Snapshot
<1>11. RetireOf(d)'
  BY <1>5, <1>g, <1>f, <1>u DEF DraftInv, RetireOf, Open
<1>12. AdvanceOf(d)'
  <2>0. AdvanceOf(d)
    BY <1>5 DEF DraftInv
  <2> SUFFICES ASSUME d \notin overlap PROVE AdvanceOf(d)'
    BY <1>u DEF AdvanceOf
  <2>1. (Mine(d) =>
          /\ \A u \in Threads : Pending(u, d) => job[u].snap.text <= note[d].text
          /\ \A pair \in entry[d] : pair.text <= note[d].text)'
    BY <2>0, <1>g, <1>u DEF AdvanceOf, Mine, Open
  <2>2. (\A v, u \in Threads :
          /\ Pending(v, d) /\ Pending(u, d)
          /\ job[v].seq <= job[u].seq /\ job[u].snap.text # Alien
          => job[v].snap.text <= job[u].snap.text)'
    BY <2>0, <1>g DEF AdvanceOf
  <2>3. (\A u \in Threads : Live(u, d) /\ job[u].snap.text # Alien =>
          \A pair \in entry[d] : pair.text <= job[u].snap.text)'
    BY <2>0, <1>g, <1>u DEF AdvanceOf, Live
  <2> QED BY <2>1, <2>2, <2>3 DEF AdvanceOf
<1>13. DraftInv(d)'
  BY <1>6, <1>7, <1>8, <1>9, <1>10, <1>11, <1>12 DEF DraftInv
<1> QED BY <1>1, <1>2, <1>3, <1>4, <1>13 DEF Inv

\* The sidecar goes; a removal ends where it cannot.
LEMMA RemoveTargetKeeps ==
  ASSUME Inv, NEW t \in Threads, RemoveTarget(t)
  PROVE  Inv'
<1> USE AlienFacts, ThreadFacts
<1>0. Typed /\ JobInv /\ FolderInv
  BY DEF Inv
<1>jf. JobFields
  BY <1>0, TypedHasFields DEF Fields
<1>nf. NoteFields /\ NewestFields
  BY <1>0, TypedHasFields DEF Fields
<1>pf. PairsFields /\ FileFields
  BY <1>0, TypedHasFields DEF Fields
<1>sf. ScanFields /\ FlushFields
  BY <1>0, TypedHasFields DEF Fields
<1>u. UNCHANGED <<entry, md, folder, note, armed, flush, scan, newest, seq, named,
    retired, spoiled, pairs, overlap>>
  BY DEF RemoveTarget, files, histories
<1>a. PICK d \in Drafts : job[t].draft = d
  BY <1>jf DEF JobFields
<1>b. /\ d \in overlap \/ (scan.cur = {} /\ scan.got = {})
      /\ job[t].pc # "free"
  BY <1>0, <1>a DEF FolderInv, Busy, RemoveTarget
<1>c. /\ JobOf(t) /\ job[t].pc \notin {"free", "lock"}
      /\ \A u \in Threads : u # t /\ HasLock(u) => job[u].draft # d
  <2>1. job[t].pc \notin {"free", "lock"}
    BY DEF RemoveTarget
  <2>2. HasLock(t) /\ JobOf(t) /\ LockInv
    BY <1>0, <2>1 DEF HasLock, JobInv
  <2> QED BY <1>a, <2>1, <2>2 DEF LockInv
<1>d. /\ sidecar \in [Drafts -> AtMostOne(Targets)] /\ {} \in AtMostOne(Targets)
  BY <1>0, OneFacts DEF Typed
<1>f. /\ job[t].pc = "target" /\ job[t].draft = d
      /\ job' \in [Threads -> Jobs]
      /\ \A u \in Threads : u # t => job'[u] = job[u]
      /\ \/ job'[t].pc = "free"
         \/ /\ job'[t].pc = "entry" /\ job'[t].kind = job[t].kind /\ job'[t].draft = d
            /\ job'[t].seq = job[t].seq /\ job'[t].snap = job[t].snap
            /\ job[t].kind = "remove" /\ sidecar'[d] = {}
      /\ sidecar' \in [Drafts -> AtMostOne(Targets)]
      /\ sidecar'[d] \subseteq sidecar[d]
      /\ \A e \in Drafts : e # d => sidecar'[e] = sidecar[e]
      /\ moves \in 0 .. Budget /\ moves' \in 0 .. Budget /\ moves <= moves'
  <2>1. PICK ok \in BOOLEAN :
          /\ sidecar' = IF ok THEN [sidecar EXCEPT ![d] = {}] ELSE sidecar
          /\ Outcome(ok)
          /\ IF ok \/ job[t].kind = "write"
             THEN IF job[t].kind = "write" THEN Done(t) ELSE Goes(t, "entry")
             ELSE Done(t)
    BY <1>a DEF RemoveTarget, Gives
  <2>2. moves \in 0 .. Budget /\ moves' \in 0 .. Budget /\ moves <= moves'
    BY <1>0, <2>1, OutcomeFacts
  <2>3. job[t].pc = "target" /\ job[t].kind \in {"write", "remove"}
    BY <1>jf DEF RemoveTarget, JobFields
  <2>4. Goes(t, "entry") =>
          /\ job' \in [Threads -> Jobs]
          /\ \A u \in Threads : u # t => job'[u] = job[u]
          /\ job'[t].pc = "entry" /\ job'[t].kind = job[t].kind
          /\ job'[t].draft = job[t].draft
          /\ job'[t].seq = job[t].seq /\ job'[t].snap = job[t].snap
    BY <1>0, GoesFacts
  <2>5. Done(t) =>
          /\ job' \in [Threads -> Jobs] /\ job'[t].pc = "free"
          /\ \A u \in Threads : u # t => job'[u] = job[u]
    BY <1>0, DoneFacts
  <2>6. CASE ok
    <3>1. /\ sidecar' = [sidecar EXCEPT ![d] = {}]
          /\ IF job[t].kind = "write" THEN Done(t) ELSE Goes(t, "entry")
      BY <2>1, <2>6
    <3>2. /\ sidecar' \in [Drafts -> AtMostOne(Targets)] /\ sidecar'[d] = {}
          /\ \A e \in Drafts : e # d => sidecar'[e] = sidecar[e]
      BY <1>d, <3>1
    <3> QED BY <1>a, <2>2, <2>3, <2>4, <2>5, <3>1, <3>2
  <2>7. CASE ~ok
    <3>1. sidecar' = sidecar /\ Done(t)
      BY <2>1, <2>7
    <3> QED BY <1>a, <1>d, <2>2, <2>3, <2>5, <3>1
  <2> QED BY <2>6, <2>7
<1>g. \A u \in Threads : /\ Pending(u, d)' <=> Pending(u, d)
                         /\ Pending(u, d) => job'[u] = job[u]
                         /\ Removing(u, d)' => Removing(u, d)
                         /\ Begun(u, d)' => Begun(u, d)
                         /\ Removing(u, d) /\ ~Begun(u, d) =>
                              Removing(u, d)' /\ ~Begun(u, d)'
                         /\ Live(u, d)' <=> Live(u, d)
  BY <1>c, <1>f, <1>u DEF Pending, Removing, Begun, Live
<1>1. Typed'
  BY <1>0, <1>f, <1>u, SMTT(20) DEF Typed
<1>2. JobInv'
  <2>1. \A u \in Threads : JobOf(u)'
    <3> SUFFICES ASSUME NEW u \in Threads PROVE JobOf(u)'
      OBVIOUS
    <3>0. JobOf(u)
      BY <1>0 DEF JobInv
    <3>1. ASSUME u = t PROVE JobOf(u)'
      BY <3>0, <3>1, <1>jf, <1>nf, <1>f, <1>u, SMTT(40)
         DEF JobOf, Removing, NewestFields, JobFields
    <3>2. ASSUME u # t PROVE JobOf(u)'
      <4>1. job'[u] = job[u] /\ job[u].draft \in Drafts
        BY <3>2, <1>f, <1>jf DEF JobFields
      <4>2. job[u].pc \notin {"free", "lock"} =>
               /\ entry'[job[u].draft] = entry[job[u].draft]
               /\ md'[job[u].draft] = md[job[u].draft]
               /\ sidecar'[job[u].draft] = sidecar[job[u].draft]
        BY <3>2, <4>1, <1>f, <1>c, <1>u DEF HasLock
      <4> QED BY <3>0, <4>1, <4>2, <1>u DEF JobOf, Removing
    <3> QED BY <3>1, <3>2
  <2>2. LockInv'
    BY <1>0, <1>jf, <1>f, <1>u, SMTT(20) DEF JobInv, LockInv, HasLock
  <2>3. UiInv'
    BY <1>0, <1>jf, <1>f, <1>u, SMTT(20) DEF JobInv, UiInv, Open, Snapshot
  <2> QED BY <2>1, <2>2, <2>3 DEF JobInv
<1>3. FolderInv'
  BY <1>0, <1>jf, <1>f, <1>u, SMTT(20) DEF FolderInv, Busy, Open
<1>4. ASSUME NEW e \in Drafts, e # d
      PROVE  DraftInv(e)'
  <2>1. Untouched(e)
    BY <1>0, <1>4, <1>f, <1>u, SMTT(20) DEF Untouched, Typed
  <2> QED BY <1>4, <1>pf, <2>1, UntouchedKeeps DEF Inv
<1>5. DraftInv(d)
  BY DEF Inv
<1>6. TextOf(d)'
  <2>0. TextOf(d)
    BY <1>5 DEF DraftInv
  <2>1. /\ pairs[d] \subseteq pairs'[d]
        /\ \A pair \in pairs'[d] : pair.text <= moves' + 1
    BY <1>f, <1>u, <2>0, <1>g, <1>pf, <1>0, SMTT(20) DEF TextOf, PairsFields, Typed
  <2>2. note'[d].at # "none" => KnownPair(d, Snapshot(d))'
    BY <1>f, <1>u, <2>0, <1>g, SMTT(20) DEF TextOf, KnownPair, Snapshot
  <2>3. /\ \A pair \in entry'[d] : pair \in entry[d] \/ KnownPair(d, pair)'
        /\ md'[d] \subseteq md[d]
    BY <1>f, <1>u, <2>0, <1>g, SMTT(20)
  <2>4. \A v \in Threads : Pending(v, d)' =>
          \/ Pending(v, d) /\ job'[v].snap = job[v].snap
          \/ KnownPair(d, job[v].snap)'
    BY <1>g
  <2>5. /\ d \in scan'.cur /\ scan'.pc = "target" =>
              \/ d \in scan.cur /\ scan.pc = "target" /\ scan'.text = scan.text
              \/ KnownText(d, scan.text)'
        /\ \A h \in scan'.got : h.draft = d => h \in scan.got \/ KnownText(d, h.pair.text)'
    BY <1>f, <1>u, <2>0, <1>g, SMTT(20)
  <2> QED BY <2>0, <2>1, <2>2, <2>3, <2>4, <2>5, TextKeeps
<1>7. WholeOf(d)'
  <2>1. entry[d] # {} \/ md[d] = {}
    BY <1>a, <1>c, <1>f, <1>jf DEF JobOf, Removing, JobFields
  <2>2. Held(d)' = Held(d)
    BY <2>1, <1>u DEF Held
  <2> QED BY <1>5, <2>2, <1>u DEF DraftInv, WholeOf, KnownPair
<1>8. ScanOf(d)'
  BY <1>b, <1>u DEF ScanOf
<1>9. SettleOf(d)'
  BY <1>5, <1>f, <1>u, <1>g, <1>jf, <1>nf, SMTT(20) DEF DraftInv, SettleOf,
      LastIsWritten, Mine, Open
<1>10. FlushOf(d)'
  BY <1>5, <1>g, <1>u DEF DraftInv, FlushOf, Written, Open, Snapshot
<1>11. RetireOf(d)'
  BY <1>5, <1>g, <1>f, <1>u DEF DraftInv, RetireOf, Open
<1>12. AdvanceOf(d)'
  <2>0. AdvanceOf(d)
    BY <1>5 DEF DraftInv
  <2> SUFFICES ASSUME d \notin overlap PROVE AdvanceOf(d)'
    BY <1>u DEF AdvanceOf
  <2>1. (Mine(d) =>
          /\ \A u \in Threads : Pending(u, d) => job[u].snap.text <= note[d].text
          /\ \A pair \in entry[d] : pair.text <= note[d].text)'
    BY <2>0, <1>g, <1>u DEF AdvanceOf, Mine, Open
  <2>2. (\A v, u \in Threads :
          /\ Pending(v, d) /\ Pending(u, d)
          /\ job[v].seq <= job[u].seq /\ job[u].snap.text # Alien
          => job[v].snap.text <= job[u].snap.text)'
    BY <2>0, <1>g DEF AdvanceOf
  <2>3. (\A u \in Threads : Live(u, d) /\ job[u].snap.text # Alien =>
          \A pair \in entry[d] : pair.text <= job[u].snap.text)'
    BY <2>0, <1>g, <1>u DEF AdvanceOf, Live
  <2> QED BY <2>1, <2>2, <2>3 DEF AdvanceOf
<1>13. DraftInv(d)'
  BY <1>6, <1>7, <1>8, <1>9, <1>10, <1>11, <1>12 DEF DraftInv
<1> QED BY <1>1, <1>2, <1>3, <1>4, <1>13 DEF Inv

\* The entry goes, and with it what was left of the draft.
LEMMA RemoveEntryKeeps ==
  ASSUME Inv, NEW t \in Threads, RemoveEntry(t)
  PROVE  Inv'
<1> USE AlienFacts, ThreadFacts
<1>0. Typed /\ JobInv /\ FolderInv
  BY DEF Inv
<1>jf. JobFields
  BY <1>0, TypedHasFields DEF Fields
<1>nf. NoteFields /\ NewestFields
  BY <1>0, TypedHasFields DEF Fields
<1>pf. PairsFields /\ FileFields
  BY <1>0, TypedHasFields DEF Fields
<1>sf. ScanFields /\ FlushFields
  BY <1>0, TypedHasFields DEF Fields
<1>u. UNCHANGED <<md, sidecar, folder, note, armed, flush, scan, newest, seq, named,
    pairs, overlap>>
  BY DEF RemoveEntry, files, histories
<1>a. PICK d \in Drafts : job[t].draft = d
  BY <1>jf DEF JobFields
<1>b. /\ d \in overlap \/ (scan.cur = {} /\ scan.got = {})
      /\ job[t].pc # "free"
  BY <1>0, <1>a DEF FolderInv, Busy, RemoveEntry
<1>c. /\ JobOf(t) /\ job[t].pc \notin {"free", "lock"}
      /\ \A u \in Threads : u # t /\ HasLock(u) => job[u].draft # d
  <2>1. job[t].pc \notin {"free", "lock"}
    BY DEF RemoveEntry
  <2>2. HasLock(t) /\ JobOf(t) /\ LockInv
    BY <1>0, <2>1 DEF HasLock, JobInv
  <2> QED BY <1>a, <2>1, <2>2 DEF LockInv
<1>d. /\ entry \in [Drafts -> AtMostOne(Pair)] /\ {} \in AtMostOne(Pair)
      /\ spoiled \in [Drafts -> SUBSET {"failed", "removed"}] /\ retired \in SUBSET Drafts
  BY <1>0, OneFacts DEF Typed
<1>f. /\ job[t].pc = "entry" /\ job[t].draft = d
      /\ job' \in [Threads -> Jobs] /\ job'[t].pc = "free"
      /\ \A u \in Threads : u # t => job'[u] = job[u]
      /\ entry' \in [Drafts -> AtMostOne(Pair)]
      /\ spoiled' \in [Drafts -> SUBSET {"failed", "removed"}]
      /\ retired' \in SUBSET Drafts
      /\ \A e \in Drafts : e # d =>
            /\ entry'[e] = entry[e] /\ spoiled'[e] = spoiled[e]
            /\ e \in retired' <=> e \in retired
      /\ \/ entry'[d] = entry[d] /\ spoiled'[d] = spoiled[d] /\ retired' = retired
         \/ /\ entry'[d] = {}
            /\ Open(d) => "removed" \in spoiled'[d]
            /\ ~Open(d) => spoiled'[d] = spoiled[d]
            /\ d \in retired' => d \in retired \/ (note[d].at = "none" /\ ~RemovedAgain(t))
      /\ moves \in 0 .. Budget /\ moves' \in 0 .. Budget /\ moves <= moves'
  <2>1. PICK ok \in BOOLEAN :
          /\ Outcome(ok)
          /\ entry' = IF ok THEN [entry EXCEPT ![d] = {}] ELSE entry
          /\ retired' = IF ok /\ note[d].at = "none" /\ ~RemovedAgain(t)
                        THEN retired \cup {d} ELSE retired
          /\ spoiled' = IF ok /\ Open(d) THEN [spoiled EXCEPT ![d] = spoiled[d] \cup {"removed"}]
                        ELSE spoiled
    BY <1>a DEF RemoveEntry
  <2>2. moves \in 0 .. Budget /\ moves' \in 0 .. Budget /\ moves <= moves'
    BY <1>0, <2>1, OutcomeFacts
  <2>3. job[t].pc = "entry" /\ Done(t)
    BY DEF RemoveEntry
  <2>4. /\ job' \in [Threads -> Jobs] /\ job'[t].pc = "free"
        /\ \A u \in Threads : u # t => job'[u] = job[u]
    BY <1>0, <2>3, DoneFacts
  <2>5. CASE ok
    <3>1. entry' = [entry EXCEPT ![d] = {}]
      BY <2>1, <2>5
    <3>2. /\ retired' \in SUBSET Drafts
          /\ \A e \in Drafts : e # d => (e \in retired' <=> e \in retired)
          /\ d \in retired' => d \in retired \/ (note[d].at = "none" /\ ~RemovedAgain(t))
      BY <1>d, <2>1
    <3>3. Open(d) => spoiled' = [spoiled EXCEPT ![d] = spoiled[d] \cup {"removed"}]
      BY <2>1, <2>5
    <3>4. ~Open(d) => spoiled' = spoiled
      BY <2>1
    <3>5. /\ spoiled' \in [Drafts -> SUBSET {"failed", "removed"}]
          /\ \A e \in Drafts : e # d => spoiled'[e] = spoiled[e]
          /\ Open(d) => "removed" \in spoiled'[d]
          /\ ~Open(d) => spoiled'[d] = spoiled[d]
      BY <1>d, <3>3, <3>4
    <3>6. /\ entry' \in [Drafts -> AtMostOne(Pair)] /\ entry'[d] = {}
          /\ \A e \in Drafts : e # d => entry'[e] = entry[e]
      BY <1>d, <3>1
    <3> QED BY <1>a, <2>2, <2>3, <2>4, <3>2, <3>5, <3>6
  <2>6. CASE ~ok
    <3>1. entry' = entry /\ retired' = retired /\ spoiled' = spoiled
      BY <2>1, <2>6
    <3> QED BY <1>a, <1>d, <2>2, <2>3, <2>4, <3>1
  <2> QED BY <2>5, <2>6
<1>g. \A u \in Threads : /\ Pending(u, d)' <=> Pending(u, d)
                         /\ Pending(u, d) => job'[u] = job[u]
                         /\ Removing(u, d)' => Removing(u, d)
                         /\ Begun(u, d)' => Begun(u, d)
                         /\ Removing(u, d) /\ ~Begun(u, d) =>
                              Removing(u, d)' /\ ~Begun(u, d)'
                         /\ Live(u, d)' <=> Live(u, d)
  BY <1>c, <1>f, <1>u DEF Pending, Removing, Begun, Live
<1>h. md[d] = {} /\ sidecar[d] = {} /\ d \in named /\ Begun(t, d)
  BY <1>a, <1>c, <1>f DEF JobOf, Removing, Begun
<1>1. Typed'
  BY <1>0, <1>f, <1>u, SMTT(20) DEF Typed
<1>2. JobInv'
  <2>1. \A u \in Threads : JobOf(u)'
    <3> SUFFICES ASSUME NEW u \in Threads PROVE JobOf(u)'
      OBVIOUS
    <3>0. JobOf(u)
      BY <1>0 DEF JobInv
    <3>1. ASSUME u = t PROVE JobOf(u)'
      BY <3>0, <3>1, <1>jf, <1>nf, <1>f, <1>u, SMTT(40)
         DEF JobOf, Removing, NewestFields, JobFields
    <3>2. ASSUME u # t PROVE JobOf(u)'
      <4>1. job'[u] = job[u] /\ job[u].draft \in Drafts
        BY <3>2, <1>f, <1>jf DEF JobFields
      <4>2. job[u].pc \notin {"free", "lock"} =>
               /\ entry'[job[u].draft] = entry[job[u].draft]
               /\ md'[job[u].draft] = md[job[u].draft]
               /\ sidecar'[job[u].draft] = sidecar[job[u].draft]
        BY <3>2, <4>1, <1>f, <1>c, <1>u DEF HasLock
      <4> QED BY <3>0, <4>1, <4>2, <1>u DEF JobOf, Removing
    <3> QED BY <3>1, <3>2
  <2>2. LockInv'
    BY <1>0, <1>jf, <1>f, <1>u, SMTT(20) DEF JobInv, LockInv, HasLock
  <2>3. UiInv'
    BY <1>0, <1>jf, <1>f, <1>u, SMTT(20) DEF JobInv, UiInv, Open, Snapshot
  <2> QED BY <2>1, <2>2, <2>3 DEF JobInv
<1>3. FolderInv'
  BY <1>0, <1>jf, <1>f, <1>u, SMTT(20) DEF FolderInv, Busy, Open
<1>4. ASSUME NEW e \in Drafts, e # d
      PROVE  DraftInv(e)'
  <2>1. Untouched(e)
    BY <1>0, <1>4, <1>f, <1>u, SMTT(20) DEF Untouched, Typed
  <2> QED BY <1>4, <1>pf, <2>1, UntouchedKeeps DEF Inv
<1>5. DraftInv(d)
  BY DEF Inv
<1>6. TextOf(d)'
  <2>0. TextOf(d)
    BY <1>5 DEF DraftInv
  <2>1. /\ pairs[d] \subseteq pairs'[d]
        /\ \A pair \in pairs'[d] : pair.text <= moves' + 1
    BY <1>f, <1>u, <2>0, <1>g, <1>pf, <1>0, SMTT(20) DEF TextOf, PairsFields, Typed
  <2>2. note'[d].at # "none" => KnownPair(d, Snapshot(d))'
    BY <1>f, <1>u, <2>0, <1>g, SMTT(20) DEF TextOf, KnownPair, Snapshot
  <2>3. /\ \A pair \in entry'[d] : pair \in entry[d] \/ KnownPair(d, pair)'
        /\ md'[d] \subseteq md[d]
    BY <1>f, <1>u, <2>0, <1>g, SMTT(20)
  <2>4. \A v \in Threads : Pending(v, d)' =>
          \/ Pending(v, d) /\ job'[v].snap = job[v].snap
          \/ KnownPair(d, job[v].snap)'
    BY <1>g
  <2>5. /\ d \in scan'.cur /\ scan'.pc = "target" =>
              \/ d \in scan.cur /\ scan.pc = "target" /\ scan'.text = scan.text
              \/ KnownText(d, scan.text)'
        /\ \A h \in scan'.got : h.draft = d => h \in scan.got \/ KnownText(d, h.pair.text)'
    BY <1>f, <1>u, <2>0, <1>g, SMTT(20)
  <2> QED BY <2>0, <2>1, <2>2, <2>3, <2>4, <2>5, TextKeeps
<1>7. WholeOf(d)'
  <2>2. Held(d)' \subseteq Held(d)
    BY <1>f, <1>h, <1>u DEF Held
  <2> QED BY <1>5, <2>2, <1>u DEF DraftInv, WholeOf, KnownPair
<1>8. ScanOf(d)'
  BY <1>b, <1>u DEF ScanOf
<1>9. SettleOf(d)'
  <2>1. CASE "removed" \in spoiled'[d]
    BY <2>1 DEF SettleOf
  <2>2. CASE ~Open(d)
    BY <2>2, <1>u DEF SettleOf, Mine, Open
  <2>3. CASE entry'[d] = entry[d] /\ spoiled'[d] = spoiled[d]
    <3>1. LastIsWritten(d) => LastIsWritten(d)'
      BY <2>3, <1>g, <1>u DEF LastIsWritten
    <3> QED BY <1>5, <2>3, <3>1, <1>u DEF DraftInv, SettleOf, Mine, Open
  <2> QED BY <2>1, <2>2, <2>3, <1>f
<1>10. FlushOf(d)'
  <2>0. FlushOf(d)
    BY <1>5 DEF DraftInv
  <2>1. Written(d)' <=> Written(d)
    BY <1>g, <1>u DEF Written, Open
  <2>2. Snapshot(d)' = Snapshot(d)
    BY <1>u DEF Snapshot
  <2>3. (Pending(Ui, d) =>
           /\ \A v \in Threads \ {Ui} : Pending(v, d) => job[v].seq < job[Ui].seq
           /\ job[Ui].seq < newest[d] => "removed" \in spoiled[d])'
    <3>1. Pending(Ui, d) => Open(d)
      BY <1>0 DEF JobInv, UiInv, Pending
    <3> QED BY <2>0, <3>1, <1>f, <1>g, <1>u DEF FlushOf
  <2>4. Written(d) => \/ entry'[d] = entry[d] /\ spoiled'[d] = spoiled[d]
                      \/ "removed" \in spoiled'[d]
    BY <1>f DEF Written
  <2> QED BY <2>0, <2>1, <2>2, <2>3, <2>4, <1>g, <1>u DEF FlushOf
<1>11. RetireOf(d)'
  <2>0. RetireOf(d)
    BY <1>5 DEF DraftInv
  <2>1. d \in retired' =>
          d \in retired \/ (entry'[d] = {} /\ note[d].at = "none" /\ ~RemovedAgain(t))
    BY <1>f
  <2>2. note[d].at = "none" /\ ~RemovedAgain(t) => \A u \in Threads : ~Live(u, d)
    <3>1. note[d].at = "none" => ~Open(d) /\ ~Pending(Ui, d)
      BY <1>0 DEF JobInv, UiInv, Pending, Open
    <3>2. ~RemovedAgain(t) => \A u \in Threads : ~(Removing(u, d) /\ ~Begun(u, d))
      BY <1>a, <1>h DEF RemovedAgain, Removing
    <3> QED BY <2>0, <3>1, <3>2, <1>h DEF RetireOf
  <2>3. d \in retired => entry'[d] = {}
    BY <2>0, <1>f DEF RetireOf
  <2> QED BY <2>0, <2>1, <2>2, <2>3, <1>g, <1>h, <1>u DEF RetireOf, Open
<1>12. AdvanceOf(d)'
  <2>0. AdvanceOf(d)
    BY <1>5 DEF DraftInv
  <2> SUFFICES ASSUME d \notin overlap PROVE AdvanceOf(d)'
    BY <1>u DEF AdvanceOf
  <2>s. entry'[d] \subseteq entry[d]
    BY <1>f
  <2>1. (Mine(d) =>
          /\ \A u \in Threads : Pending(u, d) => job[u].snap.text <= note[d].text
          /\ \A pair \in entry[d] : pair.text <= note[d].text)'
    BY <2>0, <1>g, <1>u, <2>s DEF AdvanceOf, Mine, Open
  <2>2. (\A v, u \in Threads :
          /\ Pending(v, d) /\ Pending(u, d)
          /\ job[v].seq <= job[u].seq /\ job[u].snap.text # Alien
          => job[v].snap.text <= job[u].snap.text)'
    BY <2>0, <1>g DEF AdvanceOf
  <2>3. (\A u \in Threads : Live(u, d) /\ job[u].snap.text # Alien =>
          \A pair \in entry[d] : pair.text <= job[u].snap.text)'
    BY <2>0, <1>g, <1>u, <2>s DEF AdvanceOf, Live
  <2> QED BY <2>1, <2>2, <2>3 DEF AdvanceOf
<1>13. DraftInv(d)'
  BY <1>6, <1>7, <1>8, <1>9, <1>10, <1>11, <1>12 DEF DraftInv
<1> QED BY <1>1, <1>2, <1>3, <1>4, <1>13 DEF Inv

\* A step that changes nothing.
LEMMA StutterKeeps ==
  ASSUME Inv, UNCHANGED vars
  PROVE  Inv'
<1>0. Typed /\ JobInv /\ FolderInv
  BY DEF Inv
<1>1. PairsFields
  BY <1>0, TypedHasFields DEF Fields
<1>2. moves \in Nat
  BY <1>0, AlienFacts DEF Typed
<1>3. UNCHANGED <<entry, md, sidecar, folder, note, armed, job, flush, scan, newest, seq,
                  named, retired, spoiled, pairs, overlap, moves>>
  BY DEF vars, files, histories
<1>4. Typed'
  BY <1>0, <1>3 DEF Typed
<1>5. JobInv'
  <2>1. \A u \in Threads : JobOf(u)'
    BY <1>0, <1>3 DEF JobInv, JobOf, Removing
  <2>2. LockInv'
    BY <1>0, <1>3 DEF JobInv, LockInv, HasLock
  <2>3. UiInv'
    BY <1>0, <1>3 DEF JobInv, UiInv, Open, Snapshot
  <2> QED BY <2>1, <2>2, <2>3 DEF JobInv
<1>6. FolderInv'
  BY <1>0, <1>3 DEF FolderInv, Busy, Open
<1>7. ASSUME NEW e \in Drafts PROVE DraftInv(e)'
  <2>1. Untouched(e)
    BY <1>2, <1>3 DEF Untouched
  <2> QED BY <1>1, <2>1, UntouchedKeeps DEF Inv
<1> QED BY <1>4, <1>5, <1>6, <1>7 DEF Inv

\* At first nobody works on a draft, and an older version's files are what the
\* note has had.
LEMMA InitIsSound == Init => Inv
<1> SUFFICES ASSUME Init PROVE Inv
  OBVIOUS
<1> USE AlienFacts, ThreadFacts
<1>0. PICK legacy \in SUBSET Drafts, c \in Targets :
        /\ md = [d \in Drafts |-> IF d \in legacy THEN {1} ELSE {}]
        /\ sidecar = [d \in Drafts |-> IF d \in legacy THEN {c} ELSE {}]
        /\ pairs = [d \in Drafts |-> IF d \in legacy THEN {[text |-> 1, target |-> c]}
                                     ELSE {}]
  BY DEF Init
<1>1. /\ entry = [d \in Drafts |-> {}] /\ folder = "off"
      /\ note = [d \in Drafts |-> Absent] /\ armed = {}
      /\ job = [t \in Threads |-> Idle] /\ flush = NoFlush /\ scan = NoScan
      /\ newest = [d \in Drafts |-> 0] /\ seq = 1 /\ named = {} /\ retired = {}
      /\ overlap = {} /\ spoiled = [d \in Drafts |-> {}] /\ moves = 0
  BY DEF Init
<1>2. Absent \in Notes /\ Absent.at = "none"
  BY TextFacts DEF Absent, Notes
<1>3. NoFlush \in Flushes /\ NoFlush.todo = {} /\ NoFlush.after = "none"
  BY DEF NoFlush, Flushes
<1>4. /\ NoScan.cur = {} /\ NoScan.got = {} /\ NoScan.pc = "none"
      /\ {} \in AtMostOne(Drafts)
  BY OneFacts DEF NoScan
<1>5. NoScan \in Scans
  BY <1>4, TextFacts DEF NoScan, Scans
<1>6. Idle \in Jobs
  BY DraftAssumption, IdleFacts
<1>7. Idle.pc = "free"
  BY DEF Idle
<1>9. [text |-> 1, target |-> c] \in Pair /\ 1 \in Text
  BY PairFacts, TextFacts
<1>10. job \in [Threads -> Jobs]
  BY <1>1, <1>6
<1>f. /\ \A d \in Drafts : /\ entry[d] = {} /\ note[d].at = "none" /\ spoiled[d] = {}
                           /\ newest[d] = 0
                           /\ \A x \in md[d] : x = 1 /\ d \in legacy
                           /\ \A x \in sidecar[d] : x = c
                           /\ pairs[d] \subseteq {[text |-> 1, target |-> c]}
                           /\ d \in legacy => /\ pairs[d] = {[text |-> 1, target |-> c]}
                                              /\ sidecar[d] = {c}
      /\ \A t \in Threads : job[t].pc = "free"
      /\ scan.cur = {} /\ scan.got = {} /\ scan.pc = "none" /\ flush.todo = {}
      /\ flush.after = "none" /\ folder = "off" /\ armed = {} /\ retired = {}
      /\ moves = 0
  BY <1>0, <1>1, <1>2, <1>3, <1>4, <1>7
<1>g. Typed
  <2>1. /\ entry \in [Drafts -> AtMostOne(Pair)] /\ md \in [Drafts -> AtMostOne(Text)]
        /\ sidecar \in [Drafts -> AtMostOne(Targets)]
    BY <1>0, <1>1, <1>9, OneFacts
  <2>2. pairs \in [Drafts -> SUBSET Pair]
    BY <1>0, <1>9
  <2>3. newest \in [Drafts -> 0 .. seq - 1]
    BY <1>1
  <2> QED BY <1>1, <1>2, <1>3, <1>5, <1>10, <2>1, <2>2, <2>3 DEF Typed
<1>h. JobInv
  BY <1>f DEF JobInv, JobOf, LockInv, UiInv, HasLock, Removing
<1>i. FolderInv
  BY <1>f DEF FolderInv, Busy, Open
<1>j. ASSUME NEW d \in Drafts PROVE DraftInv(d)
  <2>0. /\ \A t \in Threads : ~Pending(t, d) /\ ~Begun(t, d) /\ ~Live(t, d)
        /\ ~Open(d) /\ ~Mine(d) /\ ~Written(d)
    BY <1>f DEF Pending, Begun, Removing, Live, Open, Mine, Written
  <2>1. TextOf(d)
    <3>1. \A pair \in pairs[d] : pair.text <= moves + 1
      BY <1>f
    <3>2. \A x \in md[d] : x = 1 /\ KnownText(d, x)
      <4>1. d \in legacy => [text |-> 1, target |-> c] \in pairs[d]
        BY <1>f
      <4>2. d \in legacy => KnownText(d, 1)
        BY <4>1 DEF KnownText
      <4> QED BY <4>2, <1>f
    <3> QED BY <3>1, <3>2, <2>0, <1>f DEF TextOf
  <2>2. WholeOf(d)
    <3> SUFFICES ASSUME NEW pair \in Held(d) PROVE KnownPair(d, pair)
      BY DEF WholeOf
    <3>1. PICK x \in md[d], h \in IF sidecar[d] = {} THEN {Root} ELSE sidecar[d] :
            pair = [text |-> x, target |-> h]
      BY <1>f DEF Held
    <3>2. x = 1 /\ d \in legacy
      BY <1>f
    <3>3. h = c /\ pairs[d] = {[text |-> 1, target |-> c]}
      BY <3>2, <1>f
    <3> QED BY <3>1, <3>2, <3>3 DEF KnownPair
  <2>3. ScanOf(d) /\ SettleOf(d) /\ FlushOf(d) /\ RetireOf(d)
    BY <2>0, <1>f DEF ScanOf, SettleOf, FlushOf, RetireOf
  <2>4. AdvanceOf(d)
    BY <2>0, <1>f DEF AdvanceOf
  <2> QED BY <2>1, <2>2, <2>3, <2>4 DEF DraftInv
<1> QED BY <1>g, <1>h, <1>i, <1>j DEF Inv

LEMMA StepKeeps ==
  ASSUME Inv, [Next]_vars
  PROVE  Inv'
<1>1. ASSUME NEW d \in Drafts,
             \/ NewNote(d) \/ Edit(d) \/ Retarget(d) \/ TimerFires(d) \/ Name(d)
             \/ Close(d) \/ OpenFile(d)
      PROVE  Inv'
  BY <1>1, NewNoteKeeps, EditKeeps, RetargetKeeps, TimerFiresKeeps, NameKeeps, CloseKeeps,
     OpenFileKeeps
<1>2. ASSUME NEW after \in {"leave", "quit", "restart"}, Leave(after)
      PROVE  Inv'
  BY <1>2, LeaveKeeps
<1>3. CASE Flushing
  BY <1>3, FlushNextKeeps, LeaveFolderKeeps, QuitKeeps, RestartBlockedKeeps DEF Flushing
<1>4. ASSUME NEW t \in Threads, Store(t)
      PROVE  Inv'
  BY <1>4, TakeLockKeeps, BeginRemovalKeeps, ReplaceOutcomes, ReplacesKeeps,
     ReplaceFailsKeeps, RemoveTextKeeps, RemoveTargetKeeps, RemoveEntryKeeps DEF Store
<1>5. CASE Recovery
  BY <1>5, LaunchKeeps, OpenFolderKeeps, ScanListKeeps, ReadEntryKeeps, ReadTextKeeps,
     ReadTargetKeeps, InstallDraftsKeeps DEF Recovery
<1>6. CASE AbandonScan
  BY <1>6, AbandonScanKeeps
<1>7. CASE Crash
  BY <1>7, CrashKeeps
<1>8. CASE UNCHANGED vars
  BY <1>8, StutterKeeps
<1> QED BY <1>1, <1>2, <1>3, <1>4, <1>5, <1>6, <1>7, <1>8 DEF Next

THEOREM InvHolds == Spec => []Inv
<1>1. Init => Inv
  BY InitIsSound
<1>2. Inv /\ [Next]_vars => Inv'
  BY StepKeeps
<1> QED BY <1>1, <1>2, PTL DEF Spec

-----------------------------------------------------------------------------
LEMMA InvIsSound ==
  ASSUME Inv
  PROVE  JournalIsSound
<1>0. /\ Typed /\ FileFields /\ NewestFields
      /\ \A d \in Drafts : DraftInv(d)
  BY TypedHasFields DEF Inv, Fields
<1>1. TypeOK
  BY <1>0, TypedFields
<1>2. PairsAreWhole
  BY <1>0 DEF PairsAreWhole, DraftInv, WholeOf, KnownPair
<1>3. SettledIsJournalled
  <2> SUFFICES ASSUME NEW d \in Drafts, Mine(d), note[d].dirty, d \notin armed,
                      ~Writing(d), spoiled[d] = {}
               PROVE  Has(d, note[d].text)
    BY DEF SettledIsJournalled
  <2>1. \A t \in Threads : ~Pending(t, d)
    BY DEF Writing, Pending
  <2>2. LastIsWritten(d)
    BY <1>0 DEF DraftInv, SettleOf
  <2>3. \E pair \in entry[d] : pair.text = note[d].text
    BY <2>1, <2>2 DEF LastIsWritten
  <2> QED BY <2>3 DEF Has, Held
<1>4. RetiredStaysRetired
  <2> SUFFICES ASSUME NEW d \in retired PROVE Held(d) = {}
    BY DEF RetiredStaysRetired
  <2>1. d \in Drafts
    BY <1>0 DEF Typed
  <2>2. entry[d] = {} /\ md[d] = {}
    BY <1>0, <2>1 DEF DraftInv, RetireOf
  <2> QED BY <2>2 DEF Held
<1> QED BY <1>1, <1>2, <1>3, <1>4 DEF JournalIsSound

\* Whatever the window, the threads and the recovery do at once, and wherever a
\* crash or a failing step of a file meets them: every pair of text and target in the journal
\* is one its note has had, an edited note at rest is in its draft with its last
\* text, and the draft of a named note stays away.
THEOREM JournalIsSoundHolds == Spec => []JournalIsSound
BY InvHolds, InvIsSound, PTL

\* What a step may do to the draft that a recovery would bring back.
Advances(d) ==
  \A pair \in Held(d) :
      \/ \E pair2 \in Held(d)' : pair2.text >= pair.text \/ pair2.text = Alien
      \/ Held(d)' = {} /\ d \in named
      \/ d \in overlap

LEMMA SameAdvances ==
  ASSUME NEW d \in Drafts, Inv, Held(d)' = Held(d)
  PROVE  Advances(d)
<1>1. \A pair \in Held(d) : pair.text \in Nat
  <2>1. FileFields
    BY TypedHasFields DEF Inv, Fields
  <2>2. \A pair \in entry[d] : pair.text \in Nat
    BY <2>1 DEF FileFields
  <2>3. \A x \in md[d] : x \in Nat
    BY <2>1 DEF FileFields
  <2>4. \A pair \in Held(d) : pair \in entry[d] \/ pair.text \in md[d]
    BY DEF Held
  <2> QED BY <2>2, <2>3, <2>4
<1>2. \A pair \in Held(d) : pair.text >= pair.text
  BY <1>1
<1> QED BY <1>2 DEF Advances

\* A write that is not overtaken has a text that is no older than the entry, and
\* than what an older version left.
LEMMA ReplaceAdvances ==
  ASSUME Inv, NEW t \in Threads, Replaces(t), NEW e \in Drafts
  PROVE  Advances(e)
<1> USE AlienFacts
<1>0. /\ Typed /\ JobInv /\ FileFields /\ JobFields /\ NewestFields
      /\ \A d \in Drafts : DraftInv(d)
  BY TypedHasFields DEF Inv, Fields
<1>1. PICK d \in Drafts : job[t].draft = d
  BY <1>0 DEF JobFields
<1>2. /\ entry' = [entry EXCEPT ![d] = {job[t].snap}] /\ UNCHANGED <<md, sidecar>>
      /\ job[t].pc = "replace"
  BY <1>1 DEF Replaces
<1>3. entry \in [Drafts -> AtMostOne(Pair)]
  BY <1>0 DEF Typed
<1>4. CASE e # d
  <2>1. Held(e)' = Held(e)
    BY <1>2, <1>3, <1>4 DEF Held
  <2> QED BY <2>1, SameAdvances
<1>5. CASE e = d
  <2>1. entry'[d] = {job[t].snap}
    BY <1>2, <1>3
  <2>2. Held(d)' = {job[t].snap}
    BY <2>1 DEF Held
  <2>3. Live(t, d)
    BY <1>0, <1>1, <1>2 DEF JobInv, JobOf, Live, Pending
  <2>4. job[t].snap.text \in Nat
    BY <1>0 DEF JobFields
  <2>5. CASE d \in overlap
    BY <1>5, <2>5 DEF Advances
  <2>6. CASE job[t].snap.text = Alien
    BY <1>5, <2>2, <2>6 DEF Advances
  <2>7. CASE d \notin overlap /\ job[t].snap.text # Alien
    <3>1. \A pair \in entry[d] : pair.text <= job[t].snap.text
      BY <1>0, <2>3, <2>7 DEF DraftInv, AdvanceOf
    <3>2. \A pair \in Held(d) : pair \in entry[d] \/ pair.text \in md[d]
      BY DEF Held
    <3>3. \A x \in md[d] : x = 1
      BY <1>0 DEF DraftInv, TextOf
    <3>4. \A pair \in Held(d) : job[t].snap.text >= pair.text
      <4> SUFFICES ASSUME NEW pair \in Held(d) PROVE job[t].snap.text >= pair.text
        OBVIOUS
      <4>1. CASE pair \in entry[d]
        BY <4>1, <3>1, <2>4, <1>0 DEF FileFields
      <4>2. CASE pair.text \in md[d]
        BY <4>2, <3>3, <2>4, <2>7
      <4> QED BY <3>2, <4>1, <4>2
    <3> QED BY <1>5, <2>2, <3>4 DEF Advances
  <2> QED BY <2>5, <2>6, <2>7
<1> QED BY <1>4, <1>5

\* Where the files of an older version go there is an entry, or the note is named.
LEMMA RemovalAdvances ==
  ASSUME Inv, NEW t \in Threads, RemoveText(t) \/ RemoveTarget(t) \/ RemoveEntry(t),
         NEW e \in Drafts
  PROVE  Advances(e)
<1>0. Typed /\ JobInv /\ JobFields
  BY TypedHasFields DEF Inv, Fields
<1>1. PICK d \in Drafts : job[t].draft = d
  BY <1>0 DEF JobFields
<1>2. JobOf(t) /\ job[t].kind \in {"write", "remove"}
  BY <1>0 DEF JobInv, JobFields
<1>3. /\ entry \in [Drafts -> AtMostOne(Pair)] /\ md \in [Drafts -> AtMostOne(Text)]
      /\ sidecar \in [Drafts -> AtMostOne(Targets)]
  BY <1>0 DEF Typed
<1>4. CASE RemoveText(t)
  <2>1. /\ entry' = entry /\ sidecar' = sidecar /\ job[t].pc = "text"
        /\ md' = [md EXCEPT ![d] = {}] \/ md' = md
    BY <1>1, <1>4 DEF RemoveText
  <2>2. entry[d] # {} \/ d \in named
    BY <1>1, <1>2, <2>1 DEF JobOf, Removing
  <2>3. Held(e)' = Held(e) \/ (Held(e)' = {} /\ e \in named)
    <3>1. CASE md'[e] = md[e] \/ entry[e] # {}
      BY <2>1, <3>1 DEF Held
    <3>2. CASE md'[e] # md[e] /\ entry[e] = {}
      <4>1. e = d /\ md'[e] = {}
        BY <1>3, <2>1, <3>2
      <4> QED
        BY <2>1, <2>2, <3>2, <4>1 DEF Held
    <3> QED
      BY <3>1, <3>2
  <2> QED BY <2>3, SameAdvances DEF Advances
<1>5. CASE RemoveTarget(t)
  <2>1. /\ entry' = entry /\ md' = md /\ job[t].pc = "target"
        /\ sidecar' = [sidecar EXCEPT ![d] = {}] \/ sidecar' = sidecar
    BY <1>1, <1>5 DEF RemoveTarget
  <2>2. entry[d] # {} \/ md[d] = {}
    BY <1>1, <1>2, <2>1 DEF JobOf, Removing
  <2>3. Held(e)' = Held(e)
    BY <1>3, <2>1, <2>2 DEF Held
  <2> QED BY <2>3, SameAdvances
<1>6. CASE RemoveEntry(t)
  <2>1. /\ md' = md /\ sidecar' = sidecar /\ job[t].pc = "entry"
        /\ entry' = [entry EXCEPT ![d] = {}] \/ entry' = entry
    BY <1>1, <1>6 DEF RemoveEntry
  <2>2. md[d] = {} /\ d \in named
    BY <1>1, <1>2, <2>1 DEF JobOf, Removing
  <2>3. Held(e)' = Held(e) \/ (Held(e)' = {} /\ e \in named)
    BY <1>3, <2>1, <2>2 DEF Held
  <2> QED BY <2>3, SameAdvances DEF Advances
<1> QED BY <1>4, <1>5, <1>6

LEMMA StepAdvances ==
  ASSUME Inv, [Next]_vars
  PROVE  \A d \in Drafts : Advances(d)
<1>1. ASSUME UNCHANGED files
      PROVE  \A d \in Drafts : Advances(d)
  <2> SUFFICES ASSUME NEW d \in Drafts PROVE Advances(d)
    OBVIOUS
  <2>1. Held(d)' = Held(d)
    BY <1>1 DEF files, Held
  <2> QED BY <2>1, SameAdvances
<1>2. ASSUME NEW t \in Threads, Store(t)
      PROVE  UNCHANGED files \/ \A d \in Drafts : Advances(d)
  <2>1. CASE TakeLock(t)
    BY <2>1 DEF TakeLock
  <2>2. CASE BeginRemoval(t)
    BY <2>2 DEF BeginRemoval
  <2>3. CASE ReplaceEntry(t)
    <3>1. CASE Replaces(t)
      BY <3>1, ReplaceAdvances
    <3>2. CASE ReplaceFails(t)
      BY <3>2 DEF ReplaceFails, files
    <3> QED BY <2>3, <3>1, <3>2, ReplaceOutcomes
  <2>4. CASE RemoveText(t) \/ RemoveTarget(t) \/ RemoveEntry(t)
    BY <2>4, RemovalAdvances
  <2> QED BY <1>2, <2>1, <2>2, <2>3, <2>4 DEF Store
<1>3. ASSUME NEW d \in Drafts,
             \/ NewNote(d) \/ Edit(d) \/ Retarget(d) \/ TimerFires(d) \/ Name(d)
             \/ Close(d) \/ OpenFile(d)
      PROVE  UNCHANGED files
  BY <1>3 DEF NewNote, Edit, Retarget, TimerFires, Name, Close, OpenFile
<1>4. ASSUME NEW after \in {"leave", "quit", "restart"}, Leave(after)
      PROVE  UNCHANGED files
  BY <1>4 DEF Leave
<1>5. ASSUME Flushing PROVE UNCHANGED files
  BY <1>5 DEF Flushing, FlushNext, LeaveFolder, Quit, Ends, RestartBlocked
<1>6. ASSUME Recovery PROVE UNCHANGED files
  BY <1>6 DEF Recovery, Launch, OpenFolder, ScanList, ReadEntry, ReadText, ReadTarget,
              InstallDrafts
<1>7. ASSUME AbandonScan \/ Crash PROVE UNCHANGED files
  BY <1>7 DEF AbandonScan, Crash, Ends
<1>8. ASSUME UNCHANGED vars PROVE UNCHANGED files
  BY <1>8 DEF vars
<1>9. UNCHANGED files \/ \E t \in Threads : Store(t)
  BY <1>3, <1>4, <1>5, <1>6, <1>7, <1>8 DEF Next
<1> QED BY <1>1, <1>2, <1>9

\* No save that ends late, no removal and no crash between two of their steps takes
\* the journal back to an older text of the note, or takes it away before the note
\* has its file; but for the text of another document, and for a draft that was being
\* written or removed while it was recovered.
THEOREM JournalOnlyAdvancesHolds == Spec => JournalOnlyAdvances
<1>1. Inv /\ [Next]_vars => \A d \in Drafts : Advances(d)
  BY StepAdvances
<1>2. (\A d \in Drafts : Advances(d)) =>
        [\A d \in Drafts : \A pair \in Held(d) :
          \/ \E pair2 \in Held(d)' : pair2.text >= pair.text \/ pair2.text = Alien
          \/ Held(d)' = {} /\ d \in named
          \/ d \in overlap]_vars
  BY DEF Advances
<1>3. Spec => []Inv
  BY InvHolds
<1> QED BY <1>1, <1>2, <1>3, PTL DEF Spec, JournalOnlyAdvances

\* What is in the journal when the window is about to leave.
LEMMA LeavingIsJournalled ==
  ASSUME Inv, LeaveFolder \/ Quit, flush.after # "none", NEW d \in Drafts, Mine(d),
         \/ spoiled[d] = {}
         \/ flush.after = "restart" /\ spoiled[d] = {"failed"}
  PROVE  Snapshot(d) \in Held(d)
<1>1. /\ Flushed
      /\ flush.after = "restart" => ~flush.failed
  BY DEF LeaveFolder, Quit
<1>2. Written(d)
  BY <1>1 DEF Flushed, Written, Pending, Mine
<1>3. entry[d] = {Snapshot(d)}
  BY <1>1, <1>2 DEF Inv, DraftInv, FlushOf
<1> QED BY <1>3 DEF Held

\* When the window leaves the work folder or the application ends in order, every
\* note that no failure and no removal has met is in the journal as it is, with
\* whatever writes and removals of earlier edits still under way; a restart goes
\* on only if the notes a failure has met are there as well.
THEOREM LeavingKeepsNotesHolds == Spec => LeavingKeepsNotes
<1>1. Inv /\ [Next]_vars =>
        [flush.after # "none" /\ (LeaveFolder \/ Quit)
         => \A d \in Drafts :
               /\ Mine(d)
               /\ \/ spoiled[d] = {}
                  \/ flush.after = "restart" /\ spoiled[d] = {"failed"}
               => Snapshot(d) \in Held(d)]_vars
  BY LeavingIsJournalled
<1>2. Spec => []Inv
  BY InvHolds
<1> QED BY <1>1, <1>2, PTL DEF Spec, LeavingKeepsNotes
=============================================================================
