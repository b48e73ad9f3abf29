---------------------------- MODULE DraftJournal ----------------------------
(* The recovery journal of unnamed notes: .hane/drafts under the work folder *)
(* (crates/session/src/draft.rs) and the window that feeds it (crates/ui:    *)
(* session_save.rs, view.rs).  A note without a name has no file; every edit *)
(* arms a timer that hands a snapshot of text and target folder to a         *)
(* background thread, and leaving the work folder or the application writes  *)
(* all notes at once from the window's own thread.  A note that gets a name  *)
(* is retired: a background thread removes its draft.  Opening the work      *)
(* folder reads the journal back.                                            *)
(*                                                                           *)
(* A draft is one file, the entry, or, from an older version, a text file    *)
(* with a sidecar for the target.  One lock per draft serializes writes and  *)
(* removals; recovery takes none.                                            *)
(*                                                                           *)
(* Abstracted: a text is its number among the texts its note has had; an     *)
(* entry is readable or absent (its rename is atomic); one process; timers   *)
(* whose document or text has moved on, which do nothing, are left out.      *)
EXTENDS Naturals, FiniteSets

CONSTANTS
    Drafts,      \* DraftId
    Root,        \* the work folder itself, as a target
    Targets,     \* folders a note may be created in
    Workers,     \* background threads
    Ui,          \* the window's thread
    Budget,      \* bound on moves of the user, failures and crashes
    UserActions  \* what the user does in an instance

ASSUME DraftAssumption ==
    /\ Drafts # {}
    /\ Root \in Targets
    /\ Ui \notin Workers
    /\ Budget \in Nat
    /\ UserActions \subseteq {"new", "edit", "retarget", "name", "close",
                              "open", "leave", "quit", "restart"}

VARIABLES
    entry,    \* NNN.draft: at most one pair of text and target
    md,       \* NNN.md of an older version: at most one text
    sidecar,  \* NNN.target of an older version: at most one target
    folder,   \* what the window shows of the work folder
    note,     \* the session of a draft: work_folder_drafts
    armed,    \* drafts whose debounce timer runs
    job,      \* what each thread does for a draft
    flush,    \* the drafts left to write before the window leaves
    scan,     \* the recovery that runs
    newest,   \* DRAFT_LOCKS: the newest sequence accepted of each draft
    seq,      \* SNAPSHOT_SEQUENCE
    named,    \* history: drafts whose document has been saved to a file
    retired,  \* history: drafts whose removal was completed
    spoiled,  \* history: what kept the last text out of the journal
    pairs,    \* history: pairs of text and target each note has had
    overlap,  \* history: drafts that changed while they were recovered
    moves     \* moves so far

files == <<entry, md, sidecar>>
histories == <<named, retired, spoiled, pairs, overlap>>
vars == <<files, folder, note, armed, job, flush, scan, newest, seq, histories, moves>>

Threads == Workers \cup {Ui}
Alien == 0  \* the text of another document
Text == Alien .. Budget + 1
Pair == [text : Text, target : Targets]

NoPair == [text |-> Alien, target |-> Root]
Absent == [at |-> "none", text |-> Alien, target |-> Root, dirty |-> FALSE]
Idle == [pc |-> "free", kind |-> "write", draft |-> CHOOSE d \in Drafts : TRUE,
         seq |-> 0, snap |-> NoPair]
NoFlush == [todo |-> {}, after |-> "none", failed |-> FALSE]
NoScan == [pc |-> "none", todo |-> {}, cur |-> {}, text |-> Alien, got |-> {}]

\* The text and target a recovery would bring back: the entry wins.
Held(d) ==
    IF entry[d] # {} THEN entry[d]
    ELSE {[text |-> x, target |-> t] :
             x \in md[d], t \in IF sidecar[d] = {} THEN {Root} ELSE sidecar[d]}

AtMostOne(S) == {{}} \cup {{x} : x \in S}

TypeOK ==
    /\ entry \in [Drafts -> AtMostOne(Pair)]
    /\ md \in [Drafts -> AtMostOne(Text)]
    /\ sidecar \in [Drafts -> AtMostOne(Targets)]
    /\ folder \in {"off", "away", "scanning", "here"}
    /\ note \in [Drafts -> [at : {"none", "open", "gone"}, text : Text,
                            target : Targets, dirty : BOOLEAN]]
    /\ armed \subseteq Drafts
    /\ job \in [Threads -> [pc : {"free", "lock", "replace", "text", "target", "entry"},
                            kind : {"write", "remove"}, draft : Drafts,
                            seq : Nat, snap : Pair]]
    /\ flush \in [todo : SUBSET Drafts, after : {"none", "leave", "quit", "restart"},
                  failed : BOOLEAN]
    /\ scan \in [pc : {"none", "list", "next", "text", "target"},
                 todo : SUBSET Drafts, cur : AtMostOne(Drafts), text : Text,
                 got : SUBSET [draft : Drafts, pair : Pair]]
    /\ seq \in Nat
    /\ newest \in [Drafts -> 0 .. seq - 1]
    /\ named \subseteq Drafts /\ retired \subseteq Drafts
    /\ spoiled \in [Drafts -> SUBSET {"failed", "removed"}]
    /\ overlap \subseteq Drafts
    /\ pairs \in [Drafts -> SUBSET Pair]
    /\ moves \in 0 .. Budget

\* Some drafts were left by an older version.
Init ==
    /\ entry = [d \in Drafts |-> {}]
    /\ \E legacy \in SUBSET Drafts, t \in Targets :
          /\ md = [d \in Drafts |-> IF d \in legacy THEN {1} ELSE {}]
          /\ sidecar = [d \in Drafts |-> IF d \in legacy THEN {t} ELSE {}]
          /\ pairs = [d \in Drafts |-> IF d \in legacy THEN {[text |-> 1, target |-> t]}
                                       ELSE {}]
    /\ folder = "off"
    /\ note = [d \in Drafts |-> Absent]
    /\ armed = {}
    /\ job = [t \in Threads |-> Idle]
    /\ flush = NoFlush
    /\ scan = NoScan
    /\ newest = [d \in Drafts |-> 0]
    /\ seq = 1
    /\ named = {} /\ retired = {} /\ overlap = {}
    /\ spoiled = [d \in Drafts |-> {}]
    /\ moves = 0

\* A move of the user, a failure or a crash.
Move == moves < Budget /\ moves' = moves + 1
User(action) == action \in UserActions /\ Move

\* Whether a step of a file fails.
Outcome(ok) == IF ok THEN UNCHANGED moves ELSE Move

-----------------------------------------------------------------------------
(* The window, while it is not writing the notes to leave.                  *)

Working == folder = "here" /\ flush.after = "none"
Open(d) == note[d].at = "open"

TakeSequence == seq' = seq + 1

Snapshot(d) == [text |-> note[d].text, target |-> note[d].target]

\* new_work_folder_note: a heading, in the folder the user chose.
NewNote(d) ==
    /\ User("new") /\ Working
    /\ note[d].at = "none" /\ pairs[d] = {} /\ d \notin named
    /\ \E t \in Targets :
          /\ note' = [note EXCEPT ![d] = [at |-> "open", text |-> 1, target |-> t,
                                          dirty |-> FALSE]]
          /\ pairs' = [pairs EXCEPT ![d] = {[text |-> 1, target |-> t]}]
    /\ UNCHANGED <<files, folder, armed, job, flush, scan, newest, seq, named,
                   retired, spoiled, overlap>>

\* The number of a text the note has not had: the one after the last.
IsNextText(d, x) ==
    /\ \A pair \in pairs[d] : pair.text < x
    /\ \E pair \in pairs[d] : x = pair.text + 1

\* An edit arms the timer.
Edit(d) ==
    /\ User("edit") /\ Working /\ Open(d)
    /\ \E x \in Text :
          /\ IF note[d].text = Alien THEN x = Alien ELSE IsNextText(d, x)
          /\ note' = [note EXCEPT ![d] = [@ EXCEPT !.text = x, !.dirty = TRUE]]
          /\ pairs' = IF x = Alien THEN pairs
                      ELSE [pairs EXCEPT ![d] = @ \cup {[text |-> x,
                                                        target |-> note[d].target]}]
    /\ armed' = armed \cup {d}
    /\ UNCHANGED <<files, folder, job, flush, scan, newest, seq, named, retired,
                   spoiled, overlap>>

\* The target folder is renamed or goes to the Trash; no timer is armed.
Retarget(d) ==
    /\ User("retarget") /\ Working /\ Open(d)
    /\ \E t \in Targets \ {note[d].target} :
          /\ note' = [note EXCEPT ![d].target = t]
          /\ pairs' = IF note[d].text = Alien THEN pairs
                      ELSE [pairs EXCEPT ![d] = @ \cup {[text |-> note[d].text, target |-> t]}]
    /\ UNCHANGED <<files, folder, armed, job, flush, scan, newest, seq, named,
                   retired, spoiled, overlap>>

\* The timer ends: text and target are read together, with a number.
TimerFires(d) ==
    /\ d \in armed /\ Working /\ Open(d)
    /\ armed' = armed \ {d}
    /\ \E w \in Workers :
          /\ job[w].pc = "free"
          /\ job' = [job EXCEPT ![w] = [pc |-> "lock", kind |-> "write", draft |-> d,
                                        seq |-> seq, snap |-> Snapshot(d)]]
    /\ TakeSequence
    /\ UNCHANGED <<files, folder, note, flush, scan, newest, histories, moves>>

\* The document has been written to a file: the draft is retired.
Name(d) ==
    /\ User("name") /\ Working /\ Open(d)
    /\ note' = [note EXCEPT ![d] = Absent]
    /\ armed' = armed \ {d}
    /\ named' = named \cup {d}
    /\ \E w \in Workers :
          /\ job[w].pc = "free"
          /\ job' = [job EXCEPT ![w] = [pc |-> "lock", kind |-> "remove", draft |-> d,
                                        seq |-> 0, snap |-> NoPair]]
    /\ UNCHANGED <<files, folder, flush, scan, newest, seq, retired, spoiled,
                   pairs, overlap>>

\* A clean session is closed; the draft keeps its place in the map.
Close(d) ==
    /\ User("close") /\ Working /\ Open(d) /\ ~note[d].dirty
    /\ note' = [note EXCEPT ![d].at = "gone"]
    /\ UNCHANGED <<files, folder, armed, job, flush, scan, newest, seq, histories>>

\* A file is opened into the active session, which is clean: open_path, adopt.
OpenFile(d) ==
    /\ User("open") /\ Working /\ Open(d) /\ ~note[d].dirty
    /\ note' = [note EXCEPT ![d].text = Alien]
    /\ UNCHANGED <<files, folder, armed, job, flush, scan, newest, seq, histories>>

-----------------------------------------------------------------------------
(* Leaving: flush_pending_drafts.                                           *)

\* Mutant: only the drafts whose timer still runs.
ToFlushArmed == armed
ToFlush == {d \in Drafts : Open(d)}

Leave(after) ==
    /\ User(after) /\ Working
    /\ flush' = [todo |-> ToFlush, after |-> after, failed |-> FALSE]
    /\ UNCHANGED <<files, folder, note, armed, job, scan, newest, seq, histories>>

FlushNext(d) ==
    /\ d \in flush.todo /\ job[Ui].pc = "free"
    /\ flush' = [flush EXCEPT !.todo = @ \ {d}]
    /\ job' = [job EXCEPT ![Ui] = [pc |-> "lock", kind |-> "write", draft |-> d,
                                   seq |-> seq, snap |-> Snapshot(d)]]
    /\ TakeSequence
    /\ UNCHANGED <<files, folder, note, armed, scan, newest, histories, moves>>

Flushed == flush.after # "none" /\ flush.todo = {} /\ job[Ui].pc = "free"

\* The sessions go with the folder; the background threads go on.
LeaveFolder ==
    /\ Flushed /\ flush.after = "leave"
    /\ folder' = "away"
    /\ note' = [d \in Drafts |-> Absent] /\ armed' = {} /\ flush' = NoFlush
    /\ UNCHANGED <<files, job, scan, newest, seq, histories, moves>>

\* Everything that is not on the disk goes with the process.
Ends ==
    /\ folder' = "off"
    /\ note' = [d \in Drafts |-> Absent] /\ armed' = {} /\ flush' = NoFlush
    /\ job' = [t \in Threads |-> Idle] /\ scan' = NoScan
    /\ newest' = [d \in Drafts |-> 0] /\ seq' = 1
    /\ UNCHANGED <<files, histories>>

\* A quit ignores what failed; a restart for an update does not.
Quit ==
    /\ Flushed
    /\ \/ flush.after = "quit"
       \/ flush.after = "restart" /\ ~flush.failed
    /\ Ends /\ UNCHANGED moves

RestartBlocked ==
    /\ Flushed /\ flush.after = "restart" /\ flush.failed
    /\ flush' = NoFlush
    /\ UNCHANGED <<files, folder, note, armed, job, scan, newest, seq, histories, moves>>

Crash == folder # "off" /\ Move /\ Ends

-----------------------------------------------------------------------------
(* The store: write_snapshot and remove, on any thread.                     *)

\* Mutant: a thread that waits for the lock keeps the others from it.
LockFreeOfWaiters(t) ==
    \A u \in Threads \ {t} : job[u].pc = "free" \/ job[u].draft # job[t].draft

LockFree(t) ==
    \A u \in Threads \ {t} :
        job[u].pc \in {"free", "lock"} \/ job[u].draft # job[t].draft

\* Mutant: snapshots are not ordered.
Unordered(t) == FALSE
Superseded(t) == job[t].seq < newest[job[t].draft]

Done(t) == job' = [job EXCEPT ![t] = Idle]
Goes(t, pc) == job' = [job EXCEPT ![t].pc = pc]

TakeLock(t) ==
    /\ job[t].pc = "lock" /\ job[t].kind = "write" /\ LockFree(t)
    /\ IF Superseded(t) THEN Done(t) ELSE Goes(t, "replace")
    /\ UNCHANGED <<files, folder, note, armed, flush, scan, newest, seq, histories, moves>>

\* Mutant: a removal takes no part in the order of snapshots.
RemovalUnordered(t) == UNCHANGED <<newest, seq>>

\* Snapshots read before the removal are older than it.
RemovalOrdered(t) ==
    newest' = [newest EXCEPT ![job[t].draft] = seq] /\ TakeSequence

BeginRemoval(t) ==
    /\ job[t].pc = "lock" /\ job[t].kind = "remove" /\ LockFree(t)
    /\ RemovalOrdered(t)
    /\ Goes(t, "text")
    /\ spoiled' = IF Open(job[t].draft)
                  THEN [spoiled EXCEPT ![job[t].draft] = @ \cup {"removed"}] ELSE spoiled
    /\ UNCHANGED <<files, folder, note, armed, flush, scan, named, retired, pairs,
                   overlap, moves>>

\* No write of the draft that is under way is newer.
Newest(t) ==
    \A u \in Threads \ {t} :
        /\ job[u].pc \in {"lock", "replace"} /\ job[u].kind = "write"
        /\ job[u].draft = job[t].draft
        => job[u].seq < job[t].seq

\* Text and target land in one file by one rename.
ReplaceEntry(t) ==
    /\ job[t].pc = "replace"
    /\ LET d == job[t].draft IN
       \E ok \in BOOLEAN :
          /\ Outcome(ok)
          /\ IF ok
             THEN /\ entry' = [entry EXCEPT ![d] = {job[t].snap}]
                  /\ newest' = [newest EXCEPT ![d] = job[t].seq]
                  /\ spoiled' = IF Snapshot(d) = job[t].snap /\ Newest(t)
                                THEN [spoiled EXCEPT ![d] = {}] ELSE spoiled
                  /\ Goes(t, "text")
                  /\ UNCHANGED flush
             ELSE /\ spoiled' = [spoiled EXCEPT ![d] = @ \cup {"failed"}]
                  /\ Done(t)
                  /\ flush' = IF t = Ui THEN [flush EXCEPT !.failed = TRUE] ELSE flush
                  /\ UNCHANGED <<entry, newest>>
    /\ UNCHANGED <<md, sidecar, folder, note, armed, scan, seq, named, retired,
                   pairs, overlap>>

\* A write ignores a failing removal of the older version's files, a removal
\* ends with it.
Gives(t, ok, next) ==
    /\ Outcome(ok)
    /\ IF ok \/ job[t].kind = "write" THEN next ELSE Done(t)

RemoveText(t) ==
    /\ job[t].pc = "text"
    /\ \E ok \in BOOLEAN :
          /\ md' = IF ok THEN [md EXCEPT ![job[t].draft] = {}] ELSE md
          /\ Gives(t, ok, Goes(t, "target"))
    /\ UNCHANGED <<entry, sidecar, folder, note, armed, flush, scan, newest, seq, histories>>

RemoveTarget(t) ==
    /\ job[t].pc = "target"
    /\ \E ok \in BOOLEAN :
          /\ sidecar' = IF ok THEN [sidecar EXCEPT ![job[t].draft] = {}] ELSE sidecar
          /\ Gives(t, ok, IF job[t].kind = "write" THEN Done(t) ELSE Goes(t, "entry"))
    /\ UNCHANGED <<entry, md, folder, note, armed, flush, scan, newest, seq, histories>>

\* The note has come back meanwhile and has been named again.
RemovedAgain(t) ==
    \E u \in Threads \ {t} : /\ job[u].pc # "free" /\ job[u].kind = "remove"
                              /\ job[u].draft = job[t].draft

RemoveEntry(t) ==
    /\ job[t].pc = "entry"
    /\ LET d == job[t].draft IN
       \E ok \in BOOLEAN :
          /\ Outcome(ok)
          /\ entry' = IF ok THEN [entry EXCEPT ![d] = {}] ELSE entry
          /\ retired' = IF ok /\ note[d].at = "none" /\ ~RemovedAgain(t)
                        THEN retired \cup {d} ELSE retired
          /\ spoiled' = IF ok /\ Open(d) THEN [spoiled EXCEPT ![d] = @ \cup {"removed"}]
                        ELSE spoiled
    /\ Done(t)
    /\ UNCHANGED <<md, sidecar, folder, note, armed, flush, scan, newest, seq, named,
                   pairs, overlap>>

-----------------------------------------------------------------------------
(* Opening the work folder: recover, finish_work_folder_scan.               *)

Launch ==
    /\ folder = "off"
    /\ folder' = "away"
    /\ UNCHANGED <<files, note, armed, job, flush, scan, newest, seq, histories, moves>>

\* A thread of an earlier visit still works on the draft.
Busy(d) == \E t \in Threads : job[t].pc # "free" /\ job[t].draft = d

OpenFolder ==
    /\ folder = "away"
    /\ folder' = "scanning"
    /\ scan' = [NoScan EXCEPT !.pc = "list"]
    /\ spoiled' = [d \in Drafts |-> {}]
    /\ overlap' = {d \in Drafts : Busy(d)}
    /\ UNCHANGED <<files, note, armed, job, flush, newest, seq, named, retired, pairs, moves>>

\* read_dir: every draft that has an entry or a text.
ScanList ==
    /\ scan.pc = "list"
    /\ scan' = [scan EXCEPT !.pc = "next",
                            !.todo = {d \in Drafts : entry[d] # {} \/ md[d] # {}}]
    /\ UNCHANGED <<files, folder, note, armed, job, flush, newest, seq, histories, moves>>

Found(d, pair) ==
    scan' = [scan EXCEPT !.pc = "next", !.cur = {}, !.text = Alien,
                         !.got = @ \cup {[draft |-> d, pair |-> pair]}]
ReadFailed == scan' = [scan EXCEPT !.pc = "next", !.cur = {}, !.text = Alien]

UnreadTarget(d) == ReadFailed

\* The entry of the next draft, in any order; without one, its older files.
ReadEntry(d) ==
    /\ scan.pc = "next" /\ d \in scan.todo
    /\ \E ok \in BOOLEAN :
          /\ Outcome(ok)
          /\ LET rest == scan.todo \ {d} IN
             IF ~ok THEN scan' = [scan EXCEPT !.todo = rest]
             ELSE IF entry[d] = {}
             THEN scan' = [scan EXCEPT !.pc = "text", !.cur = {d}, !.todo = rest]
             ELSE \E pair \in entry[d] :
                     scan' = [scan EXCEPT !.todo = rest,
                                          !.got = @ \cup {[draft |-> d, pair |-> pair]}]
    /\ UNCHANGED <<files, folder, note, armed, job, flush, newest, seq, histories>>

\* A text that is missing or unreadable counts as a failure.
ReadText(d) ==
    /\ scan.pc = "text" /\ d \in scan.cur
    /\ \E ok \in BOOLEAN :
          /\ Outcome(ok)
          /\ IF ~ok \/ md[d] = {} THEN ReadFailed
             ELSE \E x \in md[d] : scan' = [scan EXCEPT !.pc = "target", !.text = x]
    /\ UNCHANGED <<files, folder, note, armed, job, flush, newest, seq, histories>>

\* A missing sidecar is the root; one that cannot be read is a failure.
ReadTarget(d) ==
    /\ scan.pc = "target" /\ d \in scan.cur
    /\ \E ok \in BOOLEAN :
          /\ Outcome(ok)
          /\ IF ~ok THEN UnreadTarget(d)
             ELSE \E t \in IF sidecar[d] = {} THEN {Root} ELSE sidecar[d] :
                     Found(d, [text |-> scan.text, target |-> t])
    /\ UNCHANGED <<files, folder, note, armed, job, flush, newest, seq, histories>>

\* Each draft becomes a note in a session of its own.
InstallDrafts ==
    /\ folder = "scanning" /\ scan.pc = "next" /\ scan.todo = {}
    /\ folder' = "here"
    /\ LET back == {g.draft : g \in scan.got}
           pair(d) == (CHOOSE g \in scan.got : g.draft = d).pair IN
       /\ note' = [d \in Drafts |->
                      IF d \in back
                      THEN [at |-> "open", text |-> pair(d).text,
                            target |-> pair(d).target, dirty |-> FALSE]
                      ELSE Absent]
       /\ retired' = retired \ back
       /\ pairs' = [d \in Drafts |-> IF d \in back \cap overlap
                                     THEN pairs[d] \cup {pair(d)} ELSE pairs[d]]
    /\ scan' = NoScan
    /\ UNCHANGED <<files, armed, job, flush, newest, seq, named, spoiled,
                   overlap, moves>>

\* Another folder is opened meanwhile: the result will be dropped.
AbandonScan ==
    /\ User("leave") /\ folder = "scanning"
    /\ folder' = "away" /\ scan' = NoScan
    /\ UNCHANGED <<files, note, armed, job, flush, newest, seq, histories>>

-----------------------------------------------------------------------------
Store(t) ==
    \/ TakeLock(t)
    \/ BeginRemoval(t)
    \/ ReplaceEntry(t)
    \/ RemoveText(t)
    \/ RemoveTarget(t)
    \/ RemoveEntry(t)

Recovery ==
    \/ Launch
    \/ OpenFolder
    \/ ScanList
    \/ \E d \in Drafts : ReadEntry(d) \/ ReadText(d) \/ ReadTarget(d)
    \/ InstallDrafts

Flushing ==
    \/ \E d \in Drafts : FlushNext(d)
    \/ LeaveFolder
    \/ Quit
    \/ RestartBlocked

Next ==
    \/ \E d \in Drafts :
          \/ NewNote(d)
          \/ Edit(d)
          \/ Retarget(d)
          \/ TimerFires(d)
          \/ Name(d)
          \/ Close(d)
          \/ OpenFile(d)
    \/ \E after \in {"leave", "quit", "restart"} : Leave(after)
    \/ Flushing
    \/ \E t \in Threads : Store(t)
    \/ Recovery
    \/ AbandonScan
    \/ Crash

\* Timers end, threads go on, and the window finishes what it began.  Nothing
\* makes the user act.
Fairness ==
    /\ \A d \in Drafts : WF_vars(TimerFires(d))
    /\ \A t \in Threads : WF_vars(Store(t))
    /\ WF_vars(Flushing)

Spec == Init /\ [][Next]_vars /\ Fairness

-----------------------------------------------------------------------------
Mine(d) == Open(d) /\ note[d].text # Alien
Writing(d) == \E t \in Threads :
    job[t].pc # "free" /\ job[t].kind = "write" /\ job[t].draft = d
Has(d, text) == \E pair \in Held(d) : pair.text = text

\* What a recovery would bring back of a note is a text of it together with a
\* target it had at that text, after any crash between two files and any failing
\* read: no note moves to another folder by being lost and recovered
\* (draft.rs:438).
PairsAreWhole ==
    \A d \in Drafts : \A pair \in Held(d) : pair.text # Alien => pair \in pairs[d]

\* The journal of a note never goes back to an older text of the note, and it
\* disappears only once the note has its file: not when a save that was overtaken
\* ends late (draft.rs:334), nor in a crash between two removals (draft.rs:369).
\* Two exceptions: another document's text may replace the note's
\* (UnnamedNoteIsKept), and a note whose draft was being written or removed while
\* it was recovered may go back, as recovery takes no lock.
JournalOnlyAdvances ==
    [][\A d \in Drafts : \A pair \in Held(d) :
          \/ \E pair2 \in Held(d)' : pair2.text >= pair.text \/ pair2.text = Alien
          \/ Held(d)' = {} /\ d \in named
          \/ d \in overlap]_vars

\* A new note that has no name yet does not lose its content when the
\* application quits or crashes (README.md:171): no other document's text takes
\* the place of its own in its draft.  It does not hold: a file may be opened
\* into the clean session of a recovered note (README, section 13).
UnnamedNoteIsKept ==
    [][\A d \in Drafts \ named :
          \A pair \in Held(d), pair2 \in Held(d)' :
              pair.text # Alien => pair2.text # Alien]_vars

\* Once the timer and the writes of a note are over, its journal is its text:
\* no snapshot is dropped for one that is older (session_save.rs:102).
SettledIsJournalled ==
    \A d \in Drafts :
        Mine(d) /\ note[d].dirty /\ d \notin armed /\ ~Writing(d) /\ spoiled[d] = {}
        => Has(d, note[d].text)

\* When the window leaves the folder or ends in order, each of its notes is in
\* the journal as it is, edited or not; a restart for an update does not go on
\* without that (session_save.rs:167).
LeavingKeepsNotes ==
    [][flush.after # "none" /\ (LeaveFolder \/ Quit)
       => \A d \in Drafts :
             /\ Mine(d)
             /\ \/ spoiled[d] = {}
                \/ flush.after = "restart" /\ spoiled[d] = {"failed"}
             => Snapshot(d) \in Held(d)]_vars

\* The draft of a named note, once removed, does not come back by a write that
\* was under way (draft.rs:357).
RetiredStaysRetired ==
    \A d \in retired : note[d].at = "none" => Held(d) = {}

\* What the journal says of the notes at any time, once nobody writes, and of
\* removed ones.
JournalIsSound ==
    TypeOK /\ PairsAreWhole /\ SettledIsJournalled /\ RetiredStaysRetired

\* An edit reaches the journal although nobody saves it, unless the note gets a
\* name, the write fails or the process ends: threads that wait for one draft's
\* lock do not keep each other from it.
EditsReachJournal ==
    \A d \in Drafts : \A x \in Text \ {Alien} :
        (Mine(d) /\ note[d].dirty /\ note[d].text = x)
        ~> \/ \E pair \in Held(d) : pair.text >= x
           \/ d \in named \/ spoiled[d] # {} \/ folder = "off"
=============================================================================
