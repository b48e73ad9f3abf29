--------------------------- MODULE FolderListing ---------------------------
(* The listing of the work folder in the sidebar (crates/ui: folder_watch,  *)
(* content_search, view; crates/session: watch, workfolder).  A watcher     *)
(* turns what the operating system reports into batches; a batch has the    *)
(* folder listed anew in the background; a search lists it too.  What Hane  *)
(* itself writes is entered into the listing at once, when its own          *)
(* background task has come back.  All of it races: changes of other        *)
(* programs, reports that are lost and said to be lost, a watch that cannot *)
(* be attached, listings that fail or come back in another order, and the   *)
(* next folder.                                                             *)
(*                                                                          *)
(* Abstracted: the times of the debounce (a batch is due at some time); the *)
(* nesting of folders, of which Dir, the one with the notes, remains; the   *)
(* number of a read of a path's time, which is the version it has read      *)
(* (reads of one path are numbered in their order); what the sidebar keeps  *)
(* for a path; the checks of open documents, which DocumentSession has.     *)
EXTENDS Naturals, Sequences

CONSTANTS
    Roots,     \* folders that can be opened
    NoRoot,    \* no folder
    Names,     \* the notes of a folder
    Dir,       \* the folder that contains them
    Orders,    \* sort orders of the sidebar
    ReadOrder, \* the order a listing is read in
    Budget,    \* bound on what users and other programs do and on what fails
    MaxFaults  \* bound on what fails or is reported for nothing

ASSUME ListingAssumption ==
    /\ NoRoot \notin Roots /\ Dir \notin Names
    /\ ReadOrder \in Orders
    /\ Budget \in Nat /\ MaxFaults \in Nat

VARIABLES
    disk,     \* what is there, and in which version
    watch,    \* the FolderWatcher and what its debounce thread has gathered
    batches,  \* batches sent to the view
    view,     \* FolderWatchState and ListingRequests
    timers,   \* generations with a retry of the watch scheduled
    scans,    \* listings under way
    folder,   \* the WorkFolder shown
    sort,     \* the order the settings name
    ops,      \* Hane's own writes under way
    late,     \* history: paths entered after they had changed again
    masked,   \* history: a refresh rejected for a later listing that had failed
    asked,    \* what users and other programs have done
    faults    \* what has failed or been reported for nothing

vars == <<disk, watch, batches, view, timers, scans, folder, sort, ops, late, masked,
          asked, faults>>

Paths == Names \cup {Dir}
Kinds == {"first", "external", "refresh", "search"}
Writes == {"save", "create", "rename", "trash"}

Entry == [there : BOOLEAN, ver : Nat]
Watch == [on : BOOLEAN, root : Roots \cup {NoRoot}, gen : Nat, deaf : BOOLEAN,
          window : {"none", "changed", "failed"}]
View == [gen : Nat, root : Roots \cup {NoRoot}, running : BOOLEAN, pending : BOOLEAN,
         failure : BOOLEAN, unwatched : BOOLEAN, started : Nat, applied : Nat, token : Nat]
Scan == [kind : Kinds, gen : Nat, root : Roots, req : Nat, trouble : BOOLEAN,
         read : SUBSET Paths, files : SUBSET Paths, stamp : [Paths -> Nat]]
Folder == [root : Roots \cup {NoRoot}, files : SUBSET Paths, stamp : [Paths -> Nat],
           order : Orders, req : Nat]
Op == [kind : Writes, gen : Nat, root : Roots, path : Names, to : Names,
       pc : {"leaf", "dir", "done"}, was : [Names -> Nat], leaf : Nat, dir : Nat]

TypeOK ==
    /\ disk \in [Roots -> [Paths -> Entry]]
    /\ watch \in Watch
    /\ batches \in Seq([gen : Nat, failed : BOOLEAN])
    /\ view \in View
    /\ timers \subseteq Nat
    /\ scans \subseteq Scan
    /\ folder \in Folder
    /\ sort \in Orders
    /\ ops \subseteq Op
    /\ late \subseteq Paths /\ masked \in BOOLEAN
    /\ asked \in 0 .. Budget /\ faults \in 0 .. MaxFaults

NoWatch == [on |-> FALSE, root |-> NoRoot, gen |-> 0, deaf |-> FALSE, window |-> "none"]
Nothing == [p \in Paths |-> 0]
NoFolder == [root |-> NoRoot, files |-> {}, stamp |-> Nothing, order |-> ReadOrder, req |-> 0]

Init ==
    /\ \E S \in SUBSET Names :
          disk = [r \in Roots |-> [p \in Paths |-> [there |-> p \in S \cup {Dir}, ver |-> 1]]]
    /\ watch = NoWatch
    /\ batches = <<>>
    /\ view = [gen |-> 0, root |-> NoRoot, running |-> FALSE, pending |-> FALSE,
               failure |-> FALSE, unwatched |-> FALSE, started |-> 0, applied |-> 0, token |-> 0]
    /\ timers = {} /\ scans = {}
    /\ folder = NoFolder
    /\ sort = ReadOrder
    /\ ops = {} /\ late = {} /\ masked = FALSE
    /\ asked = 0 /\ faults = 0

Ask == asked + faults < Budget /\ asked' = asked + 1

\* One more thing may fail after n.
MayFail(n) == n < MaxFaults /\ asked + n < Budget
Fault == MayFail(faults) /\ faults' = faults + 1

-----------------------------------------------------------------------------
(* The disk and what is reported of it.                                     *)

Changed(d, r, p, there) == [d EXCEPT ![r][p] = [there |-> there, ver |-> @.ver + 1]]

\* A name that comes, goes or is replaced is a change of its folder too.
Entered(r, p, there) == Changed(Changed(disk, r, p, there), r, Dir, TRUE)

\* The operating system tells the watch of the folder, unless it has died.
Told(r) == [watch EXCEPT !.window =
    IF watch.on /\ watch.root = r /\ ~watch.deaf /\ @ = "none" THEN "changed" ELSE @]

\* Another program creates, deletes or rewrites a note.
OthersChange(r, p) ==
    /\ Ask
    /\ \/ disk' = Entered(r, p, ~disk[r][p].there)
       \/ disk[r][p].there /\ disk' = Changed(disk, r, p, TRUE)
    /\ watch' = Told(r)
    /\ UNCHANGED <<batches, view, timers, scans, folder, sort, ops, late, masked, faults>>

\* Reports were dropped, the watch failed, or the folder was moved away:
\* classify makes a failure of it.  The watch may report nothing from then on.
WatchTrouble ==
    /\ watch.on /\ Fault
    /\ \E d \in BOOLEAN : watch' = [watch EXCEPT !.window = "failed", !.deaf = d]
    /\ UNCHANGED <<disk, batches, view, timers, scans, folder, sort, ops, late, masked, asked>>

\* run_debouncer: the batch is due.
BatchDue ==
    /\ watch.window # "none"
    /\ batches' = Append(batches, [gen |-> watch.gen, failed |-> watch.window = "failed"])
    /\ watch' = [watch EXCEPT !.window = "none"]
    /\ UNCHANGED <<disk, view, timers, scans, folder, sort, ops, late, masked, asked, faults>>

\* A report that is about nothing shown, one told twice, or what the thread of
\* a watcher hands over after its drop.
SpareBatch ==
    /\ Fault
    /\ \E g \in 1 .. view.gen, f \in BOOLEAN : batches' = Append(batches, [gen |-> g, failed |-> f])
    /\ UNCHANGED <<disk, watch, view, timers, scans, folder, sort, ops, late, masked, asked>>

-----------------------------------------------------------------------------
(* The view.                                                                *)

NewWatch(v, ok) == IF ok THEN [NoWatch EXCEPT !.on = TRUE, !.root = v.root, !.gen = v.gen]
                   ELSE NoWatch

NewScan(kind, v, r, req) == [kind |-> kind, gen |-> v.gen, root |-> r, req |-> req,
    trouble |-> FALSE, read |-> {}, files |-> {}, stamp |-> Nothing]

\* connect_folder_watch: what fails is tried again later.
Connect(v, t, ok) ==
    /\ timers' = IF ok THEN t ELSE t \cup {v.gen}
    /\ watch' = NewWatch(v, ok)

\* Mutant: a batch that arrives during a listing is taken for its part.
Follow(v) == v

\* One more listing follows the one that runs.
FollowUp(v) == [v EXCEPT !.pending = TRUE]

\* refresh_work_folder_listing, from a state v of the view with the watch w
\* and the listings s; n faults so far.
Relist(v, w, t, s, here, n) ==
    LET busy == ~here \/ v.running
        reattach == ~busy /\ v.failure
    IN  \E ok \in IF reattach THEN BOOLEAN ELSE {TRUE} :
          /\ ok \/ MayFail(n)
          /\ faults' = IF ok THEN n ELSE n + 1
          /\ IF reattach THEN Connect(v, t, ok) ELSE watch' = w /\ timers' = t
          /\ view' = IF busy THEN FollowUp(v)
                     ELSE [v EXCEPT !.running = TRUE, !.pending = FALSE, !.failure = FALSE,
                                    !.unwatched = IF reattach THEN ~ok ELSE @,
                                    !.started = @ + 1]
          /\ scans' = IF busy THEN s ELSE s \cup {[NewScan("refresh", v, v.root, v.started + 1) EXCEPT
                                                !.trouble = v.failure]}

Here == folder.root # NoRoot

\* folder_watch_batch_arrived.
BatchArrives ==
    /\ batches # <<>>
    /\ batches' = Tail(batches)
    /\ LET b == Head(batches) IN
       \/ /\ b.gen # view.gen
          /\ UNCHANGED <<view, watch, timers, scans, faults>>
       \/ /\ b.gen = view.gen
          /\ Relist([view EXCEPT !.failure = @ \/ b.failed], watch, timers, scans, Here, faults)
    /\ UNCHANGED <<disk, folder, sort, ops, late, masked, asked>>

\* retry_folder_watch.
RetryWatch(g) ==
    /\ g \in timers
    /\ LET t == timers \ {g} IN
       \/ /\ g # view.gen \/ ~view.unwatched
          /\ timers' = t
          /\ UNCHANGED <<view, watch, scans, faults>>
       \/ /\ g = view.gen /\ view.unwatched
          /\ Fault /\ Connect(view, t, FALSE)
          /\ UNCHANGED <<view, scans>>
       \/ /\ g = view.gen /\ view.unwatched
          /\ Relist([view EXCEPT !.unwatched = FALSE], NewWatch(view, TRUE), t, scans, Here, faults)
    /\ UNCHANGED <<disk, batches, folder, sort, ops, late, masked, asked>>

\* reset_for_work_folder_switch and start_folder_watch.
Reset(r, ok) ==
    [gen |-> view.gen + 1, root |-> r, running |-> FALSE, pending |-> FALSE, failure |-> FALSE,
     unwatched |-> ~ok, started |-> view.started, applied |-> view.applied, token |-> view.token]

\* switch_to_work_folder, begin_work_folder_scan: watched before it is read.
OpenFolder(r) ==
    /\ Ask
    /\ \E ok \in BOOLEAN :
          LET v == [Reset(r, ok) EXCEPT !.started = @ + 1] IN
          /\ IF ok THEN UNCHANGED faults ELSE Fault
          /\ Connect(v, timers, ok)
          /\ view' = v
          /\ scans' = scans \cup {NewScan("first", v, r, v.started)}
    /\ folder' = NoFolder /\ late' = {} /\ masked' = FALSE
    /\ UNCHANGED <<disk, batches, sort, ops>>

\* open_external_folder: read before anything is replaced.
OpenExternal(r) ==
    /\ Ask
    /\ view' = [view EXCEPT !.token = @ + 1]
    /\ scans' = scans \cup {NewScan("external", view, r, view.token + 1)}
    /\ UNCHANGED <<disk, watch, batches, timers, folder, sort, ops, late, masked, faults>>

\* begin_content_search_rescan.
SearchAgain ==
    /\ Ask /\ Here
    /\ view' = [view EXCEPT !.started = @ + 1]
    /\ scans' = scans \cup {NewScan("search", view, view.root, view.started + 1)}
    /\ UNCHANGED <<disk, watch, batches, timers, folder, sort, ops, late, masked, faults>>

\* set_sidebar_sort.
SetSort(o) ==
    /\ Ask /\ o # sort
    /\ sort' = o
    /\ folder' = IF Here THEN [folder EXCEPT !.order = o] ELSE folder
    /\ UNCHANGED <<disk, watch, batches, view, timers, scans, ops, late, masked, faults>>

-----------------------------------------------------------------------------
(* Listings.                                                                *)

\* OsWorkFolderScanner: a path is there or not, with its time, when the walk
\* comes to it; a folder comes before what is in it.  The look for the entry and
\* the one for its time (modified_with_sequence) are one: a note removed between
\* them is listed without a time, until its removal is reported.
ScanReads(s, p) ==
    /\ s \in scans /\ p \notin s.read
    /\ p # Dir => Dir \in s.read
    /\ LET e == disk[s.root][p] IN
       scans' = (scans \ {s}) \cup
           {[s EXCEPT !.read = @ \cup {p},
                      !.files = IF e.there THEN @ \cup {p} ELSE @,
                      !.stamp[p] = IF e.there THEN e.ver ELSE 0]}
    /\ UNCHANGED <<disk, watch, batches, view, timers, folder, sort, ops, late, masked,
                   asked, faults>>

\* Mutant: whatever comes last is shown.
AnyListing(s) == TRUE

\* accept_listing_result.
Accepted(s) == s.req > view.applied

Apply(v, s) == [v EXCEPT !.applied = s.req]

\* The listing replaces the tree; a search leaves it in the order it was read.
Install(s) ==
    /\ folder' = [root |-> s.root, files |-> s.files, stamp |-> s.stamp, req |-> s.req,
                  order |-> IF s.kind = "search" THEN ReadOrder ELSE sort]
    /\ late' = {} /\ masked' = FALSE

\* A listing is rejected; the one shown may be older still.
Reject(s) ==
    /\ masked' = (masked \/ s.req > folder.req)
    /\ UNCHANGED <<folder, late>>

Done(s) == s.read = Paths

\* A result for a folder that has been replaced is dropped.
Replaced(s) ==
    /\ s.gen # view.gen \/ (s.kind = "external" /\ s.req # view.token)
    /\ Done(s)
    /\ scans' = scans \ {s}
    /\ UNCHANGED <<watch, view, timers, folder, late, masked, faults>>

\* finish_work_folder_scan; resume_pending_folder_refresh.
FinishFirst(s) ==
    /\ s.kind = "first" /\ s.gen = view.gen
    /\ \/ /\ Done(s) /\ Accepted(s)
          /\ Install(s)
          /\ IF view.pending THEN Relist(Apply(view, s), watch, timers, scans \ {s}, TRUE, faults)
             ELSE /\ view' = Apply(view, s) /\ scans' = scans \ {s}
                  /\ UNCHANGED <<watch, timers, faults>>
       \/ /\ Fault /\ Accepted(s)
          /\ view' = Apply(view, s) /\ scans' = scans \ {s}
          /\ UNCHANGED <<watch, timers, folder, late, masked>>

\* finish_external_folder_open: refused, failed, or the folder is replaced by
\* what was read before it was watched, and read once more.
FinishExternal(s) ==
    /\ s.kind = "external" /\ s.gen = view.gen /\ s.req = view.token
    /\ \/ /\ Done(s)
          /\ scans' = scans \ {s}
          /\ UNCHANGED <<watch, view, timers, folder, late, masked, faults>>
       \/ /\ Done(s)
          /\ \E ok \in BOOLEAN :
                LET v == [Reset(s.root, ok) EXCEPT !.started = @ + 2, !.applied = view.started + 1,
                                                   !.running = TRUE]
                IN /\ IF ok THEN UNCHANGED faults ELSE Fault
                   /\ Connect(v, timers, ok)
                   /\ view' = v
                   /\ scans' = (scans \ {s}) \cup {NewScan("refresh", v, s.root, v.started)}
                   /\ folder' = [root |-> s.root, files |-> s.files, stamp |-> s.stamp,
                                 req |-> v.applied, order |-> sort]
          /\ late' = {} /\ masked' = FALSE

\* Mutant: a listing that is refused resumes nothing.
ResumesAccepted(s) == view.pending /\ Accepted(s)

\* What was asked for while the listing ran is done now.
Resumes(s) == view.pending

\* finish_work_folder_refresh.
FinishRefresh(s) ==
    /\ s.kind = "refresh" /\ s.gen = view.gen
    /\ \E ok \in BOOLEAN :
          LET v == [view EXCEPT !.running = FALSE,
                                !.applied = IF Accepted(s) THEN s.req ELSE @,
                                !.failure = IF Accepted(s) THEN @ \/ ~ok ELSE @ \/ s.trouble]
              n == IF ok THEN faults ELSE faults + 1
          IN /\ IF ok THEN Done(s) ELSE MayFail(faults)
             /\ IF ok /\ Accepted(s) THEN Install(s) ELSE Reject(s)
             /\ IF Resumes(s) THEN Relist(v, watch, timers, scans \ {s}, TRUE, n)
                ELSE /\ view' = v /\ scans' = scans \ {s} /\ faults' = n
                     /\ UNCHANGED <<watch, timers>>

\* finish_content_search_rescan.
FinishSearch(s) ==
    /\ s.kind = "search" /\ s.gen = view.gen
    /\ \/ /\ Done(s) /\ Accepted(s)
          /\ Install(s) /\ UNCHANGED faults
       \/ /\ Done(s) /\ ~Accepted(s)
          /\ UNCHANGED <<folder, late, masked, faults>>
       \/ /\ Fault
          /\ UNCHANGED <<folder, late, masked>>
    /\ view' = IF Accepted(s) THEN Apply(view, s) ELSE view
    /\ scans' = scans \ {s}
    /\ UNCHANGED <<watch, timers>>

ScanFinishes(s) ==
    /\ s \in scans
    /\ Replaced(s) \/ FinishFirst(s) \/ FinishExternal(s) \/ FinishRefresh(s) \/ FinishSearch(s)
    /\ UNCHANGED <<disk, batches, sort, ops, asked>>

-----------------------------------------------------------------------------
(* What Hane itself writes into the open folder: run_save_job, create_dir,  *)
(* rename, move_path_to_trash, in the background.                           *)

NewOp(kind, p, to, d) ==
    [kind |-> kind, gen |-> view.gen, root |-> folder.root, path |-> p, to |-> to,
     pc |-> CASE kind = "trash" -> "done" [] kind = "rename" -> "dir" [] OTHER -> "leaf",
     was |-> [q \in Names |-> d[folder.root][q].ver], leaf |-> 0, dir |-> 0]

\* A save and a rename of one document wait for each other.
Busy(p) == \E o \in ops : /\ o.kind \in {"save", "rename"} /\ o.gen = view.gen
                          /\ p \in {o.path, o.to}

Write(p) ==
    /\ Ask /\ Here
    /\ LET r == folder.root IN
       \E kind \in Writes, to \in Names :
          /\ kind # "rename" => to = p
          /\ kind # "create" => ~Busy(p)
          /\ kind = "create" => ~disk[r][p].there
          /\ kind \in {"rename", "trash"} => disk[r][p].there
          /\ kind = "rename" => ~disk[r][to].there
          /\ LET d == IF kind = "rename" THEN Changed(Entered(r, p, FALSE), r, to, TRUE)
                      ELSE Entered(r, p, kind # "trash")
             IN /\ disk' = d
                /\ ops' = ops \cup {NewOp(kind, p, to, d)}
          /\ watch' = Told(r)
    /\ UNCHANGED <<batches, view, timers, scans, folder, sort, late, masked, faults>>

\* stamp_with_sequence for the note, stamp_ancestor_folders for its folder.
Stamp(o) ==
    /\ o \in ops
    /\ \/ /\ o.pc = "leaf"
          /\ ops' = (ops \ {o}) \cup
                 {[o EXCEPT !.pc = "dir", !.leaf = disk[o.root][o.path].ver]}
       \/ /\ o.pc = "dir"
          /\ ops' = (ops \ {o}) \cup {[o EXCEPT !.pc = "done", !.dir = disk[o.root][Dir].ver]}
    /\ UNCHANGED <<disk, watch, batches, view, timers, scans, folder, sort, late, masked,
                   asked, faults>>

\* WorkFolder::insert, remove.
Inserted(f, p) == IF p \in f.files THEN f
                  ELSE [f EXCEPT !.files = @ \cup {p}, !.stamp[p] = 0]
Removed(f, p) == [f EXCEPT !.files = @ \ {p}, !.stamp[p] = 0]

\* WorkFolder::touch: a time that was read earlier than the one shown is
\* dropped.
Touched(f, p, ver) == IF p \in f.files /\ ver > f.stamp[p] THEN [f EXCEPT !.stamp[p] = ver] ELSE f

\* WorkFolder::rename: the time goes along, over one that was read earlier;
\* it is the time of another path, unknown here, and so is when it was read: a
\* later touch is never dropped for it.
Renamed(f, p, q, keep) ==
    IF p \notin f.files THEN f
    ELSE LET g == Inserted(Removed(f, p), q) IN IF keep THEN g ELSE [g EXCEPT !.stamp[q] = 0]

\* What a write enters wrongly: its names, if one has changed since, or a name
\* that takes over such an entry.
Overtaken(o) ==
    LET names == {o.path, o.to}
    IN  IF \E p \in names : disk[o.root][p].ver # o.was[p] \/ p \in late THEN names ELSE {}

\* finish_save and the title's rename drop what is not about the present
\* document, the trash what is not about the present folder; the other two
\* look for their path.
WriteFinishes(o) ==
    /\ o \in ops /\ o.pc = "done"
    /\ ops' = ops \ {o}
    /\ \/ /\ o.kind \in {"save", "trash"} /\ o.gen # view.gen
          /\ UNCHANGED <<folder, late>>
       \/ /\ o.kind \in {"create", "rename"} \/ o.gen = view.gen
          /\ \E keep \in BOOLEAN :
             LET f == IF o.root # folder.root THEN folder
                      ELSE CASE o.kind = "trash" -> Removed(folder, o.path)
                             [] o.kind = "rename" ->
                                   Touched(Renamed(folder, o.path, o.to, keep), Dir, o.dir)
                             [] OTHER ->
                                   Touched(Touched(Inserted(folder, o.path), o.path, o.leaf),
                                           Dir, o.dir)
             IN /\ folder' = f
                /\ late' = IF f.files # folder.files THEN late \cup Overtaken(o) ELSE late
    /\ UNCHANGED <<disk, watch, batches, view, timers, scans, sort, masked, asked, faults>>

-----------------------------------------------------------------------------
Gens == 0 .. view.gen

Work ==
    \/ BatchDue \/ BatchArrives
    \/ \E g \in Gens : RetryWatch(g)
    \/ \E s \in scans : ScanFinishes(s) \/ \E p \in Paths : ScanReads(s, p)
    \/ \E o \in ops : Stamp(o) \/ WriteFinishes(o)

Next ==
    \/ Work
    \/ WatchTrouble \/ SpareBatch
    \/ \E r \in Roots : OpenFolder(r) \/ OpenExternal(r) \/ \E p \in Names : OthersChange(r, p)
    \/ SearchAgain \/ \E o \in Orders : SetSort(o)
    \/ \E p \in Names : Write(p)

Spec == Init /\ [][Next]_vars

\* Background tasks run to their end, timers fire, threads get their turn.
FairSpec == Spec /\ WF_vars(Work)

-----------------------------------------------------------------------------
(* Properties.                                                              *)

\* Nothing is left to be done about the listing, and the view says nothing
\* of trouble.
Quiet ==
    /\ ~view.unwatched /\ ~view.failure /\ ~view.running /\ ~view.pending
    /\ watch.window = "none"
    /\ \A i \in 1 .. Len(batches) : batches[i].gen # view.gen

Current(p) ==
    LET e == disk[folder.root][p] IN
    /\ p \in folder.files <=> e.there
    /\ p \in folder.files => folder.stamp[p] = e.ver

\* When the view has nothing left to do and reports no trouble, the sidebar
\* shows what is on the disk, with its times: whatever was dropped, failed or
\* came in another order.  Except for a path entered after another program had
\* changed it again, and for a refresh rejected for a search's later listing
\* that had failed (finish_work_folder_refresh, finish_content_search_rescan).
QuietIsCurrent == TypeOK /\ (Here /\ Quiet /\ ~masked => \A p \in Paths \ late : Current(p))

\* A listing never gives way to one that was asked for before it, and none of
\* a folder that has been left is shown.
NewestListing ==
    folder'.root # NoRoot => folder'.req >= folder.req /\ folder'.root = view'.root

\* Between two listings a time shown never gives way to one that was read
\* before it, in whatever order Hane's own writes come back.
TimesGoForward ==
    folder'.req = folder.req =>
        \A p \in folder.files \cap folder'.files :
           folder'.stamp[p] # 0 => folder'.stamp[p] >= folder.stamp[p]

\* What the sidebar shows never gives way to something older: no listing, and
\* no time, in whatever order they come (accept_listing_result, WorkFolder::touch).
NothingOlderIsShown == [][NewestListing /\ TimesGoForward]_vars

\* Every change, report and failure is followed up, and a watch that could not
\* be attached is attached in the end, without any notification: nothing is left
\* to be done, unless the last listing failed, which the next notification takes
\* up (resume_pending_folder_refresh, schedule_folder_watch_retry).
CatchesUp == <>[](~view.unwatched /\ (Here => Quiet \/ view.failure))

-----------------------------------------------------------------------------
(* What comments of the code say, and does not hold: see the README.        *)

\* folder_watch.rs:317: a listing is rejected only for one that was started
\* later and has been installed.
ListingIsCurrent == Here /\ Quiet => \A p \in Paths \ late : Current(p)

\* store.rs:62, workfolder.rs:347: the sidebar is in the order the settings
\* name.
SortIsTheSetting == Here => folder.order = sort
=============================================================================
