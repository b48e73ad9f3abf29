------------------------ MODULE FolderListingProofs ------------------------
(* NothingOlderIsShown and QuietIsCurrent for any folders, notes, orders,    *)
(* requests and failures.                                                    *)
(*                                                                           *)
(* The numbers of the requests carry the first: what is shown has a number   *)
(* that has been applied, every listing under way one that has been started, *)
(* and a listing of the present generation is of the folder that is open.    *)
(* The times need that what is read and entered is a version.                *)
(*                                                                           *)
(* The second needs, besides the types, that there is one refresh exactly    *)
(* while the view says so, that a watch that has died has said so            *)
(* (FollowInv), and that, while nothing is reported that has not led to a    *)
(* listing, what has been read is still so (FitInv).                         *)
EXTENDS FolderListing, TLAPS

ScanFields == {"kind", "gen", "root", "req", "trouble", "read", "files", "stamp"}
FolderFields == {"root", "files", "stamp", "order", "req"}

\* A listing under way, as the view v knows it.
ScanOK(v, s) ==
    /\ DOMAIN s = ScanFields
    /\ s.kind \in Kinds /\ s.root \in Roots
    /\ s.gen \in Nat /\ s.gen <= v.gen
    /\ s.req \in Nat
    /\ s.files \subseteq Paths /\ s.stamp \in [Paths -> Nat]
    /\ s.kind # "external" => s.req <= v.started /\ (s.gen = v.gen => s.root = v.root)

FolderOK(v, f) ==
    /\ DOMAIN f = FolderFields
    /\ f.files \subseteq Paths /\ f.stamp \in [Paths -> Nat]
    /\ f.root \in Roots \cup {NoRoot}
    /\ f.req \in Nat /\ f.req <= v.applied
    /\ f.root # NoRoot => f.root = v.root

ViewOK(v) == v \in View /\ v.applied <= v.started

ListingInv ==
    /\ ViewOK(view)
    /\ \A s \in scans : ScanOK(view, s)
    /\ FolderOK(view, folder)

\* The times shown for the same listing only go forward.
Onward(f, g) ==
    \A p \in f.files \cap g.files : g.stamp[p] # 0 => g.stamp[p] >= f.stamp[p]

\* What a step may do to the folder shown, given the view after it.
Newer(f, g, v) ==
    /\ g.root # NoRoot => g.req >= f.req /\ g.root = v.root
    /\ g.req = f.req => Onward(f, g)

\* A new listing of the open folder.
LEMMA NewScanOK ==
    ASSUME NEW v \in View, NEW kind \in Kinds, NEW r \in Roots, NEW n \in Nat,
           kind # "external" => n <= v.started /\ r = v.root
    PROVE  /\ ScanOK(v, NewScan(kind, v, r, n))
           /\ \A t \in BOOLEAN : ScanOK(v, [NewScan(kind, v, r, n) EXCEPT !.trouble = t])
BY DEF ScanOK, NewScan, ScanFields, View, Nothing

\* A view that has started more and is of the same generation and folder, or
\* of a later generation, knows the same listings.
LEMMA ScanOKLater ==
    ASSUME NEW v \in View, NEW w \in View, NEW s, ScanOK(v, s), w.started >= v.started,
           w.gen > v.gen \/ (w.gen = v.gen /\ w.root = v.root)
    PROVE  ScanOK(w, s)
BY DEF ScanOK, View

\* refresh_work_folder_listing leaves the folder and the applied number alone,
\* and what it starts has a number of its own.
LEMMA RelistOK ==
    ASSUME NEW v, NEW w, NEW t, NEW S, NEW here, NEW n,
           ViewOK(v), \A s \in S : ScanOK(v, s), here => v.root \in Roots,
           Relist(v, w, t, S, here, n)
    PROVE  /\ ViewOK(view')
           /\ view'.gen = v.gen /\ view'.root = v.root
           /\ view'.applied = v.applied /\ view'.started >= v.started
           /\ \A s \in scans' : ScanOK(view', s)
<1> DEFINE busy == ~here \/ v.running
           reattach == ~busy /\ v.failure
<1>1. PICK ok \in IF reattach THEN BOOLEAN ELSE {TRUE} :
          /\ view' = IF busy THEN FollowUp(v)
                     ELSE [v EXCEPT !.running = TRUE, !.pending = FALSE, !.failure = FALSE,
                                    !.unwatched = IF reattach THEN ~ok ELSE @,
                                    !.started = @ + 1]
          /\ scans' = IF busy THEN S ELSE S \cup {[NewScan("refresh", v, v.root, v.started + 1) EXCEPT
                                                !.trouble = v.failure]}
  BY DEF Relist
<1>2. v \in View /\ v.applied <= v.started /\ v.started \in Nat /\ v.applied \in Nat
      /\ v.failure \in BOOLEAN
  BY DEF ViewOK, View
<1>3. CASE busy
  <2>1. view' = [v EXCEPT !.pending = TRUE] /\ scans' = S
    BY <1>1, <1>3 DEF FollowUp
  <2>2. /\ view' \in View
        /\ view'.gen = v.gen /\ view'.root = v.root
        /\ view'.applied = v.applied /\ view'.started = v.started
    BY <1>2, <2>1 DEF View
  <2> QED
    <3>1. \A s \in S : ScanOK(view', s)
      BY <1>2, <2>2, ScanOKLater
    <3>2. view'.applied <= view'.started /\ view'.started >= v.started
      BY <1>2, <2>2
    <3> QED
      BY <2>1, <2>2, <3>1, <3>2 DEF ViewOK
<1>4. CASE ~busy
  <2>1. ok \in BOOLEAN
    BY <1>1
  <2>2. view' = [v EXCEPT !.running = TRUE, !.pending = FALSE, !.failure = FALSE,
                          !.unwatched = IF reattach THEN ~ok ELSE @,
                          !.started = @ + 1]
    BY <1>1, <1>4
  <2>3. (IF reattach THEN ~ok ELSE v.unwatched) \in BOOLEAN
    BY <1>2, <2>1 DEF View
  <2>4. /\ view' \in View
        /\ view'.gen = v.gen /\ view'.root = v.root
        /\ view'.applied = v.applied /\ view'.started = v.started + 1
    <3> DEFINE u == IF reattach THEN ~ok ELSE v.unwatched
               e == [gen |-> v.gen, root |-> v.root, running |-> TRUE, pending |-> FALSE,
                     failure |-> FALSE, unwatched |-> u, started |-> v.started + 1,
                     applied |-> v.applied, token |-> v.token]
    <3>1. view' = e
      BY <1>2, <2>2 DEF View
    <3>2. e \in View
      <4> HIDE DEF u, reattach, busy
      <4> QED
        BY <1>2, <2>3 DEF View, u
    <3> QED
      BY <3>1, <3>2
  <2>5. v.root \in Roots
    BY <1>4
  <2>6. \A s \in S : ScanOK(view', s)
    BY <1>2, <2>4, ScanOKLater
  <2> HIDE DEF busy, reattach
  <2> DEFINE s0 == [NewScan("refresh", v, v.root, v.started + 1) EXCEPT !.trouble = v.failure]
  <2>7. NewScan("refresh", v, v.root, v.started + 1) = NewScan("refresh", view', v.root, v.started + 1)
    BY <2>4 DEF NewScan
  <2>8. ScanOK(view', s0)
    BY <1>2, <2>4, <2>5, <2>7, NewScanOK DEF Kinds
  <2>9. scans' = S \cup {s0}
    BY <1>1, <1>4
  <2>10. view'.applied <= view'.started /\ view'.started >= v.started
    BY <1>2, <2>4
  <2> QED
    BY <2>4, <2>6, <2>8, <2>9, <2>10 DEF ViewOK
<1> QED
  BY <1>3, <1>4

\* The view of another folder.
LEMMA ResetOK ==
    ASSUME NEW r \in Roots, NEW ok \in BOOLEAN, view \in View
    PROVE  /\ Reset(r, ok) \in View
           /\ Reset(r, ok).gen = view.gen + 1 /\ Reset(r, ok).root = r
           /\ Reset(r, ok).started = view.started /\ Reset(r, ok).applied = view.applied
BY DEF Reset, View

-----------------------------------------------------------------------------
\* The promise about one step: the invariant, and the listing shown.
Kept == ListingInv' /\ Newer(folder, folder', view')

\* A step that leaves the listing shown alone.
LEMMA KeptUnshown ==
    ASSUME ListingInv, ViewOK(view'), folder' = folder,
           view'.gen = view.gen, view'.root = view.root, view'.applied >= view.applied,
           \A s \in scans' : ScanOK(view', s)
    PROVE  Kept
<1>1. view \in View /\ view' \in View
  BY DEF ListingInv, ViewOK
<1>2. FolderOK(view', folder)
  BY <1>1 DEF ListingInv, FolderOK, View
<1>3. Newer(folder, folder, view')
  BY DEF ListingInv, FolderOK, Newer, Onward
<1> QED
  BY <1>2, <1>3 DEF Kept, ListingInv

\* A step that leaves the view and the listings under way alone too.
LEMMA KeptUntouched ==
    ASSUME ListingInv, UNCHANGED <<view, scans, folder>>
    PROVE  Kept
<1>1. view \in View
  BY DEF ListingInv, ViewOK
<1> QED
  BY <1>1, KeptUnshown DEF ListingInv, ViewOK, View

\* A step that follows a notification up.
LEMMA KeptByRelist ==
    ASSUME ListingInv, NEW v, NEW w, NEW t, NEW S, NEW n, ViewOK(v),
           v.gen = view.gen, v.root = view.root, v.started = view.started,
           v.applied >= view.applied, S \subseteq scans, folder' = folder,
           Relist(v, w, t, S, Here, n)
    PROVE  Kept
<1>1. view \in View /\ v \in View
  BY DEF ListingInv, ViewOK
<1>2. \A s \in S : ScanOK(v, s)
  BY <1>1, ScanOKLater DEF ListingInv, View
<1>3. Here => v.root \in Roots
  BY DEF Here, ListingInv, FolderOK
<1>4. /\ ViewOK(view')
      /\ view'.gen = v.gen /\ view'.root = v.root
      /\ view'.applied = v.applied /\ view'.started >= v.started
      /\ \A s \in scans' : ScanOK(view', s)
  BY <1>2, <1>3, RelistOK
<1> QED
  BY <1>4, KeptUnshown

\* folder_watch_batch_arrived.
LEMMA KeptByBatch == ListingInv /\ BatchArrives => Kept
<1> SUFFICES ASSUME ListingInv, BatchArrives PROVE Kept
  OBVIOUS
<1> DEFINE b == Head(batches)
<1>1. CASE UNCHANGED <<view, watch, timers, scans, faults>>
  BY <1>1, KeptUntouched DEF BatchArrives
<1>2. CASE Relist([view EXCEPT !.failure = @ \/ b.failed], watch, timers, scans, Here, faults)
  <2> DEFINE f == view.failure \/ b.failed
             v == [view EXCEPT !.failure = f]
  <2>1. view \in View /\ f \in BOOLEAN /\ view.applied <= view.started
    BY DEF ListingInv, ViewOK
  <2>2. /\ ViewOK(v) /\ v.gen = view.gen /\ v.root = view.root
        /\ v.started = view.started /\ v.applied >= view.applied
    <3> HIDE DEF f
    <3>1. /\ v.gen = view.gen /\ v.root = view.root /\ v.started = view.started
          /\ v.applied = view.applied
      BY <2>1 DEF View
    <3>2. v \in View
      BY <2>1 DEF View
    <3> QED
      BY <2>1, <3>1, <3>2 DEF ViewOK, View
  <2>3. Relist(v, watch, timers, scans, Here, faults)
    BY <1>2 DEF f
  <2> HIDE DEF v
  <2> QED
    BY <2>2, <2>3, KeptByRelist DEF BatchArrives
<1> QED
  BY <1>1, <1>2 DEF BatchArrives

\* retry_folder_watch.
LEMMA KeptByRetry == ASSUME ListingInv, NEW g, RetryWatch(g) PROVE Kept
<1> DEFINE t == timers \ {g}
           v == [view EXCEPT !.unwatched = FALSE]
<1>1. CASE UNCHANGED <<view, scans>>
  BY <1>1, KeptUntouched DEF RetryWatch
<1>2. CASE Relist(v, NewWatch(view, TRUE), t, scans, Here, faults)
  <2>1. view \in View /\ view.applied <= view.started
    BY DEF ListingInv, ViewOK
  <2>2. /\ ViewOK(v) /\ v.gen = view.gen /\ v.root = view.root
        /\ v.started = view.started /\ v.applied >= view.applied
    <3>1. /\ v.gen = view.gen /\ v.root = view.root /\ v.started = view.started
          /\ v.applied = view.applied
      BY <2>1 DEF View
    <3>2. v \in View
      BY <2>1 DEF View
    <3> QED
      BY <2>1, <3>1, <3>2 DEF ViewOK, View
  <2> HIDE DEF v, t
  <2> QED
    BY <1>2, <2>2, KeptByRelist DEF RetryWatch
<1> QED
  BY <1>1, <1>2 DEF RetryWatch

\* switch_to_work_folder: nothing is shown until the first listing is there.
LEMMA KeptByOpen == ASSUME ListingInv, NEW r \in Roots, OpenFolder(r) PROVE Kept
<1>1. PICK ok \in BOOLEAN :
         /\ view' = [Reset(r, ok) EXCEPT !.started = @ + 1]
         /\ scans' = scans \cup {NewScan("first", view', r, view'.started)}
  BY DEF OpenFolder
<1>2. folder' = NoFolder
  BY DEF OpenFolder
<1>3. view \in View /\ view.applied <= view.started
  BY DEF ListingInv, ViewOK
<1>4. /\ view' \in View /\ view'.gen = view.gen + 1 /\ view'.root = r
      /\ view'.started = view.started + 1 /\ view'.applied = view.applied
  <2>1. /\ Reset(r, ok) \in View
        /\ Reset(r, ok).gen = view.gen + 1 /\ Reset(r, ok).root = r
        /\ Reset(r, ok).started = view.started /\ Reset(r, ok).applied = view.applied
    BY <1>3, ResetOK
  <2> QED
    BY <1>1, <2>1 DEF View
<1>5. \A s \in scans : ScanOK(view', s)
  BY <1>3, <1>4, ScanOKLater DEF ListingInv, View
<1>6. ScanOK(view', NewScan("first", view', r, view'.started))
  <2>1. view'.started \in Nat /\ "first" \in Kinds
    BY <1>4 DEF View, Kinds
  <2>2. view'.started <= view'.started
    BY <2>1
  <2> QED
    BY <1>4, <2>1, <2>2, NewScanOK
<1>7. FolderOK(view', NoFolder)
  BY <1>4 DEF FolderOK, NoFolder, FolderFields, View, Nothing
<1>8. view'.applied <= view'.started
  BY <1>3, <1>4 DEF View
<1> QED
  BY <1>1, <1>2, <1>4, <1>5, <1>6, <1>7, <1>8 DEF Kept, ListingInv, ViewOK, Newer, NoFolder, Onward

\* open_external_folder.
LEMMA KeptByOpenExternal == ASSUME ListingInv, NEW r \in Roots, OpenExternal(r) PROVE Kept
<1>1. /\ view' = [view EXCEPT !.token = @ + 1] /\ folder' = folder
      /\ scans' = scans \cup {NewScan("external", view, r, view.token + 1)}
  BY DEF OpenExternal
<1>2. view \in View /\ view.applied <= view.started
  BY DEF ListingInv, ViewOK
<1>3. /\ view' \in View /\ view'.gen = view.gen /\ view'.root = view.root
      /\ view'.started = view.started /\ view'.applied = view.applied
  BY <1>1, <1>2 DEF View
<1>4. ScanOK(view, NewScan("external", view, r, view.token + 1))
  <2>1. view.token + 1 \in Nat /\ "external" \in Kinds
    BY <1>2 DEF View, Kinds
  <2> QED
    BY <1>2, <2>1, NewScanOK
<1>5. \A s \in scans' : ScanOK(view', s)
  BY <1>1, <1>2, <1>3, <1>4, ScanOKLater DEF ListingInv, View
<1> QED
  BY <1>1, <1>2, <1>3, <1>5, KeptUnshown DEF ViewOK, View

\* begin_content_search_rescan.
LEMMA KeptBySearch == ListingInv /\ SearchAgain => Kept
<1> SUFFICES ASSUME ListingInv, SearchAgain PROVE Kept
  OBVIOUS
<1>1. /\ view' = [view EXCEPT !.started = @ + 1] /\ folder' = folder
      /\ scans' = scans \cup {NewScan("search", view, view.root, view.started + 1)}
  BY DEF SearchAgain
<1>2. view \in View /\ view.applied <= view.started /\ view.root \in Roots
  BY DEF ListingInv, ViewOK, SearchAgain, Here, FolderOK
<1>3. /\ view' \in View /\ view'.gen = view.gen /\ view'.root = view.root
      /\ view'.started = view.started + 1 /\ view'.applied = view.applied
  BY <1>1, <1>2 DEF View
<1>4. NewScan("search", view, view.root, view.started + 1)
        = NewScan("search", view', view'.root, view'.started)
  BY <1>3 DEF NewScan
<1>5. ScanOK(view', NewScan("search", view', view'.root, view'.started))
  <2>1. view'.started \in Nat /\ "search" \in Kinds
    BY <1>3 DEF View, Kinds
  <2>2. view'.started <= view'.started
    BY <2>1
  <2> QED
    BY <1>2, <1>3, <2>1, <2>2, NewScanOK
<1>6. \A s \in scans' : ScanOK(view', s)
  BY <1>1, <1>2, <1>3, <1>4, <1>5, ScanOKLater DEF ListingInv, View
<1>7. view'.applied <= view'.started
  BY <1>2, <1>3 DEF View
<1> QED
  BY <1>1, <1>2, <1>3, <1>6, <1>7, KeptUnshown DEF ViewOK, View

\* set_sidebar_sort.
LEMMA KeptBySort == ASSUME ListingInv, NEW o, SetSort(o) PROVE Kept
<1>1. view' = view /\ scans' = scans
  BY DEF SetSort
<1>2. /\ DOMAIN folder' = FolderFields /\ folder'.root = folder.root /\ folder'.req = folder.req
      /\ folder'.files = folder.files /\ folder'.stamp = folder.stamp
  BY DEF SetSort, ListingInv, FolderOK, FolderFields
<1>3. FolderOK(view', folder')
  BY <1>1, <1>2 DEF ListingInv, FolderOK
<1>4. Newer(folder, folder', view')
  BY <1>1, <1>2 DEF ListingInv, FolderOK, Newer, Onward
<1> QED
  BY <1>1, <1>3, <1>4 DEF Kept, ListingInv

\* The walk reads a path.
LEMMA KeptByRead ==
    ASSUME ListingInv, disk \in [Roots -> [Paths -> Entry]], NEW s, NEW p \in Paths,
           ScanReads(s, p)
    PROVE  Kept
<1>1. s \in scans /\ view' = view /\ folder' = folder
  BY DEF ScanReads
<1>2. s.root \in Roots /\ s.files \subseteq Paths /\ s.stamp \in [Paths -> Nat] /\ DOMAIN s = ScanFields
  BY <1>1 DEF ListingInv, ScanOK
<1> DEFINE e == disk[s.root][p]
           files == IF e.there THEN s.files \cup {p} ELSE s.files
           ver == IF e.there THEN e.ver ELSE 0
           stamp == [s.stamp EXCEPT ![p] = ver]
<1>3. ver \in Nat /\ files \subseteq Paths
  BY <1>2 DEF Entry
<1>4. stamp \in [Paths -> Nat]
  <2> HIDE DEF ver
  <2> QED
    BY <1>2, <1>3
<1>5. PICK r : /\ scans' = (scans \ {s}) \cup {r}
               /\ DOMAIN r = DOMAIN s
               /\ r.kind = s.kind /\ r.gen = s.gen /\ r.root = s.root /\ r.req = s.req
               /\ r.files = files /\ r.stamp = stamp
  <2> DEFINE r == [s EXCEPT !.read = @ \cup {p},
                            !.files = IF e.there THEN @ \cup {p} ELSE @,
                            !.stamp[p] = IF e.there THEN e.ver ELSE 0]
  <2>1. scans' = (scans \ {s}) \cup {r}
    BY DEF ScanReads
  <2>2. /\ DOMAIN r = DOMAIN s /\ r.kind = s.kind /\ r.gen = s.gen /\ r.root = s.root
        /\ r.req = s.req /\ r.files = files /\ r.stamp = stamp
    BY <1>2 DEF ScanFields
  <2> HIDE DEF r
  <2> QED
    BY <2>1, <2>2
<1> HIDE DEF files, stamp
<1>6. ScanOK(view, r)
  BY <1>1, <1>3, <1>4, <1>5 DEF ListingInv, ScanOK
<1>7. \A x \in scans' : ScanOK(view', x)
  BY <1>1, <1>5, <1>6 DEF ListingInv
<1>8. view \in View
  BY DEF ListingInv, ViewOK
<1> QED
  BY <1>1, <1>7, <1>8, KeptUnshown DEF ListingInv, ViewOK, View

-----------------------------------------------------------------------------
\* A listing of the folder that is open.
LEMMA OpenListing ==
    ASSUME ListingInv, NEW s \in scans, s.gen = view.gen, s.kind # "external"
    PROVE  /\ s.root = view.root /\ view.root \in Roots
           /\ s.req \in Nat /\ s.req <= view.started
           /\ s.files \subseteq Paths /\ s.stamp \in [Paths -> Nat]
BY DEF ListingInv, ScanOK

\* What has taken a listing's result in goes on with a view v, and perhaps with
\* one more listing.
LEMMA GoesOn ==
    ASSUME ListingInv, NEW s \in scans, s.gen = view.gen, s.kind # "external", NEW v, NEW n,
           ViewOK(v), v.gen = view.gen, v.root = view.root, v.started = view.started,
           Relist(v, watch, timers, scans \ {s}, TRUE, n) \/ (view' = v /\ scans' = scans \ {s})
    PROVE  /\ ViewOK(view')
           /\ view'.gen = view.gen /\ view'.root = view.root /\ view'.applied = v.applied
           /\ \A x \in scans' : ScanOK(view', x)
<1>1. view \in View /\ v \in View
  BY DEF ListingInv, ViewOK
<1>2. \A x \in scans \ {s} : ScanOK(v, x)
  BY <1>1, ScanOKLater DEF ListingInv, View
<1>3. v.root \in Roots
  BY OpenListing
<1>4. CASE Relist(v, watch, timers, scans \ {s}, TRUE, n)
  BY <1>2, <1>3, <1>4, RelistOK
<1>5. CASE view' = v /\ scans' = scans \ {s}
  BY <1>2, <1>5
<1> QED
  BY <1>4, <1>5

\* A listing that is accepted and installed.
LEMMA KeptByInstall ==
    ASSUME ListingInv, NEW s \in scans, s.gen = view.gen, s.kind # "external",
           Accepted(s), Install(s), sort \in Orders,
           ViewOK(view'), view'.gen = view.gen, view'.root = view.root, view'.applied = s.req,
           \A x \in scans' : ScanOK(view', x)
    PROVE  Kept
<1>1. /\ DOMAIN folder' = FolderFields
      /\ folder'.root = s.root /\ folder'.req = s.req
      /\ folder'.files = s.files /\ folder'.stamp = s.stamp
  BY DEF Install, FolderFields
<1>2. view.applied \in Nat /\ folder.req \in Nat /\ folder.req <= view.applied
  BY DEF ListingInv, ViewOK, View, FolderOK
<1>3. s.req > folder.req
  BY <1>2, OpenListing DEF Accepted
<1>4. FolderOK(view', folder')
  BY <1>1, OpenListing DEF FolderOK
<1>5. Newer(folder, folder', view')
  BY <1>1, <1>2, <1>3, OpenListing DEF Newer
<1> QED
  BY <1>4, <1>5 DEF Kept, ListingInv

\* The view after a listing has been applied.
LEMMA ApplyOK ==
    ASSUME ListingInv, NEW s \in scans, s.gen = view.gen, s.kind # "external", Accepted(s)
    PROVE  /\ ViewOK(Apply(view, s))
           /\ Apply(view, s).gen = view.gen /\ Apply(view, s).root = view.root
           /\ Apply(view, s).started = view.started /\ Apply(view, s).applied = s.req
           /\ s.req >= view.applied
<1>1. view \in View /\ s.req \in Nat /\ s.req <= view.started
  BY OpenListing DEF ListingInv, ViewOK
<1>2. Apply(view, s) \in View
  BY <1>1 DEF Apply, View
<1>3. /\ Apply(view, s).gen = view.gen /\ Apply(view, s).root = view.root
      /\ Apply(view, s).started = view.started /\ Apply(view, s).applied = s.req
  BY <1>1 DEF Apply, View
<1>4. s.req >= view.applied
  BY <1>1 DEF Accepted, View
<1> QED
  BY <1>1, <1>2, <1>3, <1>4 DEF ViewOK

\* A result that is dropped.
LEMMA KeptByDrop ==
    ASSUME ListingInv, NEW s, view' = view, folder' = folder, scans' = scans \ {s}
    PROVE  Kept
<1>1. view \in View
  BY DEF ListingInv, ViewOK
<1> QED
  BY <1>1, KeptUnshown DEF ListingInv, ViewOK, View

\* finish_work_folder_scan.
LEMMA KeptByFirst == ASSUME ListingInv, sort \in Orders, NEW s \in scans, FinishFirst(s) PROVE Kept
<1> DEFINE v == Apply(view, s)
<1>1. s.gen = view.gen /\ s.kind # "external" /\ Accepted(s)
  BY DEF FinishFirst
<1>2. /\ ViewOK(v) /\ v.gen = view.gen /\ v.root = view.root
      /\ v.started = view.started /\ v.applied = s.req /\ s.req >= view.applied
  BY <1>1, ApplyOK
<1>3. Relist(v, watch, timers, scans \ {s}, TRUE, faults) \/ (view' = v /\ scans' = scans \ {s})
  BY DEF FinishFirst
<1> HIDE DEF v
<1>4. /\ ViewOK(view') /\ view'.gen = view.gen /\ view'.root = view.root /\ view'.applied = s.req
      /\ \A x \in scans' : ScanOK(view', x)
  BY <1>1, <1>2, <1>3, GoesOn
<1>5. CASE Install(s)
  BY <1>1, <1>4, <1>5, KeptByInstall
<1>6. CASE folder' = folder
  BY <1>2, <1>4, <1>6, KeptUnshown
<1> QED
  BY <1>5, <1>6 DEF FinishFirst

\* finish_work_folder_refresh.
LEMMA KeptByRefresh ==
    ASSUME ListingInv, sort \in Orders, NEW s \in scans, FinishRefresh(s)
    PROVE  Kept
<1>1. s.gen = view.gen /\ s.kind # "external"
  BY DEF FinishRefresh
<1>2. PICK ok \in BOOLEAN :
        LET v == [view EXCEPT !.running = FALSE,
                              !.applied = IF Accepted(s) THEN s.req ELSE @,
                              !.failure = IF Accepted(s) THEN @ \/ ~ok ELSE @ \/ s.trouble]
            n == IF ok THEN faults ELSE faults + 1
        IN /\ IF ok /\ Accepted(s) THEN Install(s) ELSE Reject(s)
           /\ IF Resumes(s) THEN Relist(v, watch, timers, scans \ {s}, TRUE, n)
              ELSE view' = v /\ scans' = scans \ {s}
  BY DEF FinishRefresh
<1> DEFINE f == IF Accepted(s) THEN view.failure \/ ~ok ELSE view.failure \/ s.trouble
           a == IF Accepted(s) THEN s.req ELSE view.applied
           n == IF ok THEN faults ELSE faults + 1
           v == [view EXCEPT !.running = FALSE, !.applied = a, !.failure = f]
<1>3. view \in View /\ view.applied \in Nat /\ view.started \in Nat /\ view.applied <= view.started
  BY DEF ListingInv, ViewOK, View
<1>4. f \in BOOLEAN
  OBVIOUS
<1>5. a \in Nat /\ a <= view.started /\ a >= view.applied
  BY <1>1, <1>3, OpenListing DEF Accepted
<1>6. /\ ViewOK(v) /\ v.gen = view.gen /\ v.root = view.root
      /\ v.started = view.started /\ v.applied = a
  <2> HIDE DEF f, a
  <2>1. /\ v.gen = view.gen /\ v.root = view.root /\ v.started = view.started
        /\ v.applied = a
    BY <1>3 DEF View
  <2>2. v \in View
    BY <1>3, <1>4, <1>5 DEF View
  <2> QED
    BY <1>5, <2>1, <2>2 DEF ViewOK
<1>7. Relist(v, watch, timers, scans \ {s}, TRUE, n) \/ (view' = v /\ scans' = scans \ {s})
  BY <1>2
<1>8. /\ Accepted(s) /\ Install(s) /\ a = s.req
      \/ folder' = folder
  BY <1>2 DEF Reject
<1> HIDE DEF f, a, n, v
<1>9. /\ ViewOK(view') /\ view'.gen = view.gen /\ view'.root = view.root /\ view'.applied = a
      /\ \A x \in scans' : ScanOK(view', x)
  BY <1>1, <1>6, <1>7, GoesOn
<1>10. CASE Accepted(s) /\ Install(s) /\ a = s.req
  BY <1>1, <1>9, <1>10, KeptByInstall
<1>11. CASE folder' = folder
  BY <1>5, <1>9, <1>11, KeptUnshown
<1> QED
  BY <1>8, <1>10, <1>11

\* finish_content_search_rescan.
LEMMA KeptBySearched ==
    ASSUME ListingInv, sort \in Orders, NEW s \in scans, FinishSearch(s)
    PROVE  Kept
<1>1. s.gen = view.gen /\ s.kind # "external" /\ scans' = scans \ {s}
  BY DEF FinishSearch
<1>2. CASE ~Accepted(s)
  <2>1. view' = view /\ folder' = folder
    BY <1>2 DEF FinishSearch, Reject
  <2> QED
    BY <1>1, <2>1, KeptByDrop
<1>3. CASE Accepted(s)
  <2> DEFINE v == Apply(view, s)
  <2>1. view' = v
    BY <1>3 DEF FinishSearch
  <2>2. /\ ViewOK(v) /\ v.gen = view.gen /\ v.root = view.root
        /\ v.started = view.started /\ v.applied = s.req /\ s.req >= view.applied
    BY <1>1, <1>3, ApplyOK
  <2>3. Install(s) \/ folder' = folder
    BY DEF FinishSearch, Reject
  <2> HIDE DEF v
  <2>4. /\ ViewOK(view') /\ view'.gen = view.gen /\ view'.root = view.root /\ view'.applied = s.req
        /\ \A x \in scans' : ScanOK(view', x)
    BY <1>1, <2>1, <2>2, GoesOn
  <2>5. CASE Install(s)
    BY <1>1, <1>3, <2>4, <2>5, KeptByInstall
  <2>6. CASE folder' = folder
    BY <2>2, <2>4, <2>6, KeptUnshown
  <2> QED
    BY <2>3, <2>5, <2>6
<1> QED
  BY <1>2, <1>3

\* finish_external_folder_open.
LEMMA KeptByExternal ==
    ASSUME ListingInv, sort \in Orders, NEW s \in scans, FinishExternal(s)
    PROVE  Kept
<1>1. view \in View /\ view.started \in Nat /\ view.applied <= view.started
  BY DEF ListingInv, ViewOK, View
<1>2. ScanOK(view, s) /\ FolderOK(view, folder)
  BY DEF ListingInv
<1>3. CASE view' = view /\ folder' = folder /\ scans' = scans \ {s}
  BY <1>3, KeptByDrop
<1>4. CASE ~(view' = view /\ folder' = folder /\ scans' = scans \ {s})
  <2>1. PICK ok \in BOOLEAN :
          LET v == [Reset(s.root, ok) EXCEPT !.started = @ + 2, !.applied = view.started + 1,
                                             !.running = TRUE]
          IN /\ view' = v
             /\ scans' = (scans \ {s}) \cup {NewScan("refresh", v, s.root, v.started)}
             /\ folder' = [root |-> s.root, files |-> s.files, stamp |-> s.stamp,
                           req |-> v.applied, order |-> sort]
    BY <1>4 DEF FinishExternal
  <2>2. s.root \in Roots
    BY <1>2 DEF ScanOK
  <2> DEFINE r == Reset(s.root, ok)
  <2>3. /\ r \in View /\ r.gen = view.gen + 1 /\ r.root = s.root
        /\ r.started = view.started
    BY <1>1, <2>2, ResetOK
  <2>4. view' = [r EXCEPT !.started = @ + 2, !.applied = view.started + 1, !.running = TRUE]
    BY <2>1
  <2> HIDE DEF r
  <2>5. /\ view' \in View /\ view'.gen = view.gen + 1 /\ view'.root = s.root
        /\ view'.started = view.started + 2 /\ view'.applied = view.started + 1
    <3>1. /\ view'.gen = r.gen /\ view'.root = r.root
          /\ view'.started = r.started + 2 /\ view'.applied = view.started + 1
      BY <2>3, <2>4 DEF View
    <3>2. view.started + 1 \in Nat /\ r.started + 2 \in Nat
      BY <1>1, <2>3
    <3>3. view' \in View
      BY <2>3, <2>4, <3>2 DEF View
    <3> QED
      BY <2>3, <3>1, <3>3
  <2>6. \A x \in scans : ScanOK(view', x)
    BY <1>1, <2>5, ScanOKLater DEF ListingInv, View
  <2>7. ScanOK(view', NewScan("refresh", view', s.root, view'.started))
    <3>1. view'.started \in Nat /\ "refresh" \in Kinds /\ view'.started <= view'.started
      BY <1>1, <2>5 DEF Kinds
    <3> QED
      BY <2>2, <2>5, <3>1, NewScanOK
  <2>8. \A x \in scans' : ScanOK(view', x)
    BY <2>1, <2>6, <2>7
  <2>9. /\ DOMAIN folder' = FolderFields
        /\ folder'.root = s.root /\ folder'.req = view.started + 1
        /\ folder'.files = s.files /\ folder'.stamp = s.stamp
    BY <2>1, <2>5 DEF FolderFields
  <2>10. FolderOK(view', folder')
    <3>1. folder'.req \in Nat /\ folder'.req <= view'.applied
      BY <1>1, <2>5, <2>9
    <3> QED
      BY <1>2, <2>2, <2>5, <2>9, <3>1 DEF FolderOK, ScanOK
  <2>11. Newer(folder, folder', view')
    <3>1. folder.req \in Nat /\ folder.req <= view.applied /\ view.applied \in Nat
      BY <1>1, <1>2 DEF FolderOK, View
    <3>2. folder'.req > folder.req /\ folder'.req >= folder.req /\ folder'.req # folder.req
      BY <1>1, <2>9, <3>1
    <3> QED
      BY <2>5, <2>9, <3>2 DEF Newer
  <2>12. view'.applied <= view'.started
    BY <1>1, <2>5
  <2> QED
    BY <2>5, <2>8, <2>10, <2>11, <2>12 DEF Kept, ListingInv, ViewOK
<1> QED
  BY <1>3, <1>4

\* A listing comes back.
LEMMA KeptByFinish ==
    ASSUME ListingInv, sort \in Orders, NEW s, ScanFinishes(s)
    PROVE  Kept
<1>1. s \in scans
  BY DEF ScanFinishes
<1>2. CASE Replaced(s)
  BY <1>2, KeptByDrop DEF Replaced
<1>3. CASE FinishFirst(s)
  BY <1>1, <1>3, KeptByFirst
<1>4. CASE FinishExternal(s)
  BY <1>1, <1>4, KeptByExternal
<1>5. CASE FinishRefresh(s)
  BY <1>1, <1>5, KeptByRefresh
<1>6. CASE FinishSearch(s)
  BY <1>1, <1>6, KeptBySearched
<1> QED
  BY <1>2, <1>3, <1>4, <1>5, <1>6 DEF ScanFinishes

-----------------------------------------------------------------------------
(* What Hane enters itself.                                                 *)

\* A folder shown after another one of the same listing.
Follows(f, g) ==
    /\ DOMAIN g = FolderFields /\ g.root = f.root /\ g.req = f.req
    /\ g.files \subseteq Paths /\ g.stamp \in [Paths -> Nat]
    /\ Onward(f, g)

\* A folder shown.
Shown(f) ==
    /\ DOMAIN f = FolderFields /\ f.files \subseteq Paths /\ f.stamp \in [Paths -> Nat]

\* WorkFolder::touch, after something else has been entered.
LEMMA TouchedFollows ==
    ASSUME NEW f, NEW g, NEW q \in Paths, NEW ver \in Nat, Shown(f), Follows(f, g),
           q \in f.files => g.stamp[q] >= f.stamp[q]
    PROVE  /\ Follows(f, Touched(g, q, ver))
           /\ \A p \in Paths \ {q} : Touched(g, q, ver).stamp[p] = g.stamp[p]
<1> DEFINE h == Touched(g, q, ver)
<1>1. CASE ~(q \in g.files /\ ver > g.stamp[q])
  BY <1>1 DEF Touched
<1>2. CASE q \in g.files /\ ver > g.stamp[q]
  <2>1. h = [g EXCEPT !.stamp[q] = ver]
    BY <1>2 DEF Touched
  <2>2. DOMAIN g = FolderFields /\ g.stamp \in [Paths -> Nat]
    BY DEF Follows
  <2>3. /\ DOMAIN h = FolderFields /\ h.root = g.root /\ h.req = g.req /\ h.files = g.files
        /\ h.stamp = [g.stamp EXCEPT ![q] = ver]
    BY <2>1, <2>2 DEF FolderFields
  <2> HIDE DEF h
  <2>4. h.stamp \in [Paths -> Nat] /\ h.stamp[q] = ver
        /\ \A p \in Paths \ {q} : h.stamp[p] = g.stamp[p]
    BY <2>2, <2>3
  <2>5. ASSUME NEW p \in f.files \cap h.files, h.stamp[p] # 0
        PROVE  h.stamp[p] >= f.stamp[p]
    <3>1. p \in Paths /\ f.stamp[p] \in Nat /\ g.stamp[p] \in Nat
      BY <2>2 DEF Shown
    <3>2. CASE p = q
      BY <1>2, <2>4, <3>1, <3>2
    <3>3. CASE p # q
      <4>1. h.stamp[p] = g.stamp[p]
        BY <2>4, <3>1, <3>3
      <4> QED
        BY <2>3, <2>5, <4>1 DEF Follows, Onward
    <3> QED
      BY <3>2, <3>3
  <2>6. Follows(f, h)
    BY <2>3, <2>4, <2>5 DEF Follows, Onward
  <2> QED
    BY <2>4, <2>6 DEF h
<1> QED
  BY <1>1, <1>2

\* WorkFolder::remove, insert and rename.
LEMMA RemovedFollows ==
    ASSUME NEW f, NEW p \in Names, Shown(f)
    PROVE  /\ Follows(f, Removed(f, p)) /\ Shown(Removed(f, p))
           /\ Removed(f, p).files = f.files \ {p}
           /\ \A x \in Paths \ {p} : Removed(f, p).stamp[x] = f.stamp[x]
<1> DEFINE g == Removed(f, p)
<1>1. /\ DOMAIN g = FolderFields /\ g.root = f.root /\ g.req = f.req /\ g.files = f.files \ {p}
      /\ g.stamp = [f.stamp EXCEPT ![p] = 0]
  BY DEF Removed, Shown, FolderFields
<1> HIDE DEF g
<1>2. /\ g.stamp \in [Paths -> Nat]
      /\ \A x \in Paths \ {p} : g.stamp[x] = f.stamp[x]
  BY <1>1 DEF Shown, Paths
<1>3. Onward(f, g)
  BY <1>1, <1>2 DEF Onward, Shown
<1> QED
  BY <1>1, <1>2, <1>3 DEF Follows, Shown, g

\* A note that is entered takes no time back.
LEMMA InsertedFollows ==
    ASSUME NEW f, NEW p \in Names, Shown(f)
    PROVE  /\ Follows(f, Inserted(f, p)) /\ Shown(Inserted(f, p))
           /\ \A x \in f.files : Inserted(f, p).stamp[x] = f.stamp[x]
           /\ \A x \in Paths \ {p} : Inserted(f, p).stamp[x] = f.stamp[x]
<1> DEFINE g == Inserted(f, p)
<1>1. CASE p \in f.files
  BY <1>1 DEF Inserted, Follows, Shown, Onward
<1>2. CASE p \notin f.files
  <2>1. /\ DOMAIN g = FolderFields /\ g.root = f.root /\ g.req = f.req
        /\ g.files = f.files \cup {p} /\ g.stamp = [f.stamp EXCEPT ![p] = 0]
    BY <1>2 DEF Inserted, Shown, FolderFields
  <2> HIDE DEF g
  <2>2. /\ g.stamp \in [Paths -> Nat]
        /\ \A x \in Paths \ {p} : g.stamp[x] = f.stamp[x]
    BY <2>1 DEF Shown, Paths
  <2>3. Onward(f, g)
    BY <1>2, <2>1, <2>2 DEF Onward, Shown
  <2> QED
    BY <1>2, <2>1, <2>2, <2>3 DEF Follows, Shown, g, Paths
<1> QED
  BY <1>1, <1>2

\* A rename takes no time of another path back.
LEMMA RenamedFollows ==
    ASSUME NEW f, NEW p \in Names, NEW q \in Names, NEW keep \in BOOLEAN, Shown(f), Dir \notin Names
    PROVE  Follows(f, Renamed(f, p, q, keep)) /\ Renamed(f, p, q, keep).stamp[Dir] = f.stamp[Dir]
<1>1. CASE p \notin f.files
  BY <1>1 DEF Renamed, Follows, Shown, Onward
<1>2. CASE p \in f.files
  <2> DEFINE r == Removed(f, p)
             g == Inserted(r, q)
  <2>1. /\ Follows(f, r) /\ Shown(r) /\ r.files = f.files \ {p}
        /\ \A x \in Paths \ {p} : r.stamp[x] = f.stamp[x]
    BY RemovedFollows
  <2> HIDE DEF r
  <2>2. /\ Follows(r, g) /\ Shown(g)
        /\ \A x \in r.files : g.stamp[x] = r.stamp[x]
        /\ \A x \in Paths \ {q} : g.stamp[x] = r.stamp[x]
    BY <2>1, InsertedFollows
  <2>3. g.files \subseteq r.files \cup {q} /\ (q \notin r.files => g.stamp[q] = 0)
    BY <2>1 DEF Inserted, Shown, FolderFields, Paths
  <2> HIDE DEF g
  <2>4. Dir \in Paths \ {p} /\ Dir \in Paths \ {q}
    BY DEF Paths
  <2>5. Onward(f, g)
    <3> SUFFICES ASSUME NEW x \in f.files \cap g.files, g.stamp[x] # 0
                 PROVE  g.stamp[x] >= f.stamp[x]
      BY DEF Onward
    <3>1. x \in Paths /\ f.stamp[x] \in Nat
      BY DEF Shown
    <3>2. x \in r.files
      BY <2>3
    <3>3. g.stamp[x] = f.stamp[x]
      BY <2>1, <2>2, <3>1, <3>2
    <3> QED
      BY <3>1, <3>3
  <2>6. Follows(f, g) /\ g.stamp[Dir] = f.stamp[Dir]
    BY <2>1, <2>2, <2>4, <2>5 DEF Follows
  <2>7. CASE keep
    BY <1>2, <2>6, <2>7 DEF Renamed, r, g
  <2>8. CASE ~keep
    <3> DEFINE h == [g EXCEPT !.stamp[q] = 0]
    <3>1. Renamed(f, p, q, keep) = h
      BY <1>2, <2>8 DEF Renamed, r, g
    <3>2. /\ DOMAIN h = FolderFields /\ h.root = g.root /\ h.req = g.req /\ h.files = g.files
          /\ h.stamp = [g.stamp EXCEPT ![q] = 0]
      BY <2>6 DEF Follows, FolderFields
    <3> HIDE DEF h
    <3>3. /\ h.stamp \in [Paths -> Nat] /\ h.stamp[q] = 0
          /\ \A x \in Paths \ {q} : h.stamp[x] = g.stamp[x]
      BY <2>6, <3>2 DEF Follows, Paths
    <3>4. Onward(f, h)
      BY <2>6, <3>2, <3>3 DEF Onward, Follows
    <3> QED
      BY <2>4, <2>6, <3>1, <3>2, <3>3, <3>4 DEF Follows
  <2> QED
    BY <2>7, <2>8
<1> QED
  BY <1>1, <1>2

-----------------------------------------------------------------------------
(* What the other variables have to be for that.                            *)

OpFields == {"kind", "gen", "root", "path", "to", "pc", "was", "leaf", "dir"}

\* A write of Hane's under way.
OpOK(o) ==
    /\ DOMAIN o = OpFields
    /\ o.root \in Roots /\ o.path \in Names /\ o.to \in Names
    /\ o.leaf \in Nat /\ o.dir \in Nat

DataInv ==
    /\ disk \in [Roots -> [Paths -> Entry]]
    /\ sort \in Orders
    /\ \A o \in ops : OpOK(o)

\* finish_save, create_dir, the title's rename and the trash come back.
LEMMA KeptByWritten == ASSUME ListingInv, DataInv, NEW o, WriteFinishes(o) PROVE Kept
<1> USE ListingAssumption
<1>1. view' = view /\ scans' = scans /\ OpOK(o)
  BY DEF WriteFinishes, DataInv
<1>2. o.path \in Names /\ o.to \in Names /\ o.leaf \in Nat /\ o.dir \in Nat
  BY <1>1 DEF OpOK
<1>3. Shown(folder) /\ FolderOK(view, folder)
  BY DEF ListingInv, FolderOK, Shown
<1>4. Dir \in Paths /\ \A p \in Names : p \in Paths /\ p # Dir
  BY DEF Paths
<1>5. Follows(folder, folder)
  BY <1>3 DEF Shown, Follows, Onward
<1>6. \A p \in Paths : folder.stamp[p] >= folder.stamp[p]
  BY <1>3 DEF Shown
<1>7. Follows(folder, Removed(folder, o.path))
  BY <1>2, <1>3, RemovedFollows
<1>8. ASSUME NEW keep \in BOOLEAN
      PROVE  Follows(folder, Touched(Renamed(folder, o.path, o.to, keep), Dir, o.dir))
  <2>1. /\ Follows(folder, Renamed(folder, o.path, o.to, keep))
        /\ Renamed(folder, o.path, o.to, keep).stamp[Dir] >= folder.stamp[Dir]
    BY <1>2, <1>3, <1>4, <1>6, RenamedFollows
  <2> QED
    BY <1>2, <1>3, <1>4, <2>1, TouchedFollows
<1>9. Follows(folder, Touched(Touched(Inserted(folder, o.path), o.path, o.leaf), Dir, o.dir))
  <2> DEFINE g == Inserted(folder, o.path)
             h == Touched(g, o.path, o.leaf)
  <2>1. /\ Follows(folder, g)
        /\ o.path \in folder.files => g.stamp[o.path] >= folder.stamp[o.path]
        /\ g.stamp[Dir] = folder.stamp[Dir]
    BY <1>2, <1>3, <1>4, <1>6, InsertedFollows
  <2> HIDE DEF g
  <2>2. /\ Follows(folder, h)
        /\ \A x \in Paths \ {o.path} : h.stamp[x] = g.stamp[x]
    <3>1. o.path \in Paths
      BY <1>2, <1>4
    <3>2. ASSUME NEW q \in Paths, NEW ver \in Nat,
                 q \in folder.files => g.stamp[q] >= folder.stamp[q]
          PROVE  /\ Follows(folder, Touched(g, q, ver))
                 /\ \A x \in Paths \ {q} : Touched(g, q, ver).stamp[x] = g.stamp[x]
      BY <1>3, <2>1, <3>2, TouchedFollows
    <3> QED
      BY <1>2, <2>1, <3>1, <3>2
  <2>3. h.stamp[Dir] >= folder.stamp[Dir]
    BY <1>2, <1>4, <1>6, <2>1, <2>2
  <2> HIDE DEF h
  <2>4. Follows(folder, Touched(h, Dir, o.dir))
    BY <1>2, <1>3, <1>4, <2>2, <2>3, TouchedFollows
  <2> QED
    BY <2>4 DEF g, h
<1>10. Follows(folder, folder')
  <2>1. CASE folder' = folder
    BY <1>5, <2>1
  <2>2. CASE folder' # folder
    <3>1. PICK keep \in BOOLEAN :
            folder' = IF o.root # folder.root THEN folder
                       ELSE CASE o.kind = "trash" -> Removed(folder, o.path)
                              [] o.kind = "rename" ->
                                    Touched(Renamed(folder, o.path, o.to, keep), Dir, o.dir)
                              [] OTHER ->
                                    Touched(Touched(Inserted(folder, o.path), o.path, o.leaf),
                                            Dir, o.dir)
      BY <2>2 DEF WriteFinishes
    <3>2. \/ folder' = folder
          \/ folder' = Removed(folder, o.path)
          \/ folder' = Touched(Renamed(folder, o.path, o.to, keep), Dir, o.dir)
          \/ folder' = Touched(Touched(Inserted(folder, o.path), o.path, o.leaf), Dir, o.dir)
      BY <3>1
    <3> QED
      BY <1>5, <1>7, <1>8, <1>9, <3>2
  <2> QED
    BY <2>1, <2>2
<1>11. FolderOK(view', folder') /\ Newer(folder, folder', view')
  BY <1>1, <1>3, <1>10 DEF FolderOK, Follows, Newer
<1> QED
  BY <1>1, <1>11 DEF Kept, ListingInv

\* What is entered on the disk is an entry.
LEMMA ChangedOK ==
    ASSUME NEW d \in [Roots -> [Paths -> Entry]], NEW r \in Roots, NEW p \in Paths,
           NEW there \in BOOLEAN
    PROVE  Changed(d, r, p, there) \in [Roots -> [Paths -> Entry]]
<1> DEFINE e == [there |-> there, ver |-> d[r][p].ver + 1]
           m == [d[r] EXCEPT ![p] = e]
<1>1. d[r] \in [Paths -> Entry] /\ d[r][p] \in Entry
  OBVIOUS
<1>2. e \in Entry
  BY <1>1 DEF Entry
<1>3. Changed(d, r, p, there) = [d EXCEPT ![r] = m]
  BY DEF Changed
<1> HIDE DEF e
<1>4. m \in [Paths -> Entry]
  BY <1>1, <1>2
<1> HIDE DEF m
<1> QED
  BY <1>3, <1>4

\* A name that comes or goes leaves entries on the disk.
LEMMA EnteredOK ==
    ASSUME DataInv, NEW r \in Roots, NEW p \in Names, NEW there \in BOOLEAN
    PROVE  Entered(r, p, there) \in [Roots -> [Paths -> Entry]]
BY ChangedOK DEF DataInv, Entered, Paths

\* A write begins.
LEMMA DataByWrite == ASSUME ListingInv, DataInv, NEW p \in Names, Write(p) PROVE DataInv'
<1> DEFINE r == folder.root
<1>1. r \in Roots /\ sort' = sort
  BY DEF Write, Here, ListingInv, FolderOK
<1>2. PICK kind \in Writes, to \in Names :
        LET d == IF kind = "rename" THEN Changed(Entered(r, p, FALSE), r, to, TRUE)
                 ELSE Entered(r, p, kind # "trash")
        IN disk' = d /\ ops' = ops \cup {NewOp(kind, p, to, d)}
  BY DEF Write
<1> DEFINE d == IF kind = "rename" THEN Changed(Entered(r, p, FALSE), r, to, TRUE)
                ELSE Entered(r, p, kind # "trash")
<1>3. d \in [Roots -> [Paths -> Entry]]
  <2>1. to \in Paths /\ (kind # "trash") \in BOOLEAN
    BY DEF Paths
  <2>2. Entered(r, p, FALSE) \in [Roots -> [Paths -> Entry]]
    BY <1>1, EnteredOK
  <2>3. Entered(r, p, kind # "trash") \in [Roots -> [Paths -> Entry]]
    BY <1>1, <2>1, EnteredOK
  <2>4. Changed(Entered(r, p, FALSE), r, to, TRUE) \in [Roots -> [Paths -> Entry]]
    BY <1>1, <2>1, <2>2, ChangedOK
  <2> QED
    BY <2>3, <2>4
<1>4. disk' = d /\ ops' = ops \cup {NewOp(kind, p, to, d)}
  BY <1>2
<1> HIDE DEF d
<1>5. OpOK(NewOp(kind, p, to, d))
  BY <1>1 DEF OpOK, NewOp, OpFields
<1> QED
  BY <1>1, <1>3, <1>4, <1>5 DEF DataInv

\* The time of what has been written is read.
LEMMA DataByStamp == ASSUME DataInv, NEW o, Stamp(o) PROVE DataInv'
<1>1. OpOK(o) /\ disk' = disk /\ sort' = sort
  BY DEF Stamp, DataInv
<1>2. disk[o.root][o.path].ver \in Nat /\ disk[o.root][Dir].ver \in Nat
  BY <1>1 DEF DataInv, OpOK, Paths, Entry
<1>3. CASE ops' = (ops \ {o}) \cup {[o EXCEPT !.pc = "dir", !.leaf = disk[o.root][o.path].ver]}
  <2>1. OpOK([o EXCEPT !.pc = "dir", !.leaf = disk[o.root][o.path].ver])
    BY <1>1, <1>2 DEF OpOK, OpFields
  <2> QED
    BY <1>1, <1>3, <2>1 DEF DataInv
<1>4. CASE ops' = (ops \ {o}) \cup {[o EXCEPT !.pc = "done", !.dir = disk[o.root][Dir].ver]}
  <2>1. OpOK([o EXCEPT !.pc = "done", !.dir = disk[o.root][Dir].ver])
    BY <1>1, <1>2 DEF OpOK, OpFields
  <2> QED
    BY <1>1, <1>4, <2>1 DEF DataInv
<1> QED
  BY <1>3, <1>4 DEF Stamp

-----------------------------------------------------------------------------
\* In the beginning nothing is listed.
LEMMA InitOK == Init => ListingInv /\ DataInv
<1> SUFFICES ASSUME Init PROVE ListingInv /\ DataInv
  OBVIOUS
<1> USE ListingAssumption
<1>1. ViewOK(view)
  BY DEF Init, ViewOK, View
<1>2. FolderOK(view, folder)
  BY DEF Init, NoFolder, Nothing, FolderOK, FolderFields
<1>3. disk \in [Roots -> [Paths -> Entry]]
  BY DEF Init, Entry
<1> QED
  BY <1>1, <1>2, <1>3 DEF Init, ListingInv, DataInv

\* Every step keeps the promise, one action at a time.
LEMMA StepOK == ListingInv /\ DataInv /\ [Next]_vars => (Kept \/ UNCHANGED vars) /\ ListingInv' /\ DataInv'
<1> SUFFICES ASSUME ListingInv, DataInv, [Next]_vars
             PROVE  (Kept \/ UNCHANGED vars) /\ ListingInv' /\ DataInv'
  OBVIOUS
<1> DEFINE Same == UNCHANGED <<disk, sort, ops>>
           Step == Kept /\ DataInv'
<1>1. Same => DataInv'
  BY DEF DataInv
<1>2. ASSUME BatchDue PROVE Step
  BY <1>1, <1>2, KeptUntouched DEF BatchDue
<1>3. ASSUME BatchArrives PROVE Step
  <2>1. Same
    BY <1>3 DEF BatchArrives
  <2> QED
    BY <1>1, <1>3, <2>1, KeptByBatch
<1>4. ASSUME NEW g, RetryWatch(g) PROVE Step
  <2>1. Same
    BY <1>4 DEF RetryWatch
  <2> QED
    BY <1>1, <1>4, <2>1, KeptByRetry
<1>5. ASSUME NEW s, ScanFinishes(s) PROVE Step
  <2>1. Same /\ sort \in Orders
    BY <1>5 DEF ScanFinishes, DataInv
  <2> QED
    BY <1>1, <1>5, <2>1, KeptByFinish
<1>6. ASSUME NEW s, NEW p \in Paths, ScanReads(s, p) PROVE Step
  <2>1. Same /\ disk \in [Roots -> [Paths -> Entry]]
    BY <1>6 DEF ScanReads, DataInv
  <2> QED
    BY <1>1, <1>6, <2>1, KeptByRead
<1>7. ASSUME NEW o, Stamp(o) PROVE Step
  BY <1>7, DataByStamp, KeptUntouched DEF Stamp
<1>8. ASSUME NEW o, WriteFinishes(o) PROVE Step
  <2>1. DataInv'
    BY <1>8 DEF WriteFinishes, DataInv
  <2> QED
    BY <1>8, <2>1, KeptByWritten
<1>9. ASSUME WatchTrouble PROVE Step
  BY <1>1, <1>9, KeptUntouched DEF WatchTrouble
<1>10. ASSUME SpareBatch PROVE Step
  BY <1>1, <1>10, KeptUntouched DEF SpareBatch
<1>11. ASSUME NEW r \in Roots, OpenFolder(r) PROVE Step
  <2>1. Same
    BY <1>11 DEF OpenFolder
  <2> QED
    BY <1>1, <1>11, <2>1, KeptByOpen
<1>12. ASSUME NEW r \in Roots, OpenExternal(r) PROVE Step
  <2>1. Same
    BY <1>12 DEF OpenExternal
  <2> QED
    BY <1>1, <1>12, <2>1, KeptByOpenExternal
<1>13. ASSUME NEW r \in Roots, NEW p \in Names, OthersChange(r, p) PROVE Step
  <2>1. Kept
    BY <1>13, KeptUntouched DEF OthersChange
  <2>2. disk' \in [Roots -> [Paths -> Entry]]
    <3>1. p \in Paths /\ (~disk[r][p].there) \in BOOLEAN
      BY DEF Paths
    <3>2. Entered(r, p, ~disk[r][p].there) \in [Roots -> [Paths -> Entry]]
      BY <3>1, EnteredOK
    <3>3. Changed(disk, r, p, TRUE) \in [Roots -> [Paths -> Entry]]
      BY <3>1, ChangedOK DEF DataInv
    <3> QED
      BY <1>13, <3>2, <3>3 DEF OthersChange
  <2> QED
    BY <1>13, <2>1, <2>2 DEF OthersChange, DataInv
<1>14. ASSUME SearchAgain PROVE Step
  <2>1. Same
    BY <1>14 DEF SearchAgain
  <2> QED
    BY <1>1, <1>14, <2>1, KeptBySearch
<1>15. ASSUME NEW o \in Orders, SetSort(o) PROVE Step
  <2>1. DataInv'
    BY <1>15 DEF SetSort, DataInv
  <2> QED
    BY <1>15, <2>1, KeptBySort
<1>16. ASSUME NEW p \in Names, Write(p) PROVE Step
  <2>1. UNCHANGED <<view, scans, folder>>
    BY <1>16 DEF Write
  <2> QED
    BY <1>16, <2>1, DataByWrite, KeptUntouched
<1>17. CASE UNCHANGED vars
  BY <1>17 DEF vars, ListingInv, DataInv
<1>18. CASE Next
  <2>1. Step
    BY <1>2, <1>3, <1>4, <1>5, <1>6, <1>7, <1>8, <1>9, <1>10, <1>11, <1>12, <1>13, <1>14, <1>15,
       <1>16, <1>18 DEF Next, Work
  <2> QED
    BY <2>1 DEF Kept
<1> QED
  BY <1>17, <1>18

\* What the sidebar shows never gives way to something older, whatever listings,
\* searches, retries and writes of Hane's own are under way, and in whatever
\* order they come back (accept_listing_result, WorkFolder::touch).
THEOREM NeverOlder == Spec => NothingOlderIsShown
<1>1. Kept => NewestListing /\ TimesGoForward
  BY DEF Kept, Newer, Onward, NewestListing, TimesGoForward
<1>2. ListingInv /\ DataInv /\ [Next]_vars => [NewestListing /\ TimesGoForward]_vars
  BY <1>1, StepOK
<1>3. ListingInv /\ DataInv /\ [Next]_vars => (ListingInv /\ DataInv)'
  BY StepOK
<1> QED
  BY InitOK, <1>2, <1>3, PTL DEF Spec, NothingOlderIsShown

-----------------------------------------------------------------------------
(* The types.                                                               *)

Batch == [gen : Nat, failed : BOOLEAN]

\* refresh_work_folder_listing keeps the types of the watch, the timers, the
\* listings and the count of what has failed.
LEMMA RelistTypes ==
    ASSUME NEW v \in View, NEW w \in Watch, NEW t \in SUBSET Nat, NEW S \in SUBSET Scan,
           NEW here \in BOOLEAN, NEW n \in 0 .. MaxFaults, here => v.root \in Roots,
           Relist(v, w, t, S, here, n)
    PROVE  watch' \in Watch /\ timers' \subseteq Nat /\ scans' \subseteq Scan
           /\ faults' \in 0 .. MaxFaults
<1> DEFINE busy == ~here \/ v.running
           reattach == ~busy /\ v.failure
<1> USE ListingAssumption
<1>1. PICK ok \in BOOLEAN :
          /\ ok \/ MayFail(n)
          /\ faults' = IF ok THEN n ELSE n + 1
          /\ IF reattach THEN Connect(v, t, ok) ELSE watch' = w /\ timers' = t
          /\ scans' = IF busy THEN S ELSE S \cup {[NewScan("refresh", v, v.root, v.started + 1) EXCEPT
                                                !.trouble = v.failure]}
  BY DEF Relist
<1>2. v.gen \in Nat /\ v.root \in Roots \cup {NoRoot} /\ v.started \in Nat /\ v.failure \in BOOLEAN
  BY DEF View
<1>3. faults' \in 0 .. MaxFaults
  BY <1>1 DEF MayFail
<1>4. watch' \in Watch /\ timers' \subseteq Nat
  <2>1. NewWatch(v, ok) \in Watch
    BY <1>2 DEF NewWatch, NoWatch, Watch
  <2> QED
    BY <1>1, <1>2, <2>1 DEF Connect
<1>5. scans' \subseteq Scan
  <2>1. CASE busy
    BY <1>1, <2>1
  <2>2. CASE ~busy
    <3>1. [NewScan("refresh", v, v.root, v.started + 1) EXCEPT !.trouble = v.failure] \in Scan
      BY <1>2, <2>2 DEF NewScan, Scan, Kinds, Nothing
    <3> QED
      BY <1>1, <2>2, <3>1
  <2> QED
    BY <2>1, <2>2
<1> QED
  BY <1>3, <1>4, <1>5

\* A listing that starts, and one whose walk reads a path.
LEMMA NewScanTyped ==
    ASSUME NEW v \in View, NEW kind \in Kinds, NEW r \in Roots, NEW n \in Nat
    PROVE  NewScan(kind, v, r, n) \in Scan
BY DEF NewScan, Scan, View, Nothing

\* A listing that has read one more path is a listing.
LEMMA ReadTyped ==
    ASSUME NEW s \in Scan, NEW p \in Paths, NEW e \in Entry
    PROVE  [s EXCEPT !.read = @ \cup {p},
                     !.files = IF e.there THEN @ \cup {p} ELSE @,
                     !.stamp[p] = IF e.there THEN e.ver ELSE 0] \in Scan
<1> DEFINE files == IF e.there THEN s.files \cup {p} ELSE s.files
           ver == IF e.there THEN e.ver ELSE 0
           stamp == [s.stamp EXCEPT ![p] = ver]
           read == s.read \cup {p}
<1>1. files \in SUBSET Paths /\ ver \in Nat /\ read \in SUBSET Paths
  BY DEF Scan, Entry
<1>2. stamp \in [Paths -> Nat]
  <2> HIDE DEF ver
  <2> QED
    BY <1>1 DEF Scan
<1> HIDE DEF files, stamp, read, ver
<1>3. [s EXCEPT !.read = read, !.files = files, !.stamp = stamp] \in Scan
  BY <1>1, <1>2 DEF Scan
<1> QED
  BY <1>3 DEF files, stamp, read, ver

\* What Hane enters itself keeps the type of the folder shown.
LEMMA EnteredTyped ==
    ASSUME NEW f \in Folder, NEW p \in Paths, NEW n \in Nat
    PROVE  /\ Inserted(f, p) \in Folder /\ Removed(f, p) \in Folder
           /\ Touched(f, p, n) \in Folder
           /\ [f EXCEPT !.stamp[p] = 0] \in Folder
<1>1. [f.stamp EXCEPT ![p] = 0] \in [Paths -> Nat] /\ [f.stamp EXCEPT ![p] = n] \in [Paths -> Nat]
  BY DEF Folder
<1>2. f.files \cup {p} \in SUBSET Paths /\ f.files \ {p} \in SUBSET Paths
  BY DEF Folder
<1>3. ASSUME NEW F \in SUBSET Paths, NEW S \in [Paths -> Nat]
      PROVE  [f EXCEPT !.files = F, !.stamp = S] \in Folder
  BY DEF Folder
<1>4. ASSUME NEW S \in [Paths -> Nat]
      PROVE  [f EXCEPT !.stamp = S] \in Folder
  BY DEF Folder
<1>5. Removed(f, p) \in Folder
  BY <1>1, <1>2, <1>3 DEF Removed
<1>6. Inserted(f, p) \in Folder
  BY <1>1, <1>2, <1>3 DEF Inserted
<1>7. Touched(f, p, n) \in Folder
  BY <1>1, <1>4 DEF Touched
<1>8. [f EXCEPT !.stamp[p] = 0] \in Folder
  BY <1>1, <1>4
<1> QED
  BY <1>5, <1>6, <1>7, <1>8

\* A renamed note leaves a folder.
LEMMA RenamedTyped ==
    ASSUME NEW f \in Folder, NEW p \in Paths, NEW q \in Paths, NEW keep \in BOOLEAN
    PROVE  Renamed(f, p, q, keep) \in Folder
<1>1. Removed(f, p) \in Folder
  BY EnteredTyped
<1>2. Inserted(Removed(f, p), q) \in Folder
  BY <1>1, EnteredTyped
<1>3. [Inserted(Removed(f, p), q) EXCEPT !.stamp[q] = 0] \in Folder
  BY <1>2, EnteredTyped
<1> QED
  BY <1>2, <1>3 DEF Renamed

\* The types of a step follow from what it does to the variables of which
\* ListingInv and DataInv say too little.
Typed ==
    /\ watch \in Watch /\ batches \in Seq(Batch) /\ timers \subseteq Nat
    /\ scans \subseteq Scan /\ folder \in Folder /\ ops \subseteq Op
    /\ late \subseteq Paths /\ masked \in BOOLEAN
    /\ asked \in 0 .. Budget /\ faults \in 0 .. MaxFaults

\* Reports and what follows them keep the types.
LEMMA TypesByReport ==
    ASSUME TypeOK, ListingInv, DataInv,
           \/ BatchDue \/ BatchArrives \/ WatchTrouble \/ SpareBatch
           \/ \E g \in Nat : RetryWatch(g)
    PROVE  Typed'
<1> USE ListingAssumption
<1>1. /\ Typed /\ view \in View /\ view.gen \in Nat
      /\ Here \in BOOLEAN /\ (Here => view.root \in Roots)
  BY DEF TypeOK, Typed, Batch, View, Here, ListingInv, FolderOK
<1>7. Fault => faults' \in 0 .. MaxFaults
  BY <1>1 DEF Fault, MayFail, Typed
<1>2. CASE BatchDue
  <2>1. [gen |-> watch.gen, failed |-> watch.window = "failed"] \in Batch
    BY <1>1 DEF Typed, Watch, Batch
  <2>2. batches' \in Seq(Batch)
    BY <1>1, <1>2, <2>1 DEF BatchDue, Typed
  <2>3. watch' \in Watch
    BY <1>1, <1>2 DEF BatchDue, Typed, Watch
  <2> QED
    BY <1>1, <1>2, <2>2, <2>3 DEF BatchDue, Typed
<1>3. CASE BatchArrives
  <2>1. batches' \in Seq(Batch) /\ Head(batches) \in Batch
    BY <1>1, <1>3 DEF BatchArrives, Typed
  <2>2. watch' \in Watch /\ timers' \subseteq Nat /\ scans' \subseteq Scan
        /\ faults' \in 0 .. MaxFaults
    <3>1. CASE UNCHANGED <<view, watch, timers, scans, faults>>
      BY <1>1, <3>1 DEF Typed
    <3>2. CASE Relist([view EXCEPT !.failure = @ \/ Head(batches).failed], watch, timers, scans,
                      Here, faults)
      <4> DEFINE v == [view EXCEPT !.failure = view.failure \/ Head(batches).failed]
      <4>1. v \in View /\ v.root = view.root
        <5>1. (view.failure \/ Head(batches).failed) \in BOOLEAN
          OBVIOUS
        <5> QED
          BY <1>1, <5>1 DEF View
      <4>2. Relist(v, watch, timers, scans, Here, faults)
        BY <3>2
      <4> HIDE DEF v
      <4> QED
        BY <1>1, <4>1, <4>2, RelistTypes DEF Typed
    <3> QED
      BY <1>3, <3>1, <3>2 DEF BatchArrives
  <2> QED
    BY <1>1, <1>3, <2>1, <2>2 DEF BatchArrives, Typed
<1>4. CASE WatchTrouble
  <2>1. watch' \in Watch
    BY <1>1, <1>4 DEF WatchTrouble, Typed, Watch
  <2> QED
    BY <1>1, <1>4, <1>7, <2>1 DEF WatchTrouble, Typed
<1>5. CASE SpareBatch
  <2>1. PICK g \in 1 .. view.gen, f \in BOOLEAN :
            batches' = Append(batches, [gen |-> g, failed |-> f])
    BY <1>5 DEF SpareBatch
  <2>2. [gen |-> g, failed |-> f] \in Batch
    BY <1>1, <2>1 DEF Batch
  <2>3. batches' \in Seq(Batch)
    BY <1>1, <2>1, <2>2 DEF Typed
  <2> QED
    BY <1>1, <1>5, <1>7, <2>3 DEF SpareBatch, Typed
<1>6. ASSUME NEW g \in Nat, RetryWatch(g) PROVE Typed'
  <2> DEFINE t == timers \ {g}
             v == [view EXCEPT !.unwatched = FALSE]
  <2>1. t \in SUBSET Nat
    BY <1>1 DEF Typed
  <2>2. NewWatch(view, TRUE) \in Watch /\ NewWatch(view, FALSE) \in Watch
    BY <1>1 DEF NewWatch, NoWatch, Watch, View
  <2>3. v \in View /\ v.root = view.root
    BY <1>1 DEF View
  <2> HIDE DEF v
  <2>4. watch' \in Watch /\ timers' \subseteq Nat /\ scans' \subseteq Scan
        /\ faults' \in 0 .. MaxFaults
    <3>1. CASE timers' = t /\ UNCHANGED <<view, watch, scans, faults>>
      BY <1>1, <2>1, <3>1 DEF Typed
    <3>2. CASE Fault /\ Connect(view, t, FALSE) /\ UNCHANGED <<view, scans>>
      <4>1. view.gen \in Nat /\ timers' = t \cup {view.gen} /\ watch' = NewWatch(view, FALSE)
        BY <1>1, <3>2 DEF Connect
      <4>2. timers' \subseteq Nat
        BY <2>1, <4>1
      <4>3. scans' \subseteq Scan
        BY <1>1, <3>2 DEF Typed
      <4> QED
        BY <1>7, <2>2, <3>2, <4>1, <4>2, <4>3
    <3>3. CASE Relist(v, NewWatch(view, TRUE), t, scans, Here, faults)
      BY <1>1, <2>1, <2>2, <2>3, <3>3, RelistTypes DEF Typed
    <3> QED
      BY <1>6, <3>1, <3>2, <3>3 DEF RetryWatch, v
  <2> QED
    BY <1>1, <1>6, <2>4 DEF RetryWatch, Typed
<1> QED
  BY <1>2, <1>3, <1>4, <1>5, <1>6

\* What users and other programs do keeps the types.
LEMMA TypesByRequest ==
    ASSUME TypeOK, ListingInv, DataInv,
           \/ \E r \in Roots : OpenFolder(r) \/ OpenExternal(r) \/ \E p \in Names : OthersChange(r, p)
           \/ SearchAgain \/ \E o \in Orders : SetSort(o)
    PROVE  Typed'
<1> USE ListingAssumption
<1>1. /\ Typed /\ view \in View /\ view.gen \in Nat /\ view.started \in Nat /\ view.token \in Nat
      /\ (Here => view.root \in Roots)
  BY DEF TypeOK, Typed, Batch, View, Here, ListingInv, FolderOK
<1>2. Ask => asked' \in 0 .. Budget
  BY <1>1 DEF Ask, Typed
<1>3. ASSUME NEW r \in Roots, OpenFolder(r) PROVE Typed'
  <2>1. PICK ok \in BOOLEAN :
          LET v == [Reset(r, ok) EXCEPT !.started = @ + 1] IN
          /\ IF ok THEN UNCHANGED faults ELSE Fault
          /\ Connect(v, timers, ok)
          /\ view' = v
          /\ scans' = scans \cup {NewScan("first", v, r, v.started)}
    BY <1>3 DEF OpenFolder
  <2>2. Reset(r, ok) \in View
    BY <1>1, ResetOK
  <2> DEFINE v == [Reset(r, ok) EXCEPT !.started = @ + 1]
  <2>3. v \in View
    BY <2>2 DEF View
  <2>4. /\ IF ok THEN UNCHANGED faults ELSE Fault
        /\ Connect(v, timers, ok)
        /\ scans' = scans \cup {NewScan("first", v, r, v.started)}
    BY <2>1
  <2> HIDE DEF v
  <2>5. v.gen \in Nat /\ v.root \in Roots \cup {NoRoot} /\ v.started \in Nat
    BY <2>3 DEF View
  <2>6. NewWatch(v, ok) \in Watch
    BY <2>5 DEF NewWatch, NoWatch, Watch
  <2>7. NewScan("first", v, r, v.started) \in Scan
    BY <2>3, <2>5, NewScanTyped DEF Kinds
  <2>8. faults' \in 0 .. MaxFaults
    BY <1>1, <2>4 DEF Fault, MayFail, Typed
  <2>9. NoFolder \in Folder
    BY DEF NoFolder, Folder, Nothing
  <2> QED
    BY <1>1, <1>2, <1>3, <2>4, <2>5, <2>6, <2>7, <2>8, <2>9 DEF OpenFolder, Connect, Typed
<1>4. ASSUME NEW r \in Roots, OpenExternal(r) PROVE Typed'
  <2>1. NewScan("external", view, r, view.token + 1) \in Scan
    BY <1>1, NewScanTyped DEF Kinds
  <2> QED
    BY <1>1, <1>2, <1>4, <2>1 DEF OpenExternal, Typed
<1>5. ASSUME NEW r \in Roots, NEW p \in Names, OthersChange(r, p) PROVE Typed'
  <2>1. watch' \in Watch
    BY <1>1, <1>5 DEF OthersChange, Told, Typed, Watch
  <2> QED
    BY <1>1, <1>2, <1>5, <2>1 DEF OthersChange, Typed
<1>6. CASE SearchAgain
  <2>1. NewScan("search", view, view.root, view.started + 1) \in Scan
    BY <1>1, <1>6, NewScanTyped DEF Kinds, SearchAgain
  <2> QED
    BY <1>1, <1>2, <1>6, <2>1 DEF SearchAgain, Typed
<1>7. ASSUME NEW o \in Orders, SetSort(o) PROVE Typed'
  <2>1. folder' \in Folder
    BY <1>1, <1>7 DEF SetSort, Typed, Folder
  <2> QED
    BY <1>1, <1>2, <1>7, <2>1 DEF SetSort, Typed
<1> QED
  BY <1>3, <1>4, <1>5, <1>6, <1>7

\* A listing that is read, dropped or taken in keeps the types.
LEMMA TypesByRead ==
    ASSUME TypeOK, ListingInv, DataInv, NEW s \in scans, NEW p \in Paths, ScanReads(s, p)
    PROVE  Typed'
<1>1. Typed /\ s \in Scan /\ s.root \in Roots /\ disk[s.root][p] \in Entry
  BY DEF TypeOK, Typed, Batch, Scan, DataInv
<1> DEFINE e == disk[s.root][p]
           r == [s EXCEPT !.read = @ \cup {p},
                          !.files = IF e.there THEN @ \cup {p} ELSE @,
                          !.stamp[p] = IF e.there THEN e.ver ELSE 0]
<1>2. r \in Scan
  BY <1>1, ReadTyped
<1>3. scans' = (scans \ {s}) \cup {r}
  BY DEF ScanReads
<1> HIDE DEF r
<1> QED
  BY <1>1, <1>2, <1>3 DEF ScanReads, Typed

\* The view that goes on from a listing.
LEMMA TypesByGoingOn ==
    ASSUME TypeOK, NEW v \in View, v.root \in Roots, NEW S \in SUBSET Scan, NEW n \in 0 .. MaxFaults,
           \/ Relist(v, watch, timers, S, TRUE, n)
           \/ scans' = S /\ faults' = n /\ UNCHANGED <<watch, timers>>
    PROVE  watch' \in Watch /\ timers' \subseteq Nat /\ scans' \subseteq Scan
           /\ faults' \in 0 .. MaxFaults
<1>1. watch \in Watch /\ timers \in SUBSET Nat
  BY DEF TypeOK
<1>2. CASE Relist(v, watch, timers, S, TRUE, n)
  BY <1>1, <1>2, RelistTypes
<1> QED
  BY <1>1, <1>2

\* A listing that is shown is a folder.
LEMMA InstallTyped ==
    ASSUME sort \in Orders, NEW s \in Scan, Install(s), s.req \in Nat
    PROVE  folder' \in Folder /\ late' \subseteq Paths /\ masked' \in BOOLEAN
BY ListingAssumption DEF Install, Folder, Scan

\* A listing that comes back keeps the types.
LEMMA TypesByFinish ==
    ASSUME TypeOK, ListingInv, DataInv, NEW s, ScanFinishes(s)
    PROVE  Typed'
<1> USE ListingAssumption
<1>1. /\ Typed /\ s \in scans /\ s \in Scan /\ s.root \in Roots /\ sort \in Orders
      /\ view \in View /\ view.started \in Nat /\ view.applied \in Nat
      /\ s.req \in Nat /\ s.trouble \in BOOLEAN /\ view.failure \in BOOLEAN
      /\ scans \ {s} \in SUBSET Scan /\ faults \in 0 .. MaxFaults
  BY DEF TypeOK, Typed, Batch, ScanFinishes, Scan, DataInv, ListingInv, ViewOK, View
<1>2. Fault => faults' \in 0 .. MaxFaults
  BY <1>1 DEF Fault, MayFail
<1>3. /\ watch' \in Watch /\ timers' \subseteq Nat /\ scans' \subseteq Scan
      /\ faults' \in 0 .. MaxFaults
      /\ folder' \in Folder /\ late' \subseteq Paths /\ masked' \in BOOLEAN
  <2>1. CASE Replaced(s)
    BY <1>1, <2>1 DEF Replaced, Typed
  <2>2. CASE FinishFirst(s)
    <3> DEFINE v == Apply(view, s)
    <3>1. v \in View /\ v.root \in Roots
      <4>1. v \in View /\ v.root = view.root
        BY <1>1 DEF Apply, View
      <4>2. s.gen = view.gen /\ s.kind # "external"
        BY <2>2 DEF FinishFirst
      <4> QED
        BY <1>1, <4>1, <4>2, OpenListing
    <3>2. CASE Fault /\ scans' = scans \ {s} /\ UNCHANGED <<watch, timers, folder, late, masked>>
      BY <1>1, <1>2, <3>2 DEF Typed
    <3>3. ASSUME Install(s),
                 \/ Relist(v, watch, timers, scans \ {s}, TRUE, faults)
                 \/ scans' = scans \ {s} /\ UNCHANGED <<watch, timers, faults>>
          PROVE  /\ watch' \in Watch /\ timers' \subseteq Nat /\ scans' \subseteq Scan
                 /\ faults' \in 0 .. MaxFaults
                 /\ folder' \in Folder /\ late' \subseteq Paths /\ masked' \in BOOLEAN
      <4> HIDE DEF v
      <4>1. /\ watch' \in Watch /\ timers' \subseteq Nat /\ scans' \subseteq Scan
            /\ faults' \in 0 .. MaxFaults
        BY <1>1, <3>1, <3>3, TypesByGoingOn
      <4> QED
        BY <1>1, <3>3, <4>1, InstallTyped
    <3> QED
      BY <2>2, <3>2, <3>3 DEF FinishFirst
  <2>3. CASE FinishExternal(s)
    <3>1. CASE scans' = scans \ {s} /\ UNCHANGED <<watch, timers, folder, late, masked, faults>>
      BY <1>1, <3>1 DEF Typed
    <3>2. CASE ~(scans' = scans \ {s} /\ UNCHANGED <<watch, timers, folder, late, masked, faults>>)
      <4>1. PICK ok \in BOOLEAN :
              LET v == [Reset(s.root, ok) EXCEPT !.started = @ + 2, !.applied = view.started + 1,
                                                 !.running = TRUE]
              IN /\ IF ok THEN UNCHANGED faults ELSE Fault
                 /\ Connect(v, timers, ok)
                 /\ scans' = (scans \ {s}) \cup {NewScan("refresh", v, s.root, v.started)}
                 /\ folder' = [root |-> s.root, files |-> s.files, stamp |-> s.stamp,
                               req |-> v.applied, order |-> sort]
        BY <2>3, <3>2 DEF FinishExternal
      <4> DEFINE r == Reset(s.root, ok)
                 v == [r EXCEPT !.started = @ + 2, !.applied = view.started + 1,
                                !.running = TRUE]
      <4>2. r \in View /\ r.started \in Nat
        BY <1>1, ResetOK
      <4>3. /\ IF ok THEN UNCHANGED faults ELSE Fault
            /\ Connect(v, timers, ok)
            /\ scans' = (scans \ {s}) \cup {NewScan("refresh", v, s.root, v.started)}
            /\ folder' = [root |-> s.root, files |-> s.files, stamp |-> s.stamp,
                          req |-> v.applied, order |-> sort]
        BY <4>1
      <4> HIDE DEF r
      <4>4. v \in View
        <5>1. view.started + 1 \in Nat /\ r.started + 2 \in Nat
          BY <1>1, <4>2
        <5> QED
          BY <4>2, <5>1 DEF View
      <4> HIDE DEF v
      <4>5. v.gen \in Nat /\ v.root \in Roots \cup {NoRoot} /\ v.started \in Nat /\ v.applied \in Nat
        BY <4>4 DEF View
      <4>6. NewWatch(v, ok) \in Watch
        BY <4>5 DEF NewWatch, NoWatch, Watch
      <4>7. NewScan("refresh", v, s.root, v.started) \in Scan
        BY <1>1, <4>4, <4>5, NewScanTyped DEF Kinds
      <4>8. faults' \in 0 .. MaxFaults
        BY <1>1, <1>2, <4>3
      <4>9. folder' \in Folder
        BY <1>1, <4>3, <4>5 DEF Folder, Scan
      <4>10. late' = {} /\ masked' = FALSE
        BY <2>3, <3>2 DEF FinishExternal
      <4>11. watch' \in Watch /\ timers' \subseteq Nat
        BY <1>1, <4>3, <4>5, <4>6 DEF Connect, Typed
      <4>12. scans' \subseteq Scan
        BY <1>1, <4>3, <4>7
      <4> QED
        BY <4>8, <4>9, <4>10, <4>11, <4>12
    <3> QED
      BY <3>1, <3>2
  <2>4. CASE FinishRefresh(s)
    <3>1. PICK ok \in BOOLEAN :
            LET v == [view EXCEPT !.running = FALSE,
                                  !.applied = IF Accepted(s) THEN s.req ELSE @,
                                  !.failure = IF Accepted(s) THEN @ \/ ~ok ELSE @ \/ s.trouble]
                n == IF ok THEN faults ELSE faults + 1
            IN /\ IF ok THEN Done(s) ELSE MayFail(faults)
               /\ IF ok /\ Accepted(s) THEN Install(s) ELSE Reject(s)
               /\ IF Resumes(s) THEN Relist(v, watch, timers, scans \ {s}, TRUE, n)
                  ELSE /\ view' = v /\ scans' = scans \ {s} /\ faults' = n
                       /\ UNCHANGED <<watch, timers>>
      BY <2>4 DEF FinishRefresh
    <3> DEFINE f == IF Accepted(s) THEN view.failure \/ ~ok ELSE view.failure \/ s.trouble
               a == IF Accepted(s) THEN s.req ELSE view.applied
               n == IF ok THEN faults ELSE faults + 1
               v == [view EXCEPT !.running = FALSE, !.applied = a, !.failure = f]
    <3>2. n \in 0 .. MaxFaults
      BY <1>1, <3>1 DEF MayFail
    <3>3. /\ IF ok /\ Accepted(s) THEN Install(s) ELSE Reject(s)
          /\ \/ Relist(v, watch, timers, scans \ {s}, TRUE, n)
             \/ scans' = scans \ {s} /\ faults' = n /\ UNCHANGED <<watch, timers>>
      BY <3>1
    <3>4. f \in BOOLEAN /\ a \in Nat
      BY <1>1
    <3> HIDE DEF f, a, n
    <3>5. v \in View /\ v.root = view.root
      BY <1>1, <3>4 DEF View
    <3> HIDE DEF v
    <3>6. v.root \in Roots
      <4>1. s.gen = view.gen /\ s.kind # "external"
        BY <2>4 DEF FinishRefresh
      <4> QED
        BY <1>1, <3>5, <4>1, OpenListing
    <3>7. /\ watch' \in Watch /\ timers' \subseteq Nat /\ scans' \subseteq Scan
          /\ faults' \in 0 .. MaxFaults
      BY <1>1, <3>2, <3>3, <3>5, <3>6, TypesByGoingOn
    <3>8. folder' \in Folder /\ late' \subseteq Paths /\ masked' \in BOOLEAN
      <4>1. CASE Install(s)
        BY <1>1, <4>1, InstallTyped
      <4>2. CASE Reject(s)
        BY <1>1, <4>2 DEF Reject, Typed
      <4> QED
        BY <3>3, <4>1, <4>2
    <3> QED
      BY <3>7, <3>8
  <2>5. CASE FinishSearch(s)
    <3>1. watch' \in Watch /\ timers' \subseteq Nat /\ scans' \subseteq Scan
      BY <1>1, <2>5 DEF FinishSearch, Typed
    <3>2. faults' \in 0 .. MaxFaults
      BY <1>1, <1>2, <2>5 DEF FinishSearch
    <3>3. folder' \in Folder /\ late' \subseteq Paths /\ masked' \in BOOLEAN
      <4>1. CASE Install(s)
        BY <1>1, <4>1, InstallTyped
      <4>2. CASE UNCHANGED <<folder, late, masked>>
        BY <1>1, <4>2 DEF Typed
      <4> QED
        BY <2>5, <4>1, <4>2 DEF FinishSearch
    <3> QED
      BY <3>1, <3>2, <3>3
  <2> QED
    BY <2>1, <2>2, <2>3, <2>4, <2>5 DEF ScanFinishes
<1> QED
  BY <1>1, <1>3 DEF ScanFinishes, Typed

\* Hane's own writes keep the types.
LEMMA TypesByWrite ==
    ASSUME TypeOK, ListingInv, DataInv, NEW p \in Names, Write(p)
    PROVE  Typed'
<1> USE ListingAssumption
<1>1. /\ Typed /\ view.gen \in Nat /\ folder.root \in Roots
  BY DEF TypeOK, Typed, Batch, View, Write, Here, ListingInv, FolderOK
<1>2. PICK kind \in Writes, to \in Names :
        LET d == IF kind = "rename" THEN Changed(Entered(folder.root, p, FALSE), folder.root, to, TRUE)
                 ELSE Entered(folder.root, p, kind # "trash")
        IN disk' = d /\ ops' = ops \cup {NewOp(kind, p, to, d)}
  BY DEF Write
<1>3. ops' = ops \cup {NewOp(kind, p, to, disk')}
  BY <1>2
<1>4. disk' \in [Roots -> [Paths -> Entry]]
  BY DataByWrite DEF DataInv
<1>5. NewOp(kind, p, to, disk') \in Op
  <2>1. \A q \in Names : disk'[folder.root][q].ver \in Nat
    BY <1>1, <1>4 DEF Paths, Entry
  <2>2. [q \in Names |-> disk'[folder.root][q].ver] \in [Names -> Nat]
    BY <2>1
  <2> QED
    BY <1>1, <2>2 DEF NewOp, Op
<1>6. asked' \in 0 .. Budget
  BY <1>1 DEF Write, Ask, Typed
<1>7. watch' \in Watch
  BY <1>1 DEF Write, Told, Typed, Watch
<1>8. ops' \subseteq Op
  BY <1>1, <1>3, <1>5 DEF Typed
<1> QED
  BY <1>1, <1>6, <1>7, <1>8 DEF Write, Typed

\* So does the reading of a time,
LEMMA TypesByStamp ==
    ASSUME TypeOK, ListingInv, DataInv, NEW o \in ops, Stamp(o)
    PROVE  Typed'
<1>1. Typed /\ o \in Op /\ o.root \in Roots /\ o.path \in Paths /\ Dir \in Paths
  BY DEF TypeOK, Typed, Batch, Op, Paths
<1>2. disk[o.root][o.path].ver \in Nat /\ disk[o.root][Dir].ver \in Nat
  BY <1>1 DEF DataInv, Entry
<1> DEFINE l == disk[o.root][o.path].ver
           m == disk[o.root][Dir].ver
<1>3. /\ \/ ops' = (ops \ {o}) \cup {[o EXCEPT !.pc = "dir", !.leaf = l]}
         \/ ops' = (ops \ {o}) \cup {[o EXCEPT !.pc = "done", !.dir = m]}
      /\ l \in Nat /\ m \in Nat
  BY <1>2 DEF Stamp
<1> HIDE DEF l, m
<1>4. [o EXCEPT !.pc = "dir", !.leaf = l] \in Op /\ [o EXCEPT !.pc = "done", !.dir = m] \in Op
  BY <1>1, <1>3 DEF Op
<1>5. ops' \subseteq Op
  BY <1>1, <1>3, <1>4 DEF Typed
<1> QED
  BY <1>1, <1>5 DEF Stamp, Typed

\* and a write that comes back.
LEMMA TypesByWritten ==
    ASSUME TypeOK, ListingInv, DataInv, NEW o \in ops, WriteFinishes(o)
    PROVE  Typed'
<1>1. /\ Typed /\ o \in Op /\ o.path \in Paths /\ o.to \in Paths /\ o.path \in Names /\ o.to \in Names
      /\ Dir \in Paths /\ o.leaf \in Nat /\ o.dir \in Nat /\ folder \in Folder
  BY DEF TypeOK, Typed, Batch, Op, Paths
<1>2. CASE UNCHANGED <<folder, late>>
  BY <1>1, <1>2 DEF WriteFinishes, Typed
<1>3. CASE ~UNCHANGED <<folder, late>>
  <2>1. PICK keep \in BOOLEAN :
          /\ folder' = IF o.root # folder.root THEN folder
                       ELSE CASE o.kind = "trash" -> Removed(folder, o.path)
                              [] o.kind = "rename" ->
                                    Touched(Renamed(folder, o.path, o.to, keep), Dir, o.dir)
                              [] OTHER ->
                                    Touched(Touched(Inserted(folder, o.path), o.path, o.leaf),
                                            Dir, o.dir)
          /\ late' = late \/ late' = late \cup Overtaken(o)
    BY <1>3 DEF WriteFinishes
  <2>2. Overtaken(o) \subseteq Paths
    BY <1>1 DEF Overtaken
  <2>3. Removed(folder, o.path) \in Folder
    BY <1>1, EnteredTyped
  <2>4. Touched(Renamed(folder, o.path, o.to, keep), Dir, o.dir) \in Folder
    BY <1>1, EnteredTyped, RenamedTyped
  <2>5. Touched(Touched(Inserted(folder, o.path), o.path, o.leaf), Dir, o.dir) \in Folder
    <3>1. Inserted(folder, o.path) \in Folder
      BY <1>1, EnteredTyped
    <3>2. Touched(Inserted(folder, o.path), o.path, o.leaf) \in Folder
      BY <1>1, <3>1, EnteredTyped
    <3> QED
      BY <1>1, <3>2, EnteredTyped
  <2>6. \/ folder' = folder
        \/ folder' = Removed(folder, o.path)
        \/ folder' = Touched(Renamed(folder, o.path, o.to, keep), Dir, o.dir)
        \/ folder' = Touched(Touched(Inserted(folder, o.path), o.path, o.leaf), Dir, o.dir)
    BY <2>1
  <2>7. folder' \in Folder
    BY <1>1, <2>3, <2>4, <2>5, <2>6
  <2>8. late' \subseteq Paths
    BY <1>1, <2>1, <2>2 DEF Typed
  <2> QED
    BY <1>1, <2>7, <2>8 DEF WriteFinishes, Typed
<1> QED
  BY <1>2, <1>3

\* The types at the beginning.
LEMMA TypesStart == Init => TypeOK
<1> SUFFICES ASSUME Init PROVE TypeOK
  OBVIOUS
<1> USE ListingAssumption
<1>1. view \in View /\ disk \in [Roots -> [Paths -> Entry]]
  BY InitOK DEF ListingInv, ViewOK, DataInv
<1>2. watch \in Watch
  BY DEF Init, NoWatch, Watch
<1>3. folder \in Folder
  BY DEF Init, NoFolder, Folder, Nothing
<1>4. batches \in Seq([gen : Nat, failed : BOOLEAN])
  BY DEF Init
<1>5. asked \in 0 .. Budget /\ faults \in 0 .. MaxFaults
  BY DEF Init
<1>6. timers \subseteq Nat /\ scans \subseteq Scan /\ ops \subseteq Op /\ late \subseteq Paths
  BY DEF Init
<1>7. sort \in Orders /\ masked \in BOOLEAN
  BY DEF Init
<1> QED
  BY <1>1, <1>2, <1>3, <1>4, <1>5, <1>6, <1>7 DEF TypeOK

\* Every step keeps the types.
LEMMA TypesStay == TypeOK /\ ListingInv /\ DataInv /\ [Next]_vars => TypeOK'
<1> SUFFICES ASSUME TypeOK, ListingInv, DataInv, [Next]_vars PROVE TypeOK'
  OBVIOUS
<1>1. view' \in View /\ disk' \in [Roots -> [Paths -> Entry]] /\ sort' \in Orders
  BY StepOK DEF ListingInv, ViewOK, DataInv
<1>2. CASE UNCHANGED vars
  BY <1>2 DEF vars, TypeOK
<1>3. ASSUME Typed' PROVE TypeOK'
  BY <1>1, <1>3 DEF Typed, TypeOK, Batch
<1>4. Gens \subseteq Nat
  BY DEF Gens, ListingInv, ViewOK, View
<1>5. CASE Next
  <2>1. ASSUME Work PROVE Typed'
    BY <1>4, <2>1, TypesByReport, TypesByRead, TypesByFinish, TypesByStamp, TypesByWritten DEF Work
  <2> QED
    BY <1>3, <1>5, <2>1, TypesByReport, TypesByRequest, TypesByWrite DEF Next
<1> QED
  BY <1>2, <1>3, <1>5

-----------------------------------------------------------------------------
(* Why a quiet sidebar is current.  Nothing changes on the disk without a   *)
(* report, a report without a batch, a batch without a listing; so while    *)
(* none of these is under way, what a listing has read is still there.      *)

\* The refresh that runs, and that there is one exactly while the view says so.
Runs(v, s) == s.kind = "refresh" /\ s.gen = v.gen
RunOK(v, S) ==
    /\ v.running <=> \E s \in S : Runs(v, s)
    /\ \A s, t \in S : Runs(v, s) /\ Runs(v, t) => s = t

\* The folder of the view v is watched by w, or the view knows that it is not;
\* a watch that has died has said so, in what has not been followed up yet.
Attached(v, w) == w.on /\ w.gen = v.gen /\ w.root = v.root
SaidSo(v, w, B) ==
    \/ w.window = "failed" \/ v.failure
    \/ \E i \in 1 .. Len(B) : B[i].gen = v.gen /\ B[i].failed
WatchOK(v, w, B) ==
    \/ v.root = NoRoot \/ v.unwatched
    \/ Attached(v, w) /\ (w.deaf => SaidSo(v, w, B))

FollowInv ==
    /\ RunOK(view, scans)
    /\ WatchOK(view, watch, batches)
    /\ \A s \in scans : s.files \subseteq s.read

\* Nothing is reported that has not led to a listing.
Clear ==
    /\ Attached(view, watch) /\ ~watch.deaf /\ watch.window = "none"
    /\ \A i \in 1 .. Len(batches) : batches[i].gen # view.gen
    /\ ~view.pending /\ ~view.failure /\ ~view.unwatched

\* What a listing l says of a path of the folder r is so.
Fits(l, r, p) ==
    /\ p \in l.files <=> disk[r][p].there
    /\ p \in l.files => l.stamp[p] = disk[r][p].ver

\* The listing numbered n was not asked for before the refresh that runs.
NotBefore(n) == \A t \in scans : Runs(view, t) => n >= t.req

\* Then what a listing has read is so that may still be shown, unless a refresh
\* is under way that was asked for later,
Hopeful(s) ==
    s.gen = view.gen /\ s.kind # "external" /\ s.req > view.applied /\ NotBefore(s.req)
ScansFit == \A s \in scans : Hopeful(s) => \A p \in s.read : Fits(s, s.root, p)

\* and what is shown is so.
FolderFits ==
    Here /\ ~masked /\ NotBefore(folder.req) =>
        \A p \in Paths \ late : Fits(folder, folder.root, p)

FitInv == Clear => ScansFit /\ FolderFits

\* A write of Hane's that nobody has changed again is as it was left, and what
\* was read of it is a version.
Left(o, p) == IF o.kind = "rename" THEN p = o.to ELSE o.kind # "trash"
OpFits(o) ==
    /\ o.kind = "rename" => o.path # o.to
    /\ \A p \in {o.path, o.to} :
          /\ o.was[p] <= disk[o.root][p].ver
          /\ disk[o.root][p].ver = o.was[p] => (disk[o.root][p].there <=> Left(o, p))
    /\ o.leaf <= disk[o.root][o.path].ver /\ o.dir <= disk[o.root][Dir].ver
OpInv == \A o \in ops : OpFits(o)

-----------------------------------------------------------------------------
\* A listing that starts makes what is on the disk its own concern: nothing
\* else may be shown any more.
LEMMA RelistFollows ==
    ASSUME NEW v, NEW w, NEW t, NEW S, NEW here, NEW n,
           ViewOK(v), \A s \in S : ScanOK(v, s), here => v.root \in Roots,
           \A s \in S : s.files \subseteq s.read,
           RunOK(v, S), WatchOK(v, w, batches'), FolderOK(v, folder'),
           Relist(v, w, t, S, here, n)
    PROVE  FollowInv' /\ FitInv'
<1> DEFINE busy == ~here \/ v.running
           reattach == ~busy /\ v.failure
           s0 == [NewScan("refresh", v, v.root, v.started + 1) EXCEPT !.trouble = v.failure]
<1>1. PICK ok \in IF reattach THEN BOOLEAN ELSE {TRUE} :
          /\ IF reattach THEN Connect(v, t, ok) ELSE watch' = w /\ timers' = t
          /\ view' = IF busy THEN FollowUp(v)
                     ELSE [v EXCEPT !.running = TRUE, !.pending = FALSE, !.failure = FALSE,
                                    !.unwatched = IF reattach THEN ~ok ELSE @,
                                    !.started = @ + 1]
          /\ scans' = IF busy THEN S ELSE S \cup {s0}
  BY DEF Relist
<1>2. v \in View /\ v.applied <= v.started /\ v.started \in Nat /\ v.applied \in Nat
      /\ folder'.req \in Nat /\ folder'.req <= v.applied
  BY DEF ViewOK, View, FolderOK
<1>3. CASE busy
  <2>1. watch' = w /\ view' = [v EXCEPT !.pending = TRUE] /\ scans' = S
    BY <1>1, <1>3 DEF FollowUp
  <2>2. /\ view'.pending = TRUE /\ view'.gen = v.gen /\ view'.root = v.root
        /\ view'.running = v.running /\ view'.failure = v.failure
        /\ view'.unwatched = v.unwatched
    BY <1>2, <2>1 DEF View
  <2>3. FollowInv'
    BY <2>1, <2>2 DEF FollowInv, RunOK, Runs, WatchOK, Attached, SaidSo
  <2>4. FitInv'
    BY <2>2 DEF FitInv, Clear
  <2> QED
    BY <2>3, <2>4
<1>4. CASE ~busy
  <2>1. /\ ok \in BOOLEAN
        /\ IF reattach THEN Connect(v, t, ok) ELSE watch' = w
        /\ view' = [v EXCEPT !.running = TRUE, !.pending = FALSE, !.failure = FALSE,
                             !.unwatched = IF reattach THEN ~ok ELSE @,
                             !.started = @ + 1]
        /\ scans' = S \cup {s0}
    BY <1>1, <1>4
  <2>2. /\ view'.running = TRUE /\ view'.failure = FALSE
        /\ view'.unwatched = IF reattach THEN ~ok ELSE v.unwatched
        /\ view'.gen = v.gen /\ view'.root = v.root
    BY <1>2, <2>1 DEF View
  <2>3. /\ s0.kind = "refresh" /\ s0.gen = v.gen /\ s0.req = v.started + 1
        /\ s0.read = {} /\ s0.files = {}
    BY DEF NewScan
  <2>4. ~v.running /\ v.root \in Roots
    BY <1>4
  <2>5. WatchOK(view', watch', batches')
    <3>1. CASE reattach /\ ok
      <4>1. watch' = NewWatch(v, TRUE)
        BY <2>1, <3>1 DEF Connect
      <4> QED
        BY <2>2, <4>1 DEF NewWatch, NoWatch, WatchOK, Attached
    <3>2. CASE reattach /\ ~ok
      BY <2>2, <3>2 DEF WatchOK
    <3>3. CASE ~reattach
      <4>1. watch' = w /\ ~v.failure
        BY <1>4, <2>1, <3>3
      <4> QED
        BY <2>2, <3>3, <4>1 DEF WatchOK, Attached, SaidSo
    <3> QED
      BY <2>1, <3>1, <3>2, <3>3
  <2> HIDE DEF s0, busy, reattach
  <2>6. Runs(view', s0) /\ \A s \in S : ~Runs(view', s)
    BY <2>2, <2>3, <2>4 DEF Runs, RunOK
  <2>7. FollowInv'
    BY <2>1, <2>2, <2>3, <2>5, <2>6 DEF FollowInv, RunOK
  <2>8. ASSUME NEW s \in scans', Hopeful(s)' PROVE s = s0
    <3>1. s.gen = v.gen /\ s.kind # "external" /\ s.req >= v.started + 1
      BY <2>1, <2>2, <2>3, <2>6, <2>8 DEF Hopeful, NotBefore
    <3>2. s \notin S
      BY <1>2, <3>1 DEF ScanOK
    <3> QED
      BY <2>1, <3>2
  <2>9. ScansFit'
    BY <2>3, <2>8 DEF ScansFit
  <2>10. ~NotBefore(folder.req)'
    BY <1>2, <2>1, <2>3, <2>6 DEF NotBefore
  <2>11. FolderFits'
    BY <2>10 DEF FolderFits
  <2> QED
    BY <2>7, <2>9, <2>11 DEF FitInv
<1> QED
  BY <1>3, <1>4

\* A step that leaves the disk, the view and the listings alone, and makes no
\* report disappear.
LEMMA FitByReport ==
    ASSUME FitInv, FollowInv, UNCHANGED <<disk, view, scans, folder, late, masked>>,
           Clear' => Clear, WatchOK(view', watch', batches')
    PROVE  FollowInv' /\ FitInv'
<1>1. FollowInv'
  BY DEF FollowInv
<1>2. NotBefore(folder.req)' <=> NotBefore(folder.req)
  BY DEF NotBefore
<1>3. \A s \in scans : Hopeful(s)' <=> Hopeful(s)
  BY DEF Hopeful, NotBefore
<1>4. \A r, l, p : Fits(l, r, p)' <=> Fits(l, r, p)
  BY DEF Fits
<1>5. ScansFit => ScansFit'
  BY <1>3, <1>4 DEF ScansFit
<1>6. FolderFits => FolderFits'
  BY <1>2 DEF FolderFits, Fits, Here
<1> QED
  BY <1>1, <1>5, <1>6 DEF FitInv

\* Reports and what follows them.
LEMMA FitByDue ==
    ASSUME TypeOK, ListingInv, FollowInv, FitInv, BatchDue \/ WatchTrouble \/ SpareBatch
    PROVE  FollowInv' /\ FitInv'
<1> DEFINE b == [gen |-> watch.gen, failed |-> watch.window = "failed"]
<1>1. /\ batches \in Seq(Batch) /\ watch \in Watch /\ view \in View
      /\ Len(batches) \in Nat
  <2>1. batches \in Seq(Batch) /\ watch \in Watch /\ view \in View
    BY DEF TypeOK, Batch
  <2> QED
    BY <2>1
<1>2. ASSUME NEW c \in Batch, batches' = Append(batches, c)
      PROVE  /\ Len(batches') = Len(batches) + 1 /\ batches'[Len(batches) + 1] = c
             /\ \A i \in 1 .. Len(batches) : batches'[i] = batches[i]
  BY <1>1, <1>2
<1>3. CASE BatchDue
  <2>1. b \in Batch /\ batches' = Append(batches, b)
    BY <1>1, <1>3 DEF BatchDue, Watch, Batch
  <2>2. /\ Len(batches') = Len(batches) + 1 /\ batches'[Len(batches) + 1] = b
        /\ \A i \in 1 .. Len(batches) : batches'[i] = batches[i]
    BY <1>2, <2>1
  <2>3. /\ watch'.on = watch.on /\ watch'.gen = watch.gen /\ watch'.root = watch.root
        /\ watch'.deaf = watch.deaf /\ watch'.window = "none"
    BY <1>1, <1>3 DEF BatchDue, Watch
  <2>4. Len(batches) + 1 \in 1 .. Len(batches') /\ 1 .. Len(batches) \subseteq 1 .. Len(batches')
    BY <1>1, <2>2
  <2>5. view' = view
    BY <1>3 DEF BatchDue
  <2>6. Clear' => Clear
    <3>1. Attached(view, watch) => ~Clear'
      BY <2>2, <2>4, <2>5 DEF Clear, Attached
    <3>2. Attached(view', watch') => Attached(view, watch)
      BY <2>3, <2>5 DEF Attached
    <3> QED
      BY <3>1, <3>2 DEF Clear
  <2>7. WatchOK(view', watch', batches')
    <3>1. SUFFICES ASSUME Attached(view, watch), SaidSo(view, watch, batches)
                   PROVE  SaidSo(view', watch', batches')
      BY <2>3, <2>5 DEF WatchOK, Attached, FollowInv
    <3>2. CASE watch.window = "failed"
      <4>1. b.gen = view.gen /\ b.failed = TRUE
        BY <3>1, <3>2 DEF Attached
      <4> HIDE DEF b
      <4> QED
        BY <2>2, <2>4, <2>5, <4>1 DEF SaidSo
    <3>3. CASE watch.window # "failed"
      <4> HIDE DEF b
      <4> QED
        BY <2>2, <2>4, <2>5, <3>1, <3>3 DEF SaidSo
    <3> QED
      BY <3>2, <3>3
  <2> QED
    BY <1>3, <2>6, <2>7, FitByReport DEF BatchDue
<1>4. CASE WatchTrouble
  <2>1. /\ watch'.on = watch.on /\ watch'.gen = watch.gen /\ watch'.root = watch.root
        /\ watch'.window = "failed" /\ view' = view
    BY <1>1, <1>4 DEF WatchTrouble, Watch
  <2>2. WatchOK(view', watch', batches')
    BY <2>1 DEF WatchOK, Attached, FollowInv, SaidSo
  <2>3. Clear' => Clear
    BY <2>1 DEF Clear
  <2> QED
    BY <1>4, <2>2, <2>3, FitByReport DEF WatchTrouble
<1>5. CASE SpareBatch
  <2>1. PICK g \in 1 .. view.gen, f \in BOOLEAN : batches' = Append(batches, [gen |-> g, failed |-> f])
    BY <1>5 DEF SpareBatch
  <2>2. [gen |-> g, failed |-> f] \in Batch
    BY <1>1, <2>1 DEF Batch, View
  <2>3. /\ Len(batches') = Len(batches) + 1
        /\ \A i \in 1 .. Len(batches) : batches'[i] = batches[i]
    BY <1>2, <2>1, <2>2
  <2>4. 1 .. Len(batches) \subseteq 1 .. Len(batches')
    BY <1>1, <2>3
  <2>5. view' = view /\ watch' = watch
    BY <1>5 DEF SpareBatch
  <2>6. Clear' => Clear
    BY <2>3, <2>4, <2>5 DEF Clear
  <2>7. WatchOK(view', watch', batches')
    <3>1. SaidSo(view, watch, batches) => SaidSo(view', watch', batches')
      BY <2>3, <2>4, <2>5 DEF SaidSo
    <3> QED
      BY <2>5, <3>1 DEF WatchOK, FollowInv
  <2> QED
    BY <1>5, <2>6, <2>7, FitByReport DEF SpareBatch
<1> QED
  BY <1>3, <1>4, <1>5

\* folder_watch_batch_arrived.
LEMMA FitByBatch ==
    ASSUME TypeOK, ListingInv, FollowInv, FitInv, BatchArrives
    PROVE  FollowInv' /\ FitInv'
<1> DEFINE b == Head(batches)
<1>1. /\ view \in View /\ Here \in BOOLEAN /\ (Here => view.root \in Roots)
      /\ batches \in Seq(Batch) /\ batches # <<>>
  BY DEF TypeOK, Batch, Here, ListingInv, FolderOK, BatchArrives
<1>2. /\ batches' = Tail(batches) /\ UNCHANGED <<disk, folder, late, masked>>
  BY DEF BatchArrives
<1>3. /\ Len(batches) \in Nat /\ Len(batches) > 0 /\ Len(batches') = Len(batches) - 1
      /\ batches[1] = b
      /\ \A i \in 1 .. Len(batches') : batches'[i] = batches[i + 1]
  BY <1>1, <1>2
<1>4. \A i \in 1 .. Len(batches) : i = 1 \/ (i - 1 \in 1 .. Len(batches') /\ batches'[i - 1] = batches[i])
  BY <1>3
<1>5. CASE b.gen # view.gen /\ UNCHANGED <<view, watch, timers, scans, faults>>
  <2>1. Clear' => Clear
    BY <1>3, <1>4, <1>5 DEF Clear
  <2>2. SaidSo(view, watch, batches) => SaidSo(view', watch', batches')
    BY <1>3, <1>4, <1>5 DEF SaidSo
  <2>3. WatchOK(view', watch', batches')
    BY <1>5, <2>2 DEF WatchOK, FollowInv
  <2> QED
    BY <1>2, <1>5, <2>1, <2>3, FitByReport
<1>6. CASE Relist([view EXCEPT !.failure = @ \/ b.failed], watch, timers, scans, Here, faults)
  <2> DEFINE f == view.failure \/ b.failed
             v == [view EXCEPT !.failure = f]
  <2>1. Relist(v, watch, timers, scans, Here, faults)
    BY <1>6
  <2>2. f \in BOOLEAN /\ (view.failure \/ b.failed => f)
    OBVIOUS
  <2> HIDE DEF f
  <2>3. /\ v \in View /\ v.gen = view.gen /\ v.root = view.root /\ v.running = view.running
        /\ v.started = view.started /\ v.applied = view.applied
        /\ v.unwatched = view.unwatched /\ v.failure = f
    BY <1>1, <2>2 DEF View
  <2> HIDE DEF v
  <2>4. ViewOK(v) /\ \A s \in scans : ScanOK(v, s)
    BY <2>3 DEF ListingInv, ViewOK, ScanOK
  <2>5. RunOK(v, scans) /\ \A s \in scans : s.files \subseteq s.read
    BY <2>3 DEF FollowInv, RunOK, Runs
  <2>6. SaidSo(view, watch, batches) => SaidSo(v, watch, batches')
    BY <1>3, <1>4, <2>2, <2>3 DEF SaidSo
  <2>7. WatchOK(v, watch, batches')
    BY <2>3, <2>6 DEF WatchOK, Attached, FollowInv
  <2>8. FolderOK(v, folder')
    BY <1>2, <2>3 DEF ListingInv, FolderOK
  <2>9. Here => v.root \in Roots
    BY <1>1, <2>3
  <2> QED
    BY <2>1, <2>4, <2>5, <2>7, <2>8, <2>9, RelistFollows
<1> QED
  BY <1>5, <1>6 DEF BatchArrives

\* retry_folder_watch.
LEMMA FitByRetry ==
    ASSUME TypeOK, ListingInv, FollowInv, FitInv, NEW g, RetryWatch(g)
    PROVE  FollowInv' /\ FitInv'
<1> DEFINE t == timers \ {g}
           v == [view EXCEPT !.unwatched = FALSE]
           w == NewWatch(view, TRUE)
<1>1. view \in View /\ (Here => view.root \in Roots)
  BY DEF TypeOK, Here, ListingInv, FolderOK
<1>2. UNCHANGED <<disk, batches, folder, late, masked>>
  BY DEF RetryWatch
<1>3. CASE UNCHANGED <<view, watch, scans, faults>>
  BY <1>2, <1>3, FitByReport DEF Clear, FollowInv
<1>4. CASE view.unwatched /\ Connect(view, t, FALSE) /\ UNCHANGED <<view, scans>>
  <2>1. WatchOK(view', watch', batches')
    BY <1>4 DEF WatchOK
  <2>2. Clear' => Clear
    BY <1>4 DEF Clear
  <2> QED
    BY <1>2, <1>4, <2>1, <2>2, FitByReport
<1>5. CASE Relist(v, w, t, scans, Here, faults)
  <2>1. /\ v \in View /\ v.gen = view.gen /\ v.root = view.root /\ v.running = view.running
        /\ v.started = view.started /\ v.applied = view.applied
    BY <1>1 DEF View
  <2>2. WatchOK(v, w, batches')
    BY <2>1 DEF NewWatch, NoWatch, WatchOK, Attached
  <2> HIDE DEF v, w, t
  <2>3. ViewOK(v) /\ \A s \in scans : ScanOK(v, s)
    BY <2>1 DEF ListingInv, ViewOK, ScanOK
  <2>4. RunOK(v, scans) /\ \A s \in scans : s.files \subseteq s.read
    BY <2>1 DEF FollowInv, RunOK, Runs
  <2>5. FolderOK(v, folder')
    BY <1>2, <2>1 DEF ListingInv, FolderOK
  <2>6. Here => v.root \in Roots
    BY <1>1, <2>1
  <2> QED
    BY <1>5, <2>2, <2>3, <2>4, <2>5, <2>6, RelistFollows
<1> QED
  BY <1>3, <1>4, <1>5 DEF RetryWatch

\* The disk is changed where the view does not look, or it is reported.
LEMMA FitByChange ==
    ASSUME TypeOK, ListingInv, FollowInv, FitInv, NEW r \in Roots,
           \A x \in Roots \ {r} : disk'[x] = disk[x],
           watch' = Told(r), UNCHANGED <<batches, view, scans, folder, late, masked>>
    PROVE  FollowInv' /\ FitInv'
<1> DEFINE told == watch.on /\ watch.root = r /\ ~watch.deaf /\ watch.window = "none"
<1>1. watch \in Watch
  BY DEF TypeOK
<1>2. /\ watch'.on = watch.on /\ watch'.gen = watch.gen /\ watch'.root = watch.root
      /\ watch'.deaf = watch.deaf
      /\ watch'.window = IF told THEN "changed" ELSE watch.window
  BY <1>1 DEF Told, Watch
<1>3. FollowInv'
  <2>1. SaidSo(view, watch, batches) => SaidSo(view, watch', batches)
    BY <1>2 DEF SaidSo
  <2>2. WatchOK(view', watch', batches')
    BY <1>2, <2>1 DEF WatchOK, Attached, FollowInv
  <2> QED
    BY <2>2 DEF FollowInv
<1>4. SUFFICES ASSUME Clear' PROVE ScansFit' /\ FolderFits'
  BY <1>3 DEF FitInv
<1>5. ~told /\ watch'.window = "none"
  BY <1>2, <1>4 DEF Clear
<1>6. Clear /\ r # view.root
  BY <1>2, <1>4, <1>5 DEF Clear, Attached
<1>7. ASSUME NEW l, NEW x \in Roots, x = view.root, NEW p
      PROVE  Fits(l, x, p)' <=> Fits(l, x, p)
  BY <1>6, <1>7 DEF Fits
<1>8. ScansFit'
  <2> SUFFICES ASSUME NEW s \in scans, Hopeful(s), NEW p \in s.read
               PROVE  Fits(s, s.root, p)'
    BY DEF ScansFit, Hopeful, NotBefore
  <2>1. s.root = view.root /\ s.root \in Roots
    BY OpenListing DEF Hopeful
  <2>2. Fits(s, s.root, p)
    BY <1>6 DEF FitInv, ScansFit
  <2> QED
    BY <1>7, <2>1, <2>2
<1>9. FolderFits'
  <2> SUFFICES ASSUME Here, ~masked, NotBefore(folder.req), NEW p \in Paths \ late
               PROVE  Fits(folder, folder.root, p)'
    BY DEF FolderFits, Here, NotBefore
  <2>1. folder.root = view.root /\ folder.root \in Roots
    BY DEF Here, ListingInv, FolderOK
  <2>2. Fits(folder, folder.root, p)
    BY <1>6 DEF FitInv, FolderFits
  <2> QED
    BY <1>7, <2>1, <2>2
<1> QED
  BY <1>8, <1>9

\* A listing that starts beside what there is, and reads nothing yet.
LEMMA FitByStart ==
    ASSUME TypeOK, ListingInv, FollowInv, FitInv, NEW s,
           s.kind \in {"external", "search"}, s.read = {}, s.files = {},
           scans' = scans \cup {s},
           UNCHANGED <<disk, watch, batches, folder, late, masked>>,
           view'.gen = view.gen, view'.root = view.root, view'.running = view.running,
           view'.pending = view.pending, view'.failure = view.failure,
           view'.unwatched = view.unwatched, view'.applied = view.applied
    PROVE  FollowInv' /\ FitInv'
<1>1. ~Runs(view, s) /\ \A x : Runs(view', x) <=> Runs(view, x)
  BY DEF Runs
<1>2. FollowInv'
  <2>1. RunOK(view', scans')
    BY <1>1 DEF FollowInv, RunOK
  <2>2. WatchOK(view', watch', batches')
    BY DEF FollowInv, WatchOK, Attached, SaidSo
  <2> QED
    BY <2>1, <2>2 DEF FollowInv
<1>3. SUFFICES ASSUME Clear' PROVE ScansFit' /\ FolderFits'
  BY <1>2 DEF FitInv
<1>4. ScansFit /\ FolderFits
  BY <1>3 DEF FitInv, Clear, Attached
<1>5. NotBefore(folder.req)' <=> NotBefore(folder.req)
  BY <1>1 DEF NotBefore
<1>6. \A x \in scans : Hopeful(x)' <=> Hopeful(x)
  BY <1>1 DEF Hopeful, NotBefore
<1>7. ScansFit'
  BY <1>4, <1>6 DEF ScansFit, Fits
<1>8. FolderFits'
  BY <1>4, <1>5 DEF FolderFits, Fits, Here
<1> QED
  BY <1>7, <1>8

\* begin_content_search_rescan.
LEMMA FitBySearch ==
    ASSUME TypeOK, ListingInv, FollowInv, FitInv, SearchAgain
    PROVE  FollowInv' /\ FitInv'
<1>1. view \in View
  BY DEF TypeOK
<1>2. /\ view'.gen = view.gen /\ view'.root = view.root /\ view'.running = view.running
      /\ view'.pending = view.pending /\ view'.failure = view.failure
      /\ view'.unwatched = view.unwatched /\ view'.applied = view.applied
  BY <1>1 DEF SearchAgain, View
<1> DEFINE s == NewScan("search", view, view.root, view.started + 1)
<1>3. s.kind \in {"external", "search"} /\ s.read = {} /\ s.files = {} /\ scans' = scans \cup {s}
  BY DEF NewScan, SearchAgain
<1> HIDE DEF s
<1> QED
  BY <1>2, <1>3, FitByStart DEF SearchAgain

\* open_external_folder.
LEMMA FitByOpenExternal ==
    ASSUME TypeOK, ListingInv, FollowInv, FitInv, NEW r \in Roots, OpenExternal(r)
    PROVE  FollowInv' /\ FitInv'
<1>1. view \in View
  BY DEF TypeOK
<1>2. /\ view'.gen = view.gen /\ view'.root = view.root /\ view'.running = view.running
      /\ view'.pending = view.pending /\ view'.failure = view.failure
      /\ view'.unwatched = view.unwatched /\ view'.applied = view.applied
  BY <1>1 DEF OpenExternal, View
<1> DEFINE s == NewScan("external", view, r, view.token + 1)
<1>3. s.kind \in {"external", "search"} /\ s.read = {} /\ s.files = {} /\ scans' = scans \cup {s}
  BY DEF NewScan, OpenExternal
<1> HIDE DEF s
<1> QED
  BY <1>2, <1>3, FitByStart DEF OpenExternal

\* switch_to_work_folder: nothing is shown, and the first listing has read nothing.
LEMMA FitByOpen ==
    ASSUME TypeOK, ListingInv, FollowInv, FitInv, NEW r \in Roots, OpenFolder(r)
    PROVE  FollowInv' /\ FitInv'
<1>1. view \in View /\ view.gen \in Nat
  BY DEF TypeOK, View
<1>2. PICK ok \in BOOLEAN :
          LET v == [Reset(r, ok) EXCEPT !.started = @ + 1] IN
          /\ Connect(v, timers, ok)
          /\ view' = v
          /\ scans' = scans \cup {NewScan("first", v, r, v.started)}
  BY DEF OpenFolder
<1> DEFINE s == NewScan("first", view', r, view'.started)
<1>3. Connect(view', timers, ok) /\ scans' = scans \cup {s}
  BY <1>2
<1>4. /\ view'.gen = view.gen + 1 /\ view'.root = r /\ view'.running = FALSE
      /\ view'.unwatched = ~ok
  BY <1>2 DEF Reset
<1>5. /\ s.kind = "first" /\ s.gen = view'.gen /\ s.read = {} /\ s.files = {}
  BY DEF NewScan
<1> HIDE DEF s
<1>6. \A x \in scans : x.gen # view'.gen
  BY <1>1, <1>4 DEF ListingInv, ScanOK
<1>7. \A x \in scans' : ~Runs(view', x)
  BY <1>3, <1>5, <1>6 DEF Runs
<1>8. WatchOK(view', watch', batches')
  <2>1. CASE ok
    BY <1>3, <1>4, <2>1 DEF Connect, NewWatch, NoWatch, WatchOK, Attached
  <2>2. CASE ~ok
    BY <1>4, <2>2 DEF WatchOK
  <2> QED
    BY <2>1, <2>2
<1>9. FollowInv'
  BY <1>3, <1>4, <1>5, <1>7, <1>8 DEF FollowInv, RunOK
<1>10. ScansFit'
  BY <1>3, <1>5, <1>6 DEF ScansFit, Hopeful
<1>11. FolderFits'
  BY DEF OpenFolder, NoFolder, FolderFits, Here
<1> QED
  BY <1>9, <1>10, <1>11 DEF FitInv

\* The walk reads a path: what it reads is so.
LEMMA FitByRead ==
    ASSUME TypeOK, ListingInv, FollowInv, FitInv, NEW s \in scans, NEW p \in Paths, ScanReads(s, p)
    PROVE  FollowInv' /\ FitInv'
<1> DEFINE e == disk[s.root][p]
           r == [s EXCEPT !.read = @ \cup {p},
                          !.files = IF e.there THEN @ \cup {p} ELSE @,
                          !.stamp[p] = IF e.there THEN e.ver ELSE 0]
<1>1. /\ UNCHANGED <<disk, watch, batches, view, folder, late, masked>>
      /\ scans' = (scans \ {s}) \cup {r} /\ p \notin s.read
  BY DEF ScanReads
<1>2. s \in Scan /\ s.files \subseteq s.read
  BY DEF TypeOK, FollowInv
<1>3. /\ r.kind = s.kind /\ r.gen = s.gen /\ r.root = s.root /\ r.req = s.req
      /\ r.read = s.read \cup {p}
      /\ r.files = IF e.there THEN s.files \cup {p} ELSE s.files
      /\ r.stamp = [s.stamp EXCEPT ![p] = IF e.there THEN e.ver ELSE 0]
  BY <1>2 DEF Scan
<1> HIDE DEF r
<1>4. \A x : Runs(view', x) <=> Runs(view, x)
  BY <1>1 DEF Runs
<1>5. Runs(view, r) <=> Runs(view, s)
  BY <1>3 DEF Runs
<1>6. RunOK(view', scans')
  <2>1. view.running <=> \E x \in scans : Runs(view, x)
    BY DEF FollowInv, RunOK
  <2>2. \A x, y \in scans : Runs(view, x) /\ Runs(view, y) => x = y
    BY DEF FollowInv, RunOK
  <2>3. (\E x \in scans' : Runs(view, x)) <=> (\E x \in scans : Runs(view, x))
    BY <1>1, <1>5
  <2>4. \A x, y \in scans' : Runs(view, x) /\ Runs(view, y) => x = y
    BY <1>1, <1>5, <2>2
  <2> QED
    BY <1>1, <2>1, <2>3, <2>4 DEF RunOK
<1>7. FollowInv'
  <2>1. r.files \subseteq r.read
    BY <1>2, <1>3
  <2> QED
    BY <1>1, <1>6, <2>1 DEF FollowInv
<1>8. \A n : NotBefore(n)' <=> NotBefore(n)
  BY <1>1, <1>3, <1>4, <1>5 DEF NotBefore
<1>9. SUFFICES ASSUME Clear' PROVE ScansFit' /\ FolderFits'
  BY <1>7 DEF FitInv
<1>10. ScansFit /\ FolderFits
  BY <1>1, <1>9 DEF FitInv, Clear
<1>11. FolderFits'
  BY <1>1, <1>8, <1>10 DEF FolderFits, Here, Fits
<1>12. ASSUME NEW x \in scans', Hopeful(x)', NEW q \in x.read PROVE Fits(x, x.root, q)'
  <2>1. CASE x \in scans
    <3>1. Hopeful(x)
      BY <1>1, <1>8, <1>12 DEF Hopeful
    <3> QED
      BY <1>1, <1>10, <1>12, <2>1, <3>1 DEF ScansFit, Fits
  <2>2. CASE x = r
    <3>1. Hopeful(s)
      BY <1>1, <1>3, <1>8, <1>12, <2>2 DEF Hopeful
    <3>2. CASE q = p
      BY <1>1, <1>2, <1>3, <2>2, <3>2 DEF Fits, Scan
    <3>3. CASE q # p
      <4>1. q \in s.read /\ q \in Paths
        BY <1>2, <1>3, <1>12, <2>2, <3>3 DEF Scan
      <4>2. Fits(s, s.root, q)
        BY <1>10, <3>1, <4>1 DEF ScansFit
      <4>3. /\ q \in r.files <=> q \in s.files
            /\ r.stamp[q] = s.stamp[q]
        BY <1>2, <1>3, <3>3, <4>1 DEF Scan
      <4> QED
        BY <1>1, <1>3, <2>2, <4>2, <4>3 DEF Fits
    <3> QED
      BY <3>2, <3>3
  <2> QED
    BY <1>1, <2>1, <2>2
<1> QED
  BY <1>11, <1>12 DEF ScansFit

\* A listing that ends and is not the refresh that runs: dropped, failed, or
\* taken in, when it is what is shown.
LEMMA FitByTaken ==
    ASSUME TypeOK, ListingInv, FollowInv, FitInv, NEW s \in scans, ~Runs(view, s),
           scans' = scans \ {s}, UNCHANGED <<disk, watch, batches>>,
           \/ view' = view
           \/ Accepted(s) /\ view' = Apply(view, s),
           \/ UNCHANGED <<folder, late, masked>>
           \/ /\ s.gen = view.gen /\ s.kind # "external"
              /\ Install(s) /\ Done(s) /\ Accepted(s)
    PROVE  FollowInv' /\ FitInv'
<1>1. view \in View /\ s.req \in Nat /\ view.applied \in Nat
  BY DEF TypeOK, View, ListingInv, ScanOK
<1>2. /\ view'.gen = view.gen /\ view'.root = view.root /\ view'.running = view.running
      /\ view'.pending = view.pending /\ view'.failure = view.failure
      /\ view'.unwatched = view.unwatched
      /\ view'.applied \in Nat /\ view'.applied >= view.applied
  <2>1. CASE view' = view
    BY <1>1, <2>1
  <2>2. CASE Accepted(s) /\ view' = [view EXCEPT !.applied = s.req]
    BY <1>1, <2>2 DEF Accepted, View
  <2> QED
    BY <2>1, <2>2 DEF Apply
<1>3. \A x : Runs(view', x) <=> Runs(view, x)
  BY <1>2 DEF Runs
<1>4. FollowInv'
  <2>1. WatchOK(view', watch', batches')
    BY <1>2 DEF FollowInv, WatchOK, Attached, SaidSo
  <2>2. RunOK(view', scans')
    BY <1>2, <1>3 DEF FollowInv, RunOK
  <2> QED
    BY <2>1, <2>2 DEF FollowInv
<1>5. \A n : NotBefore(n)' <=> NotBefore(n)
  BY <1>3 DEF NotBefore
<1>6. SUFFICES ASSUME Clear' PROVE ScansFit' /\ FolderFits'
  BY <1>4 DEF FitInv
<1>7. ScansFit /\ FolderFits
  BY <1>2, <1>6 DEF FitInv, Clear, Attached
<1>8. ScansFit'
  <2> SUFFICES ASSUME NEW x \in scans, Hopeful(x)' PROVE \A p \in x.read : Fits(x, x.root, p)
    BY DEF ScansFit, Fits
  <2>1. x.req \in Nat /\ x.gen = view.gen /\ x.kind # "external" /\ NotBefore(x.req)
        /\ x.req > view'.applied
    BY <1>2, <1>5 DEF Hopeful, ListingInv, ScanOK
  <2>2. Hopeful(x)
    BY <1>1, <1>2, <2>1 DEF Hopeful
  <2> QED
    BY <1>7, <2>2 DEF ScansFit
<1>9. FolderFits'
  <2>1. CASE UNCHANGED <<folder, late, masked>>
    BY <1>5, <1>7, <2>1 DEF FolderFits, Here, Fits
  <2>2. CASE s.gen = view.gen /\ s.kind # "external" /\ Install(s) /\ Done(s) /\ Accepted(s)
    <3>1. folder'.root = s.root /\ folder'.files = s.files /\ folder'.stamp = s.stamp
          /\ folder'.req = s.req /\ s.read = Paths
      BY <2>2 DEF Install, Done
    <3> SUFFICES ASSUME NotBefore(folder.req)', NEW p \in Paths
                 PROVE  Fits(folder, folder.root, p)'
      BY DEF FolderFits
    <3>2. NotBefore(s.req)
      BY <1>3, <3>1 DEF NotBefore
    <3>3. Hopeful(s)
      BY <2>2, <3>2 DEF Hopeful, Accepted
    <3>4. Fits(s, s.root, p)
      BY <1>7, <3>1, <3>3 DEF ScansFit
    <3> QED
      BY <3>1, <3>4 DEF Fits
  <2> QED
    BY <2>1, <2>2
<1> QED
  BY <1>8, <1>9

\* finish_work_folder_scan, with or without one more listing.
LEMMA FitByFirst ==
    ASSUME TypeOK, ListingInv, FollowInv, FitInv, NEW s \in scans, FinishFirst(s),
           UNCHANGED <<disk, batches>>, FolderOK(view', folder')
    PROVE  FollowInv' /\ FitInv'
<1>1. s.gen = view.gen /\ s.kind # "external" /\ ~Runs(view, s) /\ Accepted(s)
  BY DEF FinishFirst, Runs
<1>2. CASE view' = Apply(view, s) /\ scans' = scans \ {s} /\ UNCHANGED <<watch, timers>>
  <2>1. UNCHANGED <<folder, late, masked>> \/ (Install(s) /\ Done(s))
    BY DEF FinishFirst
  <2> QED
    BY <1>1, <1>2, <2>1, FitByTaken
<1>3. CASE Relist(Apply(view, s), watch, timers, scans \ {s}, TRUE, faults)
  <2> DEFINE v == Apply(view, s)
  <2>1. view \in View /\ s.req \in Nat
    BY DEF TypeOK, ListingInv, ScanOK
  <2>2. /\ ViewOK(v) /\ v.gen = view.gen /\ v.root = view.root /\ v.running = view.running
        /\ v.started = view.started /\ v.failure = view.failure /\ v.unwatched = view.unwatched
        /\ v.applied = s.req
    BY <1>1, <2>1, ApplyOK DEF Apply, View
  <2> HIDE DEF v
  <2>3. \A x \in scans \ {s} : ScanOK(v, x)
    BY <2>2 DEF ListingInv, ScanOK
  <2>4. RunOK(v, scans \ {s})
    BY <1>1, <2>2 DEF FollowInv, RunOK, Runs
  <2>5. WatchOK(v, watch, batches')
    BY <2>2 DEF FollowInv, WatchOK, Attached, SaidSo
  <2>6. v.root \in Roots
    BY <1>1, <2>2, OpenListing
  <2>7. Relist(v, watch, timers, scans \ {s}, TRUE, faults)
    BY <1>3 DEF v
  <2>8. /\ view'.applied = v.applied /\ view'.root = v.root
    BY <2>2, <2>3, <2>6, <2>7, RelistOK
  <2>9. FolderOK(v, folder')
    BY <2>8 DEF FolderOK
  <2>10. \A x \in scans \ {s} : x.files \subseteq x.read
    BY DEF FollowInv
  <2> QED
    BY <2>2, <2>3, <2>4, <2>5, <2>6, <2>7, <2>9, <2>10, RelistFollows
<1> QED
  BY <1>2, <1>3 DEF FinishFirst

\* finish_content_search_rescan.
LEMMA FitBySearched ==
    ASSUME TypeOK, ListingInv, FollowInv, FitInv, NEW s \in scans, FinishSearch(s),
           UNCHANGED <<disk, batches>>
    PROVE  FollowInv' /\ FitInv'
<1>1. s.gen = view.gen /\ s.kind # "external" /\ ~Runs(view, s)
  BY DEF FinishSearch, Runs
<1>2. /\ scans' = scans \ {s} /\ UNCHANGED watch
      /\ \/ view' = view
         \/ Accepted(s) /\ view' = Apply(view, s)
      /\ \/ UNCHANGED <<folder, late, masked>>
         \/ Install(s) /\ Done(s) /\ Accepted(s)
  BY DEF FinishSearch
<1> QED
  BY <1>1, <1>2, FitByTaken

\* finish_external_folder_open: a refresh follows what was read before the
\* folder was watched.
LEMMA FitByExternal ==
    ASSUME TypeOK, ListingInv, FollowInv, FitInv, NEW s \in scans, FinishExternal(s),
           UNCHANGED <<disk, batches>>
    PROVE  FollowInv' /\ FitInv'
<1>1. view \in View /\ view.gen \in Nat /\ view.started \in Nat
  BY DEF TypeOK, View
<1>2. CASE scans' = scans \ {s} /\ UNCHANGED <<watch, view, timers, folder, late, masked, faults>>
  <2>1. ~Runs(view, s)
    BY DEF FinishExternal, Runs
  <2> QED
    BY <1>2, <2>1, FitByTaken
<1>3. CASE ~(scans' = scans \ {s} /\ UNCHANGED <<watch, view, timers, folder, late, masked, faults>>)
  <2>1. PICK ok \in BOOLEAN :
          LET v == [Reset(s.root, ok) EXCEPT !.started = @ + 2, !.applied = view.started + 1,
                                             !.running = TRUE]
          IN /\ Connect(v, timers, ok)
             /\ view' = v
             /\ scans' = (scans \ {s}) \cup {NewScan("refresh", v, s.root, v.started)}
             /\ folder' = [root |-> s.root, files |-> s.files, stamp |-> s.stamp,
                           req |-> v.applied, order |-> sort]
    BY <1>3 DEF FinishExternal
  <2> DEFINE n == NewScan("refresh", view', s.root, view'.started)
  <2>2. /\ Connect(view', timers, ok) /\ scans' = (scans \ {s}) \cup {n}
        /\ folder'.req = view'.applied
    BY <2>1
  <2>3. /\ view'.gen = view.gen + 1 /\ view'.root = s.root /\ view'.running = TRUE
        /\ view'.unwatched = ~ok /\ view'.started = view.started + 2
        /\ view'.applied = view.started + 1
    BY <2>1 DEF Reset
  <2>4. /\ n.kind = "refresh" /\ n.gen = view'.gen /\ n.req = view'.started
        /\ n.read = {} /\ n.files = {}
    BY DEF NewScan
  <2> HIDE DEF n
  <2>5. \A x \in scans : x.gen # view'.gen
    BY <1>1, <2>3 DEF ListingInv, ScanOK
  <2>6. Runs(view', n) /\ \A x \in scans : ~Runs(view', x)
    BY <2>4, <2>5 DEF Runs
  <2>7. WatchOK(view', watch', batches')
    <3>1. CASE ok
      BY <2>2, <2>3, <3>1 DEF Connect, NewWatch, NoWatch, WatchOK, Attached
    <3>2. CASE ~ok
      BY <2>3, <3>2 DEF WatchOK
    <3> QED
      BY <3>1, <3>2
  <2>8. FollowInv'
    BY <2>2, <2>3, <2>4, <2>6, <2>7 DEF FollowInv, RunOK
  <2>9. ScansFit'
    BY <2>2, <2>4, <2>5 DEF ScansFit, Hopeful
  <2>10. ~NotBefore(folder.req)'
    BY <1>1, <2>2, <2>3, <2>4, <2>6 DEF NotBefore
  <2> QED
    BY <2>8, <2>9, <2>10 DEF FitInv, FolderFits
<1> QED
  BY <1>2, <1>3

\* finish_work_folder_refresh: what it has read is so and is shown, or what is
\* shown was asked for later, or it is known that neither holds.
LEMMA FitByRefresh ==
    ASSUME TypeOK, ListingInv, FollowInv, FitInv, NEW s \in scans, FinishRefresh(s),
           UNCHANGED <<disk, batches>>, FolderOK(view', folder')
    PROVE  FollowInv' /\ FitInv'
<1>1. s.gen = view.gen /\ s.kind # "external" /\ Runs(view, s)
  BY DEF FinishRefresh, Runs
<1>2. PICK ok \in BOOLEAN :
        LET v == [view EXCEPT !.running = FALSE,
                              !.applied = IF Accepted(s) THEN s.req ELSE @,
                              !.failure = IF Accepted(s) THEN @ \/ ~ok ELSE @ \/ s.trouble]
            n == IF ok THEN faults ELSE faults + 1
        IN /\ IF ok THEN Done(s) ELSE MayFail(faults)
           /\ IF ok /\ Accepted(s) THEN Install(s) ELSE Reject(s)
           /\ IF Resumes(s) THEN Relist(v, watch, timers, scans \ {s}, TRUE, n)
              ELSE /\ view' = v /\ scans' = scans \ {s} /\ faults' = n
                   /\ UNCHANGED <<watch, timers>>
  BY DEF FinishRefresh
<1> DEFINE f == IF Accepted(s) THEN view.failure \/ ~ok ELSE view.failure \/ s.trouble
           a == IF Accepted(s) THEN s.req ELSE view.applied
           n == IF ok THEN faults ELSE faults + 1
           v == [view EXCEPT !.running = FALSE, !.applied = a, !.failure = f]
<1>3. /\ view \in View /\ s.req \in Nat /\ view.applied \in Nat /\ view.started \in Nat
      /\ view.applied <= view.started /\ s.req <= view.started /\ folder.req \in Nat
      /\ folder.req <= view.applied
  BY <1>1, OpenListing DEF TypeOK, View, ListingInv, ViewOK, FolderOK
<1>4. /\ a \in Nat /\ a <= view.started /\ a >= view.applied /\ a >= s.req
      /\ Accepted(s) => a = s.req
      /\ ~Accepted(s) => a = view.applied
  BY <1>3 DEF Accepted
<1>5. f \in BOOLEAN /\ (view.failure => f) /\ (Accepted(s) /\ ~ok => f)
  OBVIOUS
<1>6. /\ IF ok THEN Done(s) ELSE MayFail(faults)
      /\ IF ok /\ Accepted(s) THEN Install(s) ELSE Reject(s)
      /\ IF Resumes(s) THEN Relist(v, watch, timers, scans \ {s}, TRUE, n)
         ELSE view' = v /\ scans' = scans \ {s} /\ watch' = watch
  BY <1>2
<1> HIDE DEF f, a, n
<1>7. /\ v \in View /\ v.gen = view.gen /\ v.root = view.root /\ v.running = FALSE
      /\ v.started = view.started /\ v.failure = f /\ v.unwatched = view.unwatched
      /\ v.applied = a /\ v.pending = view.pending
  BY <1>3, <1>4, <1>5 DEF View
<1> HIDE DEF v
<1>8. \A x \in scans \ {s} : ~Runs(view, x)
  BY <1>1 DEF FollowInv, RunOK
<1>9. RunOK(v, scans \ {s})
  BY <1>7, <1>8 DEF RunOK, Runs
<1>10. WatchOK(v, watch, batches')
  BY <1>5, <1>7 DEF FollowInv, WatchOK, Attached, SaidSo
<1>11. CASE Resumes(s)
  <2>1. Relist(v, watch, timers, scans \ {s}, TRUE, n)
    BY <1>6, <1>11
  <2>2. ViewOK(v) /\ \A x \in scans \ {s} : ScanOK(v, x)
    BY <1>3, <1>4, <1>7 DEF ViewOK, ListingInv, ScanOK
  <2>3. v.root \in Roots
    BY <1>1, <1>7, OpenListing
  <2>4. /\ view'.applied = v.applied /\ view'.root = v.root
    BY <2>1, <2>2, <2>3, RelistOK
  <2>5. FolderOK(v, folder')
    BY <2>4 DEF FolderOK
  <2>6. \A x \in scans \ {s} : x.files \subseteq x.read
    BY DEF FollowInv
  <2> QED
    BY <1>9, <1>10, <2>1, <2>2, <2>3, <2>5, <2>6, RelistFollows
<1>12. CASE ~Resumes(s)
  <2>1. view' = v /\ scans' = scans \ {s} /\ watch' = watch
    BY <1>6, <1>12
  <2>2. FollowInv'
    BY <1>9, <1>10, <2>1 DEF FollowInv
  <2>3. SUFFICES ASSUME Clear' PROVE ScansFit' /\ FolderFits'
    BY <2>2 DEF FitInv
  <2>4. Clear /\ (Accepted(s) => ok)
    BY <1>5, <1>7, <2>1, <2>3 DEF Clear, Attached
  <2>5. ScansFit /\ FolderFits
    BY <2>4 DEF FitInv
  <2>6. ScansFit'
    <3> SUFFICES ASSUME NEW x \in scans \ {s}, Hopeful(x)' PROVE \A p \in x.read : Fits(x, x.root, p)
      BY <2>1 DEF ScansFit, Fits
    <3>1. x.req \in Nat /\ x.gen = view.gen /\ x.kind # "external" /\ x.req > a
      BY <1>7, <2>1 DEF Hopeful, ListingInv, ScanOK
    <3>2. NotBefore(x.req)
      BY <1>3, <1>4, <1>8, <3>1 DEF NotBefore
    <3>3. Hopeful(x)
      BY <1>3, <1>4, <3>1, <3>2 DEF Hopeful
    <3> QED
      BY <2>5, <3>3 DEF ScansFit
  <2>7. FolderFits'
    <3>1. CASE Accepted(s)
      <4>1. Install(s) /\ s.read = Paths
        BY <1>6, <2>4, <3>1 DEF Done
      <4>2. folder'.root = s.root /\ folder'.files = s.files /\ folder'.stamp = s.stamp
        BY <4>1 DEF Install
      <4>3. Hopeful(s)
        BY <1>1, <1>3, <1>8, <3>1 DEF Hopeful, Accepted, NotBefore
      <4> QED
        BY <2>5, <4>1, <4>2, <4>3 DEF ScansFit, FolderFits, Fits
    <3>2. CASE ~Accepted(s)
      <4>1. masked' = (masked \/ s.req > folder.req) /\ UNCHANGED <<folder, late>>
        BY <1>6, <3>2 DEF Reject
      <4> SUFFICES ASSUME Here, ~masked' PROVE \A p \in Paths \ late : Fits(folder, folder.root, p)
        BY <4>1 DEF FolderFits, Here, Fits
      <4>2. ~masked /\ folder.req >= s.req
        <5>1. ~(masked \/ s.req > folder.req)
          BY <4>1, Zenon
        <5> QED
          BY <1>3, <5>1
      <4>3. NotBefore(folder.req)
        BY <1>8, <4>2 DEF NotBefore
      <4> QED
        BY <2>5, <4>2, <4>3 DEF FolderFits
    <3> QED
      BY <3>1, <3>2
  <2> QED
    BY <2>6, <2>7
<1> QED
  BY <1>11, <1>12

\* A listing comes back.
LEMMA FitByFinish ==
    ASSUME TypeOK, ListingInv, DataInv, FollowInv, FitInv, NEW s, ScanFinishes(s)
    PROVE  FollowInv' /\ FitInv'
<1>1. s \in scans /\ UNCHANGED <<disk, batches>>
  BY DEF ScanFinishes
<1>2. FolderOK(view', folder')
  BY KeptByFinish DEF DataInv, Kept, ListingInv
<1>3. CASE Replaced(s)
  <2>1. ~Runs(view, s)
    BY <1>3 DEF Replaced, Runs
  <2> QED
    BY <1>1, <1>3, <2>1, FitByTaken DEF Replaced
<1>4. CASE FinishFirst(s)
  BY <1>1, <1>2, <1>4, FitByFirst
<1>5. CASE FinishExternal(s)
  BY <1>1, <1>5, FitByExternal
<1>6. CASE FinishRefresh(s)
  BY <1>1, <1>2, <1>6, FitByRefresh
<1>7. CASE FinishSearch(s)
  BY <1>1, <1>7, FitBySearched
<1> QED
  BY <1>3, <1>4, <1>5, <1>6, <1>7 DEF ScanFinishes

-----------------------------------------------------------------------------
(* The disk, and what Hane itself enters.                                   *)

\* A change makes a new version of one path.
LEMMA ChangedEntry ==
    ASSUME NEW d \in [Roots -> [Paths -> Entry]], NEW r \in Roots, NEW p \in Paths,
           NEW there \in BOOLEAN
    PROVE  /\ Changed(d, r, p, there) \in [Roots -> [Paths -> Entry]]
           /\ \A x \in Roots \ {r} : Changed(d, r, p, there)[x] = d[x]
           /\ \A q \in Paths \ {p} : Changed(d, r, p, there)[r][q] = d[r][q]
           /\ Changed(d, r, p, there)[r][p].there = there
           /\ Changed(d, r, p, there)[r][p].ver = d[r][p].ver + 1
           /\ d[r][p].ver \in Nat
BY ChangedOK DEF Changed, Entry

\* No path gets an earlier version, and none changes without a new one.
Grew(d, e) ==
    \A r \in Roots, p \in Paths :
       /\ d[r][p].ver \in Nat /\ e[r][p].ver \in Nat /\ e[r][p].ver >= d[r][p].ver
       /\ e[r][p].ver = d[r][p].ver => e[r][p].there = d[r][p].there

\* A change makes a version newer,
LEMMA ChangedGrew ==
    ASSUME NEW d \in [Roots -> [Paths -> Entry]], NEW r \in Roots, NEW p \in Paths,
           NEW there \in BOOLEAN
    PROVE  Grew(d, Changed(d, r, p, there))
<1> DEFINE e == Changed(d, r, p, there)
<1>1. /\ e \in [Roots -> [Paths -> Entry]]
      /\ \A x \in Roots \ {r} : e[x] = d[x]
      /\ \A q \in Paths \ {p} : e[r][q] = d[r][q]
      /\ e[r][p].ver = d[r][p].ver + 1 /\ d[r][p].ver \in Nat
  BY ChangedEntry
<1> HIDE DEF e
<1> SUFFICES ASSUME NEW x \in Roots, NEW q \in Paths
             PROVE  /\ d[x][q].ver \in Nat /\ e[x][q].ver \in Nat /\ e[x][q].ver >= d[x][q].ver
                    /\ e[x][q].ver = d[x][q].ver => e[x][q].there = d[x][q].there
  BY DEF Grew, e
<1>2. d[x][q].ver \in Nat /\ e[x][q].ver \in Nat
  BY <1>1 DEF Entry
<1>3. CASE x = r /\ q = p
  BY <1>1, <1>2, <1>3
<1>4. CASE ~(x = r /\ q = p)
  <2>1. e[x][q] = d[x][q]
    BY <1>1, <1>4
  <2> QED
    BY <1>2, <2>1
<1> QED
  BY <1>3, <1>4

\* and so do two.
LEMMA GrewOnwards ==
    ASSUME NEW d, NEW e, NEW f, Grew(d, e), Grew(e, f)
    PROVE  Grew(d, f)
<1> SUFFICES ASSUME NEW r \in Roots, NEW p \in Paths
             PROVE  /\ d[r][p].ver \in Nat /\ f[r][p].ver \in Nat /\ f[r][p].ver >= d[r][p].ver
                    /\ f[r][p].ver = d[r][p].ver => f[r][p].there = d[r][p].there
  BY DEF Grew
<1>1. /\ d[r][p].ver \in Nat /\ e[r][p].ver \in Nat /\ f[r][p].ver \in Nat
      /\ e[r][p].ver >= d[r][p].ver /\ f[r][p].ver >= e[r][p].ver
      /\ e[r][p].ver = d[r][p].ver => e[r][p].there = d[r][p].there
      /\ f[r][p].ver = e[r][p].ver => f[r][p].there = e[r][p].there
  BY DEF Grew
<1> QED
  BY <1>1

\* A name that comes, goes or is replaced, and nothing outside of its folder.
LEMMA EnteredEntry ==
    ASSUME disk \in [Roots -> [Paths -> Entry]], NEW r \in Roots, NEW p \in Names,
           NEW there \in BOOLEAN
    PROVE  /\ Entered(r, p, there) \in [Roots -> [Paths -> Entry]]
           /\ Grew(disk, Entered(r, p, there))
           /\ \A x \in Roots \ {r} : Entered(r, p, there)[x] = disk[x]
           /\ \A q \in Paths \ {p, Dir} : Entered(r, p, there)[r][q] = disk[r][q]
           /\ Entered(r, p, there)[r][p].there = there
<1> USE ListingAssumption
<1> DEFINE d == Changed(disk, r, p, there)
           e == Changed(d, r, Dir, TRUE)
<1>1. p \in Paths /\ Dir \in Paths /\ p # Dir
  BY DEF Paths
<1>2. /\ d \in [Roots -> [Paths -> Entry]]
      /\ \A x \in Roots \ {r} : d[x] = disk[x]
      /\ \A q \in Paths \ {p} : d[r][q] = disk[r][q]
      /\ d[r][p].there = there
      /\ Grew(disk, d)
  BY <1>1, ChangedEntry, ChangedGrew
<1> HIDE DEF d
<1>3. /\ e \in [Roots -> [Paths -> Entry]]
      /\ \A x \in Roots \ {r} : e[x] = d[x]
      /\ \A q \in Paths \ {Dir} : e[r][q] = d[r][q]
      /\ Grew(d, e)
  <2>1. d \in [Roots -> [Paths -> Entry]] /\ Dir \in Paths
    BY <1>1, <1>2
  <2>2. ASSUME NEW t \in BOOLEAN
        PROVE  /\ Changed(d, r, Dir, t) \in [Roots -> [Paths -> Entry]]
               /\ \A x \in Roots \ {r} : Changed(d, r, Dir, t)[x] = d[x]
               /\ \A q \in Paths \ {Dir} : Changed(d, r, Dir, t)[r][q] = d[r][q]
               /\ Grew(d, Changed(d, r, Dir, t))
    <3>1. Grew(d, Changed(d, r, Dir, t))
      BY <2>1, ChangedGrew
    <3>2. Changed(d, r, Dir, t) \in [Roots -> [Paths -> Entry]]
      BY <2>1, ChangedOK
    <3>3. \A x \in Roots \ {r} : Changed(d, r, Dir, t)[x] = d[x]
      BY <2>1 DEF Changed
    <3>4. \A q \in Paths \ {Dir} : Changed(d, r, Dir, t)[r][q] = d[r][q]
      BY <2>1 DEF Changed
    <3> QED
      BY <3>1, <3>2, <3>3, <3>4
  <2>3. TRUE \in BOOLEAN
    OBVIOUS
  <2> QED
    BY <2>2, <2>3, Zenon
<1>4. Entered(r, p, there) = e
  BY DEF Entered, d
<1> HIDE DEF e
<1>5. Grew(disk, e)
  BY <1>2, <1>3, GrewOnwards
<1> QED
  BY <1>1, <1>2, <1>3, <1>4, <1>5

\* What a write under way says of the disk outlives what others write.
LEMMA OpsOutlive ==
    ASSUME TypeOK, OpInv, Grew(disk, disk'), NEW o \in ops
    PROVE  OpFits(o)'
<1>1. o.root \in Roots /\ o.path \in Paths /\ o.to \in Paths /\ Dir \in Paths
      /\ o.leaf \in Nat /\ o.dir \in Nat
      /\ \A p \in {o.path, o.to} : o.was[p] \in Nat
  BY DEF TypeOK, Op, Paths
<1>2. OpFits(o)
  BY DEF OpInv
<1>3. ASSUME NEW p \in Paths
      PROVE  /\ disk[o.root][p].ver \in Nat /\ disk'[o.root][p].ver \in Nat
             /\ disk'[o.root][p].ver >= disk[o.root][p].ver
             /\ disk'[o.root][p].ver = disk[o.root][p].ver =>
                  disk'[o.root][p].there = disk[o.root][p].there
  BY <1>1 DEF Grew
<1>4. ASSUME NEW p \in {o.path, o.to}
      PROVE  /\ o.was[p] <= disk'[o.root][p].ver
             /\ disk'[o.root][p].ver = o.was[p] => (disk'[o.root][p].there <=> Left(o, p))
  <2>1. p \in Paths /\ o.was[p] \in Nat
    BY <1>1
  <2>2. /\ o.was[p] <= disk[o.root][p].ver
        /\ disk[o.root][p].ver = o.was[p] => (disk[o.root][p].there <=> Left(o, p))
    BY <1>2 DEF OpFits
  <2>3. disk'[o.root][p].ver = o.was[p] =>
           disk[o.root][p].ver = o.was[p] /\ disk'[o.root][p].there = disk[o.root][p].there
    BY <1>3, <2>1, <2>2
  <2>4. o.was[p] <= disk'[o.root][p].ver
    BY <1>3, <2>1, <2>2
  <2> QED
    BY <2>2, <2>3, <2>4
<1>5. o.leaf <= disk'[o.root][o.path].ver /\ o.dir <= disk'[o.root][Dir].ver
  BY <1>1, <1>2, <1>3 DEF OpFits
<1> QED
  BY <1>2, <1>4, <1>5 DEF OpFits, Left

\* A step that neither writes nor enters anything.
LEMMA OpsSame ==
    ASSUME OpInv, disk' = disk, ops' \subseteq ops
    PROVE  OpInv'
BY DEF OpInv, OpFits, Left

\* Another program writes.
LEMMA FitByOthers ==
    ASSUME TypeOK, ListingInv, DataInv, FollowInv, FitInv, OpInv,
           NEW r \in Roots, NEW p \in Names, OthersChange(r, p)
    PROVE  FollowInv' /\ FitInv' /\ OpInv'
<1>1. disk \in [Roots -> [Paths -> Entry]] /\ p \in Paths /\ (~disk[r][p].there) \in BOOLEAN
  BY DEF DataInv, Paths
<1>2. (\A x \in Roots \ {r} : disk'[x] = disk[x]) /\ Grew(disk, disk')
  <2>1. CASE disk' = Entered(r, p, ~disk[r][p].there)
    <3>1. ASSUME NEW t \in BOOLEAN
          PROVE  /\ \A x \in Roots \ {r} : Entered(r, p, t)[x] = disk[x]
                 /\ Grew(disk, Entered(r, p, t))
      BY <1>1, EnteredEntry
    <3> QED
      BY <1>1, <2>1, <3>1
  <2>2. CASE disk' = Changed(disk, r, p, TRUE)
    <3>1. ASSUME NEW t \in BOOLEAN
          PROVE  /\ \A x \in Roots \ {r} : Changed(disk, r, p, t)[x] = disk[x]
                 /\ Grew(disk, Changed(disk, r, p, t))
      BY <1>1, ChangedEntry, ChangedGrew
    <3> QED
      BY <2>2, <3>1
  <2> QED
    BY <2>1, <2>2 DEF OthersChange
<1>3. FollowInv' /\ FitInv'
  BY <1>2, FitByChange DEF OthersChange
<1>4. OpInv'
  BY <1>2, OpsOutlive DEF OthersChange, OpInv
<1> QED
  BY <1>3, <1>4

\* Hane writes.
LEMMA FitByWrite ==
    ASSUME TypeOK, ListingInv, DataInv, FollowInv, FitInv, OpInv,
           NEW p \in Names, Write(p)
    PROVE  FollowInv' /\ FitInv' /\ OpInv'
<1> USE ListingAssumption
<1> DEFINE r == folder.root
<1>1. r \in Roots /\ disk \in [Roots -> [Paths -> Entry]] /\ p \in Paths /\ p # Dir
  BY DEF Write, Here, ListingInv, FolderOK, DataInv, Paths
<1>2. PICK kind \in Writes, to \in Names :
        /\ kind # "rename" => to = p
        /\ kind = "rename" => disk[r][p].there /\ ~disk[r][to].there
        /\ LET d == IF kind = "rename" THEN Changed(Entered(r, p, FALSE), r, to, TRUE)
                    ELSE Entered(r, p, kind # "trash")
           IN disk' = d /\ ops' = ops \cup {NewOp(kind, p, to, d)}
  BY DEF Write
<1>2a. PICK o : o = NewOp(kind, p, to, disk')
  OBVIOUS
<1>3. /\ kind = "rename" => disk' = Changed(Entered(r, p, FALSE), r, to, TRUE)
      /\ kind # "rename" => disk' = Entered(r, p, kind # "trash")
      /\ ops' = ops \cup {o}
  BY <1>2, <1>2a
<1> HIDE DEF r
<1>4. to \in Paths /\ to # Dir /\ (kind = "rename" => to # p)
  BY <1>2 DEF Paths
<1>5. /\ disk' \in [Roots -> [Paths -> Entry]]
      /\ Grew(disk, disk') /\ \A x \in Roots \ {r} : disk'[x] = disk[x]
      /\ kind # "rename" => (disk'[r][p].there <=> kind # "trash")
      /\ kind = "rename" => ~disk'[r][p].there /\ disk'[r][to].there
  <2>1. CASE kind # "rename"
    <3>1. ASSUME NEW t \in BOOLEAN
          PROVE  /\ Entered(r, p, t) \in [Roots -> [Paths -> Entry]]
                 /\ Grew(disk, Entered(r, p, t))
                 /\ \A x \in Roots \ {r} : Entered(r, p, t)[x] = disk[x]
                 /\ Entered(r, p, t)[r][p].there = t
      BY <1>1, EnteredEntry
    <3>2. PICK t \in BOOLEAN : t = (kind # "trash")
      OBVIOUS
    <3>3. disk' = Entered(r, p, t)
      BY <1>3, <2>1, <3>2
    <3> QED
      BY <2>1, <3>1, <3>2, <3>3
  <2>2. CASE kind = "rename"
    <3> DEFINE d == Entered(r, p, FALSE)
    <3>1. ASSUME NEW t \in BOOLEAN
          PROVE  /\ Entered(r, p, t) \in [Roots -> [Paths -> Entry]]
                 /\ Grew(disk, Entered(r, p, t))
                 /\ \A x \in Roots \ {r} : Entered(r, p, t)[x] = disk[x]
                 /\ Entered(r, p, t)[r][p].there = t
      BY <1>1, EnteredEntry
    <3>2. /\ d \in [Roots -> [Paths -> Entry]] /\ Grew(disk, d)
          /\ \A x \in Roots \ {r} : d[x] = disk[x]
          /\ d[r][p].there = FALSE
      BY <3>1
    <3> HIDE DEF d
    <3>3. disk' = Changed(d, r, to, TRUE)
      BY <1>3, <2>2 DEF d
    <3>4. ASSUME NEW t \in BOOLEAN
          PROVE  /\ Changed(d, r, to, t) \in [Roots -> [Paths -> Entry]]
                 /\ Grew(d, Changed(d, r, to, t))
                 /\ \A x \in Roots \ {r} : Changed(d, r, to, t)[x] = d[x]
                 /\ \A q \in Paths \ {to} : Changed(d, r, to, t)[r][q] = d[r][q]
                 /\ Changed(d, r, to, t)[r][to].there = t
      <4>1. Grew(d, Changed(d, r, to, t)) /\ Changed(d, r, to, t) \in [Roots -> [Paths -> Entry]]
        BY <1>1, <1>4, <3>2, ChangedGrew, ChangedOK
      <4> QED
        BY <1>1, <1>4, <3>2, <4>1 DEF Changed
    <3>5. /\ disk' \in [Roots -> [Paths -> Entry]]
          /\ Grew(d, disk')
          /\ \A x \in Roots \ {r} : disk'[x] = d[x]
          /\ \A q \in Paths \ {to} : disk'[r][q] = d[r][q]
          /\ disk'[r][to].there = TRUE
      BY <3>3, <3>4
    <3>6. Grew(disk, disk')
      BY <3>2, <3>5, GrewOnwards
    <3>7. disk'[r][p] = d[r][p]
      BY <1>1, <1>4, <2>2, <3>5
    <3> QED
      BY <2>2, <3>2, <3>5, <3>6, <3>7
  <2> QED
    BY <2>1, <2>2
<1>6. FollowInv' /\ FitInv'
  BY <1>1, <1>5, FitByChange DEF Write, r
<1>7. OpFits(o)'
  <2>1. /\ o.kind = kind /\ o.root = r /\ o.path = p /\ o.to = to /\ o.leaf = 0 /\ o.dir = 0
        /\ \A q \in Names : o.was[q] = disk'[r][q].ver
    BY <1>2a DEF NewOp, r
  <2>2. disk'[r][p].ver \in Nat /\ disk'[r][to].ver \in Nat /\ disk'[r][Dir].ver \in Nat
    BY <1>1, <1>4, <1>5 DEF Entry, Paths
  <2>3. \A q \in {p, to} : o.was[q] = disk'[r][q].ver
    BY <2>1
  <2>4. ASSUME NEW q \in {p, to} PROVE disk'[r][q].there <=> Left(o, q)
    BY <1>2, <1>4, <1>5, <2>1, <2>4 DEF Left
  <2> QED
    BY <1>4, <2>1, <2>2, <2>3, <2>4 DEF OpFits, Left
<1>8. OpInv'
  BY <1>3, <1>5, <1>7, OpsOutlive DEF OpInv
<1> QED
  BY <1>6, <1>8

\* A time is read.
LEMMA FitByStamp ==
    ASSUME TypeOK, ListingInv, FollowInv, FitInv, OpInv, NEW o \in ops, Stamp(o)
    PROVE  FollowInv' /\ FitInv' /\ OpInv'
<1> DEFINE l == disk[o.root][o.path].ver
           m == disk[o.root][Dir].ver
<1>1. /\ o \in Op /\ OpFits(o) /\ UNCHANGED <<disk, watch, batches, view, scans, folder, late, masked>>
      /\ l \in Nat /\ m \in Nat /\ o.leaf \in Nat /\ o.dir \in Nat
  BY DEF TypeOK, OpInv, Stamp, Op, Entry, Paths
<1>2. FollowInv' /\ FitInv'
  BY <1>1, FitByReport DEF Clear, FollowInv
<1>3. PICK c : /\ ops' = (ops \ {o}) \cup {c}
               /\ c = [o EXCEPT !.pc = "dir", !.leaf = l] \/ c = [o EXCEPT !.pc = "done", !.dir = m]
  BY DEF Stamp
<1>4. /\ c.kind = o.kind /\ c.root = o.root /\ c.path = o.path /\ c.to = o.to /\ c.was = o.was
      /\ c.leaf = o.leaf \/ c.leaf = l
      /\ c.dir = o.dir \/ c.dir = m
  <2> HIDE DEF l, m
  <2> QED
    BY <1>1, <1>3 DEF Op
<1>5. OpFits(c)
  <2>1. o.leaf <= l /\ o.dir <= m
    BY <1>1 DEF OpFits
  <2>2. c.leaf <= l /\ c.dir <= m
    <3> HIDE DEF l, m
    <3> QED
      BY <1>1, <1>4, <2>1
  <2>3. \A p : Left(c, p) <=> Left(o, p)
    BY <1>4 DEF Left
  <2> QED
    BY <1>1, <1>4, <2>2, <2>3 DEF OpFits
<1>6. \A x : OpFits(x) => OpFits(x)'
  BY <1>1 DEF OpFits, Left
<1> HIDE DEF l, m
<1>7. ops' \subseteq ops \cup {c}
  BY <1>3
<1>8. OpInv'
  BY <1>5, <1>6, <1>7 DEF OpInv
<1> QED
  BY <1>2, <1>8

\* A time read earlier than the one shown changes nothing.
LEMMA TouchedNothing ==
    ASSUME NEW f, NEW p, NEW n \in Nat, p \in f.files => f.stamp[p] \in Nat /\ n <= f.stamp[p]
    PROVE  Touched(f, p, n) = f
BY DEF Touched

\* What is entered says the same of every other path.
Else(f, g, P) ==
    \A q \in Paths \ P : (q \in g.files <=> q \in f.files) /\ g.stamp[q] = f.stamp[q]

\* remove: the path goes.
LEMMA RemovedElse ==
    ASSUME NEW f \in Folder, NEW p \in Paths
    PROVE  Else(f, Removed(f, p), {p}) /\ Removed(f, p).files = f.files \ {p}
BY DEF Removed, Else, Folder

\* insert: the path comes.
LEMMA InsertedElse ==
    ASSUME NEW f \in Folder, NEW p \in Paths
    PROVE  Else(f, Inserted(f, p), {p}) /\ Inserted(f, p).files = f.files \cup {p}
BY DEF Inserted, Else, Folder

\* touch: nothing comes or goes.
LEMMA TouchedElse ==
    ASSUME NEW f \in Folder, NEW p \in Paths, NEW n \in Nat
    PROVE  Else(f, Touched(f, p, n), {p}) /\ Touched(f, p, n).files = f.files
BY DEF Touched, Else, Folder

\* rename: one goes and the other comes.
LEMMA RenamedElse ==
    ASSUME NEW f \in Folder, NEW p \in Paths, NEW q \in Paths, NEW keep \in BOOLEAN, p \in f.files
    PROVE  /\ Else(f, Renamed(f, p, q, keep), {p, q})
           /\ Renamed(f, p, q, keep).files = (f.files \ {p}) \cup {q}
<1> DEFINE g == Removed(f, p)
           h == Inserted(g, q)
<1>1. g \in Folder /\ Else(f, g, {p}) /\ g.files = f.files \ {p}
  BY EnteredTyped, RemovedElse
<1> HIDE DEF g
<1>2. h \in Folder /\ Else(g, h, {q}) /\ h.files = g.files \cup {q}
  BY <1>1, EnteredTyped, InsertedElse
<1> HIDE DEF h
<1>3. Renamed(f, p, q, keep) = h \/ Renamed(f, p, q, keep) = [h EXCEPT !.stamp[q] = 0]
  BY DEF Renamed, g, h
<1>4. /\ [h EXCEPT !.stamp[q] = 0].files = h.files
      /\ \A x \in Paths \ {q} : [h EXCEPT !.stamp[q] = 0].stamp[x] = h.stamp[x]
  BY <1>2 DEF Folder
<1> QED
  BY <1>1, <1>2, <1>3, <1>4 DEF Else

\* A time that has been read of what is on the disk does no harm.
LEMMA TouchedFits ==
    ASSUME TypeOK, NEW g \in Folder, NEW r \in Roots, NEW p \in Paths, NEW n \in Nat,
           n <= disk[r][p].ver, NEW L, \A q \in Paths \ L : Fits(g, r, q)
    PROVE  \A q \in Paths \ L : Fits(Touched(g, p, n), r, q)
<1>1. disk[r][p].ver \in Nat
  BY DEF TypeOK, Entry
<1>2. CASE p \in L
  BY <1>2, TouchedElse DEF Else, Fits
<1>3. CASE p \notin L
  <2>1. p \in g.files => g.stamp[p] = disk[r][p].ver
    BY <1>3 DEF Fits
  <2>2. Touched(g, p, n) = g
    BY <1>1, <2>1, TouchedNothing
  <2> QED
    BY <2>2
<1> QED
  BY <1>2, <1>3

\* What a write of Hane's enters is so, or somebody has overtaken it.
LEMMA EnteredFits ==
    ASSUME TypeOK, NEW o \in ops, OpFits(o), o.root = folder.root,
           NEW h \in Folder, NEW L, late \subseteq L,
           h.files # folder.files => Overtaken(o) \subseteq L,
           \A p \in Paths \ late : Fits(folder, folder.root, p),
           \/ o.kind = "trash" /\ h = Removed(folder, o.path)
           \/ /\ o.kind = "rename"
              /\ \E keep \in BOOLEAN : h = Renamed(folder, o.path, o.to, keep)
           \/ o.kind \notin {"trash", "rename"} /\ h = Inserted(folder, o.path)
    PROVE  \A p \in Paths \ L : Fits(h, folder.root, p)
<1>1. o.path \in Paths /\ o.to \in Paths /\ folder \in Folder
  BY DEF TypeOK, Op, Paths
<1>2. \/ h = folder
      \/ Else(folder, h, {o.path}) /\ h.files = folder.files \ {o.path} /\ o.kind = "trash"
      \/ Else(folder, h, {o.path}) /\ h.files = folder.files \cup {o.path}
         /\ o.kind \notin {"trash", "rename"} /\ o.path \notin folder.files
      \/ Else(folder, h, {o.path, o.to}) /\ h.files = (folder.files \ {o.path}) \cup {o.to}
         /\ o.kind = "rename" /\ o.path \in folder.files
  <2>1. CASE o.kind = "trash" /\ h = Removed(folder, o.path)
    BY <1>1, <2>1, RemovedElse
  <2>2. CASE o.kind \notin {"trash", "rename"} /\ h = Inserted(folder, o.path)
    BY <1>1, <2>2, InsertedElse DEF Inserted
  <2>3. ASSUME o.kind = "rename", NEW keep \in BOOLEAN, h = Renamed(folder, o.path, o.to, keep)
        PROVE  \/ h = folder
               \/ Else(folder, h, {o.path, o.to}) /\ h.files = (folder.files \ {o.path}) \cup {o.to}
                  /\ o.kind = "rename" /\ o.path \in folder.files
    <3>1. CASE o.path \notin folder.files
      BY <2>3, <3>1 DEF Renamed
    <3>2. CASE o.path \in folder.files
      BY <1>1, <2>3, <3>2, RenamedElse
    <3> QED
      BY <3>1, <3>2
  <2> QED
    BY <2>1, <2>2, <2>3
<1>3. ASSUME NEW p \in Paths \ L PROVE p \notin late /\ Fits(folder, folder.root, p)
  BY <1>3
<1>4. CASE h.files = folder.files
  <2>1. ASSUME NEW p \in Paths, h.stamp[p] # folder.stamp[p] PROVE p \notin h.files
    BY <1>1, <1>2, <1>4, <2>1 DEF Else, OpFits
  <2> QED
    BY <1>3, <1>4, <2>1 DEF Fits
<1>5. CASE h.files # folder.files
  <2>1. ASSUME NEW p \in {o.path, o.to} \ L PROVE FALSE
    <3>1. Overtaken(o) = {}
      BY <1>5, <2>1 DEF Overtaken
    <3>2. \A q \in {o.path, o.to} : disk[o.root][q].ver = o.was[q] /\ q \notin late
      BY <3>1 DEF Overtaken
    <3>3. /\ o.path \in folder.files <=> disk[o.root][o.path].there
          /\ disk[o.root][o.path].there <=> Left(o, o.path)
      BY <1>1, <3>2 DEF Fits, OpFits
    <3>4. \/ o.kind = "trash" /\ o.path \in folder.files
          \/ o.kind \notin {"trash", "rename"} /\ o.path \notin folder.files
          \/ o.kind = "rename" /\ o.path \in folder.files
      BY <1>2, <1>5
    <3> QED
      BY <3>3, <3>4 DEF Left, OpFits
  <2>2. Else(folder, h, {o.path, o.to})
    BY <1>2, <1>5 DEF Else
  <2> QED
    BY <1>3, <2>1, <2>2 DEF Else, Fits
<1> QED
  BY <1>4, <1>5

\* A listing shown that says something else leaves everything under way as it is.
LEMMA FitByShown ==
    ASSUME FitInv, FollowInv, UNCHANGED <<disk, watch, batches, view, scans, masked>>,
           folder'.root = folder.root, folder'.req = folder.req,
           ASSUME Here, \A p \in Paths \ late : Fits(folder, folder.root, p)
           PROVE  \A p \in Paths \ late' : Fits(folder', folder.root, p)
    PROVE  FollowInv' /\ FitInv'
<1>1. FollowInv'
  BY DEF FollowInv
<1>2. NotBefore(folder.req)' <=> NotBefore(folder.req)
  BY DEF NotBefore
<1>3. \A s \in scans : Hopeful(s)' <=> Hopeful(s)
  BY DEF Hopeful, NotBefore
<1>4. \A r, l, p : Fits(l, r, p)' <=> Fits(l, r, p)
  BY DEF Fits
<1>5. ScansFit => ScansFit'
  BY <1>3, <1>4 DEF ScansFit
<1>6. FolderFits => FolderFits'
  <2> SUFFICES ASSUME FolderFits, Here', ~masked', NotBefore(folder.req)'
               PROVE  \A p \in Paths \ late' : Fits(folder', folder.root, p)
    BY DEF FolderFits, Fits
  <2>1. Here /\ ~masked /\ NotBefore(folder.req)
    BY <1>2 DEF Here
  <2> QED
    BY <2>1 DEF FolderFits
<1>7. Clear' => Clear
  BY DEF Clear
<1> QED
  BY <1>1, <1>5, <1>6, <1>7 DEF FitInv

\* set_sidebar_sort.
LEMMA FitBySort ==
    ASSUME TypeOK, FollowInv, FitInv, NEW so, SetSort(so)
    PROVE  FollowInv' /\ FitInv'
<1>1. /\ folder'.root = folder.root /\ folder'.req = folder.req
      /\ folder'.files = folder.files /\ folder'.stamp = folder.stamp
  BY DEF SetSort, TypeOK, Folder
<1>2. /\ UNCHANGED <<disk, watch, batches, view, scans, masked>> /\ late' = late
  BY DEF SetSort
<1>3. \A p : Fits(folder', folder.root, p) <=> Fits(folder, folder.root, p)
  BY <1>1 DEF Fits
<1> QED
  BY <1>1, <1>2, <1>3, FitByShown

\* A write of Hane's comes back and is entered.
LEMMA FitByWritten ==
    ASSUME TypeOK, ListingInv, DataInv, FollowInv, FitInv, OpInv, NEW o, WriteFinishes(o)
    PROVE  FollowInv' /\ FitInv' /\ OpInv'
<1>1. /\ o \in ops /\ OpFits(o) /\ o \in Op /\ o.root \in Roots
      /\ o.path \in Paths /\ o.to \in Paths /\ Dir \in Paths
      /\ o.leaf \in Nat /\ o.dir \in Nat /\ folder \in Folder
      /\ UNCHANGED <<disk, watch, batches, view, scans, masked>> /\ ops' \subseteq ops
  BY DEF WriteFinishes, OpInv, TypeOK, Op, Paths
<1>2. OpInv'
  BY <1>1, OpsSame
<1>3. CASE UNCHANGED <<folder, late>>
  BY <1>1, <1>2, <1>3, FitByShown
<1>4. CASE ~UNCHANGED <<folder, late>>
  <2>1. PICK keep \in BOOLEAN :
          /\ folder' = IF o.root # folder.root THEN folder
                       ELSE CASE o.kind = "trash" -> Removed(folder, o.path)
                              [] o.kind = "rename" ->
                                    Touched(Renamed(folder, o.path, o.to, keep), Dir, o.dir)
                              [] OTHER ->
                                    Touched(Touched(Inserted(folder, o.path), o.path, o.leaf),
                                            Dir, o.dir)
          /\ late' = IF folder'.files # folder.files THEN late \cup Overtaken(o) ELSE late
    BY <1>4 DEF WriteFinishes
  <2>2. late \subseteq late' /\ (folder'.files # folder.files => Overtaken(o) \subseteq late')
    BY <2>1
  <2>3. CASE o.root # folder.root
    <3>1. folder' = folder
      BY <2>1, <2>3
    <3> QED
      BY <1>1, <1>2, <2>2, <3>1, FitByShown
  <2>4. CASE o.root = folder.root
    <3>1. folder'.root = folder.root /\ folder'.req = folder.req
      BY <1>1, <2>1 DEF Removed, Inserted, Renamed, Touched, Folder
    <3>2. ASSUME \A p \in Paths \ late : Fits(folder, folder.root, p)
          PROVE  \A p \in Paths \ late' : Fits(folder', folder.root, p)
      <4>1. CASE o.kind = "trash"
        <5>1. folder' = Removed(folder, o.path)
          BY <2>1, <2>4, <4>1
        <5>2. PICK h \in Folder : h = folder'
          BY <1>1, <5>1, EnteredTyped
        <5>3. PICK L : L = late'
          OBVIOUS
        <5>4. \A p \in Paths \ L : Fits(h, folder.root, p)
          BY <1>1, <2>2, <2>4, <3>2, <4>1, <5>1, <5>2, <5>3, EnteredFits
        <5> QED
          BY <5>2, <5>3, <5>4
      <4>2. CASE o.kind = "rename"
        <5>1. PICK h \in Folder : h = Renamed(folder, o.path, o.to, keep)
          BY <1>1, RenamedTyped
        <5>2. folder' = Touched(h, Dir, o.dir)
          BY <2>1, <2>4, <4>2, <5>1
        <5>3. folder'.files = h.files
          <6>1. Touched(h, Dir, o.dir).files = h.files
            BY <1>1, <5>1, TouchedElse
          <6> QED
            BY <5>2, <6>1
        <5>4. PICK L : L = late'
          OBVIOUS
        <5>5. \A p \in Paths \ L : Fits(h, folder.root, p)
          BY <1>1, <2>2, <2>4, <3>2, <4>2, <5>1, <5>3, <5>4, EnteredFits
        <5>6. o.dir <= disk[folder.root][Dir].ver
          BY <1>1, <2>4 DEF OpFits
        <5>7. \A p \in Paths \ L : Fits(Touched(h, Dir, o.dir), folder.root, p)
          BY <1>1, <2>4, <5>5, <5>6, TouchedFits
        <5> QED
          BY <5>2, <5>4, <5>7
      <4>3. CASE o.kind \notin {"trash", "rename"}
        <5>1. PICK h \in Folder : h = Inserted(folder, o.path)
          BY <1>1, EnteredTyped
        <5>2. PICK g \in Folder : g = Touched(h, o.path, o.leaf)
          BY <1>1, EnteredTyped
        <5>3. folder' = Touched(g, Dir, o.dir)
          BY <2>1, <2>4, <4>3, <5>1, <5>2
        <5>4. folder'.files = h.files
          <6>1. g.files = h.files /\ Touched(g, Dir, o.dir).files = g.files
            BY <1>1, <5>1, <5>2, TouchedElse
          <6> QED
            BY <5>3, <6>1
        <5>5. PICK L : L = late'
          OBVIOUS
        <5>6. \A p \in Paths \ L : Fits(h, folder.root, p)
          BY <1>1, <2>2, <2>4, <3>2, <4>3, <5>1, <5>4, <5>5, EnteredFits
        <5>7. o.leaf <= disk[folder.root][o.path].ver /\ o.dir <= disk[folder.root][Dir].ver
          BY <1>1, <2>4 DEF OpFits
        <5>8. \A p \in Paths \ L : Fits(g, folder.root, p)
          BY <1>1, <2>4, <5>2, <5>6, <5>7, TouchedFits
        <5>9. \A p \in Paths \ L : Fits(Touched(g, Dir, o.dir), folder.root, p)
          BY <1>1, <2>4, <5>7, <5>8, TouchedFits
        <5> QED
          BY <5>3, <5>5, <5>9
      <4> QED
        BY <4>1, <4>2, <4>3
    <3> QED
      BY <1>1, <1>2, <3>1, <3>2, FitByShown
  <2> QED
    BY <2>3, <2>4
<1> QED
  BY <1>3, <1>4

\* In the beginning nothing is open.
LEMMA FitStart == Init => FollowInv /\ FitInv /\ OpInv
<1> SUFFICES ASSUME Init PROVE FollowInv /\ FitInv /\ OpInv
  OBVIOUS
<1>1. scans = {} /\ ops = {} /\ view.running = FALSE /\ view.root = NoRoot /\ folder.root = NoRoot
  BY DEF Init, NoFolder
<1>2. FollowInv
  BY <1>1 DEF FollowInv, RunOK, WatchOK
<1>3. FitInv
  BY <1>1 DEF FitInv, ScansFit, FolderFits, Here
<1> QED
  BY <1>1, <1>2, <1>3 DEF OpInv

\* Every step keeps what is listed in step with what is reported.
LEMMA FitStays ==
    ASSUME TypeOK, ListingInv, DataInv, FollowInv, FitInv, OpInv, [Next]_vars
    PROVE  FollowInv' /\ FitInv' /\ OpInv'
<1>1. CASE UNCHANGED vars
  <2>1. /\ UNCHANGED <<disk, watch, batches, view, scans, folder, late, masked>> /\ ops' = ops
    BY <1>1 DEF vars
  <2>2. OpInv'
    BY <2>1, OpsSame
  <2>3. Clear' => Clear
    BY <2>1 DEF Clear
  <2>4. WatchOK(view', watch', batches')
    BY <2>1 DEF FollowInv
  <2> QED
    BY <2>1, <2>2, <2>3, <2>4, FitByReport
<1>2. CASE BatchDue \/ WatchTrouble \/ SpareBatch
  <2>1. disk' = disk /\ ops' = ops
    BY <1>2 DEF BatchDue, WatchTrouble, SpareBatch
  <2> QED
    BY <1>2, <2>1, FitByDue, OpsSame
<1>3. CASE BatchArrives
  <2>1. disk' = disk /\ ops' = ops
    BY <1>3 DEF BatchArrives
  <2> QED
    BY <1>3, <2>1, FitByBatch, OpsSame
<1>4. ASSUME NEW g, RetryWatch(g) PROVE FollowInv' /\ FitInv' /\ OpInv'
  <2>1. disk' = disk /\ ops' = ops
    BY <1>4 DEF RetryWatch
  <2> QED
    BY <1>4, <2>1, FitByRetry, OpsSame
<1>5. ASSUME NEW s, ScanFinishes(s) PROVE FollowInv' /\ FitInv' /\ OpInv'
  <2>1. disk' = disk /\ ops' = ops
    BY <1>5 DEF ScanFinishes
  <2> QED
    BY <1>5, <2>1, FitByFinish, OpsSame
<1>6. ASSUME NEW s \in scans, NEW p \in Paths, ScanReads(s, p)
      PROVE  FollowInv' /\ FitInv' /\ OpInv'
  <2>1. disk' = disk /\ ops' = ops
    BY <1>6 DEF ScanReads
  <2> QED
    BY <1>6, <2>1, FitByRead, OpsSame
<1>7. ASSUME NEW r \in Roots, OpenFolder(r) PROVE FollowInv' /\ FitInv' /\ OpInv'
  <2>1. disk' = disk /\ ops' = ops
    BY <1>7 DEF OpenFolder
  <2> QED
    BY <1>7, <2>1, FitByOpen, OpsSame
<1>8. ASSUME NEW r \in Roots, OpenExternal(r) PROVE FollowInv' /\ FitInv' /\ OpInv'
  <2>1. disk' = disk /\ ops' = ops
    BY <1>8 DEF OpenExternal
  <2> QED
    BY <1>8, <2>1, FitByOpenExternal, OpsSame
<1>9. CASE SearchAgain
  <2>1. disk' = disk /\ ops' = ops
    BY <1>9 DEF SearchAgain
  <2> QED
    BY <1>9, <2>1, FitBySearch, OpsSame
<1>10. ASSUME NEW so, SetSort(so) PROVE FollowInv' /\ FitInv' /\ OpInv'
  <2>1. disk' = disk /\ ops' = ops
    BY <1>10 DEF SetSort
  <2> QED
    BY <1>10, <2>1, FitBySort, OpsSame
<1>11. CASE Work
  BY <1>2, <1>3, <1>4, <1>5, <1>6, <1>11, FitByStamp, FitByWritten DEF Work
<1>12. CASE Next
  BY <1>2, <1>7, <1>8, <1>9, <1>10, <1>11, <1>12, FitByOthers, FitByWrite DEF Next
<1> QED
  BY <1>1, <1>12

\* A quiet sidebar has nothing under way that could bring it anything else.
LEMMA QuietFits == TypeOK /\ ListingInv /\ FollowInv /\ FitInv => QuietIsCurrent
<1> SUFFICES ASSUME TypeOK, ListingInv, FollowInv, FitInv, Here, Quiet, ~masked
             PROVE  \A p \in Paths \ late : Current(p)
  BY DEF QuietIsCurrent
<1>1. view.root # NoRoot
  BY DEF Here, ListingInv, FolderOK
<1>2. Attached(view, watch) /\ ~SaidSo(view, watch, batches)
  <2>1. Attached(view, watch)
    BY <1>1 DEF FollowInv, WatchOK, Quiet
  <2>2. ~SaidSo(view, watch, batches)
    BY DEF SaidSo, Quiet
  <2> QED
    BY <2>1, <2>2
<1>3. ~watch.deaf
  BY <1>1, <1>2 DEF FollowInv, WatchOK, Quiet
<1>4. Clear
  BY <1>2, <1>3 DEF Clear, Quiet
<1>5. NotBefore(folder.req)
  BY DEF NotBefore, FollowInv, RunOK, Quiet
<1>6. \A p \in Paths \ late : Fits(folder, folder.root, p)
  BY <1>4, <1>5 DEF FitInv, FolderFits
<1> QED
  BY <1>6 DEF Fits, Current

\* QuietIsCurrent: when nothing is left to be done and no trouble is reported,
\* the sidebar shows what is on the disk, for any folders, notes, writers,
\* failures and any number of requests.
THEOREM QuietShowsTheDisk == Spec => []QuietIsCurrent
<1> DEFINE Inv == TypeOK /\ ListingInv /\ DataInv /\ FollowInv /\ FitInv /\ OpInv
<1>1. Init => Inv
  BY InitOK, TypesStart, FitStart
<1>2. Inv /\ [Next]_vars => Inv'
  BY StepOK, TypesStay, FitStays
<1>3. Inv => QuietIsCurrent
  BY QuietFits
<1> QED
  BY <1>1, <1>2, <1>3, PTL DEF Spec
=============================================================================
