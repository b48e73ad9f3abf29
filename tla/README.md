# Hane: TLA+ models, model checking and proofs

Hane is a Markdown editor written in Rust. This directory holds TLA+ models of the
parts of it in which order, failure and concurrency decide whether a user's text
survives: how a document is saved, how a change made by another program is noticed,
how an unnamed note is kept; and of the parts in which they decide whether the
application survives: how an update replaces it, and how a key and the settings that
name it change together. The models are checked with TLC on small instances and, for
the results that matter most, proved with TLAPS for every instance.

Paths below are relative to `src/`. Line numbers are those of the checked-out source;
`PROJECT.json` gives, for every definition, the lines it stands for.

1. [The system](#1-the-system): components, state, operations, interactions
2. [Plan](#2-plan): modules, order, runs, theorems
3. [Module SaveInstall: one save reaches the disk](#3-saveinstall-one-save-reaches-the-disk)
4. [Module DocumentSession: one open document](#4-documentsession-one-open-document)
5. [Modules InstallUpdate and UpdateJournal: the files of an update](#5-installupdate-and-updatejournal-the-files-of-an-update)
6. [Module UpdateHandshake: the processes of an update](#6-updatehandshake-the-processes-of-an-update)
7. [Module CredentialJournal: a key and the settings that name it](#7-credentialjournal-a-key-and-the-settings-that-name-it)
8. [Module DraftJournal: notes without a name](#8-draftjournal-notes-without-a-name)
9. [Module AiRuntime: a coordinator, a child and its callers](#9-airuntime-a-coordinator-a-child-and-its-callers)
10. [Module FolderListing: the sidebar and the disk](#10-folderlisting-the-sidebar-and-the-disk)
11. [Runs and bounds](#11-runs-and-bounds)
12. [Proofs](#12-proofs)
13. [Where the code and its comments disagree](#13-where-the-code-and-its-comments-disagree)
14. [What is not modelled](#14-what-is-not-modelled)

## 1. The system

The workspace has about 85,000 lines of its own Rust outside tests, in `crates/`.
`vendor/` holds third-party code, `scripts/`, `windows/`, `.github/` and `assets/`
build and packaging material; none of it is modelled.

Every window is driven by one UI thread. Handlers run there one at a time and never
block; what takes time is handed to a background executor or to a worker thread and
comes back as a result, applied by another handler, in whatever order it finishes.
Several processes of the application may run at once and share files on disk. Most
hard questions have one form: *a result arrives; is it still about the thing it was
asked for?*

### 1.1 Files and documents (`crates/session`, and the views that drive it)

| Component | State | Operations | What is hard | What must be true |
|---|---|---|---|---|
| **Checked atomic save** `session/src/service.rs` | the target path, temporary and `.hane-displaced-{pid}-{n}` names beside it | `save_checked`, `load` (with recovery), `rename` | no compare-and-swap on files: a guard, a look and a rename are separate steps, between processes, with other programs, and with a crash at any of them | a version that was not checked is not replaced; a version moved aside is never lost; a save ends |
| **Document session** `session/src/session.rs`, `identity.rs`; `ui/src/view/{session_save,external_change,document_watch}.rs` | text, revision, saved revision, generation, composition, baseline, external state, save slot, queued request, running check, approval | edit, save, Save As, naming, rename, external check, reload, overwrite, open, Trash | autosaves, manual saves, renames, checks and dialogs overlap; each result may be late | no unsaved edit is lost, no unseen version is overwritten, no result reaches another document, nothing is forgotten |
| **Draft journal** `session/src/draft.rs` | one entry per draft, legacy pairs, newest snapshot sequence per draft | `write_snapshot`, `remove`, `recover` | the debounced write and the flush at quit run on two threads; crash between the removals | the newest accepted snapshot is recovered, a removed draft does not come back |
| **Sidebar pins** `session/src/pins.rs` | a pin file shared by processes | `update`, rebase after rename | read-change-write by two processes | no update is lost, a rename moves its pins |
| **Recent files, settings** `session/src/store.rs` | bounded list, settings file | remember, forget, rename | renaming onto an entry | no duplicates, the bound holds, order is recency |
| **Work folder tree** `session/src/workfolder.rs` | tree of entries with modification stamps | scan, touch, insert, rename, remove | a late scan meets newer stamps | the newest observation wins |
| **File watching** `session/src/watch.rs`; `ui/src/view/{document_watch,folder_watch}.rs` | debounce window, watched names | signal, deliver, fail, restart | changes that never pause; failure during a burst | every change is reported within the maximum wait, failures are reported |
| **Work folder search** `session/src/search.rs`; `ui/src/view/{content_search,external_read_gate}.rs` | generation, readers and writers of a gate | start, cancel, result | results of a superseded search | only the newest search is shown |
| **Identity, naming, dates** `session/src/{identity,naming,date_badge,resource}.rs` | none | pure conversions | - | names are legal and free |

### 1.2 Editing and presentation

| Component | State | Operations | What is hard | What must be true |
|---|---|---|---|---|
| **Undo and composition** `editor/src/{history,ime,lib}.rs` | undo groups, composition range, clean revision | edit, undo, redo, preedit, commit | a composition inside an undo group; undo to the saved text | undo then redo is the identity; only the saved text is clean |
| **Find, movement, selection** `editor/src/{find,replace,movement,selection}.rs` | none | text algorithms | - | positions are character boundaries |
| **Rope buffer** `document/src/lib.rs` | text, revision | insert, remove | - | one revision per change |
| **Markdown block index** `markdown/src/{block_index,block_store,local_block_index}.rs` | blocks with ranges and ids | edit, merge a parse | a parse of an older revision | the blocks partition the text |
| **Markdown parsing** `markdown/src/{parser,syntax,...}.rs` | none | sequential text processing | - | - |
| **Presentation, height index** `presentation/src/*.rs` | heights of rows, prefix sums | set, insert, remove, locate | - | locating agrees with the sum |
| **Background parse, measurement** `ui/src/view/{background_parse,height_sync,measurement}.rs` | job of a revision | start, result, rebase | results about an older text | nothing stale is shown as current |
| **Editor window** `ui/src/view/*.rs` | focus, scroll, menus | rendering, input routing | - | - |

### 1.3 Updates (`crates/update`, `crates/updater`, `crates/app`)

| Component | State | Operations | What is hard | What must be true |
|---|---|---|---|---|
| **Journal, apply, recovery** `update/src/{journal,apply,recovery_seal}.rs` | a write-ahead journal of phases and file steps; the installation; its backup | `apply`, `conclude_health`, `recover` | the helper dies at any step | recovery ends at the complete old or the complete new version |
| **Helper, health child, startup gate** `update/src/{helper,health,startup,protocol}.rs`, `platform/lease.rs` | leases, capability, pipe between helper and new version | await healthy, send commit, stop, gate a start | either side dies or is late around the commit | no version runs while another is being replaced; committed means committed on both sides |
| **Platform appliers** `update/src/{windows_apply,macos_apply,platform/*,...}.rs` | - | operating-system calls | - | what the journal assumes of them |
| **Download and trust** `update/src/{download,archive,catalog,release,...}.rs` | - | parse and verify signed input | - | - |
| **Application updates** `app/src/{app_update,update_gate,update_restart,...}.rs` | update permit, quit preparation | offer, prepare, hand off | quitting while saves run | nothing unsaved is left behind |
| **Entry, transport** `app/src/{main,open_request,finder_open,...}.rs` | - | wiring, I/O | - | - |

### 1.4 AI and network (`crates/ai`, `crates/network`)

| Component | State | Operations | What is hard | What must be true |
|---|---|---|---|---|
| **Runtime coordinator** `ai/src/{runtime,rpc,probe,owner_lock}.rs` | child process, generation, waiting callers | start, stop, restart, reconfigure, call | events of a child that was replaced, timeouts | no answer crosses generations, every caller is answered |
| **Service worker** `ai/src/{service,connect,text_transform,...}.rs` | the one admitted operation | submit, cancel, finish | cancel, timeout and result race | an operation ends once and frees the service |
| **Settings and credentials** `ai/src/{settings,settings_lock,credential_journal,...}.rs` | settings file, credential store, journal | update, delete, recover | a crash between three stores; two processes | the credential in use is never deleted, an orphan is never kept |
| **Runtime installation** `ai/src/{runtime_install,runtime_distribution}.rs` | - | download, verify, unpack | - | - |
| **AI views** `ui/src/view/ai_*.rs` | request, popup, selection | ask, apply | the answer meets another text | an answer is applied only to the text it was asked about |
| **Network routing** `network/src/*.rs` | - | choose a proxy per request | - | - |
| **Metrics** `metrics`, `benchmark` | - | measurement | - | - |

### 1.5 How the components meet

* The view turns a request into a job (`DocumentSession::request_save` grants a
  ticket and a `SaveJob`), runs it on the executor (`FileService::save_checked`), and
  hands the outcome back (`finish_save`). A request that meets a running job waits in
  the session and is started by the handler that ends the job.
* The watcher reports names. The view asks the session for a check
  (`begin_external_check`), reads the file in the background and hands the result
  back (`complete_external_check`), which accepts, keeps or discards it.
* A dialog produces an approval (`approve_resolution`), bound to revision,
  generation, external version and a serial number; a save or a verifying read
  redeems it at most once.
* The save itself meets other processes and programs in the file system only.

So the session *assumes* that a guarded write is atomic, and `service.rs` *provides*
it. `SaveInstall` shows to what extent, and `DocumentSession` uses it as one step.

## 2. Plan

| Step | Modules | Abstract specification | Runs | Theorems | State |
|---|---|---|---|---|---|
| 1 | `SaveInstall`, `CheckedSave`, `SaveInstallMC`, `SaveInstallProofs` | `CheckedSave`: a compare-and-swap | `install_pin`, `install_move`, `install_stale` | types, inductive invariant, what an install may replace, what is moved is kept, the refinement | done |
| 2 | `DocumentSession`, `DocumentSessionMC`, `DocumentSessionProofs` | none: its contract is its properties | `session_all`, `session_view`, `session_live` | types, slots, clean means baseline, no reload past an own write, what a save replaces, no silent loss, answers hold, a conflict is shown, a quiet view is true | done |
| 3 | `InstallUpdate`, `UpdateJournal`, `UpdateJournalMC`, `UpdateJournalProofs`, `UpdateHandshake`, `UpdateHandshakeMC`, `UpdateHandshakeProofs` | `InstallUpdate`: an installation that is old or new | `update_journal`, `update_handshake` | recovery ends old or new; nobody edits beside an unsettled installation | done |
| 4 | `CredentialJournal`, `CredentialJournalMC`, `CredentialJournalProofs` | none: its contract is its properties | `credential_journal` | the key in use exists, no key is forgotten | done |
| 5 | `DraftJournal`, `DraftJournalMC`, `DraftJournalProofs` | none: its contract is its properties | `draft_journal` | the journal is sound and only advances, leaving keeps the notes | done |
| 6 | `AiRuntime`, `AiRuntimeMC`, `AiRuntimeProofs` | none: its contract is its properties | `ai_runtime` | the lock outlives the child, ready only for its revision | done |
| 7 | `FolderListing`, `FolderListingMC`, `FolderListingProofs` | none: its contract is its properties | `folder_listing` | nothing older is shown; a quiet sidebar is current | done |
| 8 | pin store, search jobs and their gate, times of the debounce, undo history, block index, height index, recent files | reference definitions over bounded inputs | share the runs of 3 to 7 or replace one | order and bounds | later |

Modules meant for proofs use no recursive operators, take their parameters as
CONSTANTS with named assumptions, and have one action per operation. Every safety
property of a passing run is proved as well (section 12), some of them under a
hypothesis on the instance; liveness stays with TLC.

## 3. SaveInstall: one save reaches the disk

`crates/session/src/service.rs`: `atomic_write_checked`, `install_checked_with`,
`restore_displaced`, `recover_displaced_file`, for one path, between any number of
threads of any number of processes and other programs.

A file object is `[ino, data]`; two names of one object share its `ino`, an in-place
write changes every name, and the disk hands out an `ino` again only when no name or
open temporary file holds it. `path` is the target, `displaced` the set of names
`.{stem}.hane-displaced-{pid}-{n}.tmp` next to it; one whose removal failed, which the
code ignores, stays there as `"stuck"`, and a later recovery may take it.

| State | Code |
|---|---|
| `pc`, `attempt` | position in `install_checked_with`'s loop (`MAX_INSTALL_ATTEMPTS` rounds) |
| `guard` | the `OverwriteGuard` of the job: `force`, `free` (nothing expected), or the expected content |
| `temp`, `aside` | the written temporary file; the identity set aside in this round |
| `found` | the name a recovery scan picked, before it acts on it |
| `late` | history: did the target change after this job's last look? |

**Steps of a save.** A first check of the path, which may refuse at once (`BeginSave`),
`scan`/`restoreOld` (recovery before the write), `write` (the
durable temporary file), `install` (look at the path, set it aside), then one of two
ways. With hard links (`Pinning`): link the old version aside, check it through that
name (`pinned`), compare identities (`checked`), rename over it (`verified`).
Without: move the old version aside (`moved`), check it, install with
`rename_noreplace` (`accepted`) or put the old version back (`restore`). Each is a
separate action, and other programs, other savers, loads and crashes come between
any two. A load runs the same recovery scan.

**Abstractions.** `Pinning` is a constant of an instance; the code falls back to
moving when `hard_link` fails for one file. A write failure happens at the write, at
the install and at the creation of a new file; other failures end a job in the same
states. Content stands for fingerprint and stamp: the guard compares content.

**What must hold.**

* `InstallInv`, the inductive invariant: names of one object agree on its content, an
  object moved aside is gone from the path, and a job that still believes what it saw
  has judged it. `DiskIsSound` is that and the types.
* `ReplacesJudgedUnlessLate`: an install replaces only a version its guard accepted,
  unless that version arrived after the last look. With pins the window between the
  identity comparison and the rename cannot be closed; the design document says so
  (`docs/external-file-change-implementation-spec.md`, section 5).
* `ReplacesOnlyJudged`: without pins, there is no exception.
* `MovedVersionsAreKept`: a version moved from the path loses its last name only by
  going back or because its job had accepted it, whatever crashes or interferes.
* `OwnMoveNotUndone`: a load does not restore what a running save of its own process
  has moved. `VersionsAreKept` is this and the previous one.
* `EverySaveEnds`.
* `ImplementsCheckedSave`: where versions are moved aside, all the steps of a save
  together are one step of `CheckedSave`, a compare-and-swap on the file a reader
  finds; a version in the hands of a running save counts as the file. The property
  refines the whole behaviour and adds that steps *of a save* map to steps of a saver
  in `CheckedSave`, not to those of other programs. It is about one saver beside any
  number of loaders: a second one begins its save with the recovery scan, and puts back
  what a dead process had moved, which is a change of the file that no save commits.

## 4. DocumentSession: one open document

`crates/session/src/session.rs` with the handlers in `crates/ui/src/view/` that drive
it. One session, as one tab holds it.

| State | Code |
|---|---|
| `ses` | `DocumentSession`: path, text, `revision`, saved revision, `instance` generation, composition, baseline, `file_present`, external state with the version seen, save sequence, `in_flight`, `pending`, `saves_completed`, `check_in_flight`, `recheck_pending`, resolution serial, live approval, running verification |
| `disk` | what each path holds |
| `jobs`, `checks`, `verifies`, `opening`, `trash` | jobs handed to the background executor, with what they captured |
| `prompt`, `problem` | the dialog on screen and the document's save problem |
| `armed`, `deferred`, `notice` | a current autosave timer, the timer of a held-back reload, an undelivered notification |
| `active` | is the tab selected |
| `budget` | how often the user, other programs and failing I/O may still act |
| `known`, `tried`, `stirred`, `cut` | history variables, read by properties only |

The methods of `DocumentSession` are pure operators from a session to a session, with
the names of the methods (`AfterRequest`, `FinishedSave`, `BeginExternalCheck`,
`FinishedCheck`, `FinishedVerify`, `ReplaceWithDisk`, ...). A handler of the view is
one action that applies all the methods the handler calls, in its order: `FinishSave`
finishes the write, starts a check after a conflict, starts the request that waited,
re-arms the autosave, and sets the problem, as `session_save.rs` does.

**Interleavings.** Every background job has a step in which it acts (reads, writes,
moves) and a later one in which its result is applied; anything may happen between.
Results of different jobs arrive in any order. Jobs may fail. Other programs change,
replace and delete files at any time.

**Abstractions, and why they are safe.**

* A guarded write is one step. `SaveInstall` is about what that hides; the one
  exception it finds (a version that arrives after the last look) is not repeated here.
* Contents stand for fingerprints and stamps; a text is a member of `Contents`.
* Timers are Booleans: a timer may fire at any time after it was set. The autosave
  option is taken to be on.
* `check_sequence` needs no counter: one check per generation is out at a time, which
  `CheckSlotInv` establishes. A verification is identified by its approval's serial.
* An edit may happen while a dialog is open. The dialogs are asynchronous
  (`window.prompt(..).await`), and the handler of the answer re-checks instance,
  revision and external version, so the model lets all of them move.
* Notifications are delivered eventually and cover the watched path. Loss of a
  watcher and its restart are not modelled; after either, the code checks the
  document, as `DeliverNotice` does.
* An untitled document has no baseline.
* Save As over another file is unguarded (`forced`): the dialog that named the file
  asked about it.

**What must hold.** The invariants and action properties follow the conditions 1 to 6
of section 3 of `docs/external-file-change-implementation-spec.md` and its tests T01
to T12.

| Property | Says | Design condition |
|---|---|---|
| `OneAtATime` | `SlotInv`: one job at a time, of this document, and no queued request without a running job; `CheckSlotInv`: one check at a time, and a follow-up is owed only while it runs | 4, 4.1 |
| `CleanIsBaseline` | a clean document holds the version it came from or was written as | 1, 5 |
| `NoSilentLoss` | unsaved edits go only by a reload confirmed for this revision and version | 2, T02, T03 |
| `ReplacesOnlyKnown` | an unforced write replaces only versions the document came from, saved, or was confirmed over | 4, T02 |
| `ApprovalHolds` | a confirmed overwrite starts only if nothing moved since the answer, not even there and back; with the Trash, an answer about a missing file may outlive the file's return (section 13) | T04 |
| `NoReloadPastOwnWrite` | no automatic reload brings a version older than one of this session's own writes | 6, T05 |
| `SettledViewIsCurrent` | with nothing on its way, the session's opinion of the disk is true | T06, T12 |
| `ConflictIsShown` | unsaved edits over a foreign version, with nothing on its way: the conflict is on screen, or the failure of the write that was to resolve it | T02 |
| `EditsAreTried`, `LearnsTheDisk` | a queued save runs, an edit comes to a write, the session learns what the disk holds | T06, T12 |

**Fairness** (`FairSpec`): the executor runs each write, rename and read it was given,
timers end, notifications are delivered and the view applies each result. All of it is
the executor's, the timers' and the event loop's own doing. Nothing is assumed of the
user or of other programs, and failing I/O is never forced nor forbidden.

**The history variable `cut`** marks two known gaps, in which the session may be wrong
about the disk until the next notification: a follow-up check forgotten by a reload
(section 13), and a foreign version that was read after this session's
write had landed but judged before that write reported, where `finish_save` resets
the external state. `cut` is cleared as soon as another check starts.
`SettledViewIsCurrent` and `LearnsTheDisk` are stated outside those gaps.

## 5. InstallUpdate and UpdateJournal: the files of an update

`crates/update/src/{apply,journal}.rs` and the part of `windows_apply.rs` that drives
them. A plan is a list of steps, each of which replaces, adds or removes one file.

| State | Code |
|---|---|
| `file`, `backup`, `unchanged`, `rooted` | the installed files of the plan, their copies, the owned files outside it, the identity of the install root |
| `jrn`, `mem` | the journal on the disk and the one the helper holds (`DurableJournal`): phase, state of each step, generation |
| `pc`, `stage`, `at`, `plan` | position in `apply`, `conclude_health` or `recover`, the step in hand, what a rollback expects of each file |
| `child` | the limited child that reports whether the new version works |
| `touched` | files another program has changed |

**Steps.** `Begin` stages a journal. `Apply` follows `run_steps`: refuse what is not the
old version, back up *all* files, then for each file a durable intent, the binding of
the target, the move aside and the move in, and the record that it was applied.
`Health` launches the child, waits, checks once more, commits and says so. `Recovery`
judges the disk against the journal (`decide_recovery`), stops the child, rolls back in
reverse with the same two-step replacement, and seals the verdict. Between any two
steps the helper may die, a store may fail with the disk unchanged *or already
advanced*, a file step may fail, and another program may change a file, delete it or
move the directory.

**What must hold.** `InstallUpdate` is the abstract promise: the owned files hold one
version or the other where nobody else changed them, the verdict is given once and only
for a complete version, and a file another program put there is not overwritten.
`KeepsPromise` says that `UpdateJournal` implements it, with the journal's phase as the
verdict. `WriteAhead` is the order that makes a rollback possible: the intent comes
before the step (`IntentComesFirst`) and the copy before the intent
(`OldVersionIsCopied`). `DeathIsRecovered` says that deaths alone, with no failure
reported and no other program at work, never end in a manual recovery;
`NoChangeUnderTheChild` that the rollback waits for the child; `EveryUpdateSettles`, the
second part of `KeepsPromise`, that an unfinished update ends.

**Fairness.** A running helper goes on (`WF` of its steps), a child whose pipe closed
ends, and somebody starts the application again while an update is unfinished. The last
is an assumption on the user, not on the code: without a start nothing recovers, by
design.

**Abstractions.** An identity (size and hash) is one of four contents. A held file
cannot be replaced under its name, as the platform's handles ensure.

## 6. UpdateHandshake: the processes of an update

`crates/update/src/{helper,health,startup}.rs`, `platform/lease.rs`,
`crates/app/src/{update_gate,limited_start,app_update}.rs`. An installation is one
version or a mixture; its file steps are those of `UpdateJournal`, in one step that
begins and one that ends a replacement.

| State | Code |
|---|---|
| `app` | each application: where its start, its restart or its editing stands, the version of its image, what its helper told it |
| `helper` | each helper: mode (prepare or recover), transaction, parent, child, what it heard and reports |
| `lease`, `shared` | `LeaseKind::{Transaction, Startup, Runtime}`: exclusive holders, and the applications that share runtime |
| `staged`, `journal`, `capability`, `source` | private directories, their journals' phases, the capability of the limited child, the version an update starts from |
| `installed` | the version on the disk, or `Mixed` |

**Steps.** A start first finds out whether it is the limited child of an update: it
looks at the capability and the transaction lease (`Detect`), takes the capability
(`TakeCapability`) and a share of the runtime lease (`JoinRuntime`), and ends if either
is gone by then. Any other start sweeps what was abandoned, waits at the gate (with or without a
limit), notices an update made meanwhile, scans the journals, and is admitted, refused,
or sends a recovery helper. A restart stages, authorises the helper and quits. The
helper takes its leases, waits for the parent, replaces, launches the child, waits for
its health, commits, and hands runtime over. A child it still has when its work is done
is killed before the leases go (`ProcessChild::drop`). Every wait may time out; every process may
die at every step, when the system closes its pipes and releases its leases.

**What must hold.** `EditsOnlySettledVersion`: nobody edits with an image that is not
the complete version on the disk, or beside an unsettled update. `FilesChangeAlone`:
files change only under a helper that holds all three leases while nobody runs.
`RecordsAreSound`: the leases and journals are typed, a start never has to choose
between two journals (`OneJournal`), and no sweep removes the directory of a helper that
still needs it (`StagingIsKept`). `EditorsAreNotKilled`: a helper
stops an editing child only if its commit is on the disk although it was told
otherwise. `EveryStartIsAnswered`: each start comes to edit or is told why not.

**Fairness.** Each process goes on by itself (`WF`). The gate is polled every 20 ms
while it is waited for (`acquire_within`), so a start does not miss every moment at
which it is free (`SF` of `TakeGate`). Launches are bounded: a user who starts and ends
applications for ever could keep one start waiting. Nothing is assumed of a user's
requests.

## 7. CredentialJournal: a key and the settings that name it

`crates/ai/src/{connect,credential_journal,settings,settings_lock,atomic_file}.rs` and
the worker in `service.rs`.

| State | Code |
|---|---|
| `settings` | the settings file: revision, generation (what the runtime needs), `credential_ref` |
| `ops` | the operations of the journal file, as a set: which of several a recovery takes first is left open, and `RecoveryCanJudge` shows that there never are several |
| `secrets`, `drawn` | references with a key in the system's store; references generated so far |
| `owner` | who holds the owner lock; it goes with the runtime's child |
| `pc`, `job` | what the worker of each process does, and the operation it is in |
| `view`, `seen` | the snapshot (`AiSnapshot`) and what the settings page shows of it |
| `rt` | the runtime: child, and the settings it was made for |

**Steps.** Each of `begin`, set the key, swap the settings, mark, delete the old key,
complete is an action of its own, as are the steps of a recovery; each replacement of
a file ends as done, not done, or done with an unconfirmed sync. A failed swap undoes
the key. Every failure goes through the worker's handlers, which stop the runtime and
take the owner lock again. Turns hold the settings lock shared, everything that writes
asks for it exclusively and does not wait.

**What must hold.** `NamedKeyExists`: the key the settings name is in the store.
`JournalIsSound`: every other key is named by the journal, so none is forgotten
(`KeysAreTracked`), and there is at most one operation, with the settings on one side of
it (`RecoveryCanJudge`).
`TurnKeepsItsSettings`: a turn's settings do not change under it; the settings lock
matters just when the child of a turn dies and the owner lock moves to another process.
`NoBlindSave`: settings are replaced over settings the page has shown.

## 8. DraftJournal: notes without a name

`crates/session/src/draft.rs` with the handlers of `session_save.rs` and `view.rs` that
feed it. A text is its number among the texts its note has had; 0 stands for another
document's text. An edit makes the next one.

| State | Code |
|---|---|
| `entry`, `md`, `sidecar` | `NNN.draft`, and the two files of an older version |
| `folder` | is the work folder closed, being scanned, or shown |
| `note` | the session of a draft with its `work_folder_drafts` entry: open or closed, text, target, dirty |
| `armed` | the 750 ms timer of `schedule_draft_save` |
| `job` | what each background thread and the window do in `write_snapshot` or `remove` |
| `flush` | the drafts `flush_pending_drafts` has still to write, and what follows |
| `scan` | a running `recover`: drafts left, drafts read |
| `newest`, `seq` | `DRAFT_LOCKS`' newest sequence per draft, `SNAPSHOT_SEQUENCE` |
| `named`, `retired`, `spoiled`, `pairs`, `overlap` | history, read by properties only |

`spoiled` says why a draft need not be its note's text: a write of it failed, or it was
removed while the note was open. A write that lands clears it, unless a newer write of
the draft is still under way, which may fail in its turn (`Newest`). `retired` are the
drafts removed for good: not where another removal of the same draft waits, for a note
that came back and was written between the two (`RemovedAgain`).

**Steps.** A snapshot is read with its number, waits for the draft's lock, is dropped if
it was overtaken, replaces the entry by one rename, and removes the older files one by
one. A removal takes a number under the lock and removes text, target and entry. A flush
does the same writes on the window's thread, one draft after the other. Recovery lists,
then reads each draft's entry or its two older files, each read a step of its own, with
no lock. A quit ignores failures, a restart for an update does not. A crash may come at
any step, and every file step may fail.

**What must hold.**

* `JournalOnlyAdvances`: what recovery would bring back of a note never gets older and
  goes only with a name, but for two things section 13 tells of: another document's text
  may take its place, and a note recovered beside a write of its draft may go back.
* `JournalIsSound`: it is a text with a target the note had at that text
  (`PairsAreWhole`); with no timer and no write left, it is the note's text
  (`SettledIsJournalled`), and a removed draft does not come back by a late write
  (`RetiredStaysRetired`).
* `LeavingKeepsNotes`: on leaving, every note is in the journal with its text and
  target, whether or not it was edited.
* `EditsReachJournal`: an edit reaches the journal without being saved.

Excepted are notes whose last write failed (`spoiled`) until it succeeds, and notes
recovered while their draft was being written (`overlap`, section 13).

**Fairness.** Timers end, the executor runs the store's steps, the window finishes the
flush it began. Nothing is assumed of the user.

## 9. AiRuntime: a coordinator, a child and its callers

`crates/ai/src/runtime.rs` with the transport of `rpc.rs` and `owner_lock.rs`.

| State | Code |
|---|---|
| `shared` | `SharedState`: published status, `restart_blocked`, generation, revision, `ready_transport` |
| `queue` | the coordinator's channel: commands, reports about children, the shutdown |
| `co` | what the coordinator does between two waits, the command and caller it does it for, its `config` |
| `current`, `gen` | the generation of the `ActiveChild`; the last generation handed out |
| `child` | per generation: the process, the revision it was started for, its `RpcCore` (`open`), its reader thread (`read`), whether it lost an event |
| `lock` | the owner lock: with the coordinator, with the clean-up worker, given by a caller, with another process |
| `caller` | each thread: leader or waiter of a wave, sender of a command, in a call |

**Steps.** The coordinator takes one message and works on it until the next wait: for the
lock, the handshake, the child's exit. In each wait the child may die, its reader ends,
callers come, calls are registered and fail. A stop that is not confirmed leaves the
child in place and blocks the next start, which asks for the exit again. A shutdown with
such a child leaves both to a worker. A reconfiguration keeps the lock from the old child
to the new one; a caller that saved settings under the lock hands it over.

**What must hold.**

* `LockOutlivesChild`: at most one child may still run, and while it may, the coordinator
  or the worker holds the owner lock.
* `ReadyServesItsRevision`: a ready runtime has a child for the revision it names; a call
  meets only a child of its revision, and waits only while an answer can come; a child
  that is neither ready nor worked on blocks the next start.
* `ReadyLostForCause`: a ready child is stopped by a command or by its own end or loss,
  never by what a former child left in the queue.
* `EveryoneIsAnswered`: every command gets its outcome, alone or in a wave, and every
  call ends; a runtime does not stay ready after its child has ended.

**Fairness.** The coordinator goes on: its waits have time limits whatever the child does.
A thread goes on with what it began, a call has a time limit, and the output of a child
that has ended comes to its end. Nothing is assumed of a running child, of the user or of
other processes.

## 10. FolderListing: the sidebar and the disk

`crates/ui/src/view/folder_watch.rs` with the folder scans of `view.rs`, the re-list of
`content_search.rs`, and what `session/src/{watch,workfolder}.rs` do for them.

| State | Code |
|---|---|
| `disk` | the notes of each folder and the folder `Dir` that holds them: there or not, in which version (its time) |
| `watch` | the `FolderWatcher` and what its debounce thread has gathered; `deaf` when it has died without a word |
| `batches` | batches on their way to the view, each with the generation it was asked for |
| `view` | `FolderWatchState` and `ListingRequests`: generation, running, pending and failure flags, `unwatched`, numbers started and applied, the token of an open from outside |
| `timers` | generations with a retry of the watch scheduled |
| `scans` | listings under way: first, from outside, refresh, search; what each has read so far |
| `folder`, `sort` | the `WorkFolder` shown, with the times it shows; the order the settings name |
| `ops` | Hane's own saves, new folders, renames and moves to the Trash, between the write and the handler that enters it |
| `late`, `masked` | history: paths entered after they had changed again; a refresh rejected for a later listing that had failed |

**Steps.** A watch gathers what is reported into a window, and hands it over as a batch. A
batch, a retry or what was pending leads to `Relist` (`refresh_work_folder_listing`): it is
noted if a listing runs, and else, after trouble, the watch is attached anew first and then
a listing starts. A listing reads path by path, a folder before what is in it, and other
programs change things in between. Its result is dropped if the folder has been
replaced, taken if its number is higher than the last one taken, and otherwise rejected.
A write of Hane reads the times of the note and of its folder in its own task, and enters
both when its handler runs. Anything may fail: an attach, a listing, a watch.

**What must hold.**

* `QuietIsCurrent`: when nothing is left to be done and the view reports no trouble, the
  sidebar shows what is on the disk, with its times; except for the paths in `late` and
  in the case that `masked` marks (section 13).
* `NothingOlderIsShown`: no listing gives way to one asked for earlier (`NewestListing`),
  and between listings no time to one that was read earlier (`TimesGoForward`).
* `CatchesUp`: in the end the watch is back and nothing is left to be done, unless the last
  listing failed, which the next notification takes up.

**Fairness** (`WF_vars(Work)`): background tasks run to their end, timers fire, the
debounce thread and the event loop get their turn. Other programs and users are bounded
and owe nothing; an attach fails finitely often.

**Abstractions.** The times of the debounce: a batch is due at some time. The nesting of
folders: one folder that holds all notes. The number a read of a time gets is the version
it has read. A listing looks for an entry and for its time at once: a note removed between
the two is then listed without a time, and its removal is still to be reported. The time a
renamed note takes along is unknown to the model, and so is its number: a later touch
always replaces it, where the code drops one that was read before it. A search's re-list
may be asked for at any time, not only in the states of the search that offer it.

## 11. Runs and bounds

| Run | Instance | Asks | Result |
|---|---|---|---|
| `install_pin` | two savers in two processes, four file identities, two contents, hard links, two rounds, one name that cannot be removed, identities symmetric | is only what was judged replaced, but for late versions? | holds |
| `install_move` | one saver, a loader of its process and one of another, three identities, no links, three rounds, one name that cannot be removed, weak fairness of saves | is a save a compare-and-swap, is nothing lost, does it end? | holds |
| `install_stale` | one saver, a loader of another process, hard links | does recovery restore only interrupted moves? | violated |
| `session_all` | two paths, two contents, every operation, three moves | slots, clean documents, no loss | holds |
| `session_view` | the same, four moves of edit, compose, rename, overwrite, external change | is the session's opinion true when settled, does an approval survive a change there and back? | holds |
| `session_live` | two moves of edit, rename, overwrite, external change, fairness | does every queued save run, every edit come to a write, the session learn the disk? | holds |
| `update_journal` | one file replaced, one added, one removed; two deaths of the helper, two failing stores or file steps, two interferences of other programs; fairness | does every update end with one complete version or ask for help? | holds |
| `update_handshake` | two applications, of which one waits without a limit, two helpers, two updates, two launches, one death or failure; fairness | does anybody edit beside an unsettled installation, is every start answered? | holds |
| `credential_journal` | two processes, three keys, three revisions, three faults, one death | does the key in use exist, is a key forgotten, do turns keep their settings? | holds |
| `draft_journal` | one note, two folders, two background threads and the window, five moves; fairness | does the journal only advance, does leaving keep the note? | holds |
| `ai_runtime` | two threads, two revisions, three commands or calls, one fault; fairness | one child at a time under the lock, ready only for its revision, is everyone answered? | holds |
| `folder_listing` | one folder with two notes, opened again as another would be; two orders; three acts of users, other programs and failures together, at most two failures; fairness | is the sidebar right when nothing is left to do, is nothing older shown, does everything come to its end? | holds |

*Bounds.* In the install runs: two processes are enough for every pairwise race, since
a step of one process meets the others only through the path and the aside names.
`install_pin` has no loader: each save begins with the same recovery scan as a load.
`MaxStuck` bounds the names that cannot be removed to one at a time, which is enough to
mislead or block a recovery. `Inos` counts the objects alive at once (target, temporary
files, set-aside versions), and an identity is reused when free, so the number of writes is unbounded. Two rounds
with pins and three without let a round fail and another succeed. Two processes that
save at once without hard links exceed the time of a run; for that case the proofs of
section 12 cover the safety properties, except the refinement, which is about one saver.

In the session runs only the environment is bounded: `Budget` counts edits, requests,
failures and foreign changes; jobs, timers, checks and results are not counted. The
hazards listed in `PROJECT.json` need two or three such moves (an edit during a write
and a foreign change, say). Two contents make "another version" and "the same version
again"; a change there and back takes two moves, and `session_view` has four of five
kinds. Two paths are needed for Save As and rename. Contents and paths are symmetric.
`UserActions` is an environment of an instance, not a change of the model: an
operation that is left out is one the user does not use.

`session_view` leaves out some operations on purpose, each because of a gap that ends
with the next notification or edit: the Trash (another program may put the file back
before the deletion is reported), opens and Save As (a load of a path this session
has just taken by Save As replaces the text by an older version, without a first
check), tab switches (an autosave timer that fires while its tab is not selected is
dropped, and selecting the tab does not re-arm it), and confirmed reloads (section 13). Manual saves, naming, rechecks and failing I/O are left out for the size
of the run only: with them in `UserActions` and `Budget = 3` the four properties hold
too. A conflict notice also goes away when another program puts the old version back;
the edits then stay unsaved, shown as such, until the next edit arms a timer.

In `update_journal` three steps of the plan cover the three kinds of step, and a crash
between the steps of one file while another is done and a third is not. Two deaths let
a recovery die as well; two faults let a rename fail and its restoration too.

In `update_handshake` two applications and two helpers are the smallest instance in
which a start meets a running update, two starts recover the same one, or a second
update begins over the receipt of the first. One death or failure is spent on any
process at any step; crash sequences inside one update are the subject of
`update_journal`.

In `credential_journal` three references allow two replacements in a row (the old, the
new and the next), and three faults let a save, its clean-up and the recovery fail.
Processes and references are symmetric.

In `draft_journal` a move is an act of the user, a failing step or a crash; timers,
threads, flushes and recoveries are not counted. Five moves reach an edit, a retarget,
a failing write, leaving and coming back. Locks and sequences are per draft and drafts
meet nowhere else, so one draft is enough for the races between its threads.

In `ai_runtime` three requests reach a restart behind a stop, a start over a blocked stop,
and a reconfiguration under a call; two threads make a wave with one leader and one
waiter. A child that refuses to end is no fault and may be met at every stop; a child
that dies, fails to start, loses an event or whose reader panics is, and one such fault
meets every step. Children are numbered as the code numbers them; `Gens` has room for
all of them.

In `folder_listing` opening the folder is one of the three acts; two more reach a change
under a running listing, a write beside a change or a re-list, two writes that come back in
the other order, a failed attach with a retry that fails too, and a second opening during
the first listing. One folder is enough for the last: what a result of the former opening
may do depends on its generation and its number, not on the name of the folder. Two notes
are needed for renames. Batches, listings, retries and entries are not counted.
A refresh rejected for a failed re-list (`masked`) takes four moves or five and lies beyond
the run; the proof of section 12 covers it.

Deadlock is not checked: an idle editor is a state in which nothing is due, and a
bounded user and bounded other programs make it final.

Every property of a passing run has a mutant in `PROJECT.json`: a plausible bug of a
mapped definition (a dropped guard, a missing reset, a wrong order) under which that
run fails.

## 12. Proofs

Proved by TLAPS for every value of the constants: any number of processes, threads,
file identities, contents, rounds, paths and moves.

How the updates are written matters. Of `[f EXCEPT ![h].a = x, ![h].b = y]` the SMT
translation of tlapm 1.4.5 makes a false fact, that `f[h].b` was `y` before, and a step
that updates two fields of a record so proves more than is true. All modules write
`[f EXCEPT ![h] = [@ EXCEPT !.a = x, !.b = y]]`, which means the same and is translated
as it is meant. That the proofs depend on the models was tried with the mutations of
`PROJECT.json`: with the mutated definition in place of the original, the steps that rest
on it are no longer proved.

**SaveInstallProofs.** `TypeCorrect` is inductive by itself. `InstallInvariant` proves
`InstallInv` with the types. The argument: `DiskSteps` shows that each of the module's
steps changes the disk in one of a few ways (a name appears, goes, moves; the target
is replaced, rewritten, deleted). `AgreeStep` and `GoneStep` prove the two facts about
names from that list alone. What a job believes (`SeenIsJudged`) is kept by any step
of anybody else that leaves its aside names alone or marks the job `late`
(`UndisturbedKeeps`, `OtherSavers`, `Others`), and by its own steps because it
believes only what it has just judged (`OwnStep`). `LateVersionsAside` and
`MoveAsideReplacesJudged` are the two action properties about installs, each read off
the invariant at the moment of the install.

`MovedVersionsSurvive` needs three more facts (`MovesFit`): hard links move nothing, a
save in its clean-up has marked what it had moved as replaced, and a recovery has picked
a name of another process. `LinksStep`, `CleansKeeps` with `CleansOwn`, and `PicksStep`
prove them for every step; `ReleasedStep` then goes through the steps that remove a name.

`SaveIsCompareAndSwap` is the refinement of `CheckedSave`, all of `ImplementsCheckedSave`,
under `OneMover`: links do not pin and one thread at most saves (section 3 says why a
second one is no step of the abstract save; where links pin, a late version may be
replaced). `FileIsOne` shows that the mapping has one version to pick, because the name
of a moved version is unique (`MovedObjectsAreGone`). `WritesFit` says that whoever is
about to install has written its file, and that the saver's own recovery finds nothing.
`SaveIsChecked` has one case per step of a save: it is a commit (`InstallVacant`,
`InstallMoved`), a failure, or nothing a reader sees; `StepIsChecked` adds starts, deaths
(`Interrupt`) and everybody else (`OthersNext`). TLC had agreed with `MovesFit` on
the instances of `install_move` and `install_pin`, and with `WritesFit` on the former.

Assumptions used: threads belong to one process each and no process runs two saves
(`ThreadsAssumption`; the save slot of a session and the one owner of a document give
this), the values that stand for nothing are not files or contents, and "none", which
`CheckedSave` has for no job, is no guard (`GuardsAssumption`).

**DocumentSessionProofs.** The properties are not inductive. `SlotInv` says nothing of
what a job was given, so it cannot show that a finished write makes the document
clean. The inductive invariant `IInv` adds:

* `JobFits`: the job in the slot has the session's ticket, its generation and a
  positive sequence, its revision lies between the saved and the current one, and if
  the revision is still the current one then what it writes is the document's text;
  a rename has a path;
* `GoodIntent`: a queued request that names a path names a real one;
* `Accepted`: the saved revision is not ahead of the current one, and a clean document
  with a path equals its baseline;
* `LookInv`: no check is of a later generation than the document;
* the types of what surrounds the session, with a load under way naming a path.

The proof has one lemma per method of the session: what it returns, and what of the
document, the slot and the checks it leaves alone (`SameDocument`, `SameChecks`,
`Fresh`). Then one lemma per kind of change (`SameKeeps`, `FreshKeeps`, `EditKeeps`,
`RequestKeeps`, `FinishedSaveKeeps`, `JobKeeps`, ...) shows that `DocInv` survives it,
and `DocStep`, `LookStep`, `AroundStep` and `FlagStep` have one case per action of
`Step`. The central fact is `FreeSlot` with `FreshKeeps`: a document is replaced only
while the slot is free, so no job ever meets a document it was not started from.

The four action properties rest on `IInv` and one relation between the session before
and after a method, `Onward`: no counter goes back, and an answer outlives a step only if
what it was given about is still what the session knows. `OnwardStep` proves it for every
action. Each property then has its own invariant, relative to `IInv`:

* `ReadsFit`, for `NoReloadPastOwnWrite`: the number of saves a check started from and the
  number of writes that had landed when it read are neither ahead of what has landed now.
  `LandedIs` says that at most one write has landed without having reported, `LandedStays`
  and `LandedStep` that a step only ever adds to the writes that have landed;
* `KnownFits` with `SeenLive`, for `ReplacesOnlyKnown`: the baseline, what a running
  unforced write expects, and what a queued confirmation was shown are versions in
  `known`. `JobsStep` says where a job comes from, `PendingStep` where a queued request
  does, `KnownMoves` that `known` loses nothing while a job or a request relies on it;
* `AnswersFit`, for `NoSilentLoss` and `ApprovalHolds`: while an answer stands (it has the
  live serial, and this generation and revision), nothing has moved since it was given
  (`Unmoved`). It holds of the answer that is being verified and of the one that waits for
  the slot. `Given` says that an answer is never of the future, so that an old one cannot
  come to stand again.

The attempt found `ApprovalHolds` to be false where files go to the Trash, which the run
with its environment had left out; it now says what holds there, and section 13 why.
TLC had agreed with the three invariants on the constants of `session_all` and of
`session_view` before the proof.

The two properties about quiet states do not hold for every `UserActions` (section 13), so
their theorems have a hypothesis on it, which the constants of `session_view` satisfy;
everything else the user, other programs and failing I/O may do is allowed:

* `ConflictsAreShown` assumes `FewerMoves`: no `"switch"`, no `"reload"`. Its invariant is
  `ConflictFits`: of a conflict that nobody sees there is something on its way that will
  show or end it, an armed timer, a write, or a rename behind which a request waits that
  will be granted (`WillRun`). The last is why an approval has to be part of it. A step
  leaves the conflict alone (`ClashStays`), asks for a write (`RequestClash`), reports
  (`ReportFits`) or looks at the disk (`CheckFits`);
* `QuietViewIsCurrent` assumes `CalmMoves`: no `"open"`, no `"reload"`, no `"trash"`. Its
  invariant is `SightInv`, relative to `IInv` and `ReadsFit`: with no notice owed
  (`SightFits`), a check that has read and will still be believed (`Telling`) has read what
  the file holds, unless a follow-up is owed; and with no check under way the session
  itself `Believes` what the file holds, unless `cut` marks one of the two gaps. No write
  of the session has landed unreported in either case: a landing is a notice, and its
  report makes the reads before it void. `SightStays` is the frame lemma; `LookedAgain`
  covers every way to ask for a check, `ObserveTold` what a result leaves the session to
  believe, and `SaveSight`, `RenameSight`, `CheckSight` and `ReadSight` are the four
  handlers that meet.

TLC had agreed with both invariants on two paths and two contents, with ten of the
`UserActions` and `Budget = 4` (7.8 million states, complete). Assumption used: `SessionAssumption` (the values that
stand for nothing are not paths or contents, the bound is a natural).

**CredentialJournalProofs.** Any number of processes, keys, failures and deaths, with no
order on the operations of a journal. `Inv` is inductive; its parts, each of which needs
the others:

* `LockInv`: of the processes that work on the files or run a turn, an exclusive one is
  alone, and it holds the owner lock;
* `OwnerInv`: who has a child, or writes, is the owner;
* `MemoryInv`: what the processes remember of the settings (snapshots, pages, runtimes)
  is what the disk holds or older: no later revision or generation, the same revision means the same settings, and the same generation means
  the same reference. This is what makes `settings.rev = seen[p].rev` in `Admitted` mean
  "nothing happened in between", also when another process had the lock;
* `KeyInv`: the key in use exists, every key is tracked, the journal has at most one
  operation, whose two sides differ and were drawn;
* `PhaseInv`: at each step of a credential command or a recovery, what has been done and
  what has not (`Progress`, `Recovery`);
* `TurnInv`: what a turn started with is still on the disk.

A step of one process is described twice. `OwnStep` says what it may do to its own part
and to the files; `Frame` what it leaves alone. `Alone` is the central fact: a process
that writes meets no other writer and no turn. `AdvanceStep` proves `MemoryInv` for every
step that replaces the settings by newer ones, `RememberStep` for every step that
remembers the settings on the disk; `OperationStep`, `RecoveryStep` and `BeginStep` prove
`KeyInv` and `PhaseInv` for the process that moves, and `OtherStep` for the others.
`JournalSoundness`, `KeyExists`, `TurnSettings` and `SavesSeeSettings` are then read off
the invariant. Assumption used: the values that stand for nobody and for no key are not
processes or keys (`CredentialAssumption`).

**AiRuntimeProofs.** Any number of threads, revisions, commands and faults. `Inv` is
inductive; its parts:

* `WorkInv`: which child the coordinator has in hand at each of its waits. Without it a
  start could meet a child that is still there;
* `LockInv`: only that child may run, and the lock is with the coordinator from the
  moment a start has it until the child is confirmed gone, or with the worker;
* `RevInv`: the published revision, the configuration and the child's revision are one;
* `StatusInv`: ready is published only at rest, for the child the coordinator has;
* `CallInv`: the child of a call is no later than the present generation, never the one
  in its handshake (whose core a failed handshake closes), and a pending call has an
  open core;
* `ReportInv` with `Told`: a report in the queue names a generation that has been
  spawned, and what it says is true of that child and stays true. This is what makes
  `m.gen = current` mean "this child has ended";
* `LeadInv`: a thread that leads a wave asks for a start or a restart.

`TypeStep`, `CoordStep`, `CallStep` and `ReportStep` show that a step keeps the types, the
coordinator's part, the calls and the reports; `Bystanders` says that nobody else touches
what the coordinator has, and `TakeCases` what taking a message can do. Assumption used:
`RuntimeAssumption` (nobody is not a thread, the bounds are naturals).

**FolderListingProofs.** Any folders, notes, orders, requests, writes and failures. A
rejected listing is no problem; the question is why an accepted one is newer than what is
shown, and of the folder that is open. For `NothingOlderIsShown` two parts are inductive:

* `ListingInv`: the numbers of the requests. What is shown has a number that has been
  applied, none has been applied that was not started, every listing under way has a
  number that was started and is of no later generation than the view, and one of the
  present generation is of the folder that is open. The token of a listing for a folder
  opened from outside is no such number, so `finish_external_folder_open`, which draws
  two numbers of its own, is proved apart;
* `DataInv`: what is on the disk, and what a write of Hane's has read there, is a version.

`Kept` is what one step has to show: `ListingInv` after it and `Newer` about what is
shown. There is one lemma for each action of the view and of the listings (`KeptBy...`);
`RelistOK` and `GoesOn` are about the listing that follows a notification or a result.
`TouchedFollows`, `RemovedFollows`, `InsertedFollows` and `RenamedFollows` are about
entries: a name whose time is forgotten was not shown before, so nothing earlier takes
its place.

`QuietIsCurrent` rests on a chain: nothing changes on the disk without a report, no report
is without a batch, no batch without a listing. So while none of these is under way
(`Clear`), what a listing has read is still there. The invariant has three more parts,
relative to the types (`TypesStay`) and the two above:

* `FollowInv`: there is one refresh exactly while the view says so (`RunOK`); the folder is
  watched or the view knows that it is not, and a watch that has died has said so, in the
  window, in a batch or in `failure` (`WatchOK`);
* `FitInv`: while `Clear`, a listing that may still be shown fits the disk in what it has
  read (`ScansFit`), and so does what is shown (`FolderFits`), unless a refresh is running
  that was asked for later. That exception is what the numbers are for: a change ends
  `Clear` until the refresh for it starts, whose number is above all others;
* `OpInv`: what a write of Hane has made of its paths is still so, unless their version
  has changed since; what is then entered is either so or in `late`.

`RelistFollows` shows that a listing that starts takes over the concern, `FitBy...` that
each action keeps the three parts; `EnteredFits` and `TouchedFits` are about entries. The
attempt found two faults of the model. `QuietIsCurrent` did not hold beyond the bound of
the run: with five acts on one note a *failed* refresh is rejected for a search's listing
that had failed, and neither is remembered; TLC showed the behaviour, `masked` and
section 13 now include it. And `WriteFinishes` chose between cases that overlap, so that
its meaning depended on the order TLC tries them in. TLC had agreed with the invariant on
two notes with three acts (972,721 states, complete), and without an error, but not to
the end, on one note with five and on two folders with four (17.8 and 13.5 million).
Assumption used: `ListingAssumption` (no folder is not a folder, the folder is none of its
notes, a listing has an order, the bounds are naturals).

**UpdateHandshakeProofs.** Any number of applications, helpers, updates, deaths and
failures. What a place of a process implies is spread over the leases, the journals and
the other processes, so `Inv` says all of it, in four parts:

* `Shapes`: the fields of the records, and the transaction and child of a helper;
* `HoldInv`: which leases each place implies. The places in `Alone` imply all three, those
  in `Inside` a share of runtime, and runtime is never both; this is `FilesChangeAlone`;
* `RecordInv`: one journal, its phase at each place of the helper that writes it
  (`Agrees`), and a committed journal is what is on the disk;
* `AppInv`, with `Stands` for an application and `Answers` for a helper's child: who is
  admitted or edits sees nothing open and has the image on the disk. For a child this
  rests on what it was told, so the invariant follows the commit from the helper's store
  to the child: a child answers for the transaction of the helper that created it, only a
  child that answered is found healthy, only then is a commit sent, and a new process in
  the child's place has not been told anything. Without the child's transaction in it the
  invariant is not inductive: a helper could tell a child that another transaction is
  committed.

`AppLeaves` and `ChildLeaves` are about the end of a process, which may come at every
place. `AppStep`, `HelperStep` and `HelperWorks` say what a step of an application, of a
helper, and of a helper that writes its journal or the files must respect; every action
cites one of them, a store of the journal by way of `StoreOK`.

`StagingIsKept` needs more: between its start and its first lease a helper holds nothing,
so nothing in `Inv` keeps a sweep from its directory. A second invariant, `KeptInv`,
relative to `Inv` and the types (`Typed`), says why none does:

* `NumberInv`: transactions are numbered in their order, and a journal has its directory;
* `LinkInv`: which application has which helper. They work on one transaction, nobody
  else does, and it has no journal before the helper is authorised;
* `FreshInv`: the directory of a helper that has not begun exists and is its own; before
  it is authorised its application runs, and holds runtime shared, so that nobody sweeps;
  afterwards it has the transaction lease, without which nobody sweeps either;
* `LateInv`: a helper that has begun has its directory, because it has a journal or holds
  the leases a sweep needs; one that has restored the files has the version it started from;
* `SweepInv`, `MixedInv`: a sweep holds all leases, and the files are a mixture only
  beside a journal that says so, so that what a sweep finds is never half an update.

TLC had agreed with `Inv` and `KeptInv` (459,745 states) before the proof. `KeptInv` has
one lemma per action (`...Keeps`), and the types one per variable (`...TypesKept`).
Assumptions used: applications, helpers and nobody are different, the bounds are naturals
(`ProcessesAssumption`, `BoundsAssumption`).

**UpdateJournalProofs.** Any number of files, replaced, added or removed in any order, any
number of deaths, failing stores and interferences. `Inv` relates five things: where the
helper is, the journal it remembers, the journal on disk, the backups and the files.

* `JournalInv`: the disk is what the helper remembers, or one store ahead of it (a store
  that reported failure and was made); before the health verdict it is the same;
* `PlaceInv`: phase and step states at each place, and what is still to be undone;
* `BackupInv`: backups are made in order, all before the first intent;
* `FileInv`: files another program has not touched are old, new or missing; they are all
  old in the phases before the first replacement and after a rollback, all new after a
  commit; this is the part that makes the end of an update old or new;
* `ChildInv`: only a helper that waits for its child, or has ended, has one;
* `CalmInv`: with no failure and no other program, a rollback finds what it planned for
  and refuses nothing. `DeathIsRecovered` is this, seen from a journal that asks for help.

`AdvanceOutcome` and `StepOutcome` say once what a store of the journal can come to: made,
made and reported as failed, not made, refused as stale. `CalmDecision` is the analysis of
`decide_recovery`: in a calm state it never answers that a person is needed. Each action
has its lemma (`...Keeps`). The refinement `UpdateIsAsPromised` takes the mapping of
`UpdateJournal`, shows with `PhaseSteps` which steps settle an update and with
`ChangeIsPromised` that a file step is one the promise allows in that state, and combines
them in `StepIsPromised`. It is the safety part of `KeepsPromise` (`Promise!ASpec`: the
initial state and the steps); that every update settles stays with TLC. Assumptions used:
there is a step, and no step both adds and removes (`StepsAssumption`), the bounds are
naturals (`BoundsAssumption`).

**DraftJournalProofs.** Any number of drafts, folders and threads, any number of moves.
The invariant has a part about the threads (`JobInv`: what a thread's place says of its
job, one holder per lock, the window writes only while it leaves), a part about the window
(`FolderInv`), and one for each draft:

* `TextOf`, `WholeOf`: every text in a file, a write under way, a recovery or a note is
  one the note has had, with a target it had then, or another document's;
* `ScanOf`: as long as nobody else works on the draft, recovery has read what is there;
* `SettleOf`: from the last timer on every write is of the last text, and one of them is
  under way or accepted. This is why a settled note is journalled although an older write
  may end last;
* `FlushOf`: once the window has written a note on its way out, no write is left that
  could still replace it;
* `RetireOf`: after a removal no write is left that the lock would let through;
* `AdvanceOf`: entry, writes under way in their order, note: no text is older than the one
  before.

A step concerns one draft at most: `UntouchedKeeps` is the frame lemma for the others. The
proof found two things the runs had missed, both in the history variables and reachable
with three threads: `spoiled` was cleared by a write older than one still to fail, and a
draft counted as `retired` while a second removal was waiting; the model says so now (§8).
TLC had agreed with the invariant on one draft with three workers (50,977 states) and
with two targets (87,457 states) before the proof. Assumptions used: there is a draft, the
root is a target, the window is no background thread, the bound is a natural
(`DraftAssumption`).

| Theorem | States |
|---|---|
| `TypeCorrect`, `SessionTypeOK` | `TypeOK` |
| `InstallInvariant` | `DiskIsSound`: `TypeOK` and `InstallInv` |
| `LateVersionsAside` | `ReplacesJudgedUnlessLate` |
| `MoveAsideReplacesJudged` | `ReplacesOnlyJudged`, where links do not pin |
| `MovedVersionsSurvive` | `VersionsAreKept` |
| `SaveIsCompareAndSwap` | `ImplementsCheckedSave`, for one saver and where links do not pin |
| `SlotSerialises` | `SlotInv` |
| `OneCheckAtATime` | `CheckSlotInv` |
| `OneJobOneCheck` | `OneAtATime`: both |
| `CleanMeansBaseline` | `CleanIsBaseline` |
| `ReloadsAreUpToDate` | `NoReloadPastOwnWrite` |
| `WritesReplaceKnown` | `ReplacesOnlyKnown` |
| `EditsAreNotLost` | `NoSilentLoss` |
| `ConfirmedWritesAreFresh` | `ApprovalHolds` |
| `ConflictsAreShown` | `ConflictIsShown`, where no tab is left and nothing discarded |
| `QuietViewIsCurrent` | `SettledViewIsCurrent`, where nothing is loaded, discarded or moved to the Trash |
| `JournalSoundness` | `JournalIsSound` of `CredentialJournal` |
| `KeyExists` | `NamedKeyExists` |
| `TurnSettings` | `TurnKeepsItsSettings` |
| `SavesSeeSettings` | `NoBlindSave` |
| `LockOutlives` | `LockOutlivesChild` |
| `ReadyServes` | `ReadyServesItsRevision` |
| `ReadyForCause` | `ReadyLostForCause` |
| `NeverOlder` | `NothingOlderIsShown` |
| `QuietShowsTheDisk` | `QuietIsCurrent` |
| `EditorsAreSettled` | `EditsOnlySettledVersion` |
| `FilesAreAlone` | `FilesChangeAlone` |
| `EditorsSurvive` | `EditorsAreNotKilled` |
| `RecordsStaySound` | `RecordsAreSound`: `TypeOK`, `OneJournal`, `StagingIsKept` |
| `NoTwoJournals` | at most one transaction has a journal |
| `WriteAheadHolds` | `WriteAhead` |
| `DeathIsRecoveredHolds` | `DeathIsRecovered` |
| `NoChangeUnderTheChildHolds` | `NoChangeUnderTheChild` |
| `UpdateIsAsPromised` | `Promise!ASpec`: the refinement of `InstallUpdate` without its liveness |
| `JournalIsSoundHolds` | `JournalIsSound` of `DraftJournal` |
| `JournalOnlyAdvancesHolds` | `JournalOnlyAdvances` |
| `LeavingKeepsNotesHolds` | `LeavingKeepsNotes` |

Only model-checked: liveness (`EverySaveEnds`, `EditsAreTried`, `LearnsTheDisk`,
`EveryUpdateSettles`, `EveryStartIsAnswered`, `EditsReachJournal`, `EveryoneIsAnswered`,
`CatchesUp`, and that every update of `InstallUpdate` settles), which needs fairness and
ENABLED, out of the prover's reach. Every safety property that a passing run checks is
stated by a theorem; four have a hypothesis on the instance, for the reasons given above:
`ReplacesOnlyJudged` and `ImplementsCheckedSave` on the platform and the savers,
`ConflictIsShown` and `SettledViewIsCurrent` on what the user does.

## 13. Where the code and its comments disagree

Found while modelling. The first has a run that shows it; the others were shown by TLC with
the named formula as the property of the run named, in the instance given.

1. `service.rs:1143`: recovery is meant for a process that died between moving the old
   version aside and installing the new one, "only the unambiguous case". A process
   that dies after `hard_link` leaves a name that looks the same. If the file is then
   deleted on purpose, the next load brings back the old content
   (`RecoversOnlyInterruptedMoves`, run `install_stale`).
2. `session.rs:206`: a request folded into a running check is followed by "one more".
   When that check ends in a reload, `replace_with_disk` clears `recheck_pending`
   before the view takes it, and the change that was notified meanwhile is not looked
   at until the next notification (`FollowUpRuns`; `session_all.cfg` with
   `UserActions = {"external"}`).
3. `folder_watch.rs:317` says of a rejected listing that one started later "has already
   installed a newer listing". `finish_content_search_rescan` takes the number of a
   listing before it looks whether it failed (`content_search.rs:1714`), so a good
   refresh that comes after a failed re-list is thrown away and nothing is left that
   would list again; `docs/implementation/issue-554-folder-watch.md:26` asks that the
   list converge (`ListingIsCurrent`, run `folder_listing` with `Spec` and `Budget = 4`).
   A refresh that fails in that place is thrown away too, before its failure is looked at
   (`folder_watch.rs:316`), so that it is neither shown nor remembered for the next one.
   `masked` marks both cases, which take four and five moves.
4. `store.rs:62`: `sidebar_sort` says how the sidebar orders files and folders, and
   `workfolder.rs:347` that the caller of a scan applies the persisted order afterwards.
   `finish_content_search_rescan` does not (`content_search.rs:1724`): after a re-list the
   sidebar is in the default order until the next refresh, and choosing the order again
   does nothing, because the setting has not changed (`SortIsTheSetting`, run
   `folder_listing`).

Observed, without a run of their own:

* `README.md:171` says that a new note without a name keeps its content although the
  application quits or crashes. A recovered note comes back as a clean session; a file
  opened by `open_path` (a recent file, a file handed over by the system) is loaded
  into the active session if that is clean (`view.rs:3475`), and the session keeps its
  entry in `work_folder_drafts`. The next edit of the file, or the flush at quit,
  writes the file's text over the note's draft. The comment at `view.rs:1881` guards the
  first open of a folder against this, and nothing guards the later ones. `DraftJournal`
  states the promise as `UnnamedNoteIsKept`; with it as the property of
  `draft_journal.cfg` and `Budget = 3` TLC shows the loss.
* `runtime.rs:50`: a wave of starts "ends once its one attempt completes, so a later
  call always starts a new wave". It ends when its leader takes the waiters: a caller
  that arrives between the reply and that attaches to the finished attempt and gets its
  outcome, even if a stop was carried out in between.
* `runtime.rs:36`: no late event reverts what a later operation has done. The end of a
  child whose stop was blocked is still taken as that of the present child, and its
  status is published under the operation that spawned it: `operation_generation` goes
  back.
* A child whose output ended before a blocked stop, and that exits afterwards, is only
  noticed, and its lock released, by the next command.

* `docs/ai-settings-oauth-implementation-spec.md:183`: while the durability of a
  replacement is unconfirmed, the old key is not deleted and no inference starts. The
  journal entry is kept at that moment, but the recovery of the next opening of the
  settings page compares it with the settings a reader sees and deletes the old key,
  with no sync of the directory before (`credential_journal.rs:275`). A save that is
  refused afterwards also replaces the state of doubt by "not committed", and the next
  opening then allows turns.
* `draft.rs:10`: a draft is removed when its session is closed cleanly. Closing a tab
  removes no draft (`view.rs:2281`), so the note is back at the next opening.
* `recover` takes no lock. If the folder is left and opened again while a write or a
  removal of the previous visit still runs, a draft may be read before it and shown
  after it: a named note comes back as a note (and the late removal then deletes its
  journal), an older text is shown, or, for drafts of older versions, a text is paired
  with the root. `overlap` marks these drafts.
* `recovery` of an update and the next start compete for the transaction lease: a
  start's sweep holds it for a moment, and a recovery helper that meets it there is
  refused, so that its start reports that help is required although nothing is wrong.
* `helper.rs:493`: the leases of a helper are dropped one by one, runtime last; a start
  in between passes the gate, finds runtime taken and says an update is in progress.
* A commit whose store reported failure but reached the disk releases the child when
  the helper's pipe closes; the helper may then stop a child that edits already
  (`EditorsAreNotKilled` states that this is the only such case).

* `watch.rs:163`: no batch is delivered after a `FolderWatcher` is dropped. Its drop sends
  a stop behind what is in the channel already and does not wait for the thread
  (`watch.rs:242`), so a batch may come after it. The view compares generations, so it
  costs at most one listing too many (`SpareBatch`).
* What Hane enters itself (`insert`, `remove`, `rename`) after another program has changed
  the path again stands until the next notification; `late` marks those paths.
* `view.rs:1804` calls the tree of a scan ordered by name; its default is the newest first.

* `service.rs:988` says an install never replaces a version that was not checked; with
  pins, a version that arrives between the identity comparison (1046) and the rename
  (1052) is replaced. `ReplacesJudgedUnlessLate` states what does hold.
* `session.rs:677`: after a save of an older revision "the caller re-arms" the
  autosave. The caller re-arms the selected tab only (`session_save.rs:965`).
* `session.rs:670`: a write that reports resets the external state, and with it a
  foreign version that a check saw on top of that write; condition 6 of the design
  asks that such a change is not taken for the own one.
* `session.rs:267`: an approval "dies with any edit, reload, or newer external version".
  A file that went to the Trash is missing without an external change (`mark_missing`); if
  it comes back as it was, the check finds it in sync, as before (`session.rs:1035`), and
  the approval to write the missing file lives on, to count again if the file then goes to
  the Trash once more. The write replaces nothing; `ApprovalHolds` names this one case.
* A file that another program recreates just after it went to the Trash, and that a check
  has read before the move reported, is then marked missing (`sidebar.rs:1259`) although it is
  there, until the next notification: `SettledViewIsCurrent` with `"trash"` among the
  `UserActions`. Two other ways to be wrong until then: with `"reload"`, a discard whose
  read came before the last change frees the slot of the check that has seen that change
  (`session.rs:1062`), and nothing starts another (`external_change.rs:417`); with `"open"`
  and `"saveAs"`, a load of the path that Save As has just given the session replaces the
  text by what it had read before (`view.rs:3475`).
* A conflict may be known and not shown (`ConflictIsShown`): the autosave timer of a tab
  that was left is dropped without a word (`session_save.rs:30`; `"switch"`), and a discard
  that is confirmed while a confirmed overwrite is queued ends the approval of that
  overwrite, whose refusal shows nothing (`"reload"`). The banner comes with the next check
  or save.
* `session.rs:1217`: the read of a confirmed discard is not compared with
  `saves_completed`; a version older than an own write is then taken for a new
  external one until the next check.

## 14. What is not modelled

`PROJECT.json` lists every component with its state. Within the modelled ones:

* of `service.rs`: renames of files and folders (`DocumentSession` has a rename as one
  step that picks a free name), directory creation, the in-memory services for tests;
* of the session: folder-wide renames and deletions, the set of sessions and closing
  tabs, the derivation of a title from the text, undo history, watch failure;
* of updates: the seal of a protected placement (`recovery_seal.rs`), the ledger of
  scratch directories, the exchange of bundles on macOS, frames and nonces of the
  protocol, the elevated route, the permit and the restart ticket;
* of credentials: failing reads, a child whose exit stays unconfirmed, accounts and
  login, connections other than the custom one, loss of power (a rename that was
  visible and is undone);
* of the AI runtime: the probe of a binary, a child's environment and workspace, requests
  of the child and their handler, the limits of the writer's queue, `with_owner_lock` (a
  pause between two messages), a configuration with another lock path;
* of the work folder: nested folders and their renames and removals, the set of watched
  names and directories outside the folder, the filter and the selection of the sidebar,
  the times of the debounce;
* of drafts: two processes on one folder (`DRAFT_LOCKS` is per process),
  `open_external_folder`'s scan before a switch, a listing that fails, the creation of
  the named file.

Of the other components, those with state that several actors share (pins, search jobs) are planned, in the order of section 2. Left out for good: pure I/O and
operating-system calls behind seams (platform appliers, transport, entry points),
rendering, sequential text processing whose size is out of TLC's reach (Markdown
parsing), parsing and verification of signed input, measurement tools. The window
(`view.rs` and its parts, half of the lines) is mostly rendering and input routing;
its handlers are modelled where they carry out an operation of one of the modules.
