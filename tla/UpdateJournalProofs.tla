------------------------ MODULE UpdateJournalProofs ------------------------
(***************************************************************************)
(* The proofs about UpdateJournal: what holds of the journal and of the    *)
(* disk after the helper has died anywhere, that only trouble asks for a   *)
(* person, that no file changes under a running child, and that every      *)
(* step of the helper is a step of what an update promises                 *)
(* (InstallUpdate). The inductive invariant says what the helper's place,  *)
(* the journal in its memory, the journal on disk, the backups and the     *)
(* files have to do with each other.                                       *)
(***************************************************************************)
EXTENDS UpdateJournal, TLAPS

\* What is on the disk where no other program has changed it.
OldUntouched == \A i \in Steps \ touched : file[i] = OldId[i]
NewUntouched == \A i \in Steps \ touched : file[i] = NewId[i]

\* The places at which the journal in memory is the one on disk, before any
\* store has failed; those at which nothing is replaced yet; those of the loop
\* that replaces; those of a rollback that has its intents, and of its actions.
Preparing == {"check", "authorized", "backup", "backed_up"}
Replacing == {"intend", "bind", "bound", "aside", "placed", "next", "verify"}
Confirming == {"launch", "health", "before_commit", "commit"}
Undoing == {"undo", "undo_bound", "undo_aside", "undone", "undo_next"}
AtAction == {"undo_bound", "undo_aside", "undone", "undo_next"}

\* The journal on disk is the one in memory or the next one, stored by a call
\* that reported failure; a step that has left "planned" never returns there.
JournalInv ==
  /\ pc # "off" =>
       /\ jrn.gen = mem.gen => jrn = mem
       /\ jrn.phase = mem.phase \/ MayFollow(mem.phase, jrn.phase)
       /\ \A i \in Steps : jrn.step[i] = "planned" => mem.step[i] = "planned"
  /\ pc \in Preparing \cup Replacing \cup Confirming => jrn = mem
  /\ jrn.phase = "none" => pc = "off" /\ jrn = NoJournal
  /\ jrn.phase = "required" => pc \in {"off", "seal", "end"}

\* What the place of the helper says of the journal in memory.
PlaceInv ==
  /\ pc = "check" => mem.phase = "prepared"
  /\ pc = "authorized" => mem.phase = "authorized"
  /\ pc \in {"backup", "backed_up"} \cup Replacing => mem.phase = "applying"
  /\ pc \in Confirming => mem.phase = "awaiting"
  /\ pc = "notify" => mem.phase = "committed"
  /\ pc \in {"check_intents", "undone_all"} \cup Undoing => mem.phase = "rolling_back"
  /\ pc \in Preparing => \A i \in Steps : mem.step[i] = "planned"
  /\ pc \in {"bind", "bound", "aside", "placed"} => mem.step[at] # "planned"
  /\ pc \in Undoing => \A i \in Steps : plan[i] # "none" => mem.step[i] # "planned"
  /\ pc \in AtAction => plan[at] # "none"
  /\ \A i \in Steps : plan[i] \in {"none", "missing", NewId[i]}

\* Backups are made in order, and all of them before the first intent.
BackupInv ==
  /\ OldVersionIsCopied
  /\ pc = "backup" => \A k \in Steps \ Added : k < at => backup[k] = "old"
  /\ pc = "backed_up" => \A k \in Steps \ Added : k <= at => backup[k] = "old"
  /\ pc \in Replacing => \A k \in Steps \ Added : backup[k] = "old"

\* What the journal and the place of the helper say of the files.
FileInv ==
  /\ IntentComesFirst
  /\ \A i \in Steps \ touched : file[i] \in {OldId[i], NewId[i], "missing"}
  /\ jrn.phase \in {"none", "prepared", "authorized", "rolled_back"} => OldUntouched
  /\ jrn.phase = "committed" => NewUntouched
  /\ pc = "settle" => OldUntouched
  /\ pc = "commit" => NewUntouched
  /\ pc = "bound" /\ at \notin Added => file[at] = "old"
  /\ pc = "aside" => at \notin Added \cup Removed
  /\ pc = "undo_bound" /\ at \notin Added /\ plan[at] = "new" => file[at] = "new"
  /\ pc = "undo_aside" => at \notin Added /\ plan[at] = "new"
  /\ pc \in {"roll_back", "check_intents"} \cup Undoing /\ jrn.phase = "rolled_back" =>
       \A i \in Steps \ touched : plan[i] = "none"

\* Only a helper that waits for the health of its child, or has ended, has one;
\* it rolls back only from the phase in which it first makes sure of its end.
ChildInv ==
  child # "none" =>
    /\ jrn.phase # "none"
    /\ pc \in {"off", "health", "before_commit", "commit", "notify", "recover", "settle",
               "require", "seal", "end"}
    /\ pc \notin {"off", "seal", "end"} => stage = "health"
    /\ pc = "recover" => mem.phase = "awaiting"

Troubled == disturbs > 0 \/ faults > 0

\* An action still to be performed is the one the disk asks for.
Planned(i) == plan[i] = IF file[i] = OldId[i] THEN "none" ELSE file[i]

\* What holds as long as no other program and no failure has interfered: the
\* rollback finds what it planned for, and there is nothing to refuse.
CalmInv ==
  /\ touched # {} \/ ~unchanged \/ ~rooted => disturbs > 0
  /\ jrn.phase = "required" \/ pc = "require" => Troubled
  /\ ~Troubled =>
       /\ pc # "off" => jrn = mem
       /\ pc \in {"roll_back", "check_intents", "undo"} => \A i \in Steps : Planned(i)
       /\ pc \in AtAction => \A i \in Steps \ {at} : Planned(i)
       /\ pc = "undo_bound" => file[at] = plan[at]
       /\ pc \in {"undone", "undo_next"} => file[at] = OldId[at]
       /\ pc = "undone_all" => AllOld

Inv == /\ TypeOK
       /\ JournalInv
       /\ PlaceInv
       /\ BackupInv
       /\ FileInv
       /\ ChildInv
       /\ CalmInv

-----------------------------------------------------------------------------
(* Facts about the operators of the model. *)

\* The journal a helper holds before it has one.
LEMMA NoJournalType == NoJournal \in Journals /\ NoJournal.phase = "none"
                       /\ NoJournal.gen = 0
                       /\ \A i \in Steps : NoJournal.step[i] = "planned"
BY DEF NoJournal, Journals, Phases, StepStates

\* The journal the transaction is created with.
LEMMA BeginFacts ==
  LET j == [NoJournal EXCEPT !.phase = "prepared"]
  IN  /\ j \in Journals /\ j.phase = "prepared" /\ j.gen = 0
      /\ \A i \in Steps : j.step[i] = "planned"
BY DEF NoJournal, Journals, Phases, Live, StepStates

\* The steps are numbered from 1 to N.
LEMMA StepsFacts ==
  N \in Steps /\ 1 \in Steps /\ \A i \in Steps : i \in Nat /\ 1 <= i /\ i <= N
BY StepsAssumption DEF Steps

\* What a step starts from differs from what it leads to.
LEMMA IdFacts ==
  ASSUME NEW i \in Steps
  PROVE  /\ OldId[i] = IF i \in Added THEN "missing" ELSE "old"
         /\ NewId[i] = IF i \in Removed THEN "missing" ELSE "new"
         /\ i \in Added => i \notin Removed
         /\ OldId[i] # NewId[i]
         /\ OldId[i] \in Contents /\ NewId[i] \in Contents
BY StepsAssumption DEF OldId, NewId, Contents

\* A loop over the steps stays within them.
LEMMA NextOrFacts ==
  ASSUME at \in Steps, NEW here, NEW after, NextOr(here, after)
  PROVE  /\ at' \in Steps
         /\ \/ at = N /\ pc' = after /\ at' = 1
            \/ at < N /\ pc' = here /\ at' = at + 1
BY StepsAssumption DEF NextOr, Steps

\* A journal with a phase and step states, one generation on.
Moved(j, p, s) == /\ j \in Journals
                  /\ j.phase = p /\ j.step = s /\ j.gen = mem.gen + 1

\* What a store of that journal comes to, where the helper knows its own: it is
\* stored, it fails with the disk unchanged or advanced, or it is refused
\* because a failed one had reached the disk.
Outcome(p, s, ok, bad) ==
  \/ /\ ~Stale /\ jrn = mem
     /\ mem' = jrn' /\ Moved(jrn', p, s) /\ pc' = ok /\ faults' = faults
  \/ /\ ~Stale /\ jrn = mem
     /\ mem' = mem /\ pc' = bad /\ faults < MaxFaults /\ faults' = faults + 1
     /\ jrn' = jrn \/ Moved(jrn', p, s)
  \/ /\ jrn # mem
     /\ mem' = mem /\ jrn' = jrn /\ pc' = bad /\ faults' = faults

\* DurableJournal::advance_phase has such an outcome, and only along a move
\* that may_follow allows.
LEMMA AdvanceOutcome ==
  ASSUME TypeOK, JournalInv, pc # "off", NEW p \in Phases, NEW ok, NEW bad,
         Advance(p, ok, bad)
  PROVE  Outcome(p, mem.step, ok, bad) /\ MayFollow(mem.phase, p)
<1> DEFINE stored == [WithPhase(mem, p) EXCEPT !.gen = mem.gen + 1]
<1>1. Moved(stored, p, mem.step)
  <2>a. WithPhase(mem, p) = [phase |-> p, step |-> mem.step, gen |-> mem.gen]
    BY DEF WithPhase, TypeOK, Journals
  <2>1. stored = [phase |-> p, step |-> mem.step, gen |-> mem.gen + 1]
    BY <2>a
  <2> HIDE DEF stored
  <2> QED BY <2>1 DEF Moved, Journals, TypeOK
<1>2. MayFollow(mem.phase, p)
  BY DEF Advance
<1>3. \/ ~Stale /\ jrn' = stored /\ mem' = stored /\ pc' = ok /\ UNCHANGED faults
      \/ ~Stale /\ faults < MaxFaults /\ jrn' \in {jrn, stored} /\ pc' = bad
         /\ faults' = faults + 1 /\ UNCHANGED mem
      \/ Stale /\ pc' = bad /\ UNCHANGED <<jrn, mem, faults>>
  BY DEF Advance, Persist
<1>4. ~Stale => jrn = mem
  BY DEF Stale, JournalInv
<1>5. Stale => jrn # mem
  BY DEF Stale
<1> HIDE DEF stored
<1> QED BY <1>1, <1>2, <1>3, <1>4, <1>5 DEF Outcome

\* So has the store of a step state (advance_step).
LEMMA StepOutcome ==
  ASSUME TypeOK, JournalInv, pc # "off", NEW i \in Steps, NEW s \in StepStates,
         NEW ok, NEW bad,
         Persist(WithStep(mem, i, s), ok, bad)
  PROVE  Outcome(mem.phase, [mem.step EXCEPT ![i] = s], ok, bad)
<1> DEFINE stored == [WithStep(mem, i, s) EXCEPT !.gen = mem.gen + 1]
<1>a. WithStep(mem, i, s) = [mem EXCEPT !.step = [mem.step EXCEPT ![i] = s]]
  BY DEF WithStep
<1>1. Moved(stored, mem.phase, [mem.step EXCEPT ![i] = s])
  <2> DEFINE steps == [mem.step EXCEPT ![i] = s]
  <2>1. steps \in [Steps -> StepStates]
    BY DEF TypeOK, Journals
  <2> HIDE DEF steps
  <2>2. stored = [phase |-> mem.phase, step |-> steps, gen |-> mem.gen + 1]
    <3>1. WithStep(mem, i, s) = [phase |-> mem.phase, step |-> steps, gen |-> mem.gen]
      <4> DEFINE t == steps
      <4> HIDE DEF t
      <4>1. [mem EXCEPT !.step = t] = [phase |-> mem.phase, step |-> t, gen |-> mem.gen]
        BY DEF TypeOK, Journals
      <4> QED BY <4>1, <1>a DEF steps, t
    <3> QED BY <3>1
  <2>3. stored.phase = mem.phase /\ stored.step = steps /\ stored.gen = mem.gen + 1
    BY <2>2
  <2>4. stored \in Journals
    BY <2>1, <2>2 DEF TypeOK, Journals
  <2> HIDE DEF stored
  <2> QED BY <2>3, <2>4 DEF Moved, steps
<1>3. \/ ~Stale /\ jrn' = stored /\ mem' = stored /\ pc' = ok /\ UNCHANGED faults
      \/ ~Stale /\ faults < MaxFaults /\ jrn' \in {jrn, stored} /\ pc' = bad
         /\ faults' = faults + 1 /\ UNCHANGED mem
      \/ Stale /\ pc' = bad /\ UNCHANGED <<jrn, mem, faults>>
  BY DEF Persist
<1>4. ~Stale => jrn = mem
  BY DEF Stale, JournalInv
<1>5. Stale => jrn # mem
  BY DEF Stale
<1> HIDE DEF stored
<1> QED BY <1>1, <1>3, <1>4, <1>5 DEF Outcome

-----------------------------------------------------------------------------
(* Preparing and replacing: apply_owned_files, apply, run_steps. *)

\* The transaction is created: the journal on disk is the one in memory.
LEMMA BeginKeeps == Inv /\ Begin => Inv'
<1> SUFFICES ASSUME Inv, Begin PROVE Inv'
  OBVIOUS
<1> USE StepsFacts, IdFacts, BoundsAssumption DEF Inv, TypeOK, disk, work, used
<1>1. TypeOK'
  <2>1. jrn' \in Journals /\ mem' \in Journals
    BY BeginFacts DEF Begin
  <2> QED BY <2>1, SMTT(30) DEF Begin, Places
<1>2. JournalInv'
    BY NoJournalType, BeginFacts, SMTT(30) DEF Begin, JournalInv, Journals, Preparing,
      Replacing, Confirming, Undoing, AtAction, AllOld
<1>3. PlaceInv'
    BY NoJournalType, BeginFacts, SMTT(30) DEF Begin, PlaceInv, Preparing, Replacing,
      Confirming, Undoing, AtAction, AllOld
<1>4. BackupInv'
    BY NoJournalType, BeginFacts, SMTT(30) DEF Begin, BackupInv, OldVersionIsCopied,
      Replacing, AllOld
<1>5. FileInv'
    BY NoJournalType, BeginFacts, SMTT(30) DEF Begin, FileInv, IntentComesFirst,
      OldUntouched, NewUntouched, Undoing, AllOld
<1>6. ChildInv'
    BY NoJournalType, BeginFacts, SMTT(30) DEF Begin, ChildInv, AllOld
<1>7. CalmInv'
    BY NoJournalType, BeginFacts, SMTT(30) DEF Begin, CalmInv, Troubled, Planned,
      AtAction, AllOld
<1> QED BY <1>1, <1>2, <1>3, <1>4, <1>5, <1>6, <1>7

\* apply refuses before it has touched anything.
LEMMA RefuseApplyKeeps == Inv /\ RefuseApply => Inv'
<1> SUFFICES ASSUME Inv, RefuseApply PROVE Inv'
  OBVIOUS
<1> USE StepsFacts, IdFacts, BoundsAssumption DEF Inv, TypeOK, disk, work, used
<1>1. TypeOK'
  BY SMTT(30) DEF RefuseApply, Places, Journals, Contents, Steps
<1>2. JournalInv'
  BY SMTT(30) DEF RefuseApply, JournalInv, Journals, Preparing, Replacing, Confirming,
      Undoing, AtAction
<1>3. PlaceInv'
  BY SMTT(30) DEF RefuseApply, PlaceInv, Preparing, Replacing, Confirming, Undoing,
      AtAction
<1>4. BackupInv'
  BY SMTT(30) DEF RefuseApply, BackupInv, OldVersionIsCopied, Replacing
<1>5. FileInv'
  BY SMTT(30) DEF RefuseApply, FileInv, IntentComesFirst, OldUntouched, NewUntouched,
      Undoing
<1>6. ChildInv'
  BY SMTT(30) DEF RefuseApply, ChildInv
<1>7. CalmInv'
  BY SMTT(30) DEF RefuseApply, CalmInv, Troubled, Planned, AtAction, AllOld
<1> QED BY <1>1, <1>2, <1>3, <1>4, <1>5, <1>6, <1>7

\* The intent to replace anything at all is made durable first.
LEMMA AuthorizeKeeps == Inv /\ Authorize => Inv'
<1> SUFFICES ASSUME Inv, Authorize PROVE Inv'
  OBVIOUS
<1> USE StepsFacts, IdFacts, BoundsAssumption DEF Inv, TypeOK, disk, work, used
<1>0. Outcome("authorized", mem.step, "authorized", "refused")
         /\ MayFollow(mem.phase, "authorized")
    BY AdvanceOutcome, SMTT(30) DEF Authorize, Phases, Terminal, Live, JournalInv,
      PlaceInv, Confirming
<1>1. TypeOK'
  BY <1>0, SMTT(30) DEF Authorize, Places, Journals, Contents, Steps, Outcome, Moved,
      MayFollow, Live, Terminal
<1>2. JournalInv'
  BY <1>0, SMTT(30) DEF Authorize, JournalInv, Journals, Preparing, Replacing,
      Confirming, Undoing, AtAction, Outcome, Moved, MayFollow, Live, Terminal
<1>3. PlaceInv'
  BY <1>0, SMTT(30) DEF Authorize, PlaceInv, Preparing, Replacing, Confirming,
      Undoing, AtAction, Outcome, Moved, MayFollow, Live, Terminal
<1>4. BackupInv'
  BY <1>0, SMTT(30) DEF Authorize, BackupInv, OldVersionIsCopied, Replacing, Outcome,
      Moved, MayFollow, Live, Terminal
<1>5. FileInv'
  BY <1>0, SMTT(30) DEF Authorize, FileInv, IntentComesFirst, OldUntouched,
      NewUntouched, Undoing, Outcome, Moved, MayFollow, Live, Terminal
<1>6. ChildInv'
  BY <1>0, SMTT(30) DEF Authorize, ChildInv, Outcome, Moved, MayFollow, Live, Terminal
<1>7. CalmInv'
  BY <1>0, SMTT(30) DEF Authorize, CalmInv, Troubled, Planned, AtAction, AllOld,
      Outcome, Moved, MayFollow, Live, Terminal
<1> QED BY <1>1, <1>2, <1>3, <1>4, <1>5, <1>6, <1>7

\* The phase in which files may change, stored before the first backup.
LEMMA StartApplyingKeeps == Inv /\ StartApplying => Inv'
<1> SUFFICES ASSUME Inv, StartApplying PROVE Inv'
  OBVIOUS
<1> USE StepsFacts, IdFacts, BoundsAssumption DEF Inv, TypeOK, disk, work, used
<1>0. Outcome("applying", mem.step, "backup", "refused")
         /\ MayFollow(mem.phase, "applying")
    BY AdvanceOutcome, SMTT(30) DEF StartApplying, Phases, Terminal, Live, JournalInv,
      PlaceInv, Confirming
<1>1. TypeOK'
  BY <1>0, SMTT(30) DEF StartApplying, Places, Journals, Contents, Steps, Outcome,
      Moved, MayFollow, Live, Terminal
<1>2. JournalInv'
  BY <1>0, SMTT(30) DEF StartApplying, JournalInv, Journals, Preparing, Replacing,
      Confirming, Undoing, AtAction, Outcome, Moved, MayFollow, Live, Terminal
<1>3. PlaceInv'
  BY <1>0, SMTT(30) DEF StartApplying, PlaceInv, Preparing, Replacing, Confirming,
      Undoing, AtAction, Outcome, Moved, MayFollow, Live, Terminal
<1>4. BackupInv'
  BY <1>0, SMTT(30) DEF StartApplying, BackupInv, OldVersionIsCopied, Replacing,
      Outcome, Moved, MayFollow, Live, Terminal
<1>5. FileInv'
  BY <1>0, SMTT(30) DEF StartApplying, FileInv, IntentComesFirst, OldUntouched,
      NewUntouched, Undoing, Outcome, Moved, MayFollow, Live, Terminal
<1>6. ChildInv'
  BY <1>0, SMTT(30) DEF StartApplying, ChildInv, Outcome, Moved, MayFollow, Live,
      Terminal
<1>7. CalmInv'
  BY <1>0, SMTT(30) DEF StartApplying, CalmInv, Troubled, Planned, AtAction, AllOld,
      Outcome, Moved, MayFollow, Live, Terminal
<1> QED BY <1>1, <1>2, <1>3, <1>4, <1>5, <1>6, <1>7

\* apply_owned_files settles what apply refused.
LEMMA RefusedKeeps == Inv /\ Refused => Inv'
<1> SUFFICES ASSUME Inv, Refused PROVE Inv'
  OBVIOUS
<1> USE StepsFacts, IdFacts, BoundsAssumption DEF Inv, TypeOK, disk, work, used
<1>1. TypeOK'
  BY SMTT(30) DEF Refused, Places, Journals, Contents, Steps
<1>2. JournalInv'
  BY SMTT(30) DEF Refused, JournalInv, Journals, Preparing, Replacing, Confirming,
      Undoing, AtAction
<1>3. PlaceInv'
  BY SMTT(30) DEF Refused, PlaceInv, Preparing, Replacing, Confirming, Undoing,
      AtAction
<1>4. BackupInv'
  BY SMTT(30) DEF Refused, BackupInv, OldVersionIsCopied, Replacing
<1>5. FileInv'
  BY SMTT(30) DEF Refused, FileInv, IntentComesFirst, OldUntouched, NewUntouched,
      Undoing
<1>6. ChildInv'
  BY SMTT(30) DEF Refused, ChildInv
<1>7. CalmInv'
  BY SMTT(30) DEF Refused, CalmInv, Troubled, Planned, AtAction, AllOld
<1> QED BY <1>1, <1>2, <1>3, <1>4, <1>5, <1>6, <1>7

\* One backup, or the failure of it: the ones before it are made.
LEMMA MakeBackupKeeps == Inv /\ MakeBackup => Inv'
<1> SUFFICES ASSUME Inv, MakeBackup PROVE Inv'
  OBVIOUS
<1> USE StepsFacts, IdFacts, BoundsAssumption DEF Inv, TypeOK, disk, work, used
<1>1. TypeOK'
  <2>1. backup' \in [Steps -> {"missing", "old", "damaged"}]
    BY DEF MakeBackup
  <2>2. at' \in Steps /\ pc' \in {"backup", "intend", "backed_up", "recover"}
    BY NextOrFacts DEF MakeBackup
  <2>3. faults' \in 0 .. MaxFaults
    BY DEF MakeBackup
  <2> QED BY <2>1, <2>2, <2>3 DEF MakeBackup, Places
<1>2. JournalInv'
  BY SMTT(30) DEF MakeBackup, JournalInv, Journals, Preparing, Replacing, Confirming,
      Undoing, AtAction, NextOr
<1>3. PlaceInv'
  BY SMTT(30) DEF MakeBackup, PlaceInv, Preparing, Replacing, Confirming, Undoing,
      AtAction, NextOr
<1>4. BackupInv'
  <2> USE DEF MakeBackup, BackupInv, OldVersionIsCopied, Replacing, JournalInv,
              PlaceInv, Preparing
  <2>1. CASE pc' = "recover"
    BY <2>1
  <2>2. CASE pc' = "backed_up"
    BY <2>2, NextOrFacts
  <2>3. CASE at \in Added /\ NextOr("backup", "intend") /\ UNCHANGED backup
    BY <2>3, NextOrFacts
  <2> QED BY <2>1, <2>2, <2>3
<1>5. FileInv'
  BY SMTT(30) DEF MakeBackup, FileInv, IntentComesFirst, OldUntouched, NewUntouched,
      Undoing, NextOr
<1>6. ChildInv'
  BY SMTT(30) DEF MakeBackup, ChildInv, NextOr
<1>7. CalmInv'
  BY SMTT(30) DEF MakeBackup, CalmInv, Troubled, Planned, AtAction, AllOld, NextOr
<1> QED BY <1>1, <1>2, <1>3, <1>4, <1>5, <1>6, <1>7

\* The file is checked again after its copy.
LEMMA RecheckBackedUpKeeps == Inv /\ RecheckBackedUp => Inv'
<1> SUFFICES ASSUME Inv, RecheckBackedUp PROVE Inv'
  OBVIOUS
<1> USE StepsFacts, IdFacts, BoundsAssumption DEF Inv, TypeOK, disk, work, used
<1>1. TypeOK'
  BY SMTT(30) DEF RecheckBackedUp, Places, Journals, Contents, Steps, NextOr
<1>2. JournalInv'
  BY SMTT(30) DEF RecheckBackedUp, JournalInv, Journals, Preparing, Replacing,
      Confirming, Undoing, AtAction, NextOr
<1>3. PlaceInv'
  BY SMTT(30) DEF RecheckBackedUp, PlaceInv, Preparing, Replacing, Confirming,
      Undoing, AtAction, NextOr
<1>4. BackupInv'
  BY SMTT(30) DEF RecheckBackedUp, BackupInv, OldVersionIsCopied, Replacing, NextOr
<1>5. FileInv'
  BY SMTT(30) DEF RecheckBackedUp, FileInv, IntentComesFirst, OldUntouched,
      NewUntouched, Undoing, NextOr
<1>6. ChildInv'
  BY SMTT(30) DEF RecheckBackedUp, ChildInv, NextOr
<1>7. CalmInv'
  BY SMTT(30) DEF RecheckBackedUp, CalmInv, Troubled, Planned, AtAction, AllOld,
      NextOr
<1> QED BY <1>1, <1>2, <1>3, <1>4, <1>5, <1>6, <1>7

\* The intent of a step; from here on its file may change.
LEMMA RecordIntentKeeps == Inv /\ RecordIntent => Inv'
<1> SUFFICES ASSUME Inv, RecordIntent PROVE Inv'
  OBVIOUS
<1> USE StepsFacts, IdFacts, BoundsAssumption DEF Inv, TypeOK, disk, work, used
<1>0. Outcome(mem.phase, [mem.step EXCEPT ![at] = "intent"], "bind", "recover")
  BY StepOutcome DEF RecordIntent, StepStates
<1>1. TypeOK'
  BY <1>0, SMTT(30) DEF RecordIntent, Places, Journals, Contents, Steps, Outcome,
      Moved, MayFollow, Live, Terminal
<1>2. JournalInv'
  BY <1>0, SMTT(30) DEF RecordIntent, JournalInv, Journals, Preparing, Replacing,
      Confirming, Undoing, AtAction, Outcome, Moved, MayFollow, Live, Terminal
<1>3. PlaceInv'
  BY <1>0, SMTT(30) DEF RecordIntent, PlaceInv, Preparing, Replacing, Confirming,
      Undoing, AtAction, JournalInv, Journals, Outcome, Moved, MayFollow, Live, Terminal
<1>4. BackupInv'
  BY <1>0, SMTT(30) DEF RecordIntent, BackupInv, OldVersionIsCopied, Replacing,
      Outcome, Moved, MayFollow, Live, Terminal
<1>5. FileInv'
  BY <1>0, SMTT(30) DEF RecordIntent, FileInv, IntentComesFirst, OldUntouched,
      NewUntouched, Undoing, JournalInv, PlaceInv, Preparing, Replacing, Confirming,
      AtAction, Journals, Outcome, Moved, MayFollow, Live, Terminal
<1>6. ChildInv'
  BY <1>0, SMTT(30) DEF RecordIntent, ChildInv, Outcome, Moved, MayFollow, Live,
      Terminal
<1>7. CalmInv'
  BY <1>0, SMTT(30) DEF RecordIntent, CalmInv, Troubled, Planned, AtAction, AllOld,
      Outcome, Moved, MayFollow, Live, Terminal
<1> QED BY <1>1, <1>2, <1>3, <1>4, <1>5, <1>6, <1>7

\* The very file that was verified is held.
LEMMA BindTargetKeeps == Inv /\ BindTarget => Inv'
<1> SUFFICES ASSUME Inv, BindTarget PROVE Inv'
  OBVIOUS
<1> USE StepsFacts, IdFacts, BoundsAssumption DEF Inv, TypeOK, disk, work, used
<1>1. TypeOK'
  BY SMTT(30) DEF BindTarget, Places, Journals, Contents, Steps
<1>2. JournalInv'
  BY SMTT(30) DEF BindTarget, JournalInv, Journals, Preparing, Replacing, Confirming,
      Undoing, AtAction
<1>3. PlaceInv'
  BY SMTT(30) DEF BindTarget, PlaceInv, Preparing, Replacing, Confirming, Undoing,
      AtAction
<1>4. BackupInv'
  BY SMTT(30) DEF BindTarget, BackupInv, OldVersionIsCopied, Replacing
<1>5. FileInv'
  BY SMTT(30) DEF BindTarget, FileInv, IntentComesFirst, OldUntouched, NewUntouched,
      Undoing
<1>6. ChildInv'
  BY SMTT(30) DEF BindTarget, ChildInv
<1>7. CalmInv'
  BY SMTT(30) DEF BindTarget, CalmInv, Troubled, Planned, AtAction, AllOld
<1> QED BY <1>1, <1>2, <1>3, <1>4, <1>5, <1>6, <1>7

\* The first half of a replacement.
LEMMA MoveAsideKeeps == Inv /\ MoveAside => Inv'
<1> SUFFICES ASSUME Inv, MoveAside PROVE Inv'
  OBVIOUS
<1> USE StepsFacts, IdFacts, BoundsAssumption DEF Inv, TypeOK, disk, work, used
<1>1. TypeOK'
  BY SMTT(30) DEF MoveAside, Places, Journals, Contents, Steps
<1>2. JournalInv'
  BY SMTT(30) DEF MoveAside, JournalInv, Journals, Preparing, Replacing, Confirming,
      Undoing, AtAction
<1>3. PlaceInv'
  BY SMTT(30) DEF MoveAside, PlaceInv, Preparing, Replacing, Confirming, Undoing,
      AtAction
<1>4. BackupInv'
  BY SMTT(30) DEF MoveAside, BackupInv, OldVersionIsCopied, Replacing
<1>5. FileInv'
  BY SMTT(30) DEF MoveAside, FileInv, IntentComesFirst, OldUntouched, NewUntouched,
      Undoing, JournalInv, PlaceInv, Preparing, Replacing, Confirming, AtAction
<1>6. ChildInv'
  BY SMTT(30) DEF MoveAside, ChildInv
<1>7. CalmInv'
  BY SMTT(30) DEF MoveAside, CalmInv, Troubled, Planned, AtAction, AllOld
<1> QED BY <1>1, <1>2, <1>3, <1>4, <1>5, <1>6, <1>7

\* The second half, its failure, and the failure to move the old file
\* back.
LEMMA MoveInKeeps == Inv /\ MoveIn => Inv'
<1> SUFFICES ASSUME Inv, MoveIn PROVE Inv'
  OBVIOUS
<1> USE StepsFacts, IdFacts, BoundsAssumption DEF Inv, TypeOK, disk, work, used
<1>1. TypeOK'
  BY SMTT(30) DEF MoveIn, Places, Journals, Contents, Steps
<1>2. JournalInv'
  BY SMTT(30) DEF MoveIn, JournalInv, Journals, Preparing, Replacing, Confirming,
      Undoing, AtAction
<1>3. PlaceInv'
  BY SMTT(30) DEF MoveIn, PlaceInv, Preparing, Replacing, Confirming, Undoing,
      AtAction
<1>4. BackupInv'
  BY SMTT(30) DEF MoveIn, BackupInv, OldVersionIsCopied, Replacing
<1>5. FileInv'
  BY SMTT(30) DEF MoveIn, FileInv, IntentComesFirst, OldUntouched, NewUntouched,
      Undoing
<1>6. ChildInv'
  BY SMTT(30) DEF MoveIn, ChildInv
<1>7. CalmInv'
  BY SMTT(30) DEF MoveIn, CalmInv, Troubled, Planned, AtAction, AllOld
<1> QED BY <1>1, <1>2, <1>3, <1>4, <1>5, <1>6, <1>7

\* A removal or an addition, and their failures.
LEMMA RemoveOrAddKeeps == Inv /\ RemoveOrAdd => Inv'
<1> SUFFICES ASSUME Inv, RemoveOrAdd PROVE Inv'
  OBVIOUS
<1> USE StepsFacts, IdFacts, BoundsAssumption DEF Inv, TypeOK, disk, work, used
<1>1. TypeOK'
  BY SMTT(30) DEF RemoveOrAdd, Places, Journals, Contents, Steps
<1>2. JournalInv'
  BY SMTT(30) DEF RemoveOrAdd, JournalInv, Journals, Preparing, Replacing, Confirming,
      Undoing, AtAction
<1>3. PlaceInv'
  BY SMTT(30) DEF RemoveOrAdd, PlaceInv, Preparing, Replacing, Confirming, Undoing,
      AtAction
<1>4. BackupInv'
  BY SMTT(30) DEF RemoveOrAdd, BackupInv, OldVersionIsCopied, Replacing
<1>5. FileInv'
  BY SMTT(30) DEF RemoveOrAdd, FileInv, IntentComesFirst, OldUntouched, NewUntouched,
      Undoing, JournalInv, PlaceInv, Preparing, Replacing, Confirming, AtAction
<1>6. ChildInv'
  BY SMTT(30) DEF RemoveOrAdd, ChildInv
<1>7. CalmInv'
  BY SMTT(30) DEF RemoveOrAdd, CalmInv, Troubled, Planned, AtAction, AllOld
<1> QED BY <1>1, <1>2, <1>3, <1>4, <1>5, <1>6, <1>7

\* The install root was lost before the change.
LEMMA ChangeRefusedKeeps == Inv /\ ChangeRefused => Inv'
<1> SUFFICES ASSUME Inv, ChangeRefused PROVE Inv'
  OBVIOUS
<1> USE StepsFacts, IdFacts, BoundsAssumption DEF Inv, TypeOK, disk, work, used
<1>1. TypeOK'
  BY SMTT(30) DEF ChangeRefused, Places, Journals, Contents, Steps
<1>2. JournalInv'
  BY SMTT(30) DEF ChangeRefused, JournalInv, Journals, Preparing, Replacing,
      Confirming, Undoing, AtAction
<1>3. PlaceInv'
  BY SMTT(30) DEF ChangeRefused, PlaceInv, Preparing, Replacing, Confirming, Undoing,
      AtAction
<1>4. BackupInv'
  BY SMTT(30) DEF ChangeRefused, BackupInv, OldVersionIsCopied, Replacing
<1>5. FileInv'
  BY SMTT(30) DEF ChangeRefused, FileInv, IntentComesFirst, OldUntouched,
      NewUntouched, Undoing
<1>6. ChildInv'
  BY SMTT(30) DEF ChangeRefused, ChildInv
<1>7. CalmInv'
  BY SMTT(30) DEF ChangeRefused, CalmInv, Troubled, Planned, AtAction, AllOld
<1> QED BY <1>1, <1>2, <1>3, <1>4, <1>5, <1>6, <1>7

\* A step is recorded as applied.
LEMMA RecordAppliedKeeps == Inv /\ RecordApplied => Inv'
<1> SUFFICES ASSUME Inv, RecordApplied PROVE Inv'
  OBVIOUS
<1> USE StepsFacts, IdFacts, BoundsAssumption DEF Inv, TypeOK, disk, work, used
<1>0. Outcome(mem.phase, [mem.step EXCEPT ![at] = "applied"], "next", "recover")
  BY StepOutcome DEF RecordApplied, StepStates
<1>1. TypeOK'
  BY <1>0, SMTT(30) DEF RecordApplied, Places, Journals, Contents, Steps, Outcome,
      Moved, MayFollow, Live, Terminal
<1>2. JournalInv'
  BY <1>0, SMTT(30) DEF RecordApplied, JournalInv, Journals, Preparing, Replacing,
      Confirming, Undoing, AtAction, Outcome, Moved, MayFollow, Live, Terminal
<1>3. PlaceInv'
  BY <1>0, SMTT(30) DEF RecordApplied, PlaceInv, Preparing, Replacing, Confirming,
      Undoing, AtAction, Outcome, Moved, MayFollow, Live, Terminal
<1>4. BackupInv'
  BY <1>0, SMTT(30) DEF RecordApplied, BackupInv, OldVersionIsCopied, Replacing,
      Outcome, Moved, MayFollow, Live, Terminal
<1>5. FileInv'
  BY <1>0, SMTT(30) DEF RecordApplied, FileInv, IntentComesFirst, OldUntouched,
      NewUntouched, Undoing, JournalInv, PlaceInv, Preparing, Replacing, Confirming,
      AtAction, Journals, Outcome, Moved, MayFollow, Live, Terminal
<1>6. ChildInv'
  BY <1>0, SMTT(30) DEF RecordApplied, ChildInv, Outcome, Moved, MayFollow, Live,
      Terminal
<1>7. CalmInv'
  BY <1>0, SMTT(30) DEF RecordApplied, CalmInv, Troubled, Planned, AtAction, AllOld,
      Outcome, Moved, MayFollow, Live, Terminal
<1> QED BY <1>1, <1>2, <1>3, <1>4, <1>5, <1>6, <1>7

\* On to the next step, or to the check of the whole.
LEMMA NextStepKeeps == Inv /\ NextStep => Inv'
<1> SUFFICES ASSUME Inv, NextStep PROVE Inv'
  OBVIOUS
<1> USE StepsFacts, IdFacts, BoundsAssumption DEF Inv, TypeOK, disk, work, used
<1>1. TypeOK'
  BY SMTT(30) DEF NextStep, Places, Journals, Contents, Steps, NextOr
<1>2. JournalInv'
  BY SMTT(30) DEF NextStep, JournalInv, Journals, Preparing, Replacing, Confirming,
      Undoing, AtAction, NextOr
<1>3. PlaceInv'
  BY SMTT(30) DEF NextStep, PlaceInv, Preparing, Replacing, Confirming, Undoing,
      AtAction, NextOr
<1>4. BackupInv'
  BY SMTT(30) DEF NextStep, BackupInv, OldVersionIsCopied, Replacing, NextOr
<1>5. FileInv'
  BY SMTT(30) DEF NextStep, FileInv, IntentComesFirst, OldUntouched, NewUntouched,
      Undoing, NextOr
<1>6. ChildInv'
  BY SMTT(30) DEF NextStep, ChildInv, NextOr
<1>7. CalmInv'
  BY SMTT(30) DEF NextStep, CalmInv, Troubled, Planned, AtAction, AllOld, NextOr
<1> QED BY <1>1, <1>2, <1>3, <1>4, <1>5, <1>6, <1>7

\* Only a complete new version is handed to the health check.
LEMMA VerifyAppliedKeeps == Inv /\ VerifyApplied => Inv'
<1> SUFFICES ASSUME Inv, VerifyApplied PROVE Inv'
  OBVIOUS
<1> USE StepsFacts, IdFacts, BoundsAssumption DEF Inv, TypeOK, disk, work, used
<1>0. \/ rooted /\ AllNew /\ unchanged /\ Outcome("awaiting", mem.step, "launch", "recover")
         /\ MayFollow(mem.phase, "awaiting")
      \/ UNCHANGED <<jrn, mem, faults>> /\ pc' = "recover"
    BY AdvanceOutcome, SMTT(30) DEF VerifyApplied, Phases, Terminal, Live, JournalInv,
      PlaceInv, Confirming
<1>1. TypeOK'
  BY <1>0, SMTT(30) DEF VerifyApplied, Places, Journals, Contents, Steps, Outcome,
      Moved, MayFollow, Live, Terminal
<1>2. JournalInv'
  BY <1>0, SMTT(30) DEF VerifyApplied, JournalInv, Journals, Preparing, Replacing,
      Confirming, Undoing, AtAction, Outcome, Moved, MayFollow, Live, Terminal
<1>3. PlaceInv'
  BY <1>0, SMTT(30) DEF VerifyApplied, PlaceInv, Preparing, Replacing, Confirming,
      Undoing, AtAction, Outcome, Moved, MayFollow, Live, Terminal
<1>4. BackupInv'
  BY <1>0, SMTT(30) DEF VerifyApplied, BackupInv, OldVersionIsCopied, Replacing,
      Outcome, Moved, MayFollow, Live, Terminal
<1>5. FileInv'
  BY <1>0, SMTT(30) DEF VerifyApplied, FileInv, IntentComesFirst, OldUntouched,
      NewUntouched, Undoing, Outcome, Moved, MayFollow, Live, Terminal
<1>6. ChildInv'
  BY <1>0, SMTT(30) DEF VerifyApplied, ChildInv, Outcome, Moved, MayFollow, Live,
      Terminal
<1>7. CalmInv'
  BY <1>0, SMTT(30) DEF VerifyApplied, CalmInv, Troubled, Planned, AtAction, AllOld,
      Outcome, Moved, MayFollow, Live, Terminal
<1> QED BY <1>1, <1>2, <1>3, <1>4, <1>5, <1>6, <1>7

-----------------------------------------------------------------------------
(* The health check: apply_and_settle, conclude_with_child, conclude_health. *)

\* The child is started in the phase that waits for it.
LEMMA LaunchKeeps == Inv /\ Launch => Inv'
<1> SUFFICES ASSUME Inv, Launch PROVE Inv'
  OBVIOUS
<1> USE StepsFacts, IdFacts, BoundsAssumption DEF Inv, TypeOK, disk, work, used
<1>1. TypeOK'
  BY SMTT(30) DEF Launch, Places, Journals, Contents, Steps
<1>2. JournalInv'
  BY SMTT(30) DEF Launch, JournalInv, Journals, Preparing, Replacing, Confirming,
      Undoing, AtAction
<1>3. PlaceInv'
  BY SMTT(30) DEF Launch, PlaceInv, Preparing, Replacing, Confirming, Undoing,
      AtAction
<1>4. BackupInv'
  BY SMTT(30) DEF Launch, BackupInv, OldVersionIsCopied, Replacing
<1>5. FileInv'
  BY SMTT(30) DEF Launch, FileInv, IntentComesFirst, OldUntouched, NewUntouched,
      Undoing
<1>6. ChildInv'
  BY SMTT(30) DEF Launch, ChildInv, JournalInv, PlaceInv, Preparing, Replacing,
      Confirming, Undoing, AtAction
<1>7. CalmInv'
  BY SMTT(30) DEF Launch, CalmInv, Troubled, Planned, AtAction, AllOld
<1> QED BY <1>1, <1>2, <1>3, <1>4, <1>5, <1>6, <1>7

\* The child reports its health, or the rollback begins.
LEMMA AwaitHealthyKeeps == Inv /\ AwaitHealthy => Inv'
<1> SUFFICES ASSUME Inv, AwaitHealthy PROVE Inv'
  OBVIOUS
<1> USE StepsFacts, IdFacts, BoundsAssumption DEF Inv, TypeOK, disk, work, used
<1>1. TypeOK'
  BY SMTT(30) DEF AwaitHealthy, Places, Journals, Contents, Steps
<1>2. JournalInv'
  BY SMTT(30) DEF AwaitHealthy, JournalInv, Journals, Preparing, Replacing,
      Confirming, Undoing, AtAction
<1>3. PlaceInv'
  BY SMTT(30) DEF AwaitHealthy, PlaceInv, Preparing, Replacing, Confirming, Undoing,
      AtAction
<1>4. BackupInv'
  BY SMTT(30) DEF AwaitHealthy, BackupInv, OldVersionIsCopied, Replacing
<1>5. FileInv'
  BY SMTT(30) DEF AwaitHealthy, FileInv, IntentComesFirst, OldUntouched, NewUntouched,
      Undoing
<1>6. ChildInv'
  BY SMTT(30) DEF AwaitHealthy, ChildInv, JournalInv, PlaceInv, Preparing, Replacing,
      Confirming, Undoing, AtAction
<1>7. CalmInv'
  BY SMTT(30) DEF AwaitHealthy, CalmInv, Troubled, Planned, AtAction, AllOld
<1> QED BY <1>1, <1>2, <1>3, <1>4, <1>5, <1>6, <1>7

\* The installation is compared with the plan once more.
LEMMA VerifyBeforeCommitKeeps == Inv /\ VerifyBeforeCommit => Inv'
<1> SUFFICES ASSUME Inv, VerifyBeforeCommit PROVE Inv'
  OBVIOUS
<1> USE StepsFacts, IdFacts, BoundsAssumption DEF Inv, TypeOK, disk, work, used
<1>1. TypeOK'
  BY SMTT(30) DEF VerifyBeforeCommit, Places, Journals, Contents, Steps, AllNew
<1>2. JournalInv'
  BY SMTT(30) DEF VerifyBeforeCommit, JournalInv, Journals, Preparing, Replacing,
      Confirming, Undoing, AtAction, AllNew
<1>3. PlaceInv'
  BY SMTT(30) DEF VerifyBeforeCommit, PlaceInv, Preparing, Replacing, Confirming,
      Undoing, AtAction, AllNew
<1>4. BackupInv'
  BY SMTT(30) DEF VerifyBeforeCommit, BackupInv, OldVersionIsCopied, Replacing, AllNew
<1>5. FileInv'
  BY SMTT(30) DEF VerifyBeforeCommit, FileInv, IntentComesFirst, OldUntouched,
      NewUntouched, Undoing, AllNew
<1>6. ChildInv'
  BY SMTT(30) DEF VerifyBeforeCommit, ChildInv, AllNew
<1>7. CalmInv'
  BY SMTT(30) DEF VerifyBeforeCommit, CalmInv, Troubled, Planned, AtAction, AllOld,
      AllNew
<1> QED BY <1>1, <1>2, <1>3, <1>4, <1>5, <1>6, <1>7

\* The commit is stored while every file is the new one.
LEMMA CommitKeeps == Inv /\ Commit => Inv'
<1> SUFFICES ASSUME Inv, Commit PROVE Inv'
  OBVIOUS
<1> USE StepsFacts, IdFacts, BoundsAssumption DEF Inv, TypeOK, disk, work, used
<1>0. Outcome("committed", mem.step, "notify", "recover")
         /\ MayFollow(mem.phase, "committed")
    BY AdvanceOutcome, SMTT(30) DEF Commit, Phases, Terminal, Live, JournalInv,
      PlaceInv, Confirming
<1>1. TypeOK'
  BY <1>0, SMTT(30) DEF Commit, Places, Journals, Contents, Steps, Outcome, Moved,
      MayFollow, Live, Terminal
<1>2. JournalInv'
  BY <1>0, SMTT(30) DEF Commit, JournalInv, Journals, Preparing, Replacing,
      Confirming, Undoing, AtAction, Outcome, Moved, MayFollow, Live, Terminal
<1>3. PlaceInv'
  BY <1>0, SMTT(30) DEF Commit, PlaceInv, Preparing, Replacing, Confirming, Undoing,
      AtAction, Outcome, Moved, MayFollow, Live, Terminal
<1>4. BackupInv'
  BY <1>0, SMTT(30) DEF Commit, BackupInv, OldVersionIsCopied, Replacing, Outcome,
      Moved, MayFollow, Live, Terminal
<1>5. FileInv'
  BY <1>0, SMTT(30) DEF Commit, FileInv, IntentComesFirst, OldUntouched, NewUntouched,
      Undoing, Outcome, Moved, MayFollow, Live, Terminal
<1>6. ChildInv'
  BY <1>0, SMTT(30) DEF Commit, ChildInv, Outcome, Moved, MayFollow, Live, Terminal
<1>7. CalmInv'
  BY <1>0, SMTT(30) DEF Commit, CalmInv, Troubled, Planned, AtAction, AllOld, Outcome,
      Moved, MayFollow, Live, Terminal
<1> QED BY <1>1, <1>2, <1>3, <1>4, <1>5, <1>6, <1>7

\* The child hears of a commit that is durable.
LEMMA SendCommitKeeps == Inv /\ SendCommit => Inv'
<1> SUFFICES ASSUME Inv, SendCommit PROVE Inv'
  OBVIOUS
<1> USE StepsFacts, IdFacts, BoundsAssumption DEF Inv, TypeOK, disk, work, used
<1>1. TypeOK'
  BY SMTT(30) DEF SendCommit, Places, Journals, Contents, Steps
<1>2. JournalInv'
  BY SMTT(30) DEF SendCommit, JournalInv, Journals, Preparing, Replacing, Confirming,
      Undoing, AtAction
<1>3. PlaceInv'
  BY SMTT(30) DEF SendCommit, PlaceInv, Preparing, Replacing, Confirming, Undoing,
      AtAction
<1>4. BackupInv'
  BY SMTT(30) DEF SendCommit, BackupInv, OldVersionIsCopied, Replacing
<1>5. FileInv'
  BY SMTT(30) DEF SendCommit, FileInv, IntentComesFirst, OldUntouched, NewUntouched,
      Undoing
<1>6. ChildInv'
  BY SMTT(30) DEF SendCommit, ChildInv
<1>7. CalmInv'
  BY SMTT(30) DEF SendCommit, CalmInv, Troubled, Planned, AtAction, AllOld
<1> QED BY <1>1, <1>2, <1>3, <1>4, <1>5, <1>6, <1>7

-----------------------------------------------------------------------------
(* Recovery: recover, settle_old, perform, require. *)

\* What decide_recovery has seen when it decides for the old version or for a
\* rollback.
LEMMA DecisionFacts ==
  /\ Decision \in {"keep_old", "keep_new", "required", "roll_back"}
  /\ Decision = "keep_old" => AllOld /\ unchanged
  /\ Decision = "roll_back" =>
       /\ mem.phase \notin {"committed", "rolled_back", "prepared", "authorized",
                            "required"}
       /\ \A i \in Steps : Recoverable(i)
BY SMTT(30) DEF Decision, AllOld

\* A death alone leaves nothing for a person to do: as long as nobody has
\* interfered, decide_recovery never asks for one, and finds the old version
\* after the last action.
LEMMA CalmDecision ==
  ASSUME Inv, pc \in {"recover", "undone_all"}, ~Troubled
  PROVE  /\ rooted
         /\ Decision # "required"
         /\ pc = "undone_all" => Decision = "keep_old"
<1>1. jrn = mem /\ touched = {} /\ unchanged /\ rooted
  BY DEF Inv, CalmInv, Troubled
<1>2. mem.phase # "required"
  BY <1>1 DEF Inv, JournalInv
<1>3. mem.phase = "committed" => AllNew
  BY <1>1 DEF Inv, FileInv, NewUntouched, AllNew
<1>4. mem.phase \in {"rolled_back", "prepared", "authorized"} => AllOld
  BY <1>1 DEF Inv, FileInv, OldUntouched, AllOld
<1>5. \A i \in Steps : Recoverable(i)
  <2> SUFFICES ASSUME NEW i \in Steps, file[i] # OldId[i] PROVE Recoverable(i)
    BY DEF Recoverable
  <2>1. file[i] \in {NewId[i], "missing"} /\ jrn.step[i] # "planned"
    BY <1>1 DEF Inv, FileInv, IntentComesFirst
  <2>2. i \in Added \/ backup[i] = "old"
    BY <2>1 DEF Inv, BackupInv, OldVersionIsCopied
  <2> QED BY <2>1, <2>2, IdFacts DEF Recoverable, Emptied
<1>6. pc = "undone_all" => AllOld /\ mem.phase = "rolling_back"
  BY DEF Inv, CalmInv, PlaceInv
<1> QED BY <1>1, <1>2, <1>3, <1>4, <1>5, <1>6 DEF Decision, AllOld

\* apply_owned_files calls recover once more.
LEMMA RecoverAgainKeeps == Inv /\ RecoverAgain => Inv'
<1> SUFFICES ASSUME Inv, RecoverAgain PROVE Inv'
  OBVIOUS
<1> USE StepsFacts, IdFacts, BoundsAssumption DEF Inv, TypeOK, disk, work, used
<1>1. TypeOK'
  BY SMTT(30) DEF RecoverAgain, Places, Journals, Contents, Steps
<1>2. JournalInv'
  BY SMTT(30) DEF RecoverAgain, JournalInv, Journals, Preparing, Replacing,
      Confirming, Undoing, AtAction
<1>3. PlaceInv'
  BY SMTT(30) DEF RecoverAgain, PlaceInv, Preparing, Replacing, Confirming, Undoing,
      AtAction
<1>4. BackupInv'
  BY SMTT(30) DEF RecoverAgain, BackupInv, OldVersionIsCopied, Replacing
<1>5. FileInv'
  BY SMTT(30) DEF RecoverAgain, FileInv, IntentComesFirst, OldUntouched, NewUntouched,
      Undoing
<1>6. ChildInv'
  BY SMTT(30) DEF RecoverAgain, ChildInv
<1>7. CalmInv'
  BY SMTT(30) DEF RecoverAgain, CalmInv, Troubled, Planned, AtAction, AllOld
<1> QED BY <1>1, <1>2, <1>3, <1>4, <1>5, <1>6, <1>7

\* What is planned is what the disk asks for, and nothing is planned where
\* the old version already is.
LEMMA RecoverKeeps == Inv /\ Recover => Inv'
<1> SUFFICES ASSUME Inv, Recover PROVE Inv'
  OBVIOUS
<1> USE StepsFacts, IdFacts, BoundsAssumption DEF Inv, TypeOK, disk, work, used
<1>p. \/ plan' = plan
      \/ /\ pc' = "roll_back" /\ plan' \in [Steps -> Contents \cup {"none"}]
         /\ \A i \in Steps : plan'[i] \in {"none", "missing", NewId[i]}
  <2> SUFFICES ASSUME plan' # plan
               PROVE  /\ pc' = "roll_back" /\ plan' \in [Steps -> Contents \cup {"none"}]
                      /\ \A i \in Steps : plan'[i] \in {"none", "missing", NewId[i]}
    OBVIOUS
  <2>1. /\ pc' = "roll_back" /\ Decision = "roll_back"
        /\ plan' = [i \in Steps |-> ActionFor(i)]
    BY DEF Recover
  <2>2. ASSUME NEW i \in Steps
        PROVE  /\ ActionFor(i) \in {"none", "missing", NewId[i]}
               /\ ActionFor(i) \in Contents \cup {"none"}
    BY <2>1, DecisionFacts DEF Recoverable, Emptied, ActionFor
  <2> HIDE DEF ActionFor
  <2> QED BY <2>1, <2>2
<1>1. TypeOK'
    BY <1>p, DecisionFacts, SMTT(30) DEF Recover, Places, Failed, Done
<1>2. JournalInv'
    BY DecisionFacts, SMTT(30) DEF Recover, JournalInv, Journals, Preparing, Replacing,
      Confirming, Undoing, AtAction, Outcome, Moved, MayFollow, Live, Terminal,
      RequiresChildExit, Failed, Done
<1>3. PlaceInv'
    BY <1>p, DecisionFacts, SMTT(30) DEF Recover, PlaceInv, Preparing, Replacing,
      Confirming, Undoing, AtAction, Failed, Done
<1>4. BackupInv'
    BY DecisionFacts, SMTT(30) DEF Recover, BackupInv, OldVersionIsCopied, Replacing,
      Outcome, Moved, MayFollow, Live, Terminal, RequiresChildExit, Failed, Done
<1>5. FileInv'
  <2> USE DEF FileInv, IntentComesFirst, OldUntouched, NewUntouched, Undoing
  <2>1. CASE pc' = "settle"
    <3>1. AllOld
      BY <2>1, DecisionFacts DEF Recover, Done, Failed
    <3> QED BY <2>1, <3>1, SMTT(30) DEF Recover, AllOld
  <2>2. CASE pc' = "roll_back"
    <3>1. jrn.phase = "rolled_back" => \A i \in Steps \ touched : ActionFor(i) = "none"
      BY DEF ActionFor
    <3>2. plan' = [i \in Steps |-> ActionFor(i)]
      BY <2>2 DEF Recover, Done, Failed
    <3> HIDE DEF ActionFor
    <3> QED BY <2>2, <3>1, <3>2, SMTT(30) DEF Recover
  <2>3. CASE pc' \in {"seal", "end", "retry", "require"}
    BY <2>3, SMTT(30) DEF Recover
  <2> QED BY <2>1, <2>2, <2>3 DEF Recover, Done, Failed
<1>6. ChildInv'
    BY DecisionFacts, SMTT(30) DEF Recover, ChildInv, Outcome, Moved, MayFollow, Live,
      Terminal, RequiresChildExit, Failed, Done
<1>7. CalmInv'
  <2> USE DEF CalmInv, Troubled, AtAction
  <2>1. CASE pc' = "roll_back"
    <3>1. plan' = [i \in Steps |-> ActionFor(i)]
      BY <2>1 DEF Recover, Done, Failed
    <3>2. \A i \in Steps : Planned(i)'
      BY <3>1 DEF Planned, ActionFor, Recover
    <3> QED BY <2>1, <3>2, SMTT(30) DEF Recover
  <2>2. CASE pc' \in {"seal", "end", "retry", "settle"}
    BY <2>2, SMTT(30) DEF Recover, AllOld, Planned
  <2>3. CASE pc' = "require"
    BY <2>3, CalmDecision, SMTT(30) DEF Recover, Done, Failed
  <2> QED BY <2>1, <2>2, <2>3 DEF Recover, Done, Failed
<1> QED BY <1>1, <1>2, <1>3, <1>4, <1>5, <1>6, <1>7

\* The disk is at the old version, only the journal moves.
LEMMA SettleOldKeeps == Inv /\ SettleOld => Inv'
<1> SUFFICES ASSUME Inv, SettleOld PROVE Inv'
  OBVIOUS
<1> USE StepsFacts, IdFacts, BoundsAssumption DEF Inv, TypeOK, disk, work, used
<1>0. \/ mem.phase \in {"prepared", "authorized", "rolling_back"}
         /\ Outcome("rolled_back", mem.step, Done, Failed)
         /\ MayFollow(mem.phase, "rolled_back")
      \/ mem.phase \in {"applying", "awaiting"}
         /\ Outcome("rolling_back", mem.step, "settle", Failed)
         /\ MayFollow(mem.phase, "rolling_back")
      \/ UNCHANGED <<jrn, mem, faults>> /\ pc' = Done /\ mem.phase \in Terminal
    BY AdvanceOutcome, SMTT(30) DEF SettleOld, Phases, Terminal, Live, JournalInv,
      PlaceInv, Confirming
<1>1. TypeOK'
  BY <1>0, SMTT(30) DEF SettleOld, Places, Journals, Contents, Steps, Outcome, Moved,
      MayFollow, Live, Terminal, Failed, Done
<1>2. JournalInv'
  BY <1>0, SMTT(30) DEF SettleOld, JournalInv, Journals, Preparing, Replacing,
      Confirming, Undoing, AtAction, Outcome, Moved, MayFollow, Live, Terminal, Failed,
      Done
<1>3. PlaceInv'
  BY <1>0, SMTT(30) DEF SettleOld, PlaceInv, Preparing, Replacing, Confirming,
      Undoing, AtAction, Outcome, Moved, MayFollow, Live, Terminal, Failed, Done
<1>4. BackupInv'
  BY <1>0, SMTT(30) DEF SettleOld, BackupInv, OldVersionIsCopied, Replacing, Outcome,
      Moved, MayFollow, Live, Terminal, Failed, Done
<1>5. FileInv'
  BY <1>0, SMTT(30) DEF SettleOld, FileInv, IntentComesFirst, OldUntouched,
      NewUntouched, Undoing, Outcome, Moved, MayFollow, Live, Terminal, Failed, Done
<1>6. ChildInv'
  BY <1>0, SMTT(30) DEF SettleOld, ChildInv, Outcome, Moved, MayFollow, Live,
      Terminal, Failed, Done
<1>7. CalmInv'
  BY <1>0, SMTT(30) DEF SettleOld, CalmInv, Troubled, Planned, AtAction, AllOld,
      Outcome, Moved, MayFollow, Live, Terminal, Failed, Done
<1> QED BY <1>1, <1>2, <1>3, <1>4, <1>5, <1>6, <1>7

\* RecoveryRequired is a verdict of trouble only.
LEMMA RequireKeeps == Inv /\ Require => Inv'
<1> SUFFICES ASSUME Inv, Require PROVE Inv'
  OBVIOUS
<1> USE StepsFacts, IdFacts, BoundsAssumption DEF Inv, TypeOK, disk, work, used
<1>0. \/ Outcome("required", mem.step, Done, Done)
         /\ MayFollow(mem.phase, "required")
      \/ UNCHANGED <<jrn, mem, faults>> /\ pc' = Done
    BY AdvanceOutcome, SMTT(30) DEF Require, Phases, Terminal, Live, JournalInv,
      PlaceInv, Confirming
<1>1. TypeOK'
  BY <1>0, SMTT(30) DEF Require, Places, Journals, Contents, Steps, Outcome, Moved,
      MayFollow, Live, Terminal, Failed, Done
<1>2. JournalInv'
  BY <1>0, SMTT(30) DEF Require, JournalInv, Journals, Preparing, Replacing,
      Confirming, Undoing, AtAction, Outcome, Moved, MayFollow, Live, Terminal, Failed,
      Done
<1>3. PlaceInv'
  BY <1>0, SMTT(30) DEF Require, PlaceInv, Preparing, Replacing, Confirming, Undoing,
      AtAction, Outcome, Moved, MayFollow, Live, Terminal, Failed, Done
<1>4. BackupInv'
  BY <1>0, SMTT(30) DEF Require, BackupInv, OldVersionIsCopied, Replacing, Outcome,
      Moved, MayFollow, Live, Terminal, Failed, Done
<1>5. FileInv'
  BY <1>0, SMTT(30) DEF Require, FileInv, IntentComesFirst, OldUntouched,
      NewUntouched, Undoing, Outcome, Moved, MayFollow, Live, Terminal, Failed, Done
<1>6. ChildInv'
  BY <1>0, SMTT(30) DEF Require, ChildInv, Outcome, Moved, MayFollow, Live, Terminal,
      Failed, Done
<1>7. CalmInv'
  BY <1>0, SMTT(30) DEF Require, CalmInv, Troubled, Planned, AtAction, AllOld,
      Outcome, Moved, MayFollow, Live, Terminal, Failed, Done
<1> QED BY <1>1, <1>2, <1>3, <1>4, <1>5, <1>6, <1>7

\* The rollback is announced before any of its actions.
LEMMA BeginRollbackKeeps == Inv /\ BeginRollback => Inv'
<1> SUFFICES ASSUME Inv, BeginRollback PROVE Inv'
  OBVIOUS
<1> USE StepsFacts, IdFacts, BoundsAssumption DEF Inv, TypeOK, disk, work, used
<1>0. \/ mem.phase \in {"applying", "awaiting"}
         /\ Outcome("rolling_back", mem.step, "check_intents", Failed)
         /\ MayFollow(mem.phase, "rolling_back")
      \/ mem.phase = "rolling_back" /\ UNCHANGED <<jrn, mem, faults>>
         /\ pc' = "check_intents"
    BY AdvanceOutcome, SMTT(30) DEF BeginRollback, Phases, Terminal, Live, JournalInv,
      PlaceInv, Confirming
<1>1. TypeOK'
  BY <1>0, SMTT(30) DEF BeginRollback, Places, Journals, Contents, Steps, Outcome,
      Moved, MayFollow, Live, Terminal, Failed, Done
<1>2. JournalInv'
  BY <1>0, SMTT(30) DEF BeginRollback, JournalInv, Journals, Preparing, Replacing,
      Confirming, Undoing, AtAction, Outcome, Moved, MayFollow, Live, Terminal, Failed,
      Done
<1>3. PlaceInv'
  BY <1>0, SMTT(30) DEF BeginRollback, PlaceInv, Preparing, Replacing, Confirming,
      Undoing, AtAction, Outcome, Moved, MayFollow, Live, Terminal, Failed, Done
<1>4. BackupInv'
  BY <1>0, SMTT(30) DEF BeginRollback, BackupInv, OldVersionIsCopied, Replacing,
      Outcome, Moved, MayFollow, Live, Terminal, Failed, Done
<1>5. FileInv'
  BY <1>0, SMTT(30) DEF BeginRollback, FileInv, IntentComesFirst, OldUntouched,
      NewUntouched, Undoing, Outcome, Moved, MayFollow, Live, Terminal, Failed, Done
<1>6. ChildInv'
  BY <1>0, SMTT(30) DEF BeginRollback, ChildInv, Outcome, Moved, MayFollow, Live,
      Terminal, Failed, Done
<1>7. CalmInv'
  BY <1>0, SMTT(30) DEF BeginRollback, CalmInv, Troubled, Planned, AtAction, AllOld,
      Outcome, Moved, MayFollow, Live, Terminal, Failed, Done
<1> QED BY <1>1, <1>2, <1>3, <1>4, <1>5, <1>6, <1>7

\* Every action has an intent: a calm rollback finds nothing to refuse.
LEMMA CheckIntentsKeeps == Inv /\ CheckIntents => Inv'
<1> SUFFICES ASSUME Inv, CheckIntents PROVE Inv'
  OBVIOUS
<1> USE StepsFacts, IdFacts, BoundsAssumption DEF Inv, TypeOK, disk, work, used
<1>1. TypeOK'
  BY SMTT(30) DEF CheckIntents, Places, Journals, Contents, Steps
<1>2. JournalInv'
  BY SMTT(30) DEF CheckIntents, JournalInv, Journals, Preparing, Replacing,
      Confirming, Undoing, AtAction
<1>3. PlaceInv'
  BY SMTT(30) DEF CheckIntents, PlaceInv, Preparing, Replacing, Confirming, Undoing,
      AtAction
<1>4. BackupInv'
  BY SMTT(30) DEF CheckIntents, BackupInv, OldVersionIsCopied, Replacing
<1>5. FileInv'
  BY SMTT(30) DEF CheckIntents, FileInv, IntentComesFirst, OldUntouched, NewUntouched,
      Undoing
<1>6. ChildInv'
  BY SMTT(30) DEF CheckIntents, ChildInv
<1>7. CalmInv'
  BY SMTT(30) DEF CheckIntents, CalmInv, Troubled, Planned, AtAction, AllOld,
      JournalInv, PlaceInv, Preparing, Replacing, Confirming, Undoing, FileInv,
      IntentComesFirst
<1> QED BY <1>1, <1>2, <1>3, <1>4, <1>5, <1>6, <1>7

\* The next action finds what it planned for, unless another program
\* interfered.
LEMMA CheckUndoKeeps == Inv /\ CheckUndo => Inv'
<1> SUFFICES ASSUME Inv, CheckUndo PROVE Inv'
  OBVIOUS
<1> USE StepsFacts, IdFacts, BoundsAssumption DEF Inv, TypeOK, disk, work, used
<1>1. TypeOK'
  BY SMTT(30) DEF CheckUndo, Places, Journals, Contents, Steps, Failed, Done,
      IsNextUndo
<1>2. JournalInv'
  BY SMTT(30) DEF CheckUndo, JournalInv, Journals, Preparing, Replacing, Confirming,
      Undoing, AtAction, Failed, Done, IsNextUndo
<1>3. PlaceInv'
  BY SMTT(30) DEF CheckUndo, PlaceInv, Preparing, Replacing, Confirming, Undoing,
      AtAction, Failed, Done, IsNextUndo
<1>4. BackupInv'
  BY SMTT(30) DEF CheckUndo, BackupInv, OldVersionIsCopied, Replacing, Failed, Done,
      IsNextUndo
<1>5. FileInv'
  BY SMTT(30) DEF CheckUndo, FileInv, IntentComesFirst, OldUntouched, NewUntouched,
      Undoing, Failed, Done, IsNextUndo
<1>6. ChildInv'
  BY SMTT(30) DEF CheckUndo, ChildInv, Failed, Done, IsNextUndo
<1>7. CalmInv'
  BY SMTT(30) DEF CheckUndo, CalmInv, Troubled, Planned, AtAction, AllOld, JournalInv,
      PlaceInv, Preparing, Replacing, Confirming, Undoing, BackupInv,
      OldVersionIsCopied, Failed, Done, IsNextUndo
<1> QED BY <1>1, <1>2, <1>3, <1>4, <1>5, <1>6, <1>7

\* A file is restored where nothing is, or an added one removed.
LEMMA UndoInPlaceKeeps == Inv /\ UndoInPlace => Inv'
<1> SUFFICES ASSUME Inv, UndoInPlace PROVE Inv'
  OBVIOUS
<1> USE StepsFacts, IdFacts, BoundsAssumption DEF Inv, TypeOK, disk, work, used
<1>1. TypeOK'
  BY SMTT(30) DEF UndoInPlace, Places, Journals, Contents, Steps, Failed, Done,
      MayFollow, Live
<1>2. JournalInv'
  BY SMTT(30) DEF UndoInPlace, JournalInv, Journals, Preparing, Replacing, Confirming,
      Undoing, AtAction, Failed, Done, MayFollow, Live
<1>3. PlaceInv'
  BY SMTT(30) DEF UndoInPlace, PlaceInv, Preparing, Replacing, Confirming, Undoing,
      AtAction, Failed, Done, MayFollow, Live
<1>4. BackupInv'
  BY SMTT(30) DEF UndoInPlace, BackupInv, OldVersionIsCopied, Replacing, Failed, Done,
      MayFollow, Live
<1>5. FileInv'
  BY SMTT(30) DEF UndoInPlace, FileInv, IntentComesFirst, OldUntouched, NewUntouched,
      Undoing, JournalInv, PlaceInv, Preparing, Replacing, Confirming, AtAction, Failed,
      Done, MayFollow, Live
<1>6. ChildInv'
  BY SMTT(30) DEF UndoInPlace, ChildInv, Failed, Done, MayFollow, Live
<1>7. CalmInv'
  BY SMTT(30) DEF UndoInPlace, CalmInv, Troubled, Planned, AtAction, AllOld, Failed,
      Done, MayFollow, Live
<1> QED BY <1>1, <1>2, <1>3, <1>4, <1>5, <1>6, <1>7

\* The new file is moved aside.
LEMMA UndoAsideKeeps == Inv /\ UndoAside => Inv'
<1> SUFFICES ASSUME Inv, UndoAside PROVE Inv'
  OBVIOUS
<1> USE StepsFacts, IdFacts, BoundsAssumption DEF Inv, TypeOK, disk, work, used
<1>1. TypeOK'
  BY SMTT(30) DEF UndoAside, Places, Journals, Contents, Steps, MayFollow, Live
<1>2. JournalInv'
  BY SMTT(30) DEF UndoAside, JournalInv, Journals, Preparing, Replacing, Confirming,
      Undoing, AtAction, MayFollow, Live
<1>3. PlaceInv'
  BY SMTT(30) DEF UndoAside, PlaceInv, Preparing, Replacing, Confirming, Undoing,
      AtAction, MayFollow, Live
<1>4. BackupInv'
  BY SMTT(30) DEF UndoAside, BackupInv, OldVersionIsCopied, Replacing, MayFollow, Live
<1>5. FileInv'
  BY SMTT(30) DEF UndoAside, FileInv, IntentComesFirst, OldUntouched, NewUntouched,
      Undoing, JournalInv, PlaceInv, Preparing, Replacing, Confirming, AtAction,
      MayFollow, Live
<1>6. ChildInv'
  BY SMTT(30) DEF UndoAside, ChildInv, MayFollow, Live
<1>7. CalmInv'
  BY SMTT(30) DEF UndoAside, CalmInv, Troubled, Planned, AtAction, AllOld, MayFollow,
      Live
<1> QED BY <1>1, <1>2, <1>3, <1>4, <1>5, <1>6, <1>7

\* The old one is moved in, its failure, and the failure to move back.
LEMMA UndoInKeeps == Inv /\ UndoIn => Inv'
<1> SUFFICES ASSUME Inv, UndoIn PROVE Inv'
  OBVIOUS
<1> USE StepsFacts, IdFacts, BoundsAssumption DEF Inv, TypeOK, disk, work, used
<1>1. TypeOK'
  BY SMTT(30) DEF UndoIn, Places, Journals, Contents, Steps, Failed, Done
<1>2. JournalInv'
  BY SMTT(30) DEF UndoIn, JournalInv, Journals, Preparing, Replacing, Confirming,
      Undoing, AtAction, Failed, Done
<1>3. PlaceInv'
  BY SMTT(30) DEF UndoIn, PlaceInv, Preparing, Replacing, Confirming, Undoing,
      AtAction, Failed, Done
<1>4. BackupInv'
  BY SMTT(30) DEF UndoIn, BackupInv, OldVersionIsCopied, Replacing, Failed, Done
<1>5. FileInv'
  BY SMTT(30) DEF UndoIn, FileInv, IntentComesFirst, OldUntouched, NewUntouched,
      Undoing, JournalInv, PlaceInv, Preparing, Replacing, Confirming, AtAction, Failed,
      Done
<1>6. ChildInv'
  BY SMTT(30) DEF UndoIn, ChildInv, Failed, Done
<1>7. CalmInv'
  BY SMTT(30) DEF UndoIn, CalmInv, Troubled, Planned, AtAction, AllOld, JournalInv,
      PlaceInv, Preparing, Replacing, Confirming, Undoing, FileInv, IntentComesFirst,
      Failed, Done
<1> QED BY <1>1, <1>2, <1>3, <1>4, <1>5, <1>6, <1>7

\* The install root was lost before the action.
LEMMA UndoRefusedKeeps == Inv /\ UndoRefused => Inv'
<1> SUFFICES ASSUME Inv, UndoRefused PROVE Inv'
  OBVIOUS
<1> USE StepsFacts, IdFacts, BoundsAssumption DEF Inv, TypeOK, disk, work, used
<1>1. TypeOK'
  BY SMTT(30) DEF UndoRefused, Places, Journals, Contents, Steps, Failed, Done
<1>2. JournalInv'
  BY SMTT(30) DEF UndoRefused, JournalInv, Journals, Preparing, Replacing, Confirming,
      Undoing, AtAction, Failed, Done
<1>3. PlaceInv'
  BY SMTT(30) DEF UndoRefused, PlaceInv, Preparing, Replacing, Confirming, Undoing,
      AtAction, Failed, Done
<1>4. BackupInv'
  BY SMTT(30) DEF UndoRefused, BackupInv, OldVersionIsCopied, Replacing, Failed, Done
<1>5. FileInv'
  BY SMTT(30) DEF UndoRefused, FileInv, IntentComesFirst, OldUntouched, NewUntouched,
      Undoing, Failed, Done
<1>6. ChildInv'
  BY SMTT(30) DEF UndoRefused, ChildInv, Failed, Done
<1>7. CalmInv'
  BY SMTT(30) DEF UndoRefused, CalmInv, Troubled, Planned, AtAction, AllOld, Failed,
      Done
<1> QED BY <1>1, <1>2, <1>3, <1>4, <1>5, <1>6, <1>7

\* A step is recorded as restored.
LEMMA RecordRestoredKeeps == Inv /\ RecordRestored => Inv'
<1> SUFFICES ASSUME Inv, RecordRestored PROVE Inv'
  OBVIOUS
<1> USE StepsFacts, IdFacts, BoundsAssumption DEF Inv, TypeOK, disk, work, used
<1>0. \/ Outcome(mem.phase, [mem.step EXCEPT ![at] = "restored"], "undo_next", Failed)
      \/ UNCHANGED <<jrn, mem, faults>> /\ pc' = "undo_next"
  BY StepOutcome DEF RecordRestored, StepStates
<1>1. TypeOK'
  BY <1>0, SMTT(30) DEF RecordRestored, Places, Journals, Contents, Steps, Outcome,
      Moved, MayFollow, Live, Terminal, Failed, Done
<1>2. JournalInv'
  BY <1>0, SMTT(30) DEF RecordRestored, JournalInv, Journals, Preparing, Replacing,
      Confirming, Undoing, AtAction, Outcome, Moved, MayFollow, Live, Terminal, Failed,
      Done
<1>3. PlaceInv'
  BY <1>0, SMTT(30) DEF RecordRestored, PlaceInv, Preparing, Replacing, Confirming,
      Undoing, AtAction, JournalInv, Journals, Outcome, Moved, MayFollow, Live,
      Terminal, Failed, Done
<1>4. BackupInv'
  BY <1>0, SMTT(30) DEF RecordRestored, BackupInv, OldVersionIsCopied, Replacing,
      Outcome, Moved, MayFollow, Live, Terminal, Failed, Done
<1>5. FileInv'
  BY <1>0, SMTT(30) DEF RecordRestored, FileInv, IntentComesFirst, OldUntouched,
      NewUntouched, Undoing, JournalInv, PlaceInv, Preparing, Replacing, Confirming,
      AtAction, Journals, Outcome, Moved, MayFollow, Live, Terminal, Failed, Done
<1>6. ChildInv'
  BY <1>0, SMTT(30) DEF RecordRestored, ChildInv, Outcome, Moved, MayFollow, Live,
      Terminal, Failed, Done
<1>7. CalmInv'
  BY <1>0, SMTT(30) DEF RecordRestored, CalmInv, Troubled, Planned, AtAction, AllOld,
      Outcome, Moved, MayFollow, Live, Terminal, Failed, Done
<1> QED BY <1>1, <1>2, <1>3, <1>4, <1>5, <1>6, <1>7

\* The action is done; the others are as planned.
LEMMA NextUndoKeeps == Inv /\ NextUndo => Inv'
<1> SUFFICES ASSUME Inv, NextUndo PROVE Inv'
  OBVIOUS
<1> USE StepsFacts, IdFacts, BoundsAssumption DEF Inv, TypeOK, disk, work, used
<1>1. TypeOK'
  BY SMTT(30) DEF NextUndo, Places, Journals, Contents, Steps
<1>2. JournalInv'
  BY SMTT(30) DEF NextUndo, JournalInv, Journals, Preparing, Replacing, Confirming,
      Undoing, AtAction, Contents
<1>3. PlaceInv'
  BY SMTT(30) DEF NextUndo, PlaceInv, Preparing, Replacing, Confirming, Undoing,
      AtAction, Contents
<1>4. BackupInv'
  BY SMTT(30) DEF NextUndo, BackupInv, OldVersionIsCopied, Replacing, Contents
<1>5. FileInv'
  BY SMTT(30) DEF NextUndo, FileInv, IntentComesFirst, OldUntouched, NewUntouched,
      Undoing, Contents
<1>6. ChildInv'
  BY SMTT(30) DEF NextUndo, ChildInv, Contents
<1>7. CalmInv'
  BY SMTT(30) DEF NextUndo, CalmInv, Troubled, Planned, AtAction, AllOld, Contents
<1> QED BY <1>1, <1>2, <1>3, <1>4, <1>5, <1>6, <1>7

\* The rollback is complete only when the disk says so.
LEMMA ConcludeRollbackKeeps == Inv /\ ConcludeRollback => Inv'
<1> SUFFICES ASSUME Inv, ConcludeRollback PROVE Inv'
  OBVIOUS
<1> USE StepsFacts, IdFacts, BoundsAssumption DEF Inv, TypeOK, disk, work, used
<1>0. \/ rooted /\ Decision = "keep_old"
         /\ Outcome("rolled_back", mem.step, Done, Failed)
         /\ MayFollow(mem.phase, "rolled_back")
      \/ rooted /\ Decision # "keep_old" /\ UNCHANGED <<jrn, mem, faults>>
         /\ pc' = "require"
      \/ ~rooted /\ UNCHANGED <<jrn, mem, faults>> /\ pc' = Failed
    BY AdvanceOutcome, SMTT(30) DEF ConcludeRollback, Phases, Terminal, Live,
      JournalInv, PlaceInv, Confirming
<1>1. TypeOK'
  BY <1>0, SMTT(30) DEF ConcludeRollback, Places, Journals, Contents, Steps, Outcome,
      Moved, MayFollow, Live, Terminal, Failed, Done
<1>2. JournalInv'
  BY <1>0, SMTT(30) DEF ConcludeRollback, JournalInv, Journals, Preparing, Replacing,
      Confirming, Undoing, AtAction, Outcome, Moved, MayFollow, Live, Terminal, Failed,
      Done
<1>3. PlaceInv'
  BY <1>0, SMTT(30) DEF ConcludeRollback, PlaceInv, Preparing, Replacing, Confirming,
      Undoing, AtAction, Outcome, Moved, MayFollow, Live, Terminal, Failed, Done
<1>4. BackupInv'
  BY <1>0, SMTT(30) DEF ConcludeRollback, BackupInv, OldVersionIsCopied, Replacing,
      Outcome, Moved, MayFollow, Live, Terminal, Failed, Done
<1>5. FileInv'
    BY <1>0, DecisionFacts, SMTT(30) DEF ConcludeRollback, FileInv, IntentComesFirst,
      OldUntouched, NewUntouched, Undoing, AllOld, JournalInv, PlaceInv, Outcome, Moved,
      MayFollow, Live, Terminal, Failed, Done
<1>6. ChildInv'
  BY <1>0, SMTT(30) DEF ConcludeRollback, ChildInv, Outcome, Moved, MayFollow, Live,
      Terminal, Failed, Done
<1>7. CalmInv'
    BY <1>0, CalmDecision, SMTT(30) DEF ConcludeRollback, CalmInv, Troubled, Planned,
      AtAction, AllOld, Outcome, Moved, Failed, Done
<1> QED BY <1>1, <1>2, <1>3, <1>4, <1>5, <1>6, <1>7

\* A helper whose install root is lost leaves the verdict to a person.
LEMMA SealKeeps == Inv /\ Seal => Inv'
<1> SUFFICES ASSUME Inv, Seal PROVE Inv'
  OBVIOUS
<1> USE StepsFacts, IdFacts, BoundsAssumption DEF Inv, TypeOK, disk, work, used
<1>0. \/ ~rooted /\ Outcome("required", mem.step, "end", "end")
         /\ MayFollow(mem.phase, "required")
      \/ UNCHANGED <<jrn, mem, faults>> /\ pc' = "end"
    BY AdvanceOutcome, SMTT(30) DEF Seal, Phases, Terminal, Live, JournalInv, PlaceInv,
      Confirming
<1>1. TypeOK'
  BY <1>0, SMTT(30) DEF Seal, Places, Journals, Contents, Steps, Outcome, Moved,
      MayFollow, Live, Terminal
<1>2. JournalInv'
  BY <1>0, SMTT(30) DEF Seal, JournalInv, Journals, Preparing, Replacing, Confirming,
      Undoing, AtAction, Outcome, Moved, MayFollow, Live, Terminal
<1>3. PlaceInv'
  BY <1>0, SMTT(30) DEF Seal, PlaceInv, Preparing, Replacing, Confirming, Undoing,
      AtAction, Outcome, Moved, MayFollow, Live, Terminal
<1>4. BackupInv'
  BY <1>0, SMTT(30) DEF Seal, BackupInv, OldVersionIsCopied, Replacing, Outcome,
      Moved, MayFollow, Live, Terminal
<1>5. FileInv'
  BY <1>0, SMTT(30) DEF Seal, FileInv, IntentComesFirst, OldUntouched, NewUntouched,
      Undoing, Outcome, Moved, MayFollow, Live, Terminal
<1>6. ChildInv'
  BY <1>0, SMTT(30) DEF Seal, ChildInv, Outcome, Moved, MayFollow, Live, Terminal
<1>7. CalmInv'
  BY <1>0, SMTT(30) DEF Seal, CalmInv, Troubled, Planned, AtAction, AllOld, Outcome,
      Moved, MayFollow, Live, Terminal
<1> QED BY <1>1, <1>2, <1>3, <1>4, <1>5, <1>6, <1>7

\* The helper ends, and a child it still owns with it.
LEMMA EndKeeps == Inv /\ End => Inv'
<1> SUFFICES ASSUME Inv, End PROVE Inv'
  OBVIOUS
<1> USE StepsFacts, IdFacts, BoundsAssumption DEF Inv, TypeOK, disk, work, used
<1>1. TypeOK'
    BY NoJournalType, SMTT(30) DEF End, Places, Journals, Contents, Steps
<1>2. JournalInv'
    BY NoJournalType, SMTT(30) DEF End, JournalInv, Journals, Preparing, Replacing,
      Confirming, Undoing, AtAction
<1>3. PlaceInv'
    BY NoJournalType, SMTT(30) DEF End, PlaceInv, Preparing, Replacing, Confirming,
      Undoing, AtAction
<1>4. BackupInv'
    BY NoJournalType, SMTT(30) DEF End, BackupInv, OldVersionIsCopied, Replacing
<1>5. FileInv'
    BY NoJournalType, SMTT(30) DEF End, FileInv, IntentComesFirst, OldUntouched,
      NewUntouched, Undoing
<1>6. ChildInv'
    BY NoJournalType, SMTT(30) DEF End, ChildInv
<1>7. CalmInv'
    BY NoJournalType, SMTT(30) DEF End, CalmInv, Troubled, Planned, AtAction, AllOld
<1> QED BY <1>1, <1>2, <1>3, <1>4, <1>5, <1>6, <1>7

-----------------------------------------------------------------------------
(* The helper's death, the next helper, the child alone, other programs. *)

\* The helper dies anywhere: what the journal says of the disk needs no
\* memory.
LEMMA CrashKeeps == Inv /\ Crash => Inv'
<1> SUFFICES ASSUME Inv, Crash PROVE Inv'
  OBVIOUS
<1> USE StepsFacts, IdFacts, BoundsAssumption DEF Inv, TypeOK, disk, work, used
<1>1. TypeOK'
    BY NoJournalType, SMTT(30) DEF Crash, Places, Journals, Contents, Steps
<1>2. JournalInv'
    BY NoJournalType, SMTT(30) DEF Crash, JournalInv, Journals, Preparing, Replacing,
      Confirming, Undoing, AtAction
<1>3. PlaceInv'
    BY NoJournalType, SMTT(30) DEF Crash, PlaceInv, Preparing, Replacing, Confirming,
      Undoing, AtAction
<1>4. BackupInv'
    BY NoJournalType, SMTT(30) DEF Crash, BackupInv, OldVersionIsCopied, Replacing
<1>5. FileInv'
    BY NoJournalType, SMTT(30) DEF Crash, FileInv, IntentComesFirst, OldUntouched,
      NewUntouched, Undoing
<1>6. ChildInv'
    BY NoJournalType, SMTT(30) DEF Crash, ChildInv
<1>7. CalmInv'
    BY NoJournalType, SMTT(30) DEF Crash, CalmInv, Troubled, Planned, AtAction, AllOld
<1> QED BY <1>1, <1>2, <1>3, <1>4, <1>5, <1>6, <1>7

\* A child alone reads the journal.
LEMMA ChildEofKeeps == Inv /\ ChildEof => Inv'
<1> SUFFICES ASSUME Inv, ChildEof PROVE Inv'
  OBVIOUS
<1> USE StepsFacts, IdFacts, BoundsAssumption DEF Inv, TypeOK, disk, work, used
<1>1. TypeOK'
  BY SMTT(30) DEF ChildEof, Places, Journals, Contents, Steps
<1>2. JournalInv'
  BY SMTT(30) DEF ChildEof, JournalInv, Journals, Preparing, Replacing, Confirming,
      Undoing, AtAction
<1>3. PlaceInv'
  BY SMTT(30) DEF ChildEof, PlaceInv, Preparing, Replacing, Confirming, Undoing,
      AtAction
<1>4. BackupInv'
  BY SMTT(30) DEF ChildEof, BackupInv, OldVersionIsCopied, Replacing
<1>5. FileInv'
  BY SMTT(30) DEF ChildEof, FileInv, IntentComesFirst, OldUntouched, NewUntouched,
      Undoing
<1>6. ChildInv'
  BY SMTT(30) DEF ChildEof, ChildInv
<1>7. CalmInv'
  BY SMTT(30) DEF ChildEof, CalmInv, Troubled, Planned, AtAction, AllOld
<1> QED BY <1>1, <1>2, <1>3, <1>4, <1>5, <1>6, <1>7

\* The next helper knows what the journal says.
LEMMA StartRecoveryKeeps == Inv /\ StartRecovery => Inv'
<1> SUFFICES ASSUME Inv, StartRecovery PROVE Inv'
  OBVIOUS
<1> USE StepsFacts, IdFacts, BoundsAssumption DEF Inv, TypeOK, disk, work, used
<1>1. TypeOK'
  BY SMTT(30) DEF StartRecovery, Places, Journals, Contents, Steps, PendingPhases,
      Live
<1>2. JournalInv'
  BY SMTT(30) DEF StartRecovery, JournalInv, Journals, Preparing, Replacing,
      Confirming, Undoing, AtAction, PendingPhases, Live
<1>3. PlaceInv'
  BY SMTT(30) DEF StartRecovery, PlaceInv, Preparing, Replacing, Confirming, Undoing,
      AtAction, PendingPhases, Live
<1>4. BackupInv'
  BY SMTT(30) DEF StartRecovery, BackupInv, OldVersionIsCopied, Replacing,
      PendingPhases, Live
<1>5. FileInv'
  BY SMTT(30) DEF StartRecovery, FileInv, IntentComesFirst, OldUntouched,
      NewUntouched, Undoing, PendingPhases, Live
<1>6. ChildInv'
  BY SMTT(30) DEF StartRecovery, ChildInv, PendingPhases, Live
<1>7. CalmInv'
  BY SMTT(30) DEF StartRecovery, CalmInv, Troubled, Planned, AtAction, AllOld,
      PendingPhases, Live
<1> QED BY <1>1, <1>2, <1>3, <1>4, <1>5, <1>6, <1>7

\* Another program takes a file: it is marked, and no held one is taken.
LEMMA DisturbFileKeeps == Inv /\ DisturbFile => Inv'
<1> SUFFICES ASSUME Inv, DisturbFile PROVE Inv'
  OBVIOUS
<1> USE StepsFacts, IdFacts, BoundsAssumption DEF Inv, TypeOK, disk, work, used
<1>1. TypeOK'
  BY SMTT(30) DEF DisturbFile, Places, Journals, Contents, Steps, Held
<1>2. JournalInv'
  BY SMTT(30) DEF DisturbFile, JournalInv, Journals, Preparing, Replacing, Confirming,
      Undoing, AtAction, Held
<1>3. PlaceInv'
  BY SMTT(30) DEF DisturbFile, PlaceInv, Preparing, Replacing, Confirming, Undoing,
      AtAction, Held
<1>4. BackupInv'
  BY SMTT(30) DEF DisturbFile, BackupInv, OldVersionIsCopied, Replacing, Held
<1>5. FileInv'
  BY SMTT(30) DEF DisturbFile, FileInv, IntentComesFirst, OldUntouched, NewUntouched,
      Undoing, Held
<1>6. ChildInv'
  BY SMTT(30) DEF DisturbFile, ChildInv, Held
<1>7. CalmInv'
  BY SMTT(30) DEF DisturbFile, CalmInv, Troubled, Planned, AtAction, AllOld, Held
<1> QED BY <1>1, <1>2, <1>3, <1>4, <1>5, <1>6, <1>7

\* Another program changes a file the update leaves alone.
LEMMA DisturbUnchangedKeeps == Inv /\ DisturbUnchanged => Inv'
<1> SUFFICES ASSUME Inv, DisturbUnchanged PROVE Inv'
  OBVIOUS
<1> USE StepsFacts, IdFacts, BoundsAssumption DEF Inv, TypeOK, disk, work, used
<1>1. TypeOK'
  <2>1. unchanged' \in BOOLEAN
    BY DEF DisturbUnchanged
  <2> QED BY <2>1, SMTT(30) DEF DisturbUnchanged
<1>2. JournalInv'
  BY SMTT(30) DEF DisturbUnchanged, JournalInv, Journals, Preparing, Replacing,
      Confirming, Undoing, AtAction
<1>3. PlaceInv'
  BY SMTT(30) DEF DisturbUnchanged, PlaceInv, Preparing, Replacing, Confirming,
      Undoing, AtAction
<1>4. BackupInv'
  BY SMTT(30) DEF DisturbUnchanged, BackupInv, OldVersionIsCopied, Replacing
<1>5. FileInv'
  BY SMTT(30) DEF DisturbUnchanged, FileInv, IntentComesFirst, OldUntouched,
      NewUntouched, Undoing
<1>6. ChildInv'
  BY SMTT(30) DEF DisturbUnchanged, ChildInv
<1>7. CalmInv'
  BY SMTT(30) DEF DisturbUnchanged, CalmInv, Troubled, Planned, AtAction, AllOld
<1> QED BY <1>1, <1>2, <1>3, <1>4, <1>5, <1>6, <1>7

\* Another program moves the install directory, or moves it back.
LEMMA MoveRootKeeps == Inv /\ MoveRoot => Inv'
<1> SUFFICES ASSUME Inv, MoveRoot PROVE Inv'
  OBVIOUS
<1> USE StepsFacts, IdFacts, BoundsAssumption DEF Inv, TypeOK, disk, work, used
<1>1. TypeOK'
  BY SMTT(30) DEF MoveRoot, Places, Journals, Contents, Steps, Held
<1>2. JournalInv'
  BY SMTT(30) DEF MoveRoot, JournalInv, Journals, Preparing, Replacing, Confirming,
      Undoing, AtAction, Held
<1>3. PlaceInv'
  BY SMTT(30) DEF MoveRoot, PlaceInv, Preparing, Replacing, Confirming, Undoing,
      AtAction, Held
<1>4. BackupInv'
  BY SMTT(30) DEF MoveRoot, BackupInv, OldVersionIsCopied, Replacing, Held
<1>5. FileInv'
  BY SMTT(30) DEF MoveRoot, FileInv, IntentComesFirst, OldUntouched, NewUntouched,
      Undoing, Held
<1>6. ChildInv'
  BY SMTT(30) DEF MoveRoot, ChildInv, Held
<1>7. CalmInv'
  BY SMTT(30) DEF MoveRoot, CalmInv, Troubled, Planned, AtAction, AllOld, Held
<1> QED BY <1>1, <1>2, <1>3, <1>4, <1>5, <1>6, <1>7

-----------------------------------------------------------------------------
(* The invariant, and the theorems. *)

\* The installation as it was opened, no journal, no helper.
LEMMA InitOK == Init => Inv
<1> SUFFICES ASSUME Init PROVE Inv
  OBVIOUS
<1> USE StepsFacts, IdFacts, BoundsAssumption, NoJournalType DEF Init
<1>1. TypeOK
  <2>1. file \in [Steps -> Contents]
    BY DEF OldId, Contents
  <2>2. unchanged \in BOOLEAN /\ rooted \in BOOLEAN
    OBVIOUS
  <2> QED BY <2>1, <2>2 DEF TypeOK, Places
<1>2. JournalInv
  BY DEF JournalInv, Preparing, Replacing, Confirming
<1>3. PlaceInv
  BY DEF PlaceInv, Preparing, Replacing, Confirming, Undoing, AtAction
<1>4. BackupInv
  BY DEF BackupInv, OldVersionIsCopied, Replacing
<1>5. FileInv
  BY DEF FileInv, IntentComesFirst, OldUntouched, NewUntouched, Undoing
<1>6. ChildInv
  BY DEF ChildInv
<1>7. CalmInv
  BY DEF CalmInv, Troubled, AtAction
<1> QED BY <1>1, <1>2, <1>3, <1>4, <1>5, <1>6, <1>7 DEF Inv

\* Every step keeps the invariant.
LEMMA StepOK == Inv /\ [Next]_vars => Inv'
<1> SUFFICES ASSUME Inv, [Next]_vars PROVE Inv'
  OBVIOUS
<1>1. CASE Begin \/ Crash \/ ChildEof \/ StartRecovery
  BY <1>1, BeginKeeps, CrashKeeps, ChildEofKeeps, StartRecoveryKeeps
<1>2. CASE Apply
  BY <1>2, RefuseApplyKeeps, AuthorizeKeeps, StartApplyingKeeps, RefusedKeeps,
      MakeBackupKeeps, RecheckBackedUpKeeps, RecordIntentKeeps, BindTargetKeeps,
      MoveAsideKeeps, MoveInKeeps, RemoveOrAddKeeps, ChangeRefusedKeeps,
      RecordAppliedKeeps, NextStepKeeps, VerifyAppliedKeeps DEF Apply
<1>3. CASE Health
  BY <1>3, LaunchKeeps, AwaitHealthyKeeps, VerifyBeforeCommitKeeps, CommitKeeps,
      SendCommitKeeps DEF Health
<1>4. CASE Recovery
  BY <1>4, RecoverAgainKeeps, RecoverKeeps, SettleOldKeeps, RequireKeeps,
      BeginRollbackKeeps, CheckIntentsKeeps, CheckUndoKeeps, UndoInPlaceKeeps,
      UndoAsideKeeps, UndoInKeeps, UndoRefusedKeeps, RecordRestoredKeeps,
      NextUndoKeeps, ConcludeRollbackKeeps, SealKeeps, EndKeeps DEF Recovery
<1>5. CASE Others
  BY <1>5, DisturbFileKeeps, DisturbUnchangedKeeps, MoveRootKeeps DEF Others
<1>6. CASE UNCHANGED vars
  <2> USE <1>6 DEF vars, Inv
  <2>1. TypeOK'
    BY DEF TypeOK
  <2>2. JournalInv' /\ PlaceInv'
    BY DEF JournalInv, PlaceInv
  <2>3. BackupInv' /\ FileInv'
    BY DEF BackupInv, FileInv, OldVersionIsCopied, IntentComesFirst, OldUntouched,
           NewUntouched
  <2>4. ChildInv' /\ CalmInv'
    BY DEF ChildInv, CalmInv, Troubled, Planned, AllOld
  <2> QED BY <2>1, <2>2, <2>3, <2>4
<1> QED BY <1>1, <1>2, <1>3, <1>4, <1>5, <1>6 DEF Next, Helper

\* The inductive invariant holds of the update helper and its successors.
LEMMA InvHolds == Spec => []Inv
BY InitOK, StepOK, PTL DEF Spec

\* Whatever the helper's death leaves behind, a step the journal on disk calls
\* planned has its old file unless another program took it, and from the first
\* durable intent on every old file of the plan has a good copy (run_steps:
\* backups, then the intent, then the file).
THEOREM WriteAheadHolds == Spec => []WriteAhead
<1>1. Inv => WriteAhead
  BY DEF Inv, WriteAhead, BackupInv, FileInv
<1> QED BY <1>1, InvHolds, PTL

\* Only another program's change, or a failure reported to the helper, ends in
\* RecoveryRequired; deaths alone do not: decide_recovery accepts every state they
\* leave.
THEOREM DeathIsRecoveredHolds == Spec => []DeathIsRecovered
<1>1. Inv => DeathIsRecovered
  BY DEF Inv, DeathIsRecovered, CalmInv, Troubled
<1> QED BY <1>1, InvHolds, PTL

\* Where the helper changes a file there is no child, and the verdict is not
\* given yet or the file is one another program has changed.
LEMMA HelperChanges ==
  ASSUME Inv,
         MoveAside \/ MoveIn \/ RemoveOrAdd \/ UndoInPlace \/ UndoAside \/ UndoIn
  PROVE  /\ child = "none"
         /\ jrn.phase \in {"applying", "rolling_back"} \/ at \in touched
<1>1. pc \in {"bound", "aside", "undo_bound", "undo_aside"}
  BY DEF MoveAside, MoveIn, RemoveOrAdd, UndoInPlace, UndoAside, UndoIn
<1>2. child = "none"
  BY <1>1 DEF Inv, ChildInv
<1>3. CASE pc \in {"bound", "aside"}
  BY <1>2, <1>3 DEF Inv, JournalInv, PlaceInv, Replacing
<1>4. CASE pc \in {"undo_bound", "undo_aside"}
  <2>1. mem.phase = "rolling_back" /\ plan[at] # "none"
    BY <1>4 DEF Inv, PlaceInv, Undoing, AtAction
  <2>2. jrn.phase \in {"rolling_back", "rolled_back"}
    BY <1>4, <2>1 DEF Inv, JournalInv, MayFollow, Live
  <2>3. jrn.phase = "rolled_back" => at \in touched
    BY <1>4, <2>1 DEF Inv, FileInv, Undoing, TypeOK
  <2> QED BY <1>2, <2>2, <2>3
<1> QED BY <1>1, <1>3, <1>4

\* Every step that changes no file, or is no step of the helper's.
LEMMA OtherSteps ==
  ASSUME [Next]_vars, file' # file
  PROVE  \/ MoveAside \/ MoveIn \/ RemoveOrAdd \/ UndoInPlace \/ UndoAside \/ UndoIn
         \/ DisturbFile
<1>1. CASE Begin \/ Crash \/ ChildEof \/ StartRecovery \/ UNCHANGED vars
  BY <1>1 DEF Begin, Crash, ChildEof, StartRecovery, vars, disk
<1>2. CASE Apply
  BY <1>2 DEF Apply, RefuseApply, Authorize, StartApplying, Refused, MakeBackup,
      RecheckBackedUp, RecordIntent, BindTarget, ChangeRefused, RecordApplied,
      NextStep, VerifyApplied, disk
<1>3. CASE Health
  BY <1>3 DEF Health, Launch, AwaitHealthy, VerifyBeforeCommit, Commit, SendCommit,
      disk
<1>4. CASE Recovery
  BY <1>4 DEF Recovery, RecoverAgain, Recover, SettleOld, Require, BeginRollback,
      CheckIntents, CheckUndo, UndoRefused, RecordRestored, NextUndo,
      ConcludeRollback, Seal, End, disk
<1>5. CASE Others
  BY <1>5 DEF Others, DisturbUnchanged, MoveRoot
<1> QED BY <1>1, <1>2, <1>3, <1>4, <1>5 DEF Next, Helper

\* No file of the installation is changed under a running new version: the
\* child is gone before the rollback touches anything (conclude_health,
\* recover), and after the commit nothing is touched.
THEOREM NoChangeUnderTheChildHolds == Spec => NoChangeUnderTheChild
<1>1. ASSUME Inv, [Next]_vars PROVE [file' # file /\ disturbs' = disturbs => child = "none"]_vars
  <2> SUFFICES ASSUME file' # file, disturbs' = disturbs PROVE child = "none"
    OBVIOUS
  <2>1. ~DisturbFile
    BY <1>1 DEF DisturbFile, Inv, TypeOK
  <2> QED BY <1>1, <2>1, OtherSteps, HelperChanges
<1> QED BY <1>1, InvHolds, PTL DEF Spec, NoChangeUnderTheChild


-----------------------------------------------------------------------------
(* The helper implements what an update promises (InstallUpdate). *)

\* A store moves the journal on disk only along may_follow, so never out of a
\* terminal phase, and the files stay as they are meanwhile.
LEMMA PhaseSteps ==
  ASSUME Inv, [Next]_vars, jrn'.phase # jrn.phase
  PROVE  /\ jrn.phase \in Live \cup {"none"}
         /\ file' = file /\ touched' = touched
<1>1. CASE Begin \/ Crash \/ ChildEof \/ StartRecovery \/ UNCHANGED vars
  BY <1>1 DEF Begin, Crash, ChildEof, StartRecovery, vars, disk
<1>2. CASE Authorize
  BY <1>2, AdvanceOutcome, SMTT(30) DEF Authorize, Inv, Outcome, Moved, MayFollow,
      Live, Terminal, Phases, disk, JournalInv, PlaceInv, Confirming
<1>3. CASE StartApplying
  BY <1>3, AdvanceOutcome, SMTT(30) DEF StartApplying, Inv, Outcome, Moved, MayFollow,
      Live, Terminal, Phases, disk, JournalInv, PlaceInv, Confirming
<1>4. CASE Commit
  BY <1>4, AdvanceOutcome, SMTT(30) DEF Commit, Inv, Outcome, Moved, MayFollow, Live,
      Terminal, Phases, disk, JournalInv, PlaceInv, Confirming
<1>5. CASE VerifyApplied
  BY <1>5, AdvanceOutcome, SMTT(30) DEF VerifyApplied, Inv, Outcome, Moved, MayFollow,
      Live, Terminal, Phases, disk, JournalInv, PlaceInv, Confirming
<1>6. CASE SettleOld
  BY <1>6, AdvanceOutcome, SMTT(30) DEF SettleOld, Inv, Outcome, Moved, MayFollow,
      Live, Terminal, Phases, disk, JournalInv, PlaceInv, Confirming
<1>7. CASE Require
  BY <1>7, AdvanceOutcome, SMTT(30) DEF Require, Inv, Outcome, Moved, MayFollow, Live,
      Terminal, Phases, disk, JournalInv, PlaceInv, Confirming
<1>8. CASE BeginRollback
  BY <1>8, AdvanceOutcome, SMTT(30) DEF BeginRollback, Inv, Outcome, Moved, MayFollow,
      Live, Terminal, Phases, disk, JournalInv, PlaceInv, Confirming
<1>9. CASE ConcludeRollback
  BY <1>9, AdvanceOutcome, SMTT(30) DEF ConcludeRollback, Inv, Outcome, Moved,
      MayFollow, Live, Terminal, Phases, disk, JournalInv, PlaceInv, Confirming
<1>10. CASE Seal
  BY <1>10, AdvanceOutcome, SMTT(30) DEF Seal, Inv, Outcome, Moved, MayFollow, Live,
      Terminal, Phases, disk, JournalInv, PlaceInv, Confirming
<1>11. CASE RecordIntent
  <2>1. Outcome(mem.phase, [mem.step EXCEPT ![at] = "intent"], "bind", "recover")
    BY <1>11, StepOutcome DEF RecordIntent, Inv, StepStates, TypeOK
  <2> QED BY <1>11, <2>1 DEF RecordIntent, Outcome, Moved, disk
<1>12. CASE RecordApplied
  <2>1. Outcome(mem.phase, [mem.step EXCEPT ![at] = "applied"], "next", "recover")
    BY <1>12, StepOutcome DEF RecordApplied, Inv, StepStates, TypeOK
  <2> QED BY <1>12, <2>1 DEF RecordApplied, Outcome, Moved, disk
<1>13. CASE RecordRestored
  <2>1. \/ Outcome(mem.phase, [mem.step EXCEPT ![at] = "restored"], "undo_next", Failed)
        \/ jrn' = jrn
    BY <1>13, StepOutcome DEF RecordRestored, Inv, StepStates, TypeOK
  <2> QED BY <1>13, <2>1 DEF RecordRestored, Outcome, Moved, disk
<1>14. CASE RefuseApply \/ Refused \/ MakeBackup \/ RecheckBackedUp \/ BindTarget \/ MoveAside
                \/ MoveIn \/ RemoveOrAdd \/ ChangeRefused \/ NextStep
  BY <1>14 DEF RefuseApply, Refused, MakeBackup, RecheckBackedUp, BindTarget,
      MoveAside, MoveIn, RemoveOrAdd, ChangeRefused, NextStep, disk
<1>15. CASE Launch \/ AwaitHealthy \/ VerifyBeforeCommit \/ SendCommit
  BY <1>15 DEF Launch, AwaitHealthy, VerifyBeforeCommit, SendCommit, disk
<1>16. CASE RecoverAgain \/ Recover \/ CheckIntents \/ CheckUndo \/ UndoInPlace \/ UndoAside
                \/ UndoIn \/ UndoRefused \/ NextUndo \/ End
  BY <1>16 DEF RecoverAgain, Recover, CheckIntents, CheckUndo, UndoInPlace, UndoAside,
      UndoIn, UndoRefused, NextUndo, End, disk
<1>17. CASE Others
  BY <1>17 DEF Others, DisturbFile, DisturbUnchanged, MoveRoot
<1> QED BY <1>1, <1>2, <1>3, <1>4, <1>5, <1>6, <1>7, <1>8, <1>9, <1>10, <1>11, <1>12,
    <1>13, <1>14, <1>15, <1>16, <1>17 DEF Next, Helper, Apply, Health, Recovery

\* A file the helper changes is never another program's, and what it puts there
\* is of one of the versions, or nothing.
LEMMA ChangeIsPromised ==
  ASSUME Inv,
         MoveAside \/ MoveIn \/ RemoveOrAdd \/ UndoInPlace \/ UndoAside \/ UndoIn
  PROVE  Promise!ChangeFile \/ UNCHANGED Promise!avars
<1>1. jrn' = jrn /\ touched' = touched
  BY DEF MoveAside, MoveIn, RemoveOrAdd, UndoInPlace, UndoAside, UndoIn
<1>2. Verdict' = Verdict
  BY <1>1 DEF Verdict
<1>3. Verdict = "pending" \/ at \in touched
  BY HelperChanges DEF Verdict
<1>4. \/ file' = file
      \/ \E c \in {"old", "new", "missing"} : file' = [file EXCEPT ![at] = c]
  <2> USE IdFacts DEF Inv, TypeOK
  <2>1. CASE MoveAside \/ MoveIn \/ UndoAside \/ UndoIn
    BY <2>1 DEF MoveAside, MoveIn, UndoAside, UndoIn
  <2>2. CASE RemoveOrAdd
    BY <2>2 DEF RemoveOrAdd
  <2>3. CASE UndoInPlace
    BY <2>3 DEF UndoInPlace
  <2> QED BY <2>1, <2>2, <2>3
<1>5. file' # file => file[at] # "foreign"
  <2> USE IdFacts DEF Inv, TypeOK, FileInv
  <2>1. CASE MoveAside \/ MoveIn \/ UndoAside \/ UndoIn
    BY <2>1 DEF MoveAside, MoveIn, UndoAside, UndoIn
  <2>2. CASE RemoveOrAdd
    BY <2>2 DEF RemoveOrAdd
  <2>3. CASE UndoInPlace
    BY <2>3 DEF UndoInPlace, PlaceInv
  <2> QED BY <2>1, <2>2, <2>3
<1>6. CASE file' = file
  BY <1>1, <1>2, <1>6 DEF Promise!avars
<1>7. CASE file' # file
  BY <1>1, <1>2, <1>3, <1>4, <1>5, <1>7 DEF Promise!ChangeFile, Inv, TypeOK
<1> QED BY <1>6, <1>7

\* Every step of the update and of the programs around it is one the promise
\* allows: a change of a file, another program's, or the verdict, given once
\* and for a complete version only.
LEMMA StepIsPromised ==
  ASSUME Inv, Inv', [Next]_vars
  PROVE  [Promise!ANext]_Promise!avars
<1>1. CASE MoveAside \/ MoveIn \/ RemoveOrAdd \/ UndoInPlace \/ UndoAside \/ UndoIn
  BY <1>1, ChangeIsPromised DEF Promise!ANext
<1>2. CASE DisturbFile
  <2>1. Verdict' = Verdict
    BY <1>2 DEF DisturbFile, Verdict
  <2> QED BY <1>2, <2>1 DEF DisturbFile, Promise!ANext, Promise!Disturb
<1>3. CASE file' = file /\ touched' = touched
  <2>1. CASE jrn'.phase = jrn.phase
    BY <1>3, <2>1 DEF Verdict, Promise!avars
  <2>2. CASE jrn'.phase # jrn.phase
    <3>1. Verdict = "pending"
      BY <2>2, PhaseSteps DEF Verdict, Live
    <3>2. CASE Verdict' = "pending"
      BY <1>3, <3>1, <3>2 DEF Promise!avars
    <3>3. CASE Verdict' = "required"
      BY <1>3, <3>1, <3>3 DEF Promise!ANext, Promise!Settle
    <3>4. CASE Verdict' = "kept_new"
      <4>1. NewUntouched'
        BY <3>4 DEF Inv, FileInv, Verdict
      <4> QED BY <1>3, <3>1, <3>4, <4>1
              DEF Promise!ANext, Promise!Settle, Promise!Holds, NewUntouched
    <3>5. CASE Verdict' = "kept_old"
      <4>1. OldUntouched'
        BY <3>5 DEF Inv, FileInv, Verdict
      <4> QED BY <1>3, <3>1, <3>5, <4>1
              DEF Promise!ANext, Promise!Settle, Promise!Holds, OldUntouched
    <3> QED BY <3>2, <3>3, <3>4, <3>5 DEF Verdict
  <2> QED BY <2>1, <2>2
<1>4. touched' = touched \/ DisturbFile
  <2>1. CASE Begin \/ Crash \/ ChildEof \/ StartRecovery \/ UNCHANGED vars
    BY <2>1 DEF Begin, Crash, ChildEof, StartRecovery, vars
  <2>2. CASE Apply
    BY <2>2 DEF Apply, RefuseApply, Authorize, StartApplying, Refused, MakeBackup,
        RecheckBackedUp, RecordIntent, BindTarget, MoveAside, MoveIn, RemoveOrAdd,
        ChangeRefused, RecordApplied, NextStep, VerifyApplied
  <2>3. CASE Health
    BY <2>3 DEF Health, Launch, AwaitHealthy, VerifyBeforeCommit, Commit, SendCommit
  <2>4. CASE Recovery
    BY <2>4 DEF Recovery, RecoverAgain, Recover, SettleOld, Require, BeginRollback,
        CheckIntents, CheckUndo, UndoInPlace, UndoAside, UndoIn, UndoRefused,
        RecordRestored, NextUndo, ConcludeRollback, Seal, End
  <2>5. CASE Others
    BY <2>5 DEF Others, DisturbUnchanged, MoveRoot
  <2> QED BY <2>1, <2>2, <2>3, <2>4, <2>5 DEF Next, Helper
<1> QED BY <1>1, <1>2, <1>3, <1>4, OtherSteps

\* The update keeps its promise at every step: the files hold one version or
\* the other, the verdict says which and is given once, and a file another
\* program put there is never overwritten (apply, conclude_health, recover).
THEOREM UpdateIsAsPromised == Spec => Promise!ASpec
<1>1. Init => Promise!AInit
  BY DEF Init, Promise!AInit, Verdict, NoJournal
<1>2. Inv /\ Inv' /\ [Next]_vars => [Promise!ANext]_Promise!avars
  BY StepIsPromised
<1> QED BY <1>1, <1>2, InvHolds, PTL DEF Spec, Promise!ASpec

=============================================================================
