--------------------------- MODULE InstallUpdate ---------------------------
(***************************************************************************)
(* What an application update promises of the installation: the owned      *)
(* files hold one version or the other, the verdict says which, it is      *)
(* given once, and a file another program put there is never overwritten.  *)
(* Nothing is said here of journals, backups, helpers or health checks;    *)
(* UpdateJournal implements this module (its refinement mapping is there)  *)
(* and UpdateHandshake is built on its verdicts.                           *)
(***************************************************************************)
EXTENDS Naturals

CONSTANTS
  Files,     \* the owned files the update changes
  OldOf,     \* OldOf[f]: the content of f in the old version
  NewOf      \* NewOf[f]: the content of f in the new version

VARIABLES
  content,   \* what each file holds on disk
  disturbed, \* the files some other program has changed since the update began
  verdict    \* "pending", or how the update ended

avars == <<content, disturbed, verdict>>

Verdicts == {"pending", "kept_new", "kept_old", "required"}

\* Every file nobody else changed holds the version.
Holds(version) == \A f \in Files \ disturbed : content[f] = version[f]

AInit ==
  /\ content = OldOf
  /\ disturbed = {}
  /\ verdict = "pending"

\* The updater changes a file: never one that another program put there, and
\* once the verdict is given only one another program has meddled with.
ChangeFile ==
  \E f \in Files, c \in {"old", "new", "missing"} :
    /\ content[f] # "foreign"
    /\ verdict = "pending" \/ f \in disturbed
    /\ content' = [content EXCEPT ![f] = c]
    /\ UNCHANGED <<disturbed, verdict>>

\* Another program replaces or deletes a file, whenever it likes.
Disturb ==
  \E f \in Files, c \in {"foreign", "missing"} :
    /\ content' = [content EXCEPT ![f] = c]
    /\ disturbed' = disturbed \cup {f}
    /\ UNCHANGED verdict

\* The verdict is given once, and only for a complete version.
Settle ==
  /\ verdict = "pending"
  /\ \/ verdict' = "kept_new" /\ Holds(NewOf)
     \/ verdict' = "kept_old" /\ Holds(OldOf)
     \/ verdict' = "required"
  /\ UNCHANGED <<content, disturbed>>

ANext == ChangeFile \/ Disturb \/ Settle

ASpec == AInit /\ [][ANext]_avars
=============================================================================
