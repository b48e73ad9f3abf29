------------------------ MODULE CredentialJournalMC ------------------------
(* Instances of CredentialJournal for TLC.  References are drawn fresh and  *)
(* processes run the same code: both may be permuted.                       *)
EXTENDS CredentialJournal, TLC

Alike == Permutations(Procs) \cup Permutations(Creds)
=============================================================================
