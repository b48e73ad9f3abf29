------------------------- MODULE DocumentSessionMC -------------------------
(* Instances of DocumentSession for TLC.  Contents and Paths are model      *)
(* values the module treats alike, so behaviours that differ by a renaming  *)
(* of them are one behaviour.                                               *)
EXTENDS DocumentSession, TLC

Names == Permutations(Paths) \cup Permutations(Contents)
=============================================================================
