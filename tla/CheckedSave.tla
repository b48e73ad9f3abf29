---------------------------- MODULE CheckedSave ----------------------------
(***************************************************************************)
(* What `FileService::save_checked` promises (crates/session/src/service.  *)
(* rs): a save either replaces, in one step, a version its guard accepts,  *)
(* or leaves the file as it is and fails.  Other programs change the file  *)
(* at any moment; a process that dies may leave the path empty, with the   *)
(* version it had accepted still in its hands.                             *)
(***************************************************************************)
CONSTANTS Savers, Data, NoData, Guards

VARIABLES file,     \* the version at the path, or in the hands of a running save
          job       \* the guard of each running save, or "none"

Init ==
    /\ file \in Data \union {NoData}
    /\ job = [s \in Savers |-> "none"]

Accepts(g, data) == g = "force" \/ (g = "free" /\ data = NoData) \/ g = data

Begin(s, g) ==
    /\ job[s] = "none"
    /\ job' = [job EXCEPT ![s] = g]
    /\ UNCHANGED file

\* The compare-and-swap.  Creating a file where there is none destroys
\* nothing, whatever the guard expected there.
Commit(s) ==
    /\ job[s] # "none"
    /\ Accepts(job[s], file) \/ file = NoData
    /\ file' \in Data
    /\ job' = [job EXCEPT ![s] = "none"]

\* A refused or failed save.
Fail(s) ==
    /\ job[s] # "none"
    /\ job' = [job EXCEPT ![s] = "none"]
    /\ UNCHANGED file

\* The process dies in the middle of the save.
Interrupt(s) ==
    /\ job[s] # "none"
    /\ job' = [job EXCEPT ![s] = "none"]
    /\ file' \in {file, NoData}

SaverNext == \E s \in Savers : Commit(s) \/ Fail(s) \/ \E g \in Guards : Begin(s, g)

OthersNext == file' \in Data \union {NoData} /\ UNCHANGED job

Next == SaverNext \/ (\E s \in Savers : Interrupt(s)) \/ OthersNext

Spec == Init /\ [][Next]_<<file, job>>
=============================================================================
