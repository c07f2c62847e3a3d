------------------------------ MODULE FolderLife ------------------------------
(***************************************************************************)
(* What the game library promises of one ROM folder, whoever does the work *)
(* and however often it is interrupted.  A fetch that stored data makes    *)
(* its folder wait; an attempt takes the waiting folder up; the attempt's  *)
(* outcome is recorded; and only then is the folder settled, unless it was *)
(* fetched again meanwhile.  Library implements this: the module knows no  *)
(* process, no claim, no file and no crash.                                *)
(***************************************************************************)
CONSTANT Folder

Settled  == {"generated", "generation-failed"}
Outcomes == {"none", "fetched", "fetch-failed", "unmapped"} \cup Settled

VARIABLES
  stage,     \* "settled", "waiting" for an attempt, or "taken" up by one
  outcome    \* what the record shows of the folder

Init ==
  /\ stage = [f \in Folder |-> "settled"]
  /\ outcome = [f \in Folder |-> "none"]

\* Something new is stored for f, which waits again even where it was taken up.
Fetch(f) ==
  /\ stage' = [stage EXCEPT ![f] = "waiting"]
  /\ UNCHANGED outcome

\* An attempt begins for some of the waiting folders.
Take(some) ==
  /\ \A f \in some : stage[f] = "waiting"
  /\ stage' = [f \in Folder |-> IF f \in some THEN "taken" ELSE stage[f]]
  /\ UNCHANGED outcome

\* The outcome of the attempt f was taken up by.
Judge(f) ==
  /\ stage[f] = "taken"
  /\ \E o \in Settled : outcome' = [outcome EXCEPT ![f] = o]
  /\ UNCHANGED stage

\* A judged folder is done with.
Settle(f) ==
  /\ stage[f] = "taken"
  /\ outcome[f] \in Settled
  /\ stage' = [stage EXCEPT ![f] = "settled"]
  /\ UNCHANGED outcome

\* A run ends and reports.  It shows as fetched only what still waits or is being attempted,
\* and judges no attempt.
Report ==
  /\ \E shown \in [Folder -> Outcomes] :
       /\ \A f \in Folder :
            /\ shown[f] = "fetched" => stage[f] # "settled"
            /\ shown[f] \in Settled => shown[f] = outcome[f]
       /\ outcome' = shown
  /\ UNCHANGED stage

Next ==
  \/ \E f \in Folder : Fetch(f) \/ Judge(f) \/ Settle(f)
  \/ \E some \in SUBSET Folder : Take(some)
  \/ Report

Spec == Init /\ [][Next]_<<stage, outcome>>
=============================================================================
