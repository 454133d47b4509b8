------------------------------ MODULE StudioRun ------------------------------
(***************************************************************************)
(* What executing a flow promises its owner (useStudioRuntimeState, and    *)
(* onRunComplete of executeStudioFlow): one run is live at a time, a run   *)
(* has its outcome told exactly once, a run that is replaced or cancelled  *)
(* is never told to have succeeded, and the live run has some outcome in   *)
(* the end.                                                                *)
(***************************************************************************)
EXTENDS Naturals

CONSTANT MaxRuns     \* bound: runs of a session

VARIABLES
    live,      \* the run the page holds the cleanup of, 0 when none
    outcome    \* what onRunComplete was called with

contractVars == <<live, outcome>>

Outcomes == {"success", "error", "aborted"}

ContractInit == live = 0 /\ outcome = [r \in 1..MaxRuns |-> "none"]

(* A live run ends by itself, or is cancelled while the page keeps it.     *)
Ends(result) == /\ live # 0 /\ outcome[live] = "none"
                /\ outcome' = [outcome EXCEPT ![live] = result]
                /\ live' = live

(* Another run or no run takes the place of the live one, which learns of  *)
(* it unless it has ended; it may have met errors before.                  *)
GivesWay(next) ==
    /\ \/ live # 0 /\ outcome[live] = "none"
          /\ \E result \in Outcomes \ {"success"} :
                outcome' = [outcome EXCEPT ![live] = result]
       \/ (live # 0 => outcome[live] # "none") /\ UNCHANGED outcome
    /\ next # 0 => next > live /\ outcome[next] = "none"
    /\ live' = next

ContractNext == \/ \E result \in Outcomes : Ends(result)
                \/ \E next \in 0..MaxRuns : GivesWay(next)

ContractSafety == ContractInit /\ [][ContractNext]_contractVars

ContractSpec == /\ ContractSafety
                /\ WF_contractVars(\E result \in Outcomes : Ends(result))
=============================================================================
