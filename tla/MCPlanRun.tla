------------------------------ MODULE MCPlanRun ------------------------------
(* Finite instances of PlanRun, two in one run: one operator at a time on a    *)
(* plan of up to three actions, and three operators whose requests overlap, on *)
(* a plan of up to two.                                                        *)
EXTENDS PlanRun

CONSTANTS x3, h1

VARIABLE crowd      \* which of the two; it never changes

\* What execute_agent_plan is written to handle, once actions write to Bullhorn.
HandledOutcomes == {"success", "manual_required", "failed"}

Alone == \A h \in Operators \ {h1} : req'[h] = NoRequest
Crowded == approval_status'[x3] = "none" /\ \A h \in Operators : x3 \notin req'[h].action_ids

MCInit == Init /\ crowd \in BOOLEAN
MCNext == Next /\ (IF crowd THEN Crowded ELSE Alone) /\ UNCHANGED crowd
MCSpec == MCInit /\ [][MCNext]_<<vars, crowd>>
=============================================================================
