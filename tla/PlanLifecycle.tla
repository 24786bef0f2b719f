---------------------------- MODULE PlanLifecycle ----------------------------
(***************************************************************************)
(* What an agent run promises its operator (models.AgentRun: "planning ->   *)
(* plan_ready -> approved -> executing -> completed"): a plan is decided    *)
(* once, what is executed is exactly what was approved, and a run that was  *)
(* cancelled or completed is over.  The planning and executing stages are   *)
(* inside one transaction each and so are never seen from outside.          *)
(***************************************************************************)
CONSTANT Actions

VARIABLES
    stage,
    approved,   \* the actions the operator approved
    executed    \* the actions that were executed

vars == <<stage, approved, executed>>

Init == stage = "none" /\ approved = {} /\ executed = {}

Plan ==
    /\ stage = "none"
    /\ stage' \in {"plan_ready", "error"}
    /\ UNCHANGED <<approved, executed>>

Approve ==
    /\ stage = "plan_ready"
    /\ stage' = "approved"
    /\ approved' \in SUBSET Actions
    /\ UNCHANGED executed

Execute ==
    /\ stage = "approved"
    /\ stage' \in {"completed", "completed_with_errors"}
    /\ executed' = approved
    /\ UNCHANGED approved

Cancel ==
    /\ stage \in {"plan_ready", "approved"}
    /\ stage' = "cancelled"
    /\ UNCHANGED <<approved, executed>>

Next == Plan \/ Approve \/ Execute \/ Cancel

Spec == Init /\ [][Next]_vars
=============================================================================
