---------------------------- MODULE AlertContract ----------------------------
(***************************************************************************)
(* What the Time Anomaly agent promises of one alert, whoever moves it: the *)
(* LangGraph nodes, the SLA timer worker or a human reviewer.  An alert is  *)
(* raised once, moves only forward through the stages of migration 045      *)
(* (Detect -> Outreach -> Escalate HITL -> Close), and a resolved alert     *)
(* stays resolved.  TimeAnomaly is shown to implement this module.          *)
(***************************************************************************)
CONSTANT Alerts

VARIABLE stage

Stages == {"none", "detected", "outreach_sent", "escalated_hitl", "resolved"}

TypeOK == stage \in [Alerts -> Stages]

Init == stage = [a \in Alerts |-> "none"]

Raise(a) ==
    /\ stage[a] = "none"
    /\ stage' = [stage EXCEPT ![a] = "detected"]

Contact(a) ==
    /\ stage[a] = "detected"
    /\ stage' = [stage EXCEPT ![a] = "outreach_sent"]

Escalate(a) ==
    /\ stage[a] \in {"detected", "outreach_sent"}
    /\ stage' = [stage EXCEPT ![a] = "escalated_hitl"]

Close(a) ==
    /\ stage[a] \in {"detected", "outreach_sent", "escalated_hitl"}
    /\ stage' = [stage EXCEPT ![a] = "resolved"]

Next == \E a \in Alerts : Raise(a) \/ Contact(a) \/ Escalate(a) \/ Close(a)

Spec == Init /\ [][Next]_stage
=============================================================================
