------------------------------- MODULE PlanRun -------------------------------
(***************************************************************************)
(* One agent run of the plan-approve-execute cycle of the platform API:     *)
(* create_agent_plan, approve_agent_plan, execute_agent_plan and            *)
(* cancel_agent_plan on a row of agent_runs and its agent_plan_actions.     *)
(*                                                                          *)
(* A handler is one READ COMMITTED transaction.  approve and cancel read    *)
(* first and write at their commit, with no lock between, so they are       *)
(* several steps.  execute checks the status the same way, but then flushes *)
(* status 'executing', which takes the row lock of the run until it         *)
(* commits: from its flush on it is one step, and the actions it loads are  *)
(* those of that moment.  create_agent_plan inserts the run and its actions *)
(* in one transaction that nobody sees before its commit.                   *)
(***************************************************************************)
EXTENDS Naturals, FiniteSets

CONSTANTS
    Actions,      \* what the agent's graph may propose
    Operators,    \* requests in flight at once
    Outcomes,     \* what _execute_action may come to for an action
    MaxFailures   \* bound: how many requests fail half way

ASSUME PlanAssumption ==
    /\ IsFiniteSet(Actions)
    /\ Outcomes \subseteq {"success", "manual_required", "failed"}
    /\ Outcomes # {}
    /\ MaxFailures \in Nat

Statuses == {"none", "error", "plan_ready", "approved", "completed",
             "completed_with_errors", "cancelled"}
Completed == {"completed", "completed_with_errors"}
ApprovalStatuses == {"none", "pending", "approved", "skipped"}

Request == [kind : {"none", "approve", "execute", "cancel"}, seen : Statuses,
            listed : BOOLEAN, action_ids : SUBSET Actions, step : {"checked", "loaded"},
            loaded : [Actions -> ApprovalStatuses]]

NoRequest == [kind |-> "none", seen |-> "none", listed |-> FALSE, action_ids |-> {},
              step |-> "checked", loaded |-> [a \in Actions |-> "none"]]
NoReport == [total |-> 0, succeeded |-> 0, failed |-> 0, manual_required |-> 0]

VARIABLES
    status,            \* agent_runs.status ("none": no row yet)
    report,            \* agent_runs.execution_report
    approval_status,   \* of each action ("none": the plan does not have it)
    execution_status,  \* of each action
    req,               \* operator -> its request in flight
    failures,          \* how many requests have failed half way
    asked,             \* history: actions a committed approval asked for
    executed,          \* history: actions a committed execution executed
    overlapped         \* history: whether two requests were ever in flight together

vars == <<status, report, approval_status, execution_status, req, failures, asked,
          executed, overlapped>>

TypeOK ==
    /\ status \in Statuses
    /\ report \in [total : Nat, succeeded : Nat, failed : Nat, manual_required : Nat]
    /\ approval_status \in [Actions -> ApprovalStatuses]
    /\ execution_status \in [Actions -> {"none", "pending"} \cup Outcomes]
    /\ \A a \in Actions : approval_status[a] = "none" <=> execution_status[a] = "none"
    /\ req \in [Operators -> Request]
    /\ failures \in 0..MaxFailures
    /\ asked \subseteq Actions
    /\ executed \subseteq Actions
    /\ overlapped \in BOOLEAN

Init ==
    /\ status = "none"
    /\ report = NoReport
    /\ approval_status = [a \in Actions |-> "none"]
    /\ execution_status = [a \in Actions |-> "none"]
    /\ req = [h \in Operators |-> NoRequest]
    /\ failures = 0
    /\ asked = {}
    /\ executed = {}
    /\ overlapped = FALSE

\* Mutant: the actions of every run, not of this one.
OfAnyRun == Actions

\* The rows of agent_plan_actions of the run.
Planned == {a \in Actions : approval_status[a] # "none"}
Approved == {a \in Actions : approval_status[a] = "approved"}

\* What a session's UPDATE leaves in a column: it carries the column only if the
\* new value differs from the one the session loaded.
Written(current, loaded, new) == IF new = loaded THEN current ELSE new

-----------------------------------------------------------------------------
(* POST /agents/{type}/plan.                                                 *)

\* The graph proposed the actions P, or raised: then the run is kept, in error.  A
\* plan that cannot be saved (or a tenant whose tier is too low) leaves nothing.
CreatePlan ==
    /\ status = "none"
    /\ \/ /\ status' = "plan_ready"
          /\ \E P \in SUBSET Actions :
              /\ approval_status' = [a \in Actions |-> IF a \in P THEN "pending" ELSE "none"]
              /\ execution_status' = [a \in Actions |-> IF a \in P THEN "pending" ELSE "none"]
       \/ /\ status' = "error"
          /\ UNCHANGED <<approval_status, execution_status>>
    /\ UNCHANGED <<report, req, failures, asked, executed, overlapped>>

-----------------------------------------------------------------------------
(* The three requests on a run.                                              *)

\* Mutant: an approved plan may be approved again.
Undecided(s) == s \in {"plan_ready", "approved"}

MayApprove(s) == s = "plan_ready"
MayExecute(s) == s = "approved"

\* Mutant: a run whose execution has just completed may be cancelled.
Unfinished(s) == s \notin {"none", "error", "cancelled"}

MayCancel(s) == s \in {"plan_ready", "approved"}

May(kind, s) ==
    CASE kind = "approve" -> MayApprove(s)
      [] kind = "execute" -> MayExecute(s)
      [] kind = "cancel"  -> MayCancel(s)

\* The handler loads the run and checks its status (else 409).
Check(h, kind, listed, ids) ==
    /\ req[h] = NoRequest
    /\ May(kind, status)
    /\ kind = "approve" \/ ~listed
    /\ listed \/ ids = {}
    /\ req' = [req EXCEPT ![h] = [kind |-> kind, seen |-> status, listed |-> listed,
                                  action_ids |-> ids, step |-> "checked",
                                  loaded |-> approval_status]]
    /\ overlapped' = (overlapped \/ \E k \in Operators : req[k] # NoRequest)
    /\ UNCHANGED <<status, report, approval_status, execution_status, failures, asked,
                   executed>>

Doing(h, kind, step) == req[h].kind = kind /\ req[h].step = step

\* approve_agent_plan loads the actions, in a second SELECT.
ApproveLoad(h) ==
    /\ Doing(h, "approve", "checked")
    /\ req' = [req EXCEPT ![h].step = "loaded", ![h].loaded = approval_status]
    /\ UNCHANGED <<status, report, approval_status, execution_status, failures, asked,
                   executed, overlapped>>

\* No list, or an empty one, stands for every action.
Chosen(r) == IF r.listed /\ r.action_ids # {} THEN r.action_ids \cap Planned ELSE Planned

\* approve_agent_plan to its commit.
ApproveCommit(h) ==
    /\ Doing(h, "approve", "loaded")
    /\ LET chosen == Chosen(req[h])
           choice(a) == IF a \in chosen THEN "approved" ELSE "skipped"
       IN  /\ approval_status' = [a \in Actions |->
                IF a \in Planned
                THEN Written(approval_status[a], req[h].loaded[a], choice(a))
                ELSE "none"]
           /\ asked' = asked \cup chosen
    /\ status' = Written(status, req[h].seen, "approved")
    /\ req' = [req EXCEPT ![h] = NoRequest]
    /\ UNCHANGED <<report, execution_status, failures, executed, overlapped>>

\* Mutant: every action of the plan is executed.
EveryAction == Planned

\* The actions execute_agent_plan loads after its flush.
ToExecute == Approved

Count(outcomes, o) == Cardinality({a \in DOMAIN outcomes : outcomes[a] = o})

\* Mutant: the report's total is that of the plan.
PlanReport(outcomes) ==
    [total |-> Cardinality(Planned), succeeded |-> Count(outcomes, "success"),
     failed |-> Count(outcomes, "failed"),
     manual_required |-> Count(outcomes, "manual_required")]

ReportOf(outcomes) ==
    [total |-> Cardinality(DOMAIN outcomes), succeeded |-> Count(outcomes, "success"),
     failed |-> Count(outcomes, "failed"),
     manual_required |-> Count(outcomes, "manual_required")]

\* execute_agent_plan from its flush to its commit.
ExecuteCommit(h) ==
    /\ Doing(h, "execute", "checked")
    /\ \E outcomes \in [ToExecute -> Outcomes] :
        /\ execution_status' = [a \in Actions |->
                IF a \in ToExecute THEN outcomes[a] ELSE execution_status[a]]
        /\ report' = ReportOf(outcomes)
        /\ status' = IF \A a \in ToExecute : outcomes[a] = "success"
                     THEN "completed" ELSE "completed_with_errors"
    /\ executed' = executed \cup ToExecute
    /\ req' = [req EXCEPT ![h] = NoRequest]
    /\ UNCHANGED <<approval_status, failures, asked, overlapped>>

CancelCommit(h) ==
    /\ Doing(h, "cancel", "checked")
    /\ status' = Written(status, req[h].seen, "cancelled")
    /\ req' = [req EXCEPT ![h] = NoRequest]
    /\ UNCHANGED <<report, approval_status, execution_status, failures, asked, executed,
                   overlapped>>

\* A request dies before its commit, or Postgres breaks a deadlock between the rows
\* of an approval and of an execution: its transaction is rolled back.
RequestFails(h) ==
    /\ req[h] # NoRequest
    /\ failures < MaxFailures
    /\ failures' = failures + 1
    /\ req' = [req EXCEPT ![h] = NoRequest]
    /\ UNCHANGED <<status, report, approval_status, execution_status, asked, executed,
                   overlapped>>

Next ==
    \/ CreatePlan
    \/ \E h \in Operators :
        \/ \E kind \in {"approve", "execute", "cancel"}, listed \in BOOLEAN,
              ids \in SUBSET Actions : Check(h, kind, listed, ids)
        \/ ApproveLoad(h) \/ ApproveCommit(h)
        \/ ExecuteCommit(h) \/ CancelCommit(h)
        \/ RequestFails(h)

Spec == Init /\ [][Next]_vars

-----------------------------------------------------------------------------
(* Properties.                                                               *)

Lifecycle == INSTANCE PlanLifecycle WITH stage <- status, approved <- Approved

\* Refinement: until requests on a run overlap, its row goes through the documented
\* lifecycle, and what is executed is what was approved.
FollowsLifecycle ==
    /\ Lifecycle!Init
    /\ [][~overlapped' => Lifecycle!Next]_Lifecycle!vars

\* No action is executed that no operator approved, whatever requests overlap.
ExecutedWasApproved == executed \subseteq asked

\* A completed run left no approved action behind: an approval that was stale when it
\* committed cannot slip an action in after the execution has read them, because it
\* also takes the run back to approved.
CompletedMeansExecuted ==
    status \in Completed => \A a \in Approved : execution_status[a] \in Outcomes

\* The report a completed run shows is about the actions approved in it now, and the
\* run is completed without errors exactly if the report says so.
ReportTrue ==
    status \in Completed =>
        /\ report = ReportOf([a \in Approved |-> execution_status[a]])
        /\ status = "completed" <=> report.succeeded = report.total
=============================================================================
