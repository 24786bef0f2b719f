---------------------------- MODULE Agents_proofs ----------------------------
(***************************************************************************)
(* What holds of the parts that the agents are made of, for any data they    *)
(* are given and any number of editors, threads, operators and graph runs:   *)
(* the plan cycle, detectors, matchers and graders, the wording of messages  *)
(* and the calls to language models.                                         *)
(***************************************************************************)
EXTENDS PlanRun, Detection, Matching, Analysts, Templates, ModelCalls,
        FiniteSetTheorems, SequenceTheorems, WellFoundedInduction, TLAPS

-----------------------------------------------------------------------------
(* The plan cycle.  However the requests of a run overlap, nothing is        *)
(* executed that was not approved, and a completed run left no approved      *)
(* action behind and has a true report.  The last two rest on the row lock   *)
(* of execute_agent_plan, and on an approval having read plan_ready, so that *)
(* its commit always writes the status.  Until requests overlap, a run       *)
(* follows its documented lifecycle.                                         *)

\* Counting the outcomes of some actions gives a number.
LEMMA CountType ==
    ASSUME NEW S \in SUBSET Actions, NEW f \in [S -> Outcomes], NEW o
    PROVE  Count(f, o) \in Nat
<1>1. IsFiniteSet(S)  BY PlanAssumption, FS_Subset
<1>2. IsFiniteSet({a \in S : f[a] = o})
  <2>1. {a \in S : f[a] = o} \subseteq S  OBVIOUS
  <2> QED  BY <1>1, <2>1, FS_Subset
<1>3. DOMAIN f = S  OBVIOUS
<1> QED  BY <1>2, <1>3, FS_CardinalityType DEF Count

LEMMA ReportType ==
    ASSUME NEW S \in SUBSET Actions, NEW f \in [S -> Outcomes]
    PROVE  ReportOf(f) \in [total : Nat, succeeded : Nat, failed : Nat,
                            manual_required : Nat]
<1>1. Cardinality(DOMAIN f) \in Nat
  <2>1. IsFiniteSet(S)  BY PlanAssumption, FS_Subset
  <2>2. DOMAIN f = S  OBVIOUS
  <2> QED  BY <2>1, <2>2, FS_CardinalityType
<1>2. /\ Count(f, "success") \in Nat
      /\ Count(f, "failed") \in Nat
      /\ Count(f, "manual_required") \in Nat
  BY CountType
<1> QED  BY <1>1, <1>2 DEF ReportOf

-----------------------------------------------------------------------------
\* Every reachable state of a run is well typed: models.AgentRun's status values,
\* and approval and execution columns for exactly the actions of the plan.
THEOREM TypeCorrect == Spec => []TypeOK
<1>1. Init => TypeOK
  <2> SUFFICES ASSUME Init PROVE TypeOK  OBVIOUS
  <2>1. NoRequest \in Request  BY DEF NoRequest, Request, Statuses, ApprovalStatuses
  <2>2. report \in [total : Nat, succeeded : Nat, failed : Nat, manual_required : Nat]
    BY DEF Init, NoReport
  <2>3. overlapped \in BOOLEAN  BY Zenon DEF Init
  <2> QED  BY <2>1, <2>2, <2>3, PlanAssumption DEF Init, TypeOK, Statuses, ApprovalStatuses
<1>2. TypeOK /\ [Next]_vars => TypeOK'
  <2> SUFFICES ASSUME TypeOK, [Next]_vars PROVE TypeOK'  OBVIOUS
  <2> USE DEF TypeOK
  <2>0. NoRequest \in Request  BY DEF NoRequest, Request, Statuses, ApprovalStatuses
  <2>1. CASE CreatePlan
    BY <2>1 DEF CreatePlan, Statuses, ApprovalStatuses
  <2>2. ASSUME NEW h \in Operators, NEW kind \in {"approve", "execute", "cancel"},
               NEW listed \in BOOLEAN, NEW ids \in SUBSET Actions,
               Check(h, kind, listed, ids)
        PROVE  TypeOK'
    <3> HIDE DEF TypeOK
    <3>0. status \in Statuses /\ approval_status \in [Actions -> ApprovalStatuses]  BY DEF TypeOK
    <3>1. [kind |-> kind, seen |-> status, listed |-> listed, action_ids |-> ids,
           step |-> "checked", loaded |-> approval_status] \in Request
      BY <3>0 DEF Request
    <3>2. overlapped' \in BOOLEAN  BY <2>2, Zenon DEF Check
    <3> QED  BY <2>2, <3>1, <3>2 DEF Check, TypeOK
  <2>3. ASSUME NEW h \in Operators, ApproveLoad(h) PROVE TypeOK'
    <3>0. req[h] \in Request /\ approval_status \in [Actions -> ApprovalStatuses]  OBVIOUS
    <3> HIDE DEF TypeOK
    <3>1. [req[h] EXCEPT !.step = "loaded", !.loaded = approval_status] \in Request
      BY <3>0 DEF Request
    <3>2. req' = [req EXCEPT ![h] = [req[h] EXCEPT !.step = "loaded",
                                                   !.loaded = approval_status]]
      BY <2>3 DEF ApproveLoad
    <3> QED  BY <2>3, <3>1, <3>2 DEF ApproveLoad, TypeOK
  <2>4. ASSUME NEW h \in Operators, ApproveCommit(h) PROVE TypeOK'
    <3>0. req[h] \in Request  OBVIOUS
    <3>1. Chosen(req[h]) \subseteq Actions  BY DEF Chosen, Planned
    <3>2. approval_status' \in [Actions -> ApprovalStatuses]
      BY <2>4, <3>0 DEF ApproveCommit, Written, ApprovalStatuses
    <3>3. ASSUME NEW a \in Actions
          PROVE  (approval_status[a] = "none") <=> (approval_status'[a] = "none")
      BY <2>4, <3>0 DEF ApproveCommit, Written, Planned, ApprovalStatuses
    <3>4. status' \in Statuses  BY <2>4 DEF ApproveCommit, Written, Statuses
    <3>5. asked' \subseteq Actions  BY <2>4, <3>1 DEF ApproveCommit
    <3>6. req' \in [Operators -> Request]  BY <2>0, <2>4 DEF ApproveCommit
    <3> QED  BY <2>4, <3>2, <3>3, <3>4, <3>5, <3>6 DEF ApproveCommit
  <2>5. ASSUME NEW h \in Operators, ExecuteCommit(h) PROVE TypeOK'
    <3>1. PICK outcomes \in [ToExecute -> Outcomes] :
            /\ execution_status' = [a \in Actions |->
                  IF a \in ToExecute THEN outcomes[a] ELSE execution_status[a]]
            /\ report' = ReportOf(outcomes)
            /\ status' = IF \A a \in ToExecute : outcomes[a] = "success"
                         THEN "completed" ELSE "completed_with_errors"
      BY <2>5 DEF ExecuteCommit
    <3>2. ToExecute \subseteq Actions  BY DEF ToExecute, Approved
    <3>3. report' \in [total : Nat, succeeded : Nat, failed : Nat, manual_required : Nat]
      BY <3>1, <3>2, ReportType
    <3>4. execution_status' \in [Actions -> {"none", "pending"} \cup Outcomes]
      BY <3>1
    <3>5. ASSUME NEW a \in Actions
          PROVE  (approval_status'[a] = "none") <=> (execution_status'[a] = "none")
      BY <2>5, <3>1, PlanAssumption DEF ExecuteCommit, ToExecute, Approved
    <3>6. status' \in Statuses  BY <3>1 DEF Statuses
    <3>7. req' \in [Operators -> Request]  BY <2>0, <2>5 DEF ExecuteCommit
    <3> QED  BY <2>5, <3>2, <3>3, <3>4, <3>5, <3>6, <3>7 DEF ExecuteCommit
  <2>6. ASSUME NEW h \in Operators, CancelCommit(h) PROVE TypeOK'
    BY <2>0, <2>6 DEF CancelCommit, Written, Statuses
  <2>7. ASSUME NEW h \in Operators, RequestFails(h) PROVE TypeOK'
    BY <2>0, <2>7, PlanAssumption DEF RequestFails
  <2>8. CASE UNCHANGED vars  BY <2>8 DEF vars
  <2> QED  BY <2>1, <2>2, <2>3, <2>4, <2>5, <2>6, <2>7, <2>8 DEF Next
<1> QED  BY <1>1, <1>2, PTL DEF Spec

-----------------------------------------------------------------------------
\* What is marked approved now was asked for; so is then what is executed.
ApprovedWasAsked == Approved \subseteq asked

\* No action is executed that no operator approved: execute_agent_plan selects the
\* actions whose approval_status is approved, and only approve_agent_plan writes that.
THEOREM NothingUnapproved == Spec => []ExecutedWasApproved
<1> DEFINE IInv == ApprovedWasAsked /\ ExecutedWasApproved
<1> USE DEF ApprovedWasAsked, ExecutedWasApproved, Approved
<1>1. Init => IInv  BY DEF Init
<1>2. TypeOK /\ IInv /\ [Next]_vars => IInv'
  <2> SUFFICES ASSUME TypeOK, IInv, [Next]_vars PROVE IInv'  OBVIOUS
  <2>1. CASE CreatePlan
    BY <2>1 DEF CreatePlan
  <2>2. ASSUME NEW h \in Operators, NEW kind \in {"approve", "execute", "cancel"},
               NEW listed \in BOOLEAN, NEW ids \in SUBSET Actions,
               Check(h, kind, listed, ids)
        PROVE  IInv'
    BY <2>2 DEF Check
  <2>3. ASSUME NEW h \in Operators, ApproveLoad(h) PROVE IInv'
    BY <2>3 DEF ApproveLoad
  <2>4. ASSUME NEW h \in Operators, ApproveCommit(h) PROVE IInv'
    <3>1. ASSUME NEW a \in Actions, approval_status'[a] = "approved"
          PROVE  a \in asked'
      <4>1. CASE approval_status[a] = "approved"
        BY <2>4, <4>1 DEF ApproveCommit
      <4>2. CASE approval_status[a] # "approved"
        BY <2>4, <3>1, <4>2 DEF ApproveCommit, Written
      <4> QED  BY <4>1, <4>2
    <3>2. executed' \subseteq asked'  BY <2>4 DEF ApproveCommit
    <3> QED  BY <3>1, <3>2
  <2>5. ASSUME NEW h \in Operators, ExecuteCommit(h) PROVE IInv'
    BY <2>5 DEF ExecuteCommit, ToExecute
  <2>6. ASSUME NEW h \in Operators, CancelCommit(h) PROVE IInv'
    BY <2>6 DEF CancelCommit
  <2>7. ASSUME NEW h \in Operators, RequestFails(h) PROVE IInv'
    BY <2>7 DEF RequestFails
  <2>8. CASE UNCHANGED vars  BY <2>8 DEF vars
  <2> QED  BY <2>1, <2>2, <2>3, <2>4, <2>5, <2>6, <2>7, <2>8 DEF Next
<1>3. IInv => ExecutedWasApproved  OBVIOUS
<1> QED  BY <1>1, <1>2, <1>3, TypeCorrect, PTL DEF Spec

-----------------------------------------------------------------------------
\* An approval in flight has read plan_ready, and a cancellation has not read
\* cancelled: their commits always write the status column.
SeenUndecided ==
    \A h \in Operators :
        /\ req[h].kind = "approve" => req[h].seen = "plan_ready"
        /\ req[h].kind = "cancel" => req[h].seen \in {"plan_ready", "approved"}

\* A completed run left no approved action behind, whatever requests overlap.
THEOREM CompletedLeavesNothing == Spec => []CompletedMeansExecuted
<1> DEFINE IInv == SeenUndecided /\ CompletedMeansExecuted
<1> USE DEF SeenUndecided, CompletedMeansExecuted, Completed, Approved
<1>1. Init => IInv  BY DEF Init, NoRequest
<1>2. TypeOK /\ IInv /\ [Next]_vars => IInv'
  <2> SUFFICES ASSUME TypeOK, IInv, [Next]_vars PROVE IInv'  OBVIOUS
  <2> USE DEF TypeOK
  <2>1. CASE CreatePlan
    <3>1. SeenUndecided'  BY <2>1 DEF CreatePlan
    <3>2. status' \notin Completed  BY <2>1 DEF CreatePlan
    <3> QED  BY <3>1, <3>2
  <2>2. ASSUME NEW h \in Operators, NEW kind \in {"approve", "execute", "cancel"},
               NEW listed \in BOOLEAN, NEW ids \in SUBSET Actions,
               Check(h, kind, listed, ids)
        PROVE  IInv'
    <3>1. SeenUndecided'  BY <2>2 DEF Check, May, MayApprove, MayCancel
    <3>2. CompletedMeansExecuted'  BY <2>2 DEF Check
    <3> QED  BY <3>1, <3>2
  <2>3. ASSUME NEW h \in Operators, ApproveLoad(h) PROVE IInv'
    <3>1. SeenUndecided'  BY <2>3 DEF ApproveLoad, Request
    <3>2. CompletedMeansExecuted'  BY <2>3 DEF ApproveLoad
    <3> QED  BY <3>1, <3>2
  <2>4. ASSUME NEW h \in Operators, ApproveCommit(h) PROVE IInv'
    <3>1. SeenUndecided'  BY <2>4 DEF ApproveCommit, NoRequest
    <3>2. status' = "approved"  BY <2>4 DEF ApproveCommit, Doing, Written
    <3> QED  BY <3>1, <3>2
  <2>5. ASSUME NEW h \in Operators, ExecuteCommit(h) PROVE IInv'
    <3>1. SeenUndecided'  BY <2>5 DEF ExecuteCommit, NoRequest
    <3>2. ASSUME NEW a \in Actions, approval_status'[a] = "approved"
          PROVE  execution_status'[a] \in Outcomes
      BY <2>5, <3>2 DEF ExecuteCommit, ToExecute
    <3> QED  BY <3>1, <3>2
  <2>6. ASSUME NEW h \in Operators, CancelCommit(h) PROVE IInv'
    <3>1. SeenUndecided'  BY <2>6 DEF CancelCommit, NoRequest
    <3>2. status' = "cancelled"  BY <2>6 DEF CancelCommit, Doing, Written
    <3> QED  BY <3>1, <3>2
  <2>7. ASSUME NEW h \in Operators, RequestFails(h) PROVE IInv'
    <3>1. SeenUndecided'  BY <2>7 DEF RequestFails, NoRequest
    <3>2. CompletedMeansExecuted'  BY <2>7 DEF RequestFails
    <3> QED  BY <3>1, <3>2
  <2>8. CASE UNCHANGED vars  BY <2>8 DEF vars
  <2> QED  BY <2>1, <2>2, <2>3, <2>4, <2>5, <2>6, <2>7, <2>8 DEF Next
<1>3. IInv => CompletedMeansExecuted  OBVIOUS
<1> QED  BY <1>1, <1>2, <1>3, TypeCorrect, PTL DEF Spec

-----------------------------------------------------------------------------
\* As many of some actions came to o as there are exactly if all of them did.
LEMMA AllCount ==
    ASSUME NEW S \in SUBSET Actions, NEW f \in [S -> Outcomes], NEW o
    PROVE  Count(f, o) = Cardinality(S) <=> \A a \in S : f[a] = o
<1> DEFINE T == {a \in S : f[a] = o}
<1>1. IsFiniteSet(S)  BY PlanAssumption, FS_Subset
<1>2. T \in SUBSET S  OBVIOUS
<1>3. Cardinality(S) = Cardinality(T) => S = T
  BY <1>1, <1>2, FS_Subset
<1>4. DOMAIN f = S  OBVIOUS
<1>5. Count(f, o) = Cardinality(T)
  BY <1>4 DEF Count
<1> QED  BY <1>3, <1>5

\* The report of a completed run is about the actions that are approved in it, and it
\* was completed without errors exactly if all of them succeeded.
THEOREM ReportsAreTrue == Spec => []ReportTrue
<1> DEFINE IInv == SeenUndecided /\ ReportTrue
           Done == [a \in Approved |-> execution_status[a]]
<1> USE DEF SeenUndecided
<1>1. Init => IInv
  BY DEF Init, NoRequest, ReportTrue, Completed
<1>2. TypeOK /\ IInv /\ [Next]_vars => IInv'
  <2> SUFFICES ASSUME TypeOK, IInv, [Next]_vars PROVE IInv'  OBVIOUS
  <2>0. ASSUME UNCHANGED <<status, report, approval_status, execution_status>>
        PROVE  ReportTrue'
    <3>1. Approved' = Approved  BY <2>0 DEF Approved
    <3>2. Done' = Done  BY <2>0, <3>1
    <3> HIDE DEF Done
    <3>3. ReportOf(Done)' = ReportOf(Done)  BY <3>2
    <3> QED  BY <2>0, <3>3 DEF ReportTrue, Done
  <2> USE DEF TypeOK
  <2>1. CASE CreatePlan
    <3>1. SeenUndecided'  BY <2>1 DEF CreatePlan
    <3>2. status' \notin Completed  BY <2>1 DEF CreatePlan, Completed
    <3> QED  BY <3>1, <3>2 DEF ReportTrue
  <2>2. ASSUME NEW h \in Operators, NEW kind \in {"approve", "execute", "cancel"},
               NEW listed \in BOOLEAN, NEW ids \in SUBSET Actions,
               Check(h, kind, listed, ids)
        PROVE  IInv'
    <3>1. SeenUndecided'  BY <2>2 DEF Check, May, MayApprove, MayCancel
    <3> QED  BY <2>0, <2>2, <3>1 DEF Check
  <2>3. ASSUME NEW h \in Operators, ApproveLoad(h) PROVE IInv'
    <3>1. SeenUndecided'  BY <2>3 DEF ApproveLoad, Request
    <3> QED  BY <2>0, <2>3, <3>1 DEF ApproveLoad
  <2>4. ASSUME NEW h \in Operators, ApproveCommit(h) PROVE IInv'
    <3>1. SeenUndecided'  BY <2>4 DEF ApproveCommit, NoRequest
    <3>2. status' = "approved"  BY <2>4 DEF ApproveCommit, Doing, Written
    <3> QED  BY <3>1, <3>2 DEF ReportTrue, Completed
  <2>5. ASSUME NEW h \in Operators, ExecuteCommit(h) PROVE IInv'
    <3>1. SeenUndecided'  BY <2>5 DEF ExecuteCommit, NoRequest
    <3>2. PICK outcomes \in [Approved -> Outcomes] :
            /\ execution_status' = [a \in Actions |->
                  IF a \in Approved THEN outcomes[a] ELSE execution_status[a]]
            /\ report' = ReportOf(outcomes)
            /\ status' = IF \A a \in Approved : outcomes[a] = "success"
                         THEN "completed" ELSE "completed_with_errors"
      BY <2>5 DEF ExecuteCommit, ToExecute
    <3>3. Approved' = Approved /\ Approved \subseteq Actions
      BY <2>5 DEF ExecuteCommit, Approved
    <3>4. Done' = outcomes
      BY <3>2, <3>3
    <3>5. report'.succeeded = Count(outcomes, "success") /\ report'.total = Cardinality(Approved)
      BY <3>2 DEF ReportOf
    <3>6. status' = "completed" <=> report'.succeeded = report'.total
      BY <3>2, <3>3, <3>5, AllCount
    <3>7. report' = ReportOf(Done)'
      BY <3>2, <3>4
    <3> QED  BY <3>1, <3>6, <3>7 DEF ReportTrue
  <2>6. ASSUME NEW h \in Operators, CancelCommit(h) PROVE IInv'
    <3>1. SeenUndecided'  BY <2>6 DEF CancelCommit, NoRequest
    <3>2. status' = "cancelled"  BY <2>6 DEF CancelCommit, Doing, Written
    <3> QED  BY <3>1, <3>2 DEF ReportTrue, Completed
  <2>7. ASSUME NEW h \in Operators, RequestFails(h) PROVE IInv'
    <3>1. SeenUndecided'  BY <2>7 DEF RequestFails, NoRequest
    <3> QED  BY <2>0, <2>7, <3>1 DEF RequestFails
  <2>8. CASE UNCHANGED vars  BY <2>0, <2>8 DEF vars
  <2> QED  BY <2>1, <2>2, <2>3, <2>4, <2>5, <2>6, <2>7, <2>8 DEF Next
<1>3. IInv => ReportTrue  OBVIOUS
<1> QED  BY <1>1, <1>2, <1>3, TypeCorrect, PTL DEF Spec

-----------------------------------------------------------------------------
(* The lifecycle that models.AgentRun documents.                             *)

\* While requests do not overlap: what a request has read is what there is, no action
\* of a run without a plan is approved, and nothing is executed before the execution.
OneByOne ==
    /\ \A h, k \in Operators : req[h] # NoRequest /\ req[k] # NoRequest => h = k
    /\ \A h \in Operators :
         /\ req[h] # NoRequest => req[h].kind \in {"approve", "execute", "cancel"}
                                  /\ req[h].seen = status /\ May(req[h].kind, status)
         /\ Doing(h, "approve", "loaded") => req[h].loaded = approval_status
    /\ status = "none" => Approved = {}
    /\ status \in {"none", "error", "plan_ready", "approved"} => executed = {}

\* Until two requests have overlapped, every step of a run is one of the lifecycle or
\* leaves it where it was: a plan is decided once, what is executed is what was
\* approved, and what is over is over.
THEOREM RunsFollowLifecycle == Spec => FollowsLifecycle
<1> USE DEF OneByOne
<1>1. Init => OneByOne /\ Lifecycle!Init
  BY DEF Init, Approved, NoRequest, Doing, Lifecycle!Init
<1>2. /\ TypeOK /\ (~overlapped => OneByOne) /\ [Next]_vars
      => (~overlapped' => OneByOne' /\ [Lifecycle!Next]_Lifecycle!vars)
  <2> SUFFICES ASSUME TypeOK, ~overlapped => OneByOne, [Next]_vars, ~overlapped'
               PROVE  OneByOne' /\ [Lifecycle!Next]_Lifecycle!vars
    OBVIOUS
  <2>9. OneByOne
    <3>1. \/ overlapped' = overlapped
          \/ overlapped' = (overlapped \/ \E k \in Operators : req[k] # NoRequest)
      BY DEF Next, vars, CreatePlan, Check, ApproveLoad, ApproveCommit, ExecuteCommit, CancelCommit,
             RequestFails
    <3>2. ~overlapped  BY <3>1, Zenon
    <3> QED  BY <3>2
  <2> USE <2>9
  <2> USE DEF TypeOK
  <2>0. ASSUME UNCHANGED <<status, approval_status, executed>>
        PROVE  Approved' = Approved /\ UNCHANGED Lifecycle!vars
    BY <2>0 DEF Approved, Lifecycle!vars
  <2>1. CASE CreatePlan
    <3>1. \A h \in Operators : req[h] = NoRequest
      BY <2>1 DEF CreatePlan, May, MayApprove, MayExecute, MayCancel
    <3>2. Approved = {} /\ Approved' = {} /\ executed = {}
      BY <2>1 DEF CreatePlan, Approved
    <3>3. OneByOne'
      BY <2>1, <3>1, <3>2 DEF CreatePlan, Doing, NoRequest
    <3>4. Lifecycle!Plan
      BY <2>1, <3>2 DEF CreatePlan, Lifecycle!Plan
    <3> QED  BY <3>3, <3>4 DEF Lifecycle!Next
  <2>2. ASSUME NEW h \in Operators, NEW kind \in {"approve", "execute", "cancel"},
               NEW listed \in BOOLEAN, NEW ids \in SUBSET Actions,
               Check(h, kind, listed, ids)
        PROVE  OneByOne' /\ [Lifecycle!Next]_Lifecycle!vars
    <3>1. \A k \in Operators \ {h} : req[k] = NoRequest /\ req'[k] = NoRequest
      BY <2>2 DEF Check, NoRequest
    <3>2. OneByOne'
      BY <2>0, <2>2, <3>1 DEF Check, Doing
    <3> QED  BY <2>0, <2>2, <3>2 DEF Check
  <2>3. ASSUME NEW h \in Operators, ApproveLoad(h)
        PROVE  OneByOne' /\ [Lifecycle!Next]_Lifecycle!vars
    <3>0. req[h] # NoRequest
      BY <2>3 DEF ApproveLoad, Doing, NoRequest
    <3>1. \A k \in Operators \ {h} : req[k] = NoRequest /\ req'[k] = NoRequest
      BY <2>3, <3>0 DEF ApproveLoad
    <3>2. /\ req'[h].kind = "approve" /\ req'[h].seen = req[h].seen
          /\ req'[h].loaded = approval_status
      BY <2>3 DEF ApproveLoad, Doing, Request
    <3>4. OneByOne'
      BY <2>0, <2>3, <3>0, <3>1, <3>2 DEF ApproveLoad, Doing
    <3> QED  BY <2>0, <2>3, <3>4 DEF ApproveLoad
  <2>4. ASSUME NEW h \in Operators, ApproveCommit(h)
        PROVE  OneByOne' /\ [Lifecycle!Next]_Lifecycle!vars
    <3>0. req[h] # NoRequest
      BY <2>4 DEF ApproveCommit, Doing, NoRequest
    <3>1. \A k \in Operators : req'[k] = NoRequest
      BY <2>4, <3>0 DEF ApproveCommit
    <3>2. status = "plan_ready" /\ req[h].seen = status
      <4>1. req[h].kind = "approve"  BY <2>4 DEF ApproveCommit, Doing
      <4>2. req[h] # NoRequest  BY <4>1 DEF NoRequest
      <4>3. req[h].seen = status /\ May("approve", status)  BY <4>1, <4>2
      <4> QED  BY <4>3 DEF May, MayApprove
    <3>3. status' = "approved" /\ executed' = {} /\ req'[h] = NoRequest
      BY <2>4, <3>2 DEF ApproveCommit, Written
    <3>4. Approved' \in SUBSET Actions
      BY DEF Approved
    <3>5. Lifecycle!Approve
      BY <2>4, <3>2, <3>3, <3>4 DEF ApproveCommit, Lifecycle!Approve
    <3>6. OneByOne'
      <4>1. \A k \in Operators : ~Doing(k, "approve", "loaded")'
        BY <3>1 DEF Doing, NoRequest
      <4> QED  BY <3>1, <3>3, <4>1
    <3> QED  BY <3>5, <3>6 DEF Lifecycle!Next
  <2>5. ASSUME NEW h \in Operators, ExecuteCommit(h)
        PROVE  OneByOne' /\ [Lifecycle!Next]_Lifecycle!vars
    <3>0. req[h] # NoRequest
      BY <2>5 DEF ExecuteCommit, Doing, NoRequest
    <3>1. \A k \in Operators : req'[k] = NoRequest
      BY <2>5, <3>0 DEF ExecuteCommit
    <3>2. status = "approved" /\ executed = {}
      <4>1. req[h].kind = "execute"  BY <2>5 DEF ExecuteCommit, Doing
      <4>2. req[h] # NoRequest  BY <4>1 DEF NoRequest
      <4>3. req[h].seen = status /\ May("execute", status)  BY <4>1, <4>2
      <4> QED  BY <4>3 DEF May, MayExecute
    <3>3. /\ status' \in {"completed", "completed_with_errors"} /\ executed' = Approved
          /\ Approved' = Approved /\ req'[h] = NoRequest
      BY <2>5, <3>2 DEF ExecuteCommit, ToExecute, Approved
    <3>4. Lifecycle!Execute
      BY <3>2, <3>3 DEF Lifecycle!Execute
    <3>5. OneByOne'
      <4>1. \A k \in Operators : ~Doing(k, "approve", "loaded")'
        BY <3>1 DEF Doing, NoRequest
      <4> QED  BY <3>1, <3>3, <4>1
    <3> QED  BY <3>4, <3>5 DEF Lifecycle!Next
  <2>6. ASSUME NEW h \in Operators, CancelCommit(h)
        PROVE  OneByOne' /\ [Lifecycle!Next]_Lifecycle!vars
    <3>0. req[h] # NoRequest
      BY <2>6 DEF CancelCommit, Doing, NoRequest
    <3>1. \A k \in Operators : req'[k] = NoRequest
      BY <2>6, <3>0 DEF CancelCommit
    <3>2. status \in {"plan_ready", "approved"} /\ req[h].seen = status
      <4>1. req[h].kind = "cancel"  BY <2>6 DEF CancelCommit, Doing
      <4>2. req[h] # NoRequest  BY <4>1 DEF NoRequest
      <4>3. req[h].seen = status /\ May("cancel", status)  BY <4>1, <4>2
      <4> QED  BY <4>3 DEF May, MayCancel
    <3>3. status' = "cancelled" /\ Approved' = Approved /\ executed' = executed
          /\ req'[h] = NoRequest
      BY <2>6, <3>2 DEF CancelCommit, Written, Approved
    <3>4. Lifecycle!Cancel
      BY <3>2, <3>3 DEF Lifecycle!Cancel
    <3>5. OneByOne'
      <4>1. \A k \in Operators : ~Doing(k, "approve", "loaded")'
        BY <3>1 DEF Doing, NoRequest
      <4> QED  BY <3>1, <3>3, <4>1
    <3> QED  BY <3>4, <3>5 DEF Lifecycle!Next
  <2>7. ASSUME NEW h \in Operators, RequestFails(h)
        PROVE  OneByOne' /\ [Lifecycle!Next]_Lifecycle!vars
    <3>1. \A k \in Operators : req'[k] = NoRequest
      BY <2>7 DEF RequestFails
    <3>2. OneByOne'
      BY <2>0, <2>7, <3>1 DEF RequestFails, Doing, NoRequest
    <3> QED  BY <2>0, <2>7, <3>2 DEF RequestFails
  <2>8. CASE UNCHANGED vars
    <3>1. OneByOne'
      BY <2>0, <2>8 DEF vars, Doing
    <3> QED  BY <2>0, <2>8, <3>1 DEF vars
  <2> QED  BY <2>1, <2>2, <2>3, <2>4, <2>5, <2>6, <2>7, <2>8 DEF Next
<1> QED  BY <1>1, <1>2, TypeCorrect, PTL DEF Spec, FollowsLifecycle

-----------------------------------------------------------------------------
(* Wording.                                                                  *)

Words == UNION {{draft[c] : c \in Columns} : draft \in Drafts}
Texts == [Columns -> Words]
Row == [content : Texts, active : BOOLEAN]
Put == [draft : Drafts, row : Nat, loaded : Texts \cup {PlatformText}]

\* The rows, and the requests under way, each about a row there is or none.
TemplateTypes ==
    /\ overrides \in Seq(Row)
    /\ puts \in [Editors -> Put \cup {Nothing}]
    /\ \A e \in Editors : puts[e] # Nothing => puts[e].row \in 0 .. Len(overrides)
    /\ latest \in Drafts \cup {Nothing}
    /\ crossed \in BOOLEAN

\* The partial unique index.
OneActive == \A i, j \in ActiveRows : i = j

\* While no two PUTs have been under way together: the active row has what was sent
\* last, and what a PUT has read is still what there is, unless its row was deleted.
InStep ==
    /\ \A e, f \in Editors : puts[e] # Nothing /\ puts[f] # Nothing => e = f
    /\ latest = Nothing <=> ActiveRows = {}
    /\ \A i \in ActiveRows : overrides[i].content = latest
    /\ \A e \in Editors : puts[e] # Nothing =>
          IF puts[e].row = 0 THEN ActiveRows = {}
          ELSE puts[e].row \in ActiveRows => puts[e].loaded = overrides[puts[e].row].content

TemplateInv == TemplateTypes /\ OneActive /\ (~crossed => InStep)

LEMMA DraftsAreTexts == Drafts \subseteq Texts
BY TemplatesAssumption DEF Texts, Words

\* Active is the active row, or 0.
LEMMA ActiveRow ==
    ASSUME TemplateTypes
    PROVE  /\ Active \in 0 .. Len(overrides)
           /\ IF ActiveRows = {} THEN Active = 0 ELSE Active \in ActiveRows /\ Active # 0
           /\ Served \in Texts \cup {PlatformText}
           /\ Active # 0 => Served = overrides[Active].content
<1>1. ActiveRows \subseteq 1 .. Len(overrides)
  BY DEF ActiveRows, TemplateTypes
<1>2. IF ActiveRows = {} THEN Active = 0 ELSE Active \in ActiveRows /\ Active # 0
  BY <1>1 DEF Active
<1>3. \A i \in ActiveRows : overrides[i].content \in Texts
  <2>1. \A i \in 1 .. Len(overrides) : overrides[i] \in Row
    BY DEF TemplateTypes
  <2> QED  BY <1>1, <2>1 DEF Row
<1>4. Active \in 0 .. Len(overrides)
  <2>1. Len(overrides) \in Nat  BY DEF TemplateTypes
  <2>2. CASE ActiveRows = {}  BY <1>2, <2>1, <2>2
  <2>3. CASE ActiveRows # {}
    <3>1. Active \in 1 .. Len(overrides)  BY <1>1, <1>2, <2>3
    <3> QED  BY <2>1, <3>1
  <2> QED  BY <2>2, <2>3
<1> QED  BY <1>2, <1>3, <1>4 DEF Served

\* The tenant is served what its last PUT sent, or the platform's wording once that was
\* deleted, however PUT and DELETE interleave, unless two PUTs have overlapped: the row
\* an UPDATE names may have been deleted, but nothing makes it active again.
THEOREM LatestIsServed == TemplateSpec => []ServedIsLatest
<1>1. TemplateInit => TemplateInv
  <2> SUFFICES ASSUME TemplateInit PROVE TemplateInv  OBVIOUS
  <2>1. ActiveRows = {}  BY DEF TemplateInit, ActiveRows
  <2>2. TemplateTypes
    <3>1. << >> \in Seq(Row)  OBVIOUS
    <3> QED  BY <3>1 DEF TemplateInit, TemplateTypes
  <2> QED  BY <2>1, <2>2 DEF TemplateInit, TemplateInv, OneActive, InStep
<1>2. TemplateInv /\ [TemplateNext]_templateVars => TemplateInv'
  <2> SUFFICES ASSUME TemplateInv, [TemplateNext]_templateVars PROVE TemplateInv'
    OBVIOUS
  <2> USE DEF TemplateInv
  <2>1. ASSUME NEW e \in Editors, NEW draft \in Drafts, PutRead(e, draft)
        PROVE  TemplateInv'
    <3>1. ActiveRows' = ActiveRows
      BY <2>1 DEF PutRead, ActiveRows
    <3>2. [draft |-> draft, row |-> Active, loaded |-> Served] \in Put
      BY ActiveRow DEF Put, TemplateTypes
    <3>3. TemplateTypes'
      BY <2>1, <3>2, ActiveRow DEF PutRead, TemplateTypes
    <3>4. ~crossed' => InStep'
      BY <2>1, <3>1, <3>2, ActiveRow DEF PutRead, InStep, TemplateTypes
    <3> QED  BY <3>1, <3>3, <3>4 DEF OneActive
  <2>2. ASSUME NEW e \in Editors, PutInserts(e) PROVE TemplateInv'
    <3>1. CASE Active = 0
      <4> DEFINE row == [content |-> puts[e].draft, active |-> TRUE]
      <4>1. row \in Row
        BY <2>2, DraftsAreTexts DEF PutInserts, TemplateTypes, Put, Row
      <4>2. /\ overrides' = Append(overrides, row) /\ latest' = puts[e].draft
            /\ puts' = [puts EXCEPT ![e] = Nothing] /\ UNCHANGED crossed
        BY <2>2, <3>1 DEF PutInserts, Answered
      <4>3. ActiveRows' = {Len(overrides) + 1}
        BY <4>1, <4>2, <3>1, ActiveRow DEF ActiveRows, TemplateTypes
      <4>4. TemplateTypes'
        BY <4>1, <4>2, <2>2 DEF TemplateTypes, PutInserts, Put
      <4>5. overrides'[Len(overrides) + 1] = row
        BY <4>1, <4>2 DEF TemplateTypes
      <4>6. latest' # Nothing
        BY <2>2, <4>2, TemplatesAssumption DEF PutInserts, TemplateTypes, Put
      <4>7. ~crossed' => InStep'
        BY <4>2, <4>3, <4>5, <4>6, <2>2 DEF InStep, TemplateTypes, PutInserts
      <4> QED  BY <4>3, <4>4, <4>7 DEF OneActive
    <3>2. CASE Active # 0
      <4>1. /\ UNCHANGED <<overrides, latest, crossed>>
            /\ puts' = [puts EXCEPT ![e] = Nothing]
        BY <2>2, <3>2 DEF PutInserts, Answered
      <4>2. ActiveRows' = ActiveRows
        BY <4>1 DEF ActiveRows
      <4> QED  BY <4>1, <4>2 DEF TemplateTypes, OneActive, InStep
    <3> QED  BY <3>1, <3>2
  <2>3. ASSUME NEW e \in Editors, PutUpdates(e) PROVE TemplateInv'
    <3> DEFINE i == puts[e].row
               row == Updated(overrides[i], puts[e])
    <3>1. /\ puts[e] \in Put /\ i \in 1 .. Len(overrides)
          /\ overrides' = [overrides EXCEPT ![i] = row]
          /\ latest' = IF overrides[i].active THEN puts[e].draft ELSE latest
          /\ puts' = [puts EXCEPT ![e] = Nothing] /\ UNCHANGED crossed
      BY <2>3 DEF PutUpdates, Answered, TemplateTypes, Put
    <3>2. /\ row \in Row
          /\ row.active = overrides[i].active
      <4>1. overrides[i] \in Row
        BY <3>1 DEF TemplateTypes
      <4>2. row = [content |-> [c \in Columns |->
                        IF puts[e].draft[c] = puts[e].loaded[c] THEN overrides[i].content[c]
                        ELSE puts[e].draft[c]],
                   active |-> overrides[i].active]
        BY <4>1 DEF Updated, Row
      <4>3. puts[e].draft \in Texts
        BY <3>1, DraftsAreTexts DEF Put
      <4>4. row.content \in Texts
        <5>1. overrides[i].content \in Texts  BY <4>1 DEF Row
        <5>2. row.content = [c \in Columns |->
                  IF puts[e].draft[c] = puts[e].loaded[c] THEN overrides[i].content[c]
                  ELSE puts[e].draft[c]]
          BY <4>2
        <5> HIDE DEF row
        <5> QED  BY <4>3, <5>1, <5>2 DEF Texts
      <4> QED  BY <4>1, <4>2, <4>4 DEF Row
    <3>3. /\ Len(overrides') = Len(overrides)
          /\ \A k \in 1 .. Len(overrides) : overrides'[k] = IF k = i THEN row ELSE overrides[k]
          /\ overrides' \in Seq(Row)
      BY <3>1, <3>2 DEF TemplateTypes
    <3> HIDE DEF row
    <3>4. ActiveRows' = ActiveRows
      BY <3>1, <3>2, <3>3 DEF ActiveRows, TemplateTypes
    <3>5. TemplateTypes'
      BY <3>1, <3>3 DEF TemplateTypes, Put
    <3>6. ASSUME ~crossed, i \in ActiveRows PROVE row.content = puts[e].draft
      <4>1. overrides[i].content = puts[e].loaded
        BY <2>3, <3>1, <3>6 DEF InStep, PutUpdates
      <4>2. row.content = [c \in Columns |-> puts[e].draft[c]]
        BY <3>1, <4>1 DEF row, Updated, TemplateTypes
      <4> QED  BY <3>1, <4>2, TemplatesAssumption DEF Put
    <3>7. ASSUME ~crossed' PROVE InStep'
      <4>1. i \in ActiveRows => latest' = puts[e].draft /\ latest' # Nothing
        BY <3>1, TemplatesAssumption DEF ActiveRows, Put
      <4>2. i \notin ActiveRows => latest' = latest
        BY <3>1 DEF ActiveRows, TemplateTypes
      <4>3. \A k \in ActiveRows : k # i => overrides'[k] = overrides[k]
        BY <3>3 DEF ActiveRows, TemplateTypes
      <4>4. ActiveRows \subseteq 1 .. Len(overrides)
        BY DEF ActiveRows, TemplateTypes
      <4>5. \A k \in ActiveRows' : overrides'[k].content = latest'
        BY <3>1, <3>3, <3>4, <3>6, <3>7, <4>1, <4>2, <4>3, <4>4 DEF InStep, OneActive
      <4>6. latest' = Nothing <=> ActiveRows' = {}
        BY <3>1, <3>4, <3>7, <4>1, <4>2 DEF InStep
      <4>7. \A f \in Editors : puts'[f] = Nothing
        BY <2>3, <3>1, <3>7 DEF InStep, TemplateTypes, PutUpdates
      <4> QED  BY <4>5, <4>6, <4>7 DEF InStep
    <3> QED  BY <3>4, <3>5, <3>7 DEF OneActive
  <2>4. CASE DeleteOverride
    <3> DEFINE row == [overrides[Active] EXCEPT !.active = FALSE]
    <3>1. /\ Active \in ActiveRows /\ Active \in 1 .. Len(overrides)
          /\ overrides' = [overrides EXCEPT ![Active] = row]
          /\ latest' = Nothing /\ UNCHANGED <<puts, crossed>>
      BY <2>4, ActiveRow DEF DeleteOverride
    <3>2. row \in Row /\ ~row.active
      <4>1. overrides[Active] \in Row
        BY <3>1 DEF TemplateTypes
      <4> QED  BY <4>1 DEF Row
    <3>3. /\ Len(overrides') = Len(overrides)
          /\ \A k \in 1 .. Len(overrides) : overrides'[k] = IF k = Active THEN row ELSE overrides[k]
          /\ overrides' \in Seq(Row)
      BY <3>1, <3>2 DEF TemplateTypes
    <3>4. ActiveRows' = {}
      BY <3>1, <3>2, <3>3 DEF ActiveRows, TemplateTypes, OneActive
    <3> QED  BY <3>1, <3>3, <3>4 DEF TemplateTypes, OneActive, InStep
  <2>5. CASE UNCHANGED templateVars
    BY <2>5 DEF templateVars, TemplateTypes, OneActive, InStep, ActiveRows
  <2> QED  BY <2>1, <2>2, <2>3, <2>4, <2>5 DEF TemplateNext
<1>3. TemplateInv => ServedIsLatest
  <2> SUFFICES ASSUME TemplateInv, ~crossed PROVE Served = IF latest = Nothing THEN PlatformText ELSE latest
    BY DEF ServedIsLatest
  <2> QED  BY ActiveRow DEF TemplateInv, InStep, Served
<1> QED  BY <1>1, <1>2, <1>3, PTL DEF TemplateSpec
-----------------------------------------------------------------------------
(* Calls to language models.                                                 *)

Hows == {"answered", "failed"}
Call == [at : {"router"}, model : Models, left : Seq(Models)]
        \cup [at : {"claude"}, attempt : 1 .. RetryMax]
        \cup [at : {"record"}, count : Nat]

CallTypes ==
    /\ failed_calls \in [BreakerKeys -> Nat]
    /\ calls \in [Callers -> Call \cup {Idling}]
    /\ endings \in [BreakerKeys -> Seq(Hows)]
    /\ raced \in BOOLEAN

\* The count is that of the failures at the end of the list, which is cut at Threshold.
Counts(list, n) ==
    /\ Len(list) <= Threshold
    /\ n <= Len(list) \/ Len(list) = Threshold
    /\ \A i \in 1 .. Len(list) : i > Len(list) - n => list[i] = "failed"
    /\ n < Len(list) => list[Len(list) - n] = "answered"

\* Until two threads race, one at most is about to record a failure, and the count it has
\* read is still the breaker's.
OneRecords ==
    /\ \A c, d \in Recording : c = d
    /\ \A c \in Recording : calls[c].count = failed_calls["invoke_claude"]

CallInv ==
    /\ CallTypes
    /\ \A k \in BreakerKeys : (k = "invoke_claude" => ~raced) => Counts(endings[k], failed_calls[k])
    /\ ~raced => OneRecords

Recent(list, how) ==
    IF Len(list) + 1 > Threshold THEN Tail(Append(list, how)) ELSE Append(list, how)

LEMMA Limits == Threshold \in Nat \ {0} /\ RetryMax \in Nat \ {0}
BY ModelCallsAssumption

LEMMA RecentCounts ==
    ASSUME NEW list \in Seq(Hows), NEW n \in Nat, NEW how \in Hows
    PROVE  /\ Recent(list, how) \in Seq(Hows)
           /\ Counts(list, n) => Counts(Recent(list, how), IF how = "failed" THEN n + 1 ELSE 0)
<1> DEFINE all == Append(list, how)
           m == Len(list)
<1>1. /\ m \in Nat /\ all \in Seq(Hows) /\ Len(all) = m + 1
      /\ \A i \in 1 .. m + 1 : all[i] = IF i = m + 1 THEN how ELSE list[i]
      /\ Tail(all) \in Seq(Hows) /\ Len(Tail(all)) = m
      /\ \A i \in 1 .. m : Tail(all)[i] = all[i + 1]
  OBVIOUS
<1>2. Recent(list, how) \in Seq(Hows)
  BY <1>1 DEF Recent
<1>3. ASSUME Counts(list, n), m + 1 > Threshold
      PROVE  Counts(Tail(all), IF how = "failed" THEN n + 1 ELSE 0)
  <2>1. m = Threshold  BY <1>1, <1>3, Limits DEF Counts
  <2> DEFINE t == Tail(all)
  <2>2. /\ Len(t) = m /\ Threshold \in Nat \ {0}
        /\ \A i \in 1 .. m : t[i] = IF i = m THEN how ELSE list[i + 1]
    BY <1>1, <2>1, Limits
  <2> HIDE DEF t
  <2>3. /\ \A i \in 1 .. m : i > m - n => list[i] = "failed"
        /\ n < m => list[m - n] = "answered"
    BY <1>3 DEF Counts
  <2>4. CASE how = "failed"
    <3>1. ASSUME NEW i \in 1 .. m, i > m - (n + 1) PROVE t[i] = "failed"
      <4>1. CASE i = m  BY <2>2, <2>4, <4>1
      <4>2. CASE i # m
        <5>1. i + 1 \in 1 .. m /\ i + 1 > m - n  BY <1>1, <3>1, <4>2
        <5> QED  BY <2>2, <2>3, <4>2, <5>1
      <4> QED  BY <4>1, <4>2
    <3>2. ASSUME n + 1 < m PROVE t[m - (n + 1)] = "answered"
      <4>1. /\ m - (n + 1) \in 1 .. m /\ m - (n + 1) # m
            /\ m - (n + 1) + 1 = m - n /\ n < m
        BY <1>1, <3>2
      <4> QED  BY <2>2, <2>3, <4>1
    <3>3. Len(t) = Threshold /\ Len(t) = m  BY <2>1, <2>2
    <3>4. Counts(t, n + 1)  BY <3>1, <3>2, <3>3 DEF Counts
    <3> QED  BY <2>4, <3>4 DEF t
  <2>5. CASE how = "answered"
    BY <1>1, <2>1, <2>2, <2>5 DEF Counts
  <2> QED  BY <2>4, <2>5 DEF t, Hows
<1>4. ASSUME Counts(list, n), m + 1 <= Threshold
      PROVE  Counts(all, IF how = "failed" THEN n + 1 ELSE 0)
  BY <1>1, <1>4, Limits DEF Counts, Hows
<1> QED  BY <1>1, <1>2, <1>3, <1>4, Limits DEF Recent

\* What ending a call on a key does to the lists.
LEMMA EndingStep ==
    ASSUME CallTypes, NEW key \in BreakerKeys, NEW how \in Hows, Ending(key, how)
    PROVE  /\ endings' \in [BreakerKeys -> Seq(Hows)]
           /\ \A k \in BreakerKeys :
                endings'[k] = IF k = key THEN Recent(endings[k], how) ELSE endings[k]
<1>1. endings' = [endings EXCEPT ![key] = Recent(endings[key], how)]
  BY DEF Ending, Recent, CallTypes
<1> QED  BY <1>1, RecentCounts DEF CallTypes

\* What a caller waits for after it has been sent on to a chain or to Claude.
LEMMA SentOn ==
    ASSUME CallTypes, NEW c \in Callers, NEW chain \in Seq(Models),
           Along(c, chain) \/ Directly(c)
    PROVE  \E call \in Call \cup {Idling} :
              /\ calls' = [calls EXCEPT ![c] = call]
              /\ call # Idling => call.at # "record"
<1>1. CASE Directly(c)
  <2>1. [at |-> "claude", attempt |-> 1] \in Call
    BY Limits DEF Call
  <2>2. CASE calls' = [calls EXCEPT ![c] = Idling]  BY <2>2
  <2>3. CASE calls' = [calls EXCEPT ![c] = [at |-> "claude", attempt |-> 1]]
    <3>1. [at |-> "claude", attempt |-> 1].at # "record"  OBVIOUS
    <3> QED  BY <2>1, <2>3, <3>1
  <2> QED  BY <1>1, <2>2, <2>3 DEF Directly
<1>2. CASE Usable(chain) # {} /\ Along(c, chain)
  <2>1. PICK i \in Usable(chain) :
          calls' = [calls EXCEPT ![c] = [at |-> "router", model |-> chain[i],
                                         left |-> SubSeq(chain, i + 1, Len(chain))]]
    BY <1>2 DEF Along
  <2>2. i \in 1 .. Len(chain)  BY DEF Usable
  <2>3. chain[i] \in Models  BY <2>2
  <2>4. SubSeq(chain, i + 1, Len(chain)) \in Seq(Models)
    <3>1. \A j \in i + 1 .. Len(chain) : chain[j] \in Models  BY <2>2
    <3> QED  BY <2>2, <3>1, SubSeqProperties
  <2>5. [at |-> "router", model |-> chain[i], left |-> SubSeq(chain, i + 1, Len(chain))] \in Call
    BY <2>3, <2>4 DEF Call
  <2>6. [at |-> "router", model |-> chain[i], left |-> SubSeq(chain, i + 1, Len(chain))].at # "record"
    OBVIOUS
  <2> QED  BY <2>1, <2>5, <2>6
<1> QED  BY <1>1, <1>2 DEF Along

\* A breaker is open exactly when the last Threshold calls on its key have failed: the
\* router and invoke_claude count each ending once, and only two threads between the read
\* and the write of record_failure may lose one.
THEOREM OpenOnFailures == CallSpec => []OpenAfterFailures
<1>1. CallInit => CallInv
  <2> SUFFICES ASSUME CallInit PROVE CallInv  OBVIOUS
  <2>1. CallTypes
    <3>1. << >> \in Seq(Hows)  OBVIOUS
    <3> QED  BY <3>1 DEF CallInit, CallTypes
  <2>2. Counts(<< >>, 0)  BY Limits DEF Counts
  <2>3. Recording = {}  BY DEF CallInit, Recording, Waits
  <2> QED  BY <2>1, <2>2, <2>3 DEF CallInit, CallInv, OneRecords
<1>2. CallInv /\ [CallNext]_callVars => CallInv'
  <2> SUFFICES ASSUME CallInv, [CallNext]_callVars PROVE CallInv'  OBVIOUS
  <2> USE DEF CallInv
  <2>0. ASSUME NEW c \in Callers, NEW call \in Call \cup {Idling},
               calls' = [calls EXCEPT ![c] = call], call # Idling => call.at # "record"
        PROVE  /\ calls' \in [Callers -> Call \cup {Idling}]
               /\ Recording' = Recording \ {c}
               /\ \A d \in Recording' : calls'[d] = calls[d]
    BY <2>0 DEF CallTypes, Recording, Waits
  <2>1. ASSUME NEW c \in Callers, NEW task \in DOMAIN Route, Ask(c, task) PROVE CallInv'
    <3>1. Route[task] \in Seq(Models)
      <4>1. /\ <<"gemini-flash", "claude-sonnet">> \in Seq(Models)
            /\ <<"gpt-4o-mini", "claude-sonnet">> \in Seq(Models)
            /\ <<"claude-sonnet", "gpt-4o-mini">> \in Seq(Models)
        BY DEF Models
      <4>2. task \in {"structured_matching", "structured_extraction", "reasoning"}
        BY DEF Route
      <4>3. /\ Route["structured_matching"] = <<"gemini-flash", "claude-sonnet">>
            /\ Route["structured_extraction"] = <<"gpt-4o-mini", "claude-sonnet">>
            /\ Route["reasoning"] = <<"claude-sonnet", "gpt-4o-mini">>
        BY Zenon DEF Route
      <4> QED  BY <4>1, <4>2, <4>3
    <3>2. PICK call \in Call \cup {Idling} :
            calls' = [calls EXCEPT ![c] = call] /\ (call # Idling => call.at # "record")
      BY <2>1, <3>1, SentOn DEF Ask
    <3> QED  BY <2>0, <2>1, <3>2 DEF Ask, CallTypes, OneRecords
  <2>2. ASSUME NEW c \in Callers, RouterAnswers(c) PROVE CallInv'
    <3>1. calls[c].model \in Models
      BY <2>2 DEF RouterAnswers, Waits, CallTypes, Call
    <3>2. calls[c].model \in BreakerKeys /\ calls[c].model # "invoke_claude"
      BY <3>1 DEF BreakerKeys, Models
    <3>3. /\ failed_calls' = [failed_calls EXCEPT ![calls[c].model] = 0]
          /\ Ending(calls[c].model, "answered")
          /\ calls' = [calls EXCEPT ![c] = Idling] /\ UNCHANGED raced
      BY <2>2 DEF RouterAnswers, record_success
    <3>4. /\ endings' \in [BreakerKeys -> Seq(Hows)]
          /\ \A k \in BreakerKeys : endings'[k] =
                IF k = calls[c].model THEN Recent(endings[k], "answered") ELSE endings[k]
      BY <3>2, <3>3, EndingStep DEF Hows
    <3>5. /\ failed_calls' \in [BreakerKeys -> Nat]
          /\ \A k \in BreakerKeys :
                failed_calls'[k] = IF k = calls[c].model THEN 0 ELSE failed_calls[k]
      BY <3>2, <3>3 DEF CallTypes
    <3>6. \A k \in BreakerKeys : Counts(endings[k], failed_calls[k])
                                   => Counts(endings'[k], failed_calls'[k])
      BY <3>4, <3>5, RecentCounts DEF CallTypes, Hows
    <3>7. calls' \in [Callers -> Call \cup {Idling}] /\ Recording' = Recording \ {c}
          /\ \A d \in Recording' : calls'[d] = calls[d]
      BY <2>0, <3>3
    <3>8. failed_calls'["invoke_claude"] = failed_calls["invoke_claude"]
      BY <3>2, <3>5 DEF BreakerKeys
    <3> QED  BY <3>3, <3>4, <3>5, <3>6, <3>7, <3>8 DEF CallTypes, OneRecords
  <2>3. ASSUME NEW c \in Callers, RouterFails(c) PROVE CallInv'
    <3>1. calls[c].model \in Models /\ calls[c].left \in Seq(Models)
      BY <2>3 DEF RouterFails, Waits, CallTypes, Call
    <3>2. calls[c].model \in BreakerKeys /\ calls[c].model # "invoke_claude"
      BY <3>1 DEF BreakerKeys, Models
    <3>3. /\ failed_calls' = [failed_calls EXCEPT ![calls[c].model] = @ + 1]
          /\ Ending(calls[c].model, "failed") /\ Along(c, calls[c].left) /\ UNCHANGED raced
      BY <2>3 DEF RouterFails
    <3>4. PICK call \in Call \cup {Idling} :
            calls' = [calls EXCEPT ![c] = call] /\ (call # Idling => call.at # "record")
      BY <3>1, <3>3, SentOn
    <3>5. /\ endings' \in [BreakerKeys -> Seq(Hows)]
          /\ \A k \in BreakerKeys : endings'[k] =
                IF k = calls[c].model THEN Recent(endings[k], "failed") ELSE endings[k]
      BY <3>2, <3>3, EndingStep DEF Hows
    <3>6. /\ failed_calls' \in [BreakerKeys -> Nat]
          /\ \A k \in BreakerKeys :
                failed_calls'[k] = IF k = calls[c].model THEN failed_calls[k] + 1 ELSE failed_calls[k]
      BY <3>2, <3>3 DEF CallTypes
    <3>7. \A k \in BreakerKeys : Counts(endings[k], failed_calls[k])
                                   => Counts(endings'[k], failed_calls'[k])
      <4>1. \A k \in BreakerKeys : endings[k] \in Seq(Hows) /\ failed_calls[k] \in Nat
        BY DEF CallTypes
      <4>2. \A k \in BreakerKeys : Counts(endings[k], failed_calls[k])
                                     => Counts(Recent(endings[k], "failed"), failed_calls[k] + 1)
        BY <4>1, RecentCounts DEF Hows
      <4> QED  BY <3>5, <3>6, <4>2
    <3>8. calls' \in [Callers -> Call \cup {Idling}] /\ Recording' = Recording \ {c}
          /\ \A d \in Recording' : calls'[d] = calls[d]
      BY <2>0, <3>4
    <3>9. failed_calls'["invoke_claude"] = failed_calls["invoke_claude"]
      BY <3>2, <3>6 DEF BreakerKeys
    <3> QED  BY <3>3, <3>5, <3>6, <3>7, <3>8, <3>9 DEF CallTypes, OneRecords
  <2>4. ASSUME NEW c \in Callers, ClaudeAnswers(c) PROVE CallInv'
    <3>1. /\ failed_calls' = [failed_calls EXCEPT !["invoke_claude"] = 0]
          /\ Ending("invoke_claude", "answered")
          /\ calls' = [calls EXCEPT ![c] = Idling]
          /\ raced' = (raced \/ Recording # {})
      BY <2>4 DEF ClaudeAnswers, record_success
    <3>2. "invoke_claude" \in BreakerKeys  BY DEF BreakerKeys
    <3>3. /\ endings' \in [BreakerKeys -> Seq(Hows)]
          /\ \A k \in BreakerKeys : endings'[k] =
                IF k = "invoke_claude" THEN Recent(endings[k], "answered") ELSE endings[k]
      BY <3>1, <3>2, EndingStep DEF Hows
    <3>4. /\ failed_calls' \in [BreakerKeys -> Nat]
          /\ \A k \in BreakerKeys :
                failed_calls'[k] = IF k = "invoke_claude" THEN 0 ELSE failed_calls[k]
      BY <3>1, <3>2 DEF CallTypes
    <3>5. \A k \in BreakerKeys : Counts(endings[k], failed_calls[k])
                                   => Counts(endings'[k], failed_calls'[k])
      BY <3>3, <3>4, RecentCounts DEF CallTypes, Hows
    <3>6. calls' \in [Callers -> Call \cup {Idling}] /\ Recording' = Recording \ {c}
      BY <2>0, <3>1
    <3>7. ~raced' => ~raced /\ Recording' = {}
      BY <3>1, <3>6
    <3>8. raced' \in BOOLEAN  BY <3>1 DEF CallTypes
    <3> QED  BY <3>3, <3>4, <3>5, <3>6, <3>7, <3>8 DEF CallTypes, OneRecords
  <2>5. ASSUME NEW c \in Callers, ClaudeRefuses(c) PROVE CallInv'
    <3>1. calls[c] \in [at : {"claude"}, attempt : 1 .. RetryMax]
      BY <2>5 DEF ClaudeRefuses, Waits, CallTypes, Call
    <3>2. /\ UNCHANGED <<failed_calls, endings>>
          /\ raced' = (raced \/ (calls[c].attempt = RetryMax /\ Recording # {}))
      BY <2>5 DEF ClaudeRefuses
    <3>3. raced' \in BOOLEAN  BY <3>2 DEF CallTypes
    <3>4. CASE calls[c].attempt < RetryMax
      <4> DEFINE call == [calls[c] EXCEPT !.attempt = @ + 1]
      <4>1. calls' = [calls EXCEPT ![c] = call]
        BY <2>5, <3>4 DEF ClaudeRefuses
      <4>2. call \in [at : {"claude"}, attempt : 1 .. RetryMax]
        BY <3>1, <3>4, Limits
      <4>3. call \in Call /\ call.at # "record"
        BY <4>2 DEF Call
      <4> HIDE DEF call
      <4> QED  BY <2>0, <3>2, <3>3, <4>1, <4>3 DEF CallTypes, OneRecords
    <3>5. CASE ~(calls[c].attempt < RetryMax)
      <4> DEFINE call == [at |-> "record", count |-> failed_calls["invoke_claude"]]
      <4>1. calls' = [calls EXCEPT ![c] = call]
        BY <2>5, <3>5 DEF ClaudeRefuses
      <4>2. calls[c].attempt = RetryMax
        BY <3>1, <3>5, Limits
      <4>3. call \in Call
        <5>1. failed_calls["invoke_claude"] \in Nat  BY DEF CallTypes, BreakerKeys
        <5> QED  BY <5>1 DEF Call
      <4>4. calls' \in [Callers -> Call \cup {Idling}]
        BY <4>1, <4>3 DEF CallTypes
      <4>5. ~raced' => OneRecords'
        <5> SUFFICES ASSUME ~raced' PROVE OneRecords'  OBVIOUS
        <5>1. Recording = {}  BY <3>2, <4>2
        <5>2. \A d \in Recording' : d = c  BY <4>1, <5>1 DEF Recording, Waits, CallTypes
        <5>3. calls'[c].count = failed_calls["invoke_claude"]  BY <4>1 DEF CallTypes
        <5> QED  BY <3>2, <5>2, <5>3 DEF OneRecords
      <4> QED  BY <3>2, <3>3, <4>4, <4>5 DEF CallTypes
    <3> QED  BY <3>4, <3>5
  <2>6. ASSUME NEW c \in Callers, ClaudeBreaks(c) PROVE CallInv'
    BY <2>0, <2>6 DEF ClaudeBreaks, CallTypes, OneRecords
  <2>7. ASSUME NEW c \in Callers, Record(c) PROVE CallInv'
    <3>1. calls[c] \in [at : {"record"}, count : Nat] /\ c \in Recording
      BY <2>7 DEF Record, Waits, CallTypes, Call, Recording
    <3>2. /\ failed_calls' = [failed_calls EXCEPT !["invoke_claude"] = calls[c].count + 1]
          /\ Ending("invoke_claude", "failed")
          /\ calls' = [calls EXCEPT ![c] = Idling] /\ UNCHANGED raced
      BY <2>7 DEF Record
    <3>3. "invoke_claude" \in BreakerKeys  BY DEF BreakerKeys
    <3>4. /\ endings' \in [BreakerKeys -> Seq(Hows)]
          /\ \A k \in BreakerKeys : endings'[k] =
                IF k = "invoke_claude" THEN Recent(endings[k], "failed") ELSE endings[k]
      BY <3>2, <3>3, EndingStep DEF Hows
    <3>5. /\ failed_calls' \in [BreakerKeys -> Nat]
          /\ \A k \in BreakerKeys :
                failed_calls'[k] = IF k = "invoke_claude" THEN calls[c].count + 1 ELSE failed_calls[k]
      BY <3>1, <3>2, <3>3 DEF CallTypes
    <3>6. \A k \in BreakerKeys : (k = "invoke_claude" => ~raced)
                                   => Counts(endings'[k], failed_calls'[k])
      BY <3>1, <3>4, <3>5, RecentCounts DEF CallTypes, Hows, OneRecords
    <3>7. calls' \in [Callers -> Call \cup {Idling}] /\ Recording' = Recording \ {c}
      BY <2>0, <3>2
    <3>8. ~raced => Recording' = {}
      BY <3>1, <3>7 DEF OneRecords
    <3> QED  BY <3>2, <3>4, <3>5, <3>6, <3>7, <3>8 DEF CallTypes, OneRecords
  <2>8. CASE UNCHANGED callVars
    BY <2>8 DEF callVars, CallTypes, OneRecords, Recording, Waits
  <2> QED  BY <2>1, <2>2, <2>3, <2>4, <2>5, <2>6, <2>7, <2>8 DEF CallNext
<1>3. CallInv => OpenAfterFailures
  <2> SUFFICES ASSUME CallInv, NEW k \in BreakerKeys, k = "invoke_claude" => ~raced
               PROVE  is_open(k) <=> Len(endings[k]) = Threshold
                          /\ \A i \in DOMAIN endings[k] : endings[k][i] = "failed"
    BY DEF OpenAfterFailures
  <2>1. Counts(endings[k], failed_calls[k])  BY DEF CallInv
  <2>2. endings[k] \in Seq(Hows) /\ failed_calls[k] \in Nat  BY DEF CallInv, CallTypes
  <2> HIDE DEF Hows
  <2> QED  BY <2>1, <2>2, Limits DEF Counts, is_open
<1> QED  BY <1>1, <1>2, <1>3, PTL DEF CallSpec


-----------------------------------------------------------------------------
(* Matchers.                                                                 *)

LEMMA Least == \A S \in SUBSET Nat : S # {} => \E m \in S : \A n \in S : m <= n
<1> SUFFICES ASSUME NEW S \in SUBSET Nat, S # {} PROVE \E m \in S : \A n \in S : m <= n
  OBVIOUS
<1>1. PICK m \in S : \A n \in S : <<n, m>> \notin OpToRel(<, Nat)
  BY WFMin, NatLessThanWellFounded, Zenon
<1>2. \A n \in S : ~(n < m)
  BY <1>1 DEF OpToRel
<1> QED  BY <1>2

\* What the loop has done with the documents before the turn.
Seen == {d \in DOMAIN documents : d < turn}

IsPaired(d) == \E p \in paired : p[1] = d

MatchTypes ==
    /\ \E k \in Nat : documents \in [1 .. k -> Item] /\ turn \in 1 .. k + 1
    /\ \E n \in Nat : charges \in [1 .. n -> Item]
    /\ \A p \in paired : p[1] \in Seen
    /\ node # "match" => turn \notin DOMAIN documents

Twice == {"duplicate_invoice", "duplicate_gl_posting"}

\* A report of the loop is about the document of its turn; one without a charge says
\* that there is none for it.
Loops ==
    /\ \A r \in reported : r.document \in Seen /\ r.type \notin Twice
    /\ \A d \in Seen :
         Legible(d) => (IsPaired(d) <=> ~\E r \in reported : r.document = d /\ r.charge = NoCharge)

MatchInv == MatchTypes /\ InvoicesPaired /\ Accounted /\ (node = "match" => Loops)

LEMMA NearAreNear ==
    ASSUME MatchTypes, NEW d \in DOMAIN documents
    PROVE  /\ Near(d) \in SUBSET (Nat \ {0})
           /\ \A c \in Near(d) : Abs(Delta(d, c)) \in Nat
<1>1. PICK k \in Nat, n \in Nat : documents \in [1 .. k -> Item] /\ charges \in [1 .. n -> Item]
  BY DEF MatchTypes
<1>2. Near(d) \subseteq 1 .. n
  BY <1>1 DEF Near
<1>3. \A c \in 1 .. n : documents[d].amount \in Int /\ charges[c].amount \in Int
  BY <1>1, MatchingAssumption DEF Item
<1> QED  BY <1>2, <1>3 DEF Abs, Delta

\* The best of the charges that are near is one of them.
LEMMA BestIsNear ==
    ASSUME MatchTypes, NEW d \in DOMAIN documents, Near(d) # {}
    PROVE  Best(d) \in Near(d) /\ Best(d) # NoCharge
<1> DEFINE off(c) == Abs(Delta(d, c))
           Offs == {off(c) : c \in Near(d)}
<1>1. PICK m \in Offs : \A n \in Offs : m <= n
  <2>1. Offs \in SUBSET Nat /\ Offs # {}  BY NearAreNear
  <2> QED  BY <2>1, Least
<1> DEFINE Nearest == {c \in Near(d) : off(c) = m}
<1>2. PICK c \in Nearest : \A o \in Nearest : c <= o
  <2>1. Nearest \in SUBSET Nat /\ Nearest # {}  BY NearAreNear, <1>1
  <2> QED  BY <2>1, Least
<1>3. /\ c \in Near(d)
      /\ \A o \in Near(d) : off(c) <= off(o) /\ (off(o) = off(c) => c <= o)
  BY <1>1, <1>2
<1>4. Best(d) \in Near(d)
  BY <1>3 DEF Best
<1> QED  BY <1>4, NearAreNear, MatchingAssumption

\* A turn of the loop pairs its document with a charge, or reports that there is none,
\* and may report a pair.
OneTurn(pairs, reports) ==
    /\ Turn(pairs, reports)
    /\ \A p \in pairs : p[1] = turn
    /\ \A r \in reports : r.document = turn /\ r.type \notin Twice
    /\ Legible(turn) => (pairs # {} <=> ~\E r \in reports : r.charge = NoCharge)

LEMMA TurnKeeps ==
    ASSUME MatchTypes, Loops, node = "match", turn \in DOMAIN documents,
           NEW pairs, NEW reports, OneTurn(pairs, reports)
    PROVE  MatchTypes' /\ Loops' /\ Seen' = Seen \cup {turn}
<1>1. PICK k \in Nat : documents \in [1 .. k -> Item] /\ turn \in 1 .. k
  BY DEF MatchTypes
<1>2. /\ documents' = documents /\ charges' = charges /\ node' = node /\ turn' = turn + 1
      /\ paired' = paired \cup pairs /\ reported' = reported \cup reports
  BY DEF OneTurn, Turn
<1>3. Seen' = Seen \cup {turn} /\ turn \notin Seen
  BY <1>1, <1>2 DEF Seen
<1>4. MatchTypes'
  <2>1. turn' \in 1 .. k + 1  BY <1>1, <1>2
  <2>2. \A p \in paired' : p[1] \in Seen'
    <3>1. \A p \in paired : p[1] \in Seen  BY DEF MatchTypes
    <3>2. \A p \in pairs : p[1] = turn  BY DEF OneTurn
    <3> QED  BY <1>2, <1>3, <3>1, <3>2
  <2>3. \E n \in Nat : charges' \in [1 .. n -> Item]  BY <1>2 DEF MatchTypes
  <2>4. node' = "match"  BY <1>2
  <2> QED  BY <1>1, <1>2, <2>1, <2>2, <2>3, <2>4 DEF MatchTypes
<1>5. \A d \in Seen : /\ IsPaired(d)' <=> IsPaired(d)
                      /\ (\E r \in reported' : r.document = d /\ r.charge = NoCharge)
                           <=> \E r \in reported : r.document = d /\ r.charge = NoCharge
  BY <1>2, <1>3 DEF IsPaired, OneTurn
<1>6. /\ (\E p \in paired' : p[1] = turn) <=> pairs # {}
      /\ (\E r \in reported' : r.document = turn /\ r.charge = NoCharge)
           <=> \E r \in reports : r.charge = NoCharge
  <2>1. \A p \in paired : p[1] # turn  BY <1>3 DEF MatchTypes
  <2>2. \A r \in reported : r.document # turn  BY <1>3 DEF Loops
  <2> QED  BY <1>2, <2>1, <2>2 DEF OneTurn
<1>7. \A d : Legible(d)' <=> Legible(d)
  BY <1>2 DEF Legible
<1>8. \A r \in reported' : r.document \in Seen' /\ r.type \notin Twice
  BY <1>2, <1>3 DEF Loops, OneTurn
<1>9. \A d \in Seen' : Legible(d)' =>
        (IsPaired(d)' <=> ~\E r \in reported' : r.document = d /\ r.charge = NoCharge)
  <2> SUFFICES ASSUME NEW d \in Seen', Legible(d)
               PROVE  IsPaired(d)' <=> ~\E r \in reported' : r.document = d /\ r.charge = NoCharge
    BY <1>7
  <2>1. CASE d \in Seen  BY <1>5, <2>1 DEF Loops
  <2>2. CASE d = turn  BY <1>6, <2>2 DEF IsPaired, OneTurn
  <2> QED  BY <1>3, <2>1, <2>2
<1> QED  BY <1>3, <1>4, <1>8, <1>9 DEF Loops


\* An invoice takes a charge that is near and free, and afterwards fewer are near.
LEMMA InvoiceTurn ==
    ASSUME MatchTypes, InvoicesPaired, Loops, MatchInvoice
    PROVE  MatchTypes' /\ InvoicesPaired' /\ Loops'
<1>1. agent = "invoice_matching" /\ node = "match" /\ turn \in DOMAIN documents
  BY DEF MatchInvoice, Loop
<1> DEFINE TakesBest(pairs) ==
              /\ \A p \in pairs : p = <<turn, Best(turn)>> /\ Near(turn) # {}
              /\ Legible(turn) => (pairs # {} <=> Near(turn) # {})
<1>2. PICK pairs, reports : OneTurn(pairs, reports) /\ TakesBest(pairs)
  <2>1. CASE ~Legible(turn)
    <3>1. OneTurn({}, {}) /\ TakesBest({})
      BY <1>1, <2>1 DEF MatchInvoice, OneTurn
    <3> QED  BY <3>1
  <2>2. CASE Legible(turn) /\ Best(turn) = NoCharge
    <3> DEFINE none == {Report("unmatched_invoice", "high", turn, NoCharge)}
    <3>1. Near(turn) = {}  BY <1>1, <2>2, BestIsNear
    <3>2. Turn({}, none)  BY <2>2 DEF MatchInvoice
    <3>3. OneTurn({}, none) /\ TakesBest({})
      BY <3>1, <3>2 DEF Report, OneTurn, Twice
    <3> QED  BY <3>3
  <2>3. CASE Legible(turn) /\ Best(turn) # NoCharge
    <3> DEFINE one == {<<turn, Best(turn)>>}
               off == IF Delta(turn, Best(turn)) = 0 THEN {}
                      ELSE {Report("amount_discrepancy", "medium", turn, Best(turn))}
    <3>1. Near(turn) # {}  BY <2>3 DEF Best
    <3>2. Turn(one, off)  BY <2>3 DEF MatchInvoice
    <3>3. \A r \in off : r.document = turn /\ r.charge # NoCharge /\ r.type \notin Twice
      BY <2>3 DEF Report, Twice
    <3>4. <<turn, Best(turn)>>[1] = turn  OBVIOUS
    <3> HIDE DEF off
    <3>5. OneTurn(one, off) /\ TakesBest(one)
      BY <3>1, <3>2, <3>3, <3>4 DEF OneTurn
    <3> QED  BY <3>5
  <2> QED  BY <2>1, <2>2, <2>3
<1>3. MatchTypes' /\ Loops' /\ Seen' = Seen \cup {turn}
  BY <1>1, <1>2, TurnKeeps
<1>4. /\ documents' = documents /\ charges' = charges /\ agent' = agent
      /\ turn' = turn + 1 /\ paired' = paired \cup pairs
  BY <1>2 DEF OneTurn, Turn
<1>5. PICK k \in Nat : documents \in [1 .. k -> Item] /\ turn \in 1 .. k
  BY <1>1 DEF MatchTypes
<1>6. \A p \in paired' \ paired : p[1] = turn /\ p[2] = Best(turn) /\ Best(turn) \in Near(turn)
  BY <1>1, <1>2, <1>4, BestIsNear
<1>7. \A p \in paired : p[1] # turn /\ p[2] \notin Near(turn)
  BY DEF MatchTypes, Seen, Near, ChargesTaken
<1>8. \A p, q \in paired' : p[1] = q[1] <=> p[2] = q[2]
  BY <1>1, <1>6, <1>7 DEF InvoicesPaired
<1>9. \A d : Near(d)' \subseteq Near(d)
  BY <1>4 DEF Near, ChargesTaken, Delta
<1>10. ASSUME NEW d \in 1 .. turn, d \in DOMAIN documents, Legible(d)',
              \A p \in paired' : p[1] # d
       PROVE  Near(d)' = {}
  <2>1. Legible(d)  BY <1>4, <1>10 DEF Legible
  <2>2. CASE d = turn
    <3>1. pairs = {}
      BY <1>2, <1>4, <1>10, <2>2
    <3> QED  BY <1>2, <1>9, <2>1, <2>2, <3>1
  <2>3. CASE d # turn
    <3>1. d \in 1 .. turn - 1  BY <1>5, <2>3
    <3>2. \A p \in paired : p[1] # d  BY <1>4, <1>10
    <3>3. Near(d) = {}  BY <1>1, <1>10, <2>1, <3>1, <3>2 DEF InvoicesPaired
    <3> QED  BY <1>9, <3>3
  <2> QED  BY <2>2, <2>3
<1>11. turn' - 1 = turn  BY <1>4, <1>5
<1> QED  BY <1>3, <1>4, <1>8, <1>10, <1>11 DEF InvoicesPaired

\* The other two pair a document with the last charge that has its key.
LEMMA KeyedTurn ==
    ASSUME MatchTypes, Loops, MatchPosting \/ MatchPayroll
    PROVE  MatchTypes' /\ InvoicesPaired' /\ Loops'
<1>1. /\ agent \in {"gl_reconciliation", "payroll_reconciliation"}
      /\ node = "match" /\ turn \in DOMAIN documents
  BY DEF MatchPosting, MatchPayroll, Loop
<1>2. PICK pairs, reports : OneTurn(pairs, reports)
  <2>1. ASSUME NEW c, c # NoCharge, NEW reports, Turn({<<turn, c>>}, reports),
               \A r \in reports : r.document = turn /\ r.charge = c /\ r.type \notin Twice
        PROVE  OneTurn({<<turn, c>>}, reports)
    <3>1. <<turn, c>>[1] = turn  OBVIOUS
    <3> QED  BY <2>1, <3>1 DEF OneTurn
  <2>2. ASSUME NEW type, type \notin Twice, NEW severity,
               Turn({}, {Report(type, severity, turn, NoCharge)})
        PROVE  OneTurn({}, {Report(type, severity, turn, NoCharge)})
    BY <2>2 DEF OneTurn, Report
  <2>3. CASE MatchPosting
    <3> DEFINE c == PostingCharge(turn)
               off == IF Differs(turn, c) THEN {Report("amount_mismatch", "high", turn, c)} ELSE {}
    <3>1. CASE c = NoCharge
      BY <2>2, <2>3, <3>1 DEF MatchPosting, Twice
    <3>2. CASE c # NoCharge
      <4>1. Turn({<<turn, c>>}, off)  BY <2>3, <3>2 DEF MatchPosting
      <4>2. \A r \in off : r.document = turn /\ r.charge = c /\ r.type \notin Twice
        BY DEF Report, Twice
      <4> HIDE DEF off, c
      <4> QED  BY <2>1, <3>2, <4>1, <4>2
    <3> QED  BY <3>1, <3>2
  <2>4. CASE MatchPayroll
    <3> DEFINE c == LastOf(Keyed(turn))
               severity == IF Abs(Delta(turn, c)) > 100 THEN "high" ELSE "medium"
               off == IF ~Differs(turn, c) THEN {}
                      ELSE {Report("pay_amount_mismatch", severity, turn, c)}
    <3>1. CASE c = NoCharge
      BY <2>2, <2>4, <3>1 DEF MatchPayroll, Twice
    <3>2. CASE c # NoCharge
      <4>1. Turn({<<turn, c>>}, off)  BY <2>4, <3>2 DEF MatchPayroll
      <4>2. \A r \in off : r.document = turn /\ r.charge = c /\ r.type \notin Twice
        BY DEF Report, Twice
      <4> HIDE DEF off, c
      <4> QED  BY <2>1, <3>2, <4>1, <4>2
    <3> QED  BY <3>1, <3>2
  <2> QED  BY <2>3, <2>4
<1>3. MatchTypes' /\ Loops'
  BY <1>1, <1>2, TurnKeeps
<1>4. agent' # "invoice_matching"
  BY <1>1, <1>2 DEF OneTurn, Turn
<1> QED  BY <1>3, <1>4 DEF InvoicesPaired

\* The end of the loop reports what is left and nothing that is paired.
LEMMA ConcludeAccounts ==
    ASSUME MatchTypes, InvoicesPaired, Loops, Conclude
    PROVE  MatchTypes' /\ InvoicesPaired' /\ Accounted' /\ node' # "match"
<1>1. /\ documents' = documents /\ charges' = charges /\ agent' = agent
      /\ turn' = turn /\ paired' = paired /\ turn \notin DOMAIN documents
      /\ node' \in {"validate", "end"}
  BY DEF Conclude
<1>2. MatchTypes'
  BY <1>1 DEF MatchTypes, Seen
<1>3. InvoicesPaired'
  BY <1>1 DEF InvoicesPaired, Near, ChargesTaken, Legible, Delta
<1>4. Seen = DOMAIN documents
  BY <1>1 DEF MatchTypes, Seen
<1>5. PICK n \in Nat : charges \in [1 .. n -> Item]
  BY DEF MatchTypes
<1>6. \A c \in DOMAIN charges : c \in Nat \ {0} /\ c # NoCharge /\ charges[c].amount \in Int
  <2>1. \A c \in DOMAIN charges : charges[c] \in Item  BY <1>5
  <2>2. \A c \in DOMAIN charges : charges[c].amount \in Int
    BY <2>1, MatchingAssumption DEF Item
  <2>3. \A c \in DOMAIN charges : c \in Nat \ {0}
    BY <1>5
  <2> QED  BY <2>2, <2>3, MatchingAssumption
<1>7. ASSUME documents # << >> \/ charges # << >>
      PROVE  /\ \A c \in DOMAIN charges :
                   charges[c].amount > 0 =>
                     (c \in ChargesTaken <=> ~\E r \in reported' : r.document = 0 /\ r.charge = c)
             /\ \A d \in DOMAIN documents :
                   Legible(d) =>
                     (IsPaired(d) <=>
                         ~\E r \in reported' : /\ r.document = d /\ r.charge = NoCharge
                                               /\ r.type # "duplicate_invoice"
                                               /\ r.type # "duplicate_gl_posting")
  <2>1. PICK sourced : reported' = reported \cup LeftOver \cup Duplicates(sourced)
    BY <1>7 DEF Conclude
  <2> DEFINE left(c) == CASE agent = "invoice_matching" -> Report("uninvoiced_charge", "medium", 0, c)
                           [] agent = "gl_reconciliation" -> Report("missing_gl_entry", "high", 0, c)
                           [] OTHER -> Report("missing_payment", "critical", 0, c)
  <2>a. LeftOver = {left(c) : c \in Left}
    BY DEF LeftOver
  <2>b. \A c : left(c).document = 0 /\ left(c).charge = c
    BY DEF Report
  <2> HIDE DEF left
  <2>2. \A r \in LeftOver : r.document = 0 /\ r.charge \in Left
    BY <2>a, <2>b
  <2>3. \A c \in Left : \E r \in LeftOver : r.document = 0 /\ r.charge = c
    BY <2>a, <2>b
  <2>4. \A r \in Duplicates(sourced) : /\ r.charge = NoCharge
                                       /\ r.type \in {"duplicate_invoice", "duplicate_gl_posting"}
    BY DEF Duplicates, Report
  <2>5. \A c \in DOMAIN charges :
           charges[c].amount > 0 => (c \in Left <=> c \notin ChargesTaken)
    BY <1>6 DEF Left
  <2>6. Left \subseteq DOMAIN charges /\ 0 \notin DOMAIN documents
    BY DEF Left, MatchTypes
  <2>7. \A r \in reported : r.document \in DOMAIN documents
    BY <1>4 DEF Loops
  <2>8. \A c \in DOMAIN charges :
           charges[c].amount > 0 =>
             (c \in ChargesTaken <=> ~\E r \in reported' : r.document = 0 /\ r.charge = c)
    BY <1>6, <2>1, <2>2, <2>3, <2>4, <2>5, <2>6, <2>7
  <2>9. ASSUME NEW d \in DOMAIN documents, Legible(d)
        PROVE  IsPaired(d) <=>
                 ~\E r \in reported' : /\ r.document = d /\ r.charge = NoCharge
                                       /\ r.type # "duplicate_invoice"
                                       /\ r.type # "duplicate_gl_posting"
    <3>1. \A r \in reported : r.type # "duplicate_invoice" /\ r.type # "duplicate_gl_posting"
      BY DEF Loops, Twice
    <3> QED  BY <1>4, <1>6, <2>1, <2>2, <2>4, <2>6, <2>9, <3>1 DEF Loops
  <2> QED  BY <2>8, <2>9
<1>8. Accounted'
  BY <1>1, <1>7 DEF Accounted, ChargesTaken, Legible, IsPaired
<1> QED  BY <1>1, <1>2, <1>3, <1>8

LEMMA MatchStarts == MatchInit => MatchInv
<1> SUFFICES ASSUME MatchInit PROVE MatchInv  OBVIOUS
<1>1. PICK k \in 0 .. MaxDocuments : documents \in [1 .. k -> Item]
  BY DEF MatchInit, Lists
<1>2. PICK n \in 0 .. MaxCharges : charges \in [1 .. n -> Item]
  BY DEF MatchInit, Lists
<1>3. k \in Nat /\ n \in Nat /\ turn \in 1 .. k + 1
  BY MatchingAssumption DEF MatchInit
<1>4. Seen = {} /\ 1 .. turn - 1 = {}
  BY <1>1, <1>3 DEF Seen, MatchInit
<1>5. MatchTypes
  BY <1>1, <1>2, <1>3 DEF MatchTypes, MatchInit
<1> QED  BY <1>4, <1>5 DEF MatchInv, InvoicesPaired, Accounted, Loops, MatchInit

LEMMA MatchingKeeps == MatchInv /\ [MatchNext]_matchVars => MatchInv'
<1> SUFFICES ASSUME MatchInv, [MatchNext]_matchVars PROVE MatchInv'
  OBVIOUS
<1> USE DEF MatchInv
<1>1. CASE MatchInvoice
  <2>1. node = "match" /\ node' = "match"
    <3>1. \E pairs, reports : Turn(pairs, reports)
      BY <1>1 DEF MatchInvoice
    <3> QED  BY <1>1, <3>1 DEF MatchInvoice, Loop, Turn
  <2> QED  BY <1>1, <2>1, InvoiceTurn DEF Accounted
<1>2. CASE MatchPosting \/ MatchPayroll
  <2>1. node = "match" /\ node' = "match"
    <3>1. \E pairs, reports : Turn(pairs, reports)
      BY <1>2 DEF MatchPosting, MatchPayroll
    <3> QED  BY <1>2, <3>1 DEF MatchPosting, MatchPayroll, Loop, Turn
  <2> QED  BY <1>2, <2>1, KeyedTurn DEF Accounted
<1>3. CASE Conclude
  <2>1. node = "match"  BY <1>3 DEF Conclude
  <2> QED  BY <1>3, <2>1, ConcludeAccounts
<1>4. CASE Validate \/ Persist \/ UNCHANGED matchVars
  <2>1. /\ UNCHANGED <<agent, documents, charges, turn, paired, reported>>
        /\ node = "match" <=> node' = "match"
    BY <1>4 DEF Validate, Persist, matchVars
  <2>2. MatchTypes'  BY <2>1 DEF MatchTypes, Seen
  <2>3. InvoicesPaired'  BY <2>1 DEF InvoicesPaired, Near, ChargesTaken, Legible, Delta
  <2>4. Accounted'  BY <2>1 DEF Accounted, ChargesTaken, Legible
  <2>5. node' = "match" => Loops'  BY <2>1 DEF Loops, Seen, Legible, IsPaired
  <2> QED  BY <2>2, <2>3, <2>4, <2>5
<1> QED  BY <1>1, <1>2, <1>3, <1>4 DEF MatchNext

\* Whatever the invoices and the charges, taking the invoices in the order they come
\* and the nearest free charge for each pairs none twice, and leaves no invoice and no
\* charge apart that are near enough to be one another's.
THEOREM InvoicesArePaired == MatchSpec => []InvoicesPaired
<1> QED  BY MatchStarts, MatchingKeeps, PTL DEF MatchSpec, MatchInv

\* In each of the three matchers, when the loop is over every charge and every legible
\* document is in a pair or in a report of what is missing, and never in both.
THEOREM AllIsAccounted == MatchSpec => []Accounted
<1> QED  BY MatchStarts, MatchingKeeps, PTL DEF MatchSpec, MatchInv

-----------------------------------------------------------------------------
(* Detectors.                                                                *)

\* What the proofs need of the alerts and of the runs under way.
Proposed(d) == runs[d].step = "proposed"

DetectTypes ==
    /\ alerts \in Seq(Alert)
    /\ settings \in Settings
    /\ DOMAIN runs = Detectors
    /\ \A d \in Detectors :
         \/ runs[d] = Idle
         \/ runs[d].step = "fetched" /\ runs[d].week \in 1 .. Weeks
         \/ /\ runs[d].step = "proposed" /\ runs[d].week \in 1 .. Weeks
            /\ runs[d].candidate \in Candidate

HasFirstMiss(n, week) ==
    \E j \in 1 .. n : alerts[j].type = "group_a1_first_miss" /\ alerts[j].week < week

\* A consecutive miss that a run is about to store has its first miss already.
ProposedAfterFirst ==
    \A d \in Detectors :
        Proposed(d) /\ runs[d].candidate.type = "group_a2_consecutive_miss" =>
            HasFirstMiss(Len(alerts), runs[d].week)

LEMMA NeededIsPositive ==
    ASSUME settings \in Settings
    PROVE  Needed(consecutive_miss_threshold) \in Nat \ {0}
<1>1. consecutive_miss_threshold \in Int
  BY DetectionAssumption DEF consecutive_miss_threshold, Overridden
<1> QED  BY <1>1 DEF Needed

\* What may be proposed, by its type.
LEMMA ConsecutiveProposed ==
    ASSUME NEW week, NEW sheet, NEW c \in Proposals(week, sheet),
           c # None, c.type = "group_a2_consecutive_miss"
    PROVE  \E last \in Latest(week, Needed(consecutive_miss_threshold)) : DetectA2(week, last)
<1>1. CASE sheet = None /\ ~DetectA1(week)
  BY <1>1 DEF Proposals
<1>2. CASE sheet = None /\ DetectA1(week)
  BY <1>2 DEF Proposals, FirstMiss
<1>3. CASE sheet # None
  <2>1. CASE c = [type |-> "group_c_variance", severity |-> "medium"]
    BY <2>1
  <2>2. CASE c = [type |-> Variant(sheet), severity |-> "medium"] /\ DetectB(week, sheet)
    BY <2>2 DEF DetectB, Variant
  <2> QED  BY <1>3, <2>1, <2>2 DEF Proposals
<1> QED  BY <1>1, <1>2, <1>3

LEMMA ProposalsAreCandidates ==
    ASSUME NEW week, NEW sheet, NEW c \in Proposals(week, sheet), c # None
    PROVE  c \in Candidate /\ ~OpenAlert(week)
<1>1. CASE sheet = None /\ DetectA1(week)
  BY <1>1 DEF Proposals, FirstMiss, Candidate, AlertTypes, MissTypes, DetectA1
<1>2. CASE sheet = None /\ ~DetectA1(week)
  <2>1. PICK last : DetectA2(week, last) /\ c = ConsecutiveMiss
    BY <1>2 DEF Proposals
  <2> QED  BY <2>1 DEF ConsecutiveMiss, Candidate, AlertTypes, MissTypes, DetectA2
<1>3. CASE sheet # None
  <2>1. CASE c = [type |-> "group_c_variance", severity |-> "medium"] /\ DetectC(week, sheet)
    BY <2>1 DEF Candidate, AlertTypes, DetectC
  <2>2. CASE c = [type |-> Variant(sheet), severity |-> "medium"] /\ DetectB(week, sheet)
    <3>1. Variant(sheet) \in OverTypes
      BY <2>2 DEF DetectB, Variant, OverTypes
    <3> QED  BY <2>2, <3>1 DEF Candidate, AlertTypes, DetectB
  <2> QED  BY <1>3, <2>1, <2>2 DEF Proposals
<1> QED  BY <1>1, <1>2, <1>3

\* A row that is known keeps its type and its week.
LEMMA AlertsStay ==
    ASSUME DetectTypes, [DetectNext]_detectVars
    PROVE  /\ alerts' \in Seq(Alert)
           /\ Len(alerts) \in Nat /\ Len(alerts') \in Nat /\ Len(alerts) <= Len(alerts')
           /\ \A i \in 1 .. Len(alerts) : /\ alerts'[i].type = alerts[i].type
                                          /\ alerts'[i].week = alerts[i].week
                                          /\ Unresolved(alerts'[i]) => Unresolved(alerts[i])
           /\ settings' = settings
<1>1. Len(alerts) \in Nat /\ \A i \in 1 .. Len(alerts) : alerts[i] \in Alert
  BY DEF DetectTypes
<1>2. ASSUME NEW d \in Detectors, CreateAlert(d)
      PROVE  /\ alerts' \in Seq(Alert) /\ Len(alerts') = Len(alerts) + 1
             /\ \A i \in 1 .. Len(alerts) : alerts'[i] = alerts[i]
             /\ settings' = settings
  <2> DEFINE a == [week |-> runs[d].week, type |-> runs[d].candidate.type,
                   severity |-> runs[d].candidate.severity, resolution |-> None]
  <2>1. runs[d].week \in 1 .. Weeks /\ runs[d].candidate \in Candidate
    BY <1>2 DEF CreateAlert, DetectTypes, Idle
  <2>2. a \in Alert
    BY <2>1 DEF Alert, Candidate
  <2>3. alerts' = Append(alerts, a) /\ settings' = settings
    BY <1>2 DEF CreateAlert
  <2> QED  BY <2>2, <2>3 DEF DetectTypes
<1>3. ASSUME NEW k \in DOMAIN alerts, Resolve(k)
      PROVE  /\ alerts' \in Seq(Alert) /\ Len(alerts') = Len(alerts)
             /\ \A i \in 1 .. Len(alerts) : /\ alerts'[i].type = alerts[i].type
                                            /\ alerts'[i].week = alerts[i].week
                                            /\ Unresolved(alerts'[i]) => Unresolved(alerts[i])
             /\ settings' = settings
  <2>1. PICK r \in Resolutions : alerts' = [alerts EXCEPT ![k].resolution = r]
    BY <1>3 DEF Resolve
  <2> DEFINE a == [alerts[k] EXCEPT !.resolution = r]
  <2>2. /\ a \in Alert /\ a.type = alerts[k].type /\ a.week = alerts[k].week
        /\ Unresolved(alerts[k])
    BY <1>1, <1>3 DEF Alert, Resolve
  <2>3. alerts' = [alerts EXCEPT ![k] = a]
    BY <2>1
  <2> HIDE DEF a
  <2>4. alerts' \in Seq(Alert) /\ Len(alerts') = Len(alerts)
    BY <2>2, <2>3 DEF DetectTypes
  <2>5. \A i \in 1 .. Len(alerts) : alerts'[i] = IF i = k THEN a ELSE alerts[i]
    BY <2>3 DEF DetectTypes
  <2> QED  BY <1>3, <2>2, <2>4, <2>5 DEF Resolve
<1>4. ASSUME UNCHANGED <<alerts, settings>>
      PROVE  alerts' = alerts /\ settings' = settings
  BY <1>4
<1>5. \/ \E d \in Detectors : CreateAlert(d)
      \/ \E k \in DOMAIN alerts : Resolve(k)
      \/ UNCHANGED <<alerts, settings>>
  BY DEF DetectNext, Fetch, Quiet, Propose, Submit, Mute, Expire, detectVars
<1> QED  BY <1>1, <1>2, <1>3, <1>4, <1>5 DEF DetectTypes

\* The runs of the next state: each rests, has fetched, or proposes what it may.
LEMMA RunsGoOn ==
    ASSUME DetectTypes, [DetectNext]_detectVars, NEW d \in Detectors, runs'[d] # runs[d]
    PROVE  /\ DOMAIN runs' = Detectors
           /\ \A e \in Detectors \ {d} : runs'[e] = runs[e]
           /\ \/ runs'[d] = Idle
              \/ runs'[d].step = "fetched" /\ runs'[d].week \in 1 .. Weeks
              \/ /\ UNCHANGED <<alerts, settings, registry, history>>
                 /\ runs[d].step = "fetched" /\ runs[d].week \in 1 .. Weeks
                 /\ \E c \in Proposals(runs[d].week, runs[d].sheet) \ {None} :
                      runs'[d] = [step |-> "proposed", week |-> runs[d].week, candidate |-> c]
<1>1. PICK e \in Detectors : Fetch(e) \/ Quiet(e) \/ Propose(e) \/ CreateAlert(e)
  BY DEF DetectNext, Submit, Resolve, Mute, Expire, detectVars
<1>2. PICK r : runs' = [runs EXCEPT ![e] = r]
  BY <1>1 DEF Fetch, Quiet, Propose, CreateAlert
<1>3. e = d /\ DOMAIN runs' = Detectors /\ \A f \in Detectors \ {d} : runs'[f] = runs[f]
  BY <1>2 DEF DetectTypes
<1>4. CASE Fetch(d)
  <2>1. PICK w \in 1 .. Weeks :
          runs' = [runs EXCEPT ![d] = [step |-> "fetched", week |-> w, sheet |-> sheets[w]]]
    BY <1>4 DEF Fetch
  <2> QED  BY <1>3, <2>1 DEF DetectTypes
<1>5. CASE Propose(d)
  <2>1. PICK c \in Proposals(runs[d].week, runs[d].sheet) \ {None} :
          runs' = [runs EXCEPT ![d] = [step |-> "proposed", week |-> runs[d].week, candidate |-> c]]
    BY <1>5 DEF Propose
  <2>2. runs[d].step = "fetched" /\ runs[d].week \in 1 .. Weeks
    BY <1>5 DEF Propose, DetectTypes, Idle
  <2> QED  BY <1>3, <1>5, <2>1, <2>2 DEF Propose, DetectTypes
<1>6. CASE Quiet(d) \/ CreateAlert(d)
  BY <1>3, <1>6 DEF Quiet, CreateAlert, DetectTypes
<1> QED  BY <1>1, <1>3, <1>4, <1>5, <1>6

\* A run that takes up a period while another examines it marks it, for good.
LEMMA DoublingIsMarked ==
    ASSUME DetectTypes, [DetectNext]_detectVars
    PROVE  /\ doubled \subseteq doubled'
           /\ \A d, e \in Detectors :
                /\ d # e /\ runs'[d] # Idle /\ runs'[e] # Idle /\ runs'[d].week = runs'[e].week
                /\ runs[d] # runs'[d] /\ runs[d] = Idle
                => runs'[d].week \in doubled'
<1>1. CASE \E f \in Detectors : Fetch(f)
  <2>1. PICK f \in Detectors : Fetch(f)
    BY <1>1
  <2>2. PICK w \in 1 .. Weeks :
          /\ runs' = [runs EXCEPT ![f] = [step |-> "fetched", week |-> w, sheet |-> sheets[w]]]
          /\ doubled' = doubled \cup {v \in {w} : \E e \in Detectors : Examines(e, v)}
    BY <2>1 DEF Fetch
  <2>3. runs'[f].week = w /\ \A e \in Detectors \ {f} : runs'[e] = runs[e]
    BY <2>2 DEF DetectTypes
  <2> QED  BY <2>2, <2>3 DEF Examines
<1>2. CASE ~\E f \in Detectors : Fetch(f)
  <2>1. doubled' = doubled
    BY <1>2 DEF DetectNext, Quiet, Propose, CreateAlert, Submit, Resolve, Mute, Expire, detectVars
  <2>2. ASSUME NEW d \in Detectors, runs[d] = Idle PROVE runs'[d] = runs[d]
    <3>1. \/ UNCHANGED runs
          \/ \E f \in Detectors : Quiet(f) \/ Propose(f) \/ CreateAlert(f)
      BY <1>2 DEF DetectNext, Submit, Resolve, Mute, Expire, detectVars
    <3>2. ASSUME NEW f \in Detectors, Quiet(f) \/ Propose(f) \/ CreateAlert(f)
          PROVE  runs[f] # Idle /\ \E r : runs' = [runs EXCEPT ![f] = r]
      <4>1. runs[f].step \in {"fetched", "proposed"}
        BY <3>2 DEF Quiet, Propose, CreateAlert
      <4> QED  BY <3>2, <4>1 DEF Quiet, Propose, CreateAlert, Idle
    <3> QED  BY <2>2, <3>1, <3>2 DEF DetectTypes
  <2> QED  BY <2>1, <2>2
<1> QED  BY <1>1, <1>2

LEMMA DetectTypesStay == DetectTypes /\ [DetectNext]_detectVars => DetectTypes'
<1> SUFFICES ASSUME DetectTypes, [DetectNext]_detectVars PROVE DetectTypes'
  OBVIOUS
<1>1. ASSUME NEW d \in Detectors
      PROVE  \/ runs'[d] = Idle
             \/ runs'[d].step = "fetched" /\ runs'[d].week \in 1 .. Weeks
             \/ /\ runs'[d].step = "proposed" /\ runs'[d].week \in 1 .. Weeks
                /\ runs'[d].candidate \in Candidate
  <2>1. CASE runs'[d] = runs[d]  BY <2>1 DEF DetectTypes
  <2>2. CASE runs'[d] # runs[d]
    <3>1. CASE runs'[d] = Idle \/ (runs'[d].step = "fetched" /\ runs'[d].week \in 1 .. Weeks)
      BY <3>1
    <3>2. ASSUME NEW c \in Proposals(runs[d].week, runs[d].sheet) \ {None},
                 runs[d].week \in 1 .. Weeks,
                 runs'[d] = [step |-> "proposed", week |-> runs[d].week, candidate |-> c]
          PROVE  /\ runs'[d].step = "proposed" /\ runs'[d].week \in 1 .. Weeks
                 /\ runs'[d].candidate \in Candidate
      <4>1. c \in Candidate  BY <3>2, ProposalsAreCandidates
      <4> QED  BY <3>2, <4>1
    <3> QED  BY <2>2, <3>1, <3>2, RunsGoOn
  <2> QED  BY <2>1, <2>2
<1>2. DOMAIN runs' = Detectors
  <2>1. \A e, r : runs' = [runs EXCEPT ![e] = r] => DOMAIN runs' = Detectors
    BY DEF DetectTypes
  <2> QED
    BY <2>1 DEF DetectNext, Fetch, Quiet, Propose, CreateAlert, Submit, Resolve, Mute, Expire,
                detectVars, DetectTypes
<1> QED  BY <1>1, <1>2, AlertsStay DEF DetectTypes

LEMMA DetectStarts == DetectInit => DetectTypes /\ alerts = << >> /\ \A d \in Detectors : runs[d] = Idle
<1>1. << >> \in Seq(Alert)  OBVIOUS
<1> QED  BY <1>1 DEF DetectInit, DetectTypes

\* A consecutive miss follows a first miss of an earlier period, for any settings, any
\* mutes, any number of runs that overlap and periods examined in any order: a streak
\* is never empty, and what it counts goes back to a first miss.
THEOREM FirstMissComesFirst == DetectSpec => []FirstMissFirst
<1> DEFINE Inv == DetectTypes /\ FirstMissFirst /\ ProposedAfterFirst
<1>1. DetectInit => Inv
  BY DetectStarts DEF FirstMissFirst, ProposedAfterFirst, Proposed, Idle
<1>2. Inv /\ [DetectNext]_detectVars => Inv'
  <2> SUFFICES ASSUME Inv, [DetectNext]_detectVars PROVE Inv'
    OBVIOUS
  <2>1. DetectTypes'  BY DetectTypesStay
  <2>2. ASSUME NEW n \in 0 .. Len(alerts), NEW w \in 1 .. Weeks, HasFirstMiss(n, w)
        PROVE  HasFirstMiss(n, w)'
    BY <2>2, AlertsStay DEF HasFirstMiss
  <2>3. ProposedAfterFirst'
    <3> SUFFICES ASSUME NEW d \in Detectors, Proposed(d)',
                        runs'[d].candidate.type = "group_a2_consecutive_miss"
                 PROVE  HasFirstMiss(Len(alerts), runs[d].week)'
      BY DEF ProposedAfterFirst
    <3>1. CASE runs'[d] = runs[d]
      <4>1. HasFirstMiss(Len(alerts), runs[d].week)
        BY <3>1 DEF ProposedAfterFirst, Proposed
      <4>2. runs[d].week \in 1 .. Weeks
        BY <3>1 DEF DetectTypes, Idle, Proposed
      <4> QED  BY <3>1, <4>1, <4>2, AlertsStay DEF HasFirstMiss
    <3>2. CASE runs'[d] # runs[d]
      <4>1. PICK c \in Proposals(runs[d].week, runs[d].sheet) :
              /\ c # None /\ runs'[d].week = runs[d].week /\ runs'[d].candidate = c
              /\ runs[d].week \in 1 .. Weeks /\ alerts' = alerts
        <5>1. runs'[d].step = "proposed"  BY DEF Proposed
        <5>2. runs'[d] # Idle /\ runs'[d].step # "fetched"  BY <5>1 DEF Idle
        <5>3. /\ alerts' = alerts /\ runs[d].week \in 1 .. Weeks
              /\ \E c \in Proposals(runs[d].week, runs[d].sheet) \ {None} :
                   runs'[d] = [step |-> "proposed", week |-> runs[d].week, candidate |-> c]
          BY <3>2, <5>2, RunsGoOn
        <5> QED  BY <5>3
      <4>2. PICK last \in Latest(runs[d].week, Needed(consecutive_miss_threshold)) :
              DetectA2(runs[d].week, last)
        BY <4>1, ConsecutiveProposed
      <4>3. last # {}
        <5>1. Cardinality(last) >= Needed(consecutive_miss_threshold)
          BY <4>2 DEF DetectA2, Streak
        <5>2. Needed(consecutive_miss_threshold) \in Nat \ {0}
          BY NeededIsPositive DEF DetectTypes
        <5>3. Cardinality({}) = 0  BY FS_EmptySet
        <5> QED  BY <5>1, <5>2, <5>3
      <4>4. PICK k \in DOMAIN alerts : alerts[k].type \in MissTypes /\ alerts[k].week < runs[d].week
        BY <4>2, <4>3 DEF Latest, PriorMisses
      <4>5. HasFirstMiss(Len(alerts), runs[d].week)
        <5>1. \A i \in 1 .. Len(alerts) : alerts[i] \in Alert
          BY DEF DetectTypes
        <5>2. \A i \in 1 .. Len(alerts) : alerts[i].week \in 1 .. Weeks
          BY <5>1 DEF Alert
        <5>3. Len(alerts) \in Nat /\ DOMAIN alerts = 1 .. Len(alerts)  BY DEF DetectTypes
        <5>4. CASE alerts[k].type = "group_a1_first_miss"
          BY <4>4, <5>3, <5>4 DEF HasFirstMiss
        <5>5. CASE alerts[k].type = "group_a2_consecutive_miss"
          <6>1. PICK j \in 1 .. k : alerts[j].type = "group_a1_first_miss"
                                    /\ alerts[j].week < alerts[k].week
            BY <5>5 DEF FirstMissFirst
          <6> QED  BY <4>1, <4>4, <5>2, <5>3, <6>1, DetectionAssumption DEF HasFirstMiss
        <5> QED  BY <4>4, <5>4, <5>5 DEF MissTypes
      <4> QED  BY <4>1, <4>5 DEF HasFirstMiss
    <3> QED  BY <3>1, <3>2
  <2>4. FirstMissFirst'
    <3> SUFFICES ASSUME NEW i \in DOMAIN alerts', alerts'[i].type = "group_a2_consecutive_miss"
                 PROVE  \E j \in 1 .. i : /\ alerts'[j].type = "group_a1_first_miss"
                                          /\ alerts'[j].week < alerts'[i].week
      BY DEF FirstMissFirst
    <3>1. CASE i \in 1 .. Len(alerts)
      <4>1. PICK j \in 1 .. i : /\ alerts[j].type = "group_a1_first_miss"
                                /\ alerts[j].week < alerts[i].week
        BY <3>1, AlertsStay DEF FirstMissFirst, DetectTypes
      <4> QED  BY <3>1, <4>1, AlertsStay
    <3>2. CASE i \notin 1 .. Len(alerts)
      <4>1. PICK d \in Detectors : CreateAlert(d)
        <5>1. alerts' # alerts
          BY <3>2 DEF DetectTypes
        <5>2. \A k \in DOMAIN alerts : Resolve(k) => DOMAIN alerts' = DOMAIN alerts
          BY DEF Resolve
        <5> QED  BY <3>2, <5>1, <5>2
                 DEF DetectNext, Fetch, Quiet, Propose, Submit, Mute, Expire, detectVars, DetectTypes
      <4>2. /\ i = Len(alerts) + 1 /\ alerts'[i].week = runs[d].week
            /\ alerts'[i].type = runs[d].candidate.type
        BY <3>2, <4>1 DEF CreateAlert, DetectTypes
      <4>3. HasFirstMiss(Len(alerts), runs[d].week)
        BY <4>1, <4>2 DEF CreateAlert, ProposedAfterFirst, Proposed
      <4> QED  BY <4>2, <4>3, AlertsStay DEF HasFirstMiss
    <3> QED  BY <3>1, <3>2
  <2> QED  BY <2>1, <2>3, <2>4
<1>3. Inv => FirstMissFirst  OBVIOUS
<1> QED  BY <1>1, <1>2, <1>3, PTL DEF DetectSpec

\* A period that two runs never examined at a time has at most one unresolved alert,
\* for any number of runs and whatever else they overlap on: what a run found closed is
\* closed when it stores its alert, for nobody reopens one and no other run is about
\* to store one.
THEOREM OneIsOpen == DetectSpec => []OneOpen
<1> DEFINE Clear == \A d \in Detectors :
                      Proposed(d) /\ runs[d].week \notin doubled => ~OpenAlert(runs[d].week)
           Marked == \A d, e \in Detectors :
                       /\ d # e /\ runs[d] # Idle /\ runs[e] # Idle
                       /\ runs[d].week = runs[e].week
                       => runs[d].week \in doubled
           Inv == DetectTypes /\ OneOpen /\ Clear /\ Marked
<1>1. DetectInit => Inv
  BY DetectStarts DEF OneOpen, Proposed, Idle
<1>2. Inv /\ [DetectNext]_detectVars => Inv'
  <2> SUFFICES ASSUME Inv, [DetectNext]_detectVars PROVE Inv'
    OBVIOUS
  <2>1. DetectTypes' /\ doubled \subseteq doubled'
    BY DetectTypesStay, DoublingIsMarked
  <2>2. Marked'
    <3>1. \A d \in Detectors :
            runs'[d] # runs[d] /\ runs[d] # Idle /\ runs'[d] # Idle => runs'[d].week = runs[d].week
      <4> SUFFICES ASSUME NEW d \in Detectors, runs'[d] # runs[d], runs[d] # Idle, runs'[d] # Idle
                   PROVE  runs'[d].week = runs[d].week
        OBVIOUS
      <4>1. \A f \in Detectors : ~Fetch(f) \/ (f # d /\ runs'[d] = runs[d])
        BY DEF Fetch, DetectTypes
      <4>2. PICK f \in Detectors : Quiet(f) \/ Propose(f) \/ CreateAlert(f)
        BY <4>1 DEF DetectNext, Submit, Resolve, Mute, Expire, detectVars
      <4>3. f = d
        BY <4>2 DEF Quiet, Propose, CreateAlert, DetectTypes
      <4>4. Propose(d)
        BY <4>2, <4>3 DEF Quiet, CreateAlert, DetectTypes
      <4> QED  BY <4>4 DEF Propose, DetectTypes
    <3>2. ASSUME NEW d \in Detectors, NEW e \in Detectors, d # e, runs'[d] # Idle, runs'[e] # Idle,
                 runs'[d].week = runs'[e].week
          PROVE  runs'[d].week \in doubled'
      <4>1. CASE runs[d] = Idle \/ runs[e] = Idle
        BY <3>2, <4>1, DoublingIsMarked
      <4>2. CASE runs[d] # Idle /\ runs[e] # Idle
        <5>1. runs'[d].week = runs[d].week /\ runs'[e].week = runs[e].week
          BY <3>1, <3>2, <4>2
        <5> QED  BY <2>1, <3>2, <4>2, <5>1
      <4> QED  BY <4>1, <4>2
    <3> QED  BY <3>2
  <2>3. CASE Len(alerts') = Len(alerts)
    <3>1. DOMAIN alerts = 1 .. Len(alerts) /\ DOMAIN alerts' = 1 .. Len(alerts)
      BY <2>3, AlertsStay DEF DetectTypes
    <3>2. OneOpen'
      BY <2>1, <3>1, AlertsStay DEF OneOpen
    <3>3. \A w : OpenAlert(w)' => OpenAlert(w)
      BY <3>1, AlertsStay DEF OpenAlert
    <3>4. ASSUME NEW d \in Detectors, Proposed(d)', runs'[d].week \notin doubled'
          PROVE  ~OpenAlert(runs[d].week)'
      <4>1. CASE runs'[d] = runs[d]
        BY <2>1, <3>3, <3>4, <4>1 DEF Proposed, OpenAlert
      <4>2. CASE runs'[d] # runs[d]
        <5>1. runs'[d].step = "proposed"  BY <3>4 DEF Proposed
        <5>2. runs'[d] # Idle /\ runs'[d].step # "fetched"  BY <5>1 DEF Idle
        <5>3. PICK c \in Proposals(runs[d].week, runs[d].sheet) \ {None} :
                runs'[d] = [step |-> "proposed", week |-> runs[d].week, candidate |-> c]
          BY <4>2, <5>2, RunsGoOn
        <5>4. ~OpenAlert(runs[d].week)  BY <5>3, ProposalsAreCandidates
        <5>5. runs'[d].week = runs[d].week  BY <5>3
        <5> QED  BY <3>3, <5>4, <5>5 DEF OpenAlert
      <4> QED  BY <4>1, <4>2
    <3> QED  BY <2>1, <2>2, <3>2, <3>4
  <2>4. CASE Len(alerts') # Len(alerts)
    <3>1. PICK d \in Detectors : CreateAlert(d)
      <4>1. \A k \in DOMAIN alerts : Resolve(k) => Len(alerts') = Len(alerts)
        BY DEF Resolve, DetectTypes
      <4> QED  BY <2>4, <4>1
               DEF DetectNext, Fetch, Quiet, Propose, Submit, Mute, Expire, detectVars
    <3>2. PICK a : alerts' = Append(alerts, a) /\ a.week = runs[d].week
      BY <3>1 DEF CreateAlert
    <3>3. /\ DOMAIN alerts' = 1 .. Len(alerts) + 1 /\ DOMAIN alerts = 1 .. Len(alerts)
          /\ alerts'[Len(alerts) + 1] = a /\ \A i \in 1 .. Len(alerts) : alerts'[i] = alerts[i]
          /\ Len(alerts) \in Nat
      BY <3>2 DEF DetectTypes
    <3>4. doubled' = doubled /\ runs[d] # Idle /\ Proposed(d)
      BY <3>1 DEF CreateAlert, Proposed, Idle
    <3>5. a.week \in doubled \/ \A i \in 1 .. Len(alerts) :
                                    Unresolved(alerts[i]) => alerts[i].week # a.week
      BY <3>2, <3>3, <3>4 DEF OpenAlert
    <3>6. OneOpen'
      BY <3>3, <3>4, <3>5 DEF OneOpen
    <3>7. ASSUME NEW e \in Detectors, Proposed(e)', runs'[e].week \notin doubled'
          PROVE  ~OpenAlert(runs[e].week)'
      <4>1. e # d /\ runs'[e] = runs[e] /\ runs[e] # Idle
        BY <3>1, <3>7 DEF CreateAlert, Proposed, Idle, DetectTypes
      <4>2. runs[e].week # a.week /\ ~OpenAlert(runs[e].week)
        BY <3>2, <3>4, <3>7, <4>1 DEF Proposed
      <4> QED  BY <3>3, <4>1, <4>2 DEF OpenAlert
    <3> QED  BY <2>1, <2>2, <3>6, <3>7
  <2> QED  BY <2>3, <2>4
<1>3. Inv => OneOpen  OBVIOUS
<1> QED  BY <1>1, <1>2, <1>3, PTL DEF DetectSpec

-----------------------------------------------------------------------------
(* Graders.                                                                  *)

\* What a run has found when it is past its rules.
Result == CASE desk = "risk_alert" -> Risks [] desk = "collections" -> Priorities
            [] desk = "compliance" -> Violations

RowsFit ==
    \A i \in DOMAIN rows :
        /\ desk = "risk_alert" => rows[i].pay \in Int /\ rows[i].bill \in Int
        /\ desk = "collections" => rows[i].amount \in Int /\ rows[i].days \in Int
        /\ desk = "compliance" => rows[i].expires \in Int \cup {Unset}

CfgFits ==
    /\ DOMAIN cfg = DOMAIN Defaults
    /\ cfg.minimum_wage \in Int
    /\ \A s \in DOMAIN cfg.state_wages : s # Unset /\ cfg.state_wages[s] \in Int

ScheduleFits == \A threshold \in DOMAIN DefaultSchedule : schedule[threshold] \in Int

GradeInv ==
    /\ RowsFit /\ CfgFits /\ ScheduleFits
    /\ stage \in {"called", "model", "review", "ended", "planned"}
    /\ stage # "called" => NothingGiven \/ (desk \in Desks /\ found = Result)
    /\ stage \in {"ended", "planned"} /\ desk = "risk_alert" /\ ~NothingGiven =>
         human_review_required \/ \A r \in Risks : r.severity # "high"
    /\ stage = "planned" => actions = {Mapped(f) : f \in found}

LEMMA GradersStart == AnalystInit => GradeInv
<1> SUFFICES ASSUME AnalystInit PROVE GradeInv  OBVIOUS
<1>1. RowsFit
  <2> SUFFICES ASSUME NEW i \in DOMAIN rows
               PROVE  /\ desk = "risk_alert" => rows[i].pay \in Int /\ rows[i].bill \in Int
                      /\ desk = "collections" => rows[i].amount \in Int /\ rows[i].days \in Int
                      /\ desk = "compliance" => rows[i].expires \in Int \cup {Unset}
    BY DEF RowsFit
  <2>1. PICK job \in Jobs : desk = job.desk /\ rows = job.rows
    BY DEF AnalystInit
  <2>2. CASE desk = "risk_alert"
    <3>1. {job.rows[i].pay, job.rows[i].bill} \subseteq Int
      BY <2>1, <2>2, AnalystsAssumption
    <3> QED  BY <2>1, <2>2, <3>1
  <2>3. CASE desk = "collections"
    <3>1. {job.rows[i].amount, job.rows[i].days} \subseteq Int
      BY <2>1, <2>3, AnalystsAssumption
    <3> QED  BY <2>1, <2>3, <3>1
  <2>4. CASE desk = "compliance"
    BY <2>1, <2>4, AnalystsAssumption
  <2> QED  BY <2>2, <2>3, <2>4
<1>2. CfgFits
  BY DEF AnalystInit, CfgFits, Defaults
<1>3. ScheduleFits
  BY DEF AnalystInit, ScheduleFits, DefaultSchedule
<1> QED  BY <1>1, <1>2, <1>3 DEF AnalystInit, GradeInv

LEMMA OverridesFit ==
    ASSUME CfgFits, NEW o \in RiskOverrides, cfg' = ApplyOverride(cfg, o.key, o.value)
    PROVE  CfgFits'
<1>1. CASE cfg' = cfg
  BY <1>1 DEF CfgFits
<1>2. CASE o.key = "state_wages" /\ cfg' = [cfg EXCEPT !["state_wages"] = o.value]
  <2>1. /\ DOMAIN cfg' = DOMAIN cfg /\ cfg'.minimum_wage = cfg.minimum_wage
        /\ cfg'.state_wages = o.value
    BY <1>2 DEF CfgFits, Defaults
  <2> QED  BY <1>2, <2>1, AnalystsAssumption DEF CfgFits
<1>3. CASE o.key \in {"approved", "inactive"} /\ cfg' = [cfg EXCEPT ![o.key] = o.value]
  <2>1. /\ DOMAIN cfg' = DOMAIN cfg /\ cfg'.minimum_wage = cfg.minimum_wage
        /\ cfg'.state_wages = cfg.state_wages
    BY <1>3 DEF CfgFits, Defaults
  <2> QED  BY <2>1 DEF CfgFits
<1>4. CASE /\ o.key \in DOMAIN Fields /\ o.value # Unset
           /\ cfg' = [cfg EXCEPT ![o.key] = o.value]
  <2>1. o.value \in Int
    BY <1>4, AnalystsAssumption
  <2>2. o.key # "state_wages"
    BY <1>4 DEF Fields
  <2>3. /\ DOMAIN cfg' = DOMAIN cfg /\ cfg'.minimum_wage \in Int
        /\ cfg'.state_wages = cfg.state_wages
    BY <1>4, <2>1, <2>2 DEF CfgFits, Defaults
  <2> QED  BY <2>3 DEF CfgFits
<1> QED  BY <1>1, <1>2, <1>3, <1>4 DEF ApplyOverride

LEMMA GradersKeep == GradeInv /\ [AnalystNext]_analystVars => GradeInv'
<1> SUFFICES ASSUME GradeInv, [AnalystNext]_analystVars PROVE GradeInv'
  OBVIOUS
<1> USE DEF GradeInv
<1>1. UNCHANGED <<desk, rows, postings>>
  BY DEF AnalystNext, Override, NoInput, Analyse, analyze_node, prioritize_node, scan_node,
         AskModel, review_node, MakePlan, analystVars
<1>2. RowsFit' /\ NothingGiven' = NothingGiven
  BY <1>1 DEF RowsFit, NothingGiven
<1>3. CASE Override
  <2>1. CfgFits'
    <3>1. CASE desk = "risk_alert"
      <4>1. PICK o \in RiskOverrides : cfg' = ApplyOverride(cfg, o.key, o.value)
        BY <1>3, <3>1 DEF Override
      <4> QED  BY <4>1, OverridesFit
    <3>2. CASE desk # "risk_alert"
      BY <1>3, <3>2 DEF Override, CfgFits
    <3> QED  BY <3>1, <3>2
  <2>2. ScheduleFits'
    BY <1>3, AnalystsAssumption DEF Override, ScheduleFits
  <2> QED  BY <1>2, <1>3, <2>1, <2>2 DEF Override
<1>4. CASE ~Override
  <2>1. UNCHANGED <<cfg, schedule>>
    BY <1>4 DEF AnalystNext, NoInput, Analyse, analyze_node, prioritize_node, scan_node,
                AskModel, review_node, MakePlan, analystVars
  <2>2. CfgFits' /\ ScheduleFits'
    BY <2>1 DEF CfgFits, ScheduleFits
  <2>3. Risks' = Risks /\ Result' = Result
    <3>1. Risks' = Risks
      BY <1>1, <2>1 DEF Risks, On, PlacementRisks, MismatchRisks, RateRisks, MarkupRisks, StateWage,
         ChargeRisks, AmountRisks, HoursRisks, OffCard, DuplicateRisks, Copies
    <3>2. Priorities' = Priorities
      BY <1>1, <2>1 DEF Priorities, Actionable, Owed, EscalationStage, PriorityTier
    <3>3. Violations' = Violations
      BY <1>1, <2>1 DEF Violations, On, CredentialFlags, OvertimeFlags, ContractFlags, WorkerFlags
    <3> QED  BY <1>1, <3>1, <3>2, <3>3 DEF Result
  <2>4. CASE analyze_node
    BY <1>1, <1>2, <2>2, <2>3, <2>4 DEF analyze_node, Analyse, Result, Desks
  <2>5. CASE prioritize_node \/ scan_node
    BY <1>1, <1>2, <2>2, <2>3, <2>5 DEF prioritize_node, scan_node, Analyse, Result, Desks
  <2>6. CASE NoInput \/ AskModel \/ review_node
    BY <1>1, <1>2, <2>2, <2>3, <2>6 DEF NoInput, AskModel, review_node
  <2>7. CASE MakePlan
    <3>1. actions' = {Mapped(f) : f \in found} /\ found' = found
      BY <2>7 DEF MakePlan
    <3>2. \A f : Mapped(f)' = Mapped(f)
      BY <1>1 DEF Mapped
    <3> QED  BY <1>1, <1>2, <2>2, <2>3, <2>7, <3>1, <3>2 DEF MakePlan
  <2>8. CASE UNCHANGED analystVars
    BY <1>1, <1>2, <2>2, <2>3, <2>8 DEF analystVars, Mapped
  <2> QED  BY <1>4, <2>4, <2>5, <2>6, <2>7, <2>8 DEF AnalystNext
<1> QED  BY <1>3, <1>4

\* The rules for rates and markups find every placement that loses money.
LEMMA LossIsFound ==
    ASSUME GradeInv, desk = "risk_alert", NEW i \in DOMAIN rows, Losing(rows[i])
    PROVE  \E f \in Risks : f.of = "row" /\ f.row = i /\ f.severity = "high"
<1> DEFINE p == rows[i]
<1>1. p.pay \in Int /\ p.bill \in Int /\ p.pay > 0
  BY DEF GradeInv, RowsFit, Losing
<1> DEFINE below == Flag(p.pay > 0 /\ p.pay < cfg.minimum_wage, "below_federal_min_wage", "high")
           belowState == Flag(/\ p.pay > 0 /\ p.state # Unset
                              /\ StateWage(p.state) > cfg.minimum_wage /\ p.pay < StateWage(p.state),
                              "below_state_min_wage", "high")
<1>2. \E f \in PlacementRisks(p) : f.severity = "high"
  <2>1. below \subseteq PlacementRisks(p) /\ belowState \subseteq PlacementRisks(p)
    <3>1. below \subseteq RateRisks(p) /\ belowState \subseteq RateRisks(p)
      BY Zenon DEF RateRisks
    <3> HIDE DEF below, belowState
    <3> QED  BY <3>1 DEF PlacementRisks
  <2>2. CASE p.bill > 0 /\ p.bill < p.pay
    <3>1. MarkupRisks(p) = {[type |-> "negative_markup", severity |-> "high"]}
      BY <1>1, <2>2 DEF MarkupRisks, Flag
    <3>2. MarkupRisks(p) \subseteq PlacementRisks(p)
      BY Zenon DEF PlacementRisks
    <3> QED  BY <3>1, <3>2
  <2>3. CASE p.pay < cfg.minimum_wage
    <3>1. below = {[type |-> "below_federal_min_wage", severity |-> "high"]}
      BY <1>1, <2>3 DEF Flag
    <3> HIDE DEF below
    <3> QED  BY <2>1, <3>1
  <2>4. CASE p.state \in DOMAIN Wages /\ p.pay < Wages[p.state] /\ ~(p.pay < cfg.minimum_wage)
    <3>1. p.state # Unset /\ StateWage(p.state) = Wages[p.state] /\ StateWage(p.state) \in Int
      BY <2>4, AnalystsAssumption DEF Wages, StateWage, GradeInv, CfgFits
    <3>2. StateWage(p.state) > cfg.minimum_wage /\ p.pay < StateWage(p.state)
      BY <1>1, <2>4, <3>1 DEF GradeInv, CfgFits
    <3>3. belowState = {[type |-> "below_state_min_wage", severity |-> "high"]}
      BY <1>1, <3>1, <3>2 DEF Flag
    <3> HIDE DEF belowState
    <3> QED  BY <2>1, <3>3
  <2> QED  BY <2>2, <2>3, <2>4 DEF Losing, Underpaid
<1>3. PICK f \in PlacementRisks(p) : f.severity = "high"
  BY <1>2
<1> DEFINE g == [type |-> f.type, severity |-> f.severity, of |-> "row", row |-> i]
<1>4. g \in On("row", i, PlacementRisks(p))
  BY DEF On
<1>5. g \in Risks
  BY <1>4 DEF Risks
<1> QED  BY <1>3, <1>5

\* A placement that is paid less than the minimum wage, or costs more than it brings,
\* reaches a person: for any wages and thresholds that the caller of the analysis overrides
\* and any other rows; and it reaches the plan, which is made with the platform's defaults.
THEOREM LossesAreSeen == AnalystSpec => []LossesReachAPerson
<1>1. GradeInv => LossesReachAPerson
  <2> SUFFICES ASSUME GradeInv, desk = "risk_alert", stage \in {"ended", "planned"},
                      NEW i \in DOMAIN rows, Losing(rows[i])
               PROVE  /\ human_review_required
                      /\ \E f \in found : f.of = "row" /\ f.row = i /\ f.severity = "high"
                      /\ stage = "planned" => \E a \in actions : a.row = i /\ a.severity = "high"
    BY DEF LossesReachAPerson
  <2>1. ~NothingGiven
    BY DEF NothingGiven
  <2>2. found = Risks
    BY <2>1 DEF GradeInv, Result
  <2>3. PICK f \in found : f \in Risks /\ f.of = "row" /\ f.row = i /\ f.severity = "high"
    BY <2>2, LossIsFound
  <2>4. human_review_required
    BY <2>1, <2>3 DEF GradeInv
  <2>5. stage = "planned" => \E a \in actions : a.row = i /\ a.severity = "high"
    <3>1. Mapped(f).row = i /\ Mapped(f).severity = "high"
      BY <2>3 DEF Mapped
    <3> QED  BY <2>3, <3>1 DEF GradeInv
  <2> QED  BY <2>3, <2>4, <2>5
<1> QED  BY <1>1, GradersStart, GradersKeep, PTL DEF AnalystSpec

\* The stage of escalation and the tier only rise with age and amount, in whatever
\* order the thresholds are.
LEMMA OlderIsGraver ==
    ASSUME ScheduleFits, NEW a \in Int, NEW b \in Int, NEW d \in Int, NEW e \in Int,
           a >= b, d >= e
    PROVE  /\ Steps[EscalationStage(d)] >= Steps[EscalationStage(e)]
           /\ Rank[PriorityTier(a, d)] >= Rank[PriorityTier(b, e)]
           /\ EscalationStage(e) # "reminder" => EscalationStage(d) # "reminder"
           /\ PriorityTier(b, e) \in Risky => PriorityTier(a, d) \in Risky
<1>1. /\ schedule.followup_days \in Int /\ schedule.escalation_days \in Int
      /\ schedule.legal_days \in Int /\ schedule.high_priority_amount \in Int
      /\ schedule.critical_priority_amount \in Int
  BY DEF ScheduleFits, DefaultSchedule
<1>2. Steps["reminder"] = 1 /\ Steps["follow_up"] = 2 /\ Steps["escalation"] = 3 /\ Steps["legal"] = 4
  BY DEF Steps
<1>3. Rank["low"] = 1 /\ Rank["medium"] = 2 /\ Rank["high"] = 3 /\ Rank["critical"] = 4
  BY DEF Rank
<1>4. /\ Steps[EscalationStage(d)] >= Steps[EscalationStage(e)]
      /\ EscalationStage(e) # "reminder" => EscalationStage(d) # "reminder"
  BY <1>1, <1>2 DEF EscalationStage
<1>5. /\ Rank[PriorityTier(a, d)] >= Rank[PriorityTier(b, e)]
      /\ PriorityTier(b, e) \in Risky => PriorityTier(a, d) \in Risky
  BY <1>1, <1>3 DEF PriorityTier, Risky
<1> QED  BY <1>4, <1>5

LEMMA SoonerIsGraver ==
    ASSUME ScheduleFits, NEW d \in Int, NEW e \in Int, d <= e, NEW f \in CredentialFlags(e)
    PROVE  \E g \in CredentialFlags(d) : Rank[g.severity] >= Rank[f.severity]
<1>1. schedule.critical_days \in Int /\ schedule.warning_days \in Int
  BY DEF ScheduleFits, DefaultSchedule
<1>2. Rank["medium"] = 2 /\ Rank["high"] = 3 /\ Rank["critical"] = 4
  BY DEF Rank
<1> DEFINE expired == [type |-> "credential_expired", severity |-> "critical"]
           soon == [type |-> "credential_expiring_critical", severity |-> "high"]
           warned == [type |-> "credential_expiring_warning", severity |-> "medium"]
<1>3. \A n : CredentialFlags(n) = IF n < 0 THEN {expired}
                                  ELSE IF n <= schedule.critical_days THEN {soon}
                                  ELSE IF n <= schedule.warning_days THEN {warned} ELSE {}
  BY DEF CredentialFlags, Flag
<1>4. /\ Rank[expired.severity] = 4 /\ Rank[soon.severity] = 3 /\ Rank[warned.severity] = 2
  BY <1>2
<1> HIDE DEF expired, soon, warned
<1>5. CASE d < 0
  BY <1>3, <1>4, <1>5
<1>6. CASE ~(d < 0) /\ d <= schedule.critical_days
  BY <1>1, <1>3, <1>4, <1>6
<1>7. CASE ~(d < 0) /\ ~(d <= schedule.critical_days)
  BY <1>1, <1>3, <1>4, <1>7
<1> QED  BY <1>5, <1>6, <1>7

\* An older and not smaller invoice, and a credential that expires sooner, are never
\* treated more gently, for any thresholds, also in an order nobody would choose.
THEOREM AgeIsGraver == AnalystSpec => []OlderIsNotGentler
<1>1. ASSUME GradeInv, stage \in {"ended", "planned"}, desk = "collections",
             NEW i \in DOMAIN rows, NEW j \in DOMAIN rows,
             Owed(rows[j]), rows[i].days >= rows[j].days, rows[i].amount >= rows[j].amount
      PROVE  /\ Steps[EscalationStage(rows[i].days)] >= Steps[EscalationStage(rows[j].days)]
             /\ \A f \in found : f.row = j =>
                  \E g \in found : g.row = i /\ Rank[g.severity] >= Rank[f.severity]
  <2> USE <1>1
  <2>1. found = Priorities
    BY DEF GradeInv, Result, NothingGiven
  <2>2. /\ rows[i].amount \in Int /\ rows[i].days \in Int
        /\ rows[j].amount \in Int /\ rows[j].days \in Int
    BY DEF GradeInv, RowsFit
  <2>3. /\ Steps[EscalationStage(rows[i].days)] >= Steps[EscalationStage(rows[j].days)]
        /\ Rank[PriorityTier(rows[i].amount, rows[i].days)]
             >= Rank[PriorityTier(rows[j].amount, rows[j].days)]
        /\ EscalationStage(rows[j].days) # "reminder" => EscalationStage(rows[i].days) # "reminder"
        /\ PriorityTier(rows[j].amount, rows[j].days) \in Risky
             => PriorityTier(rows[i].amount, rows[i].days) \in Risky
    BY <2>2, OlderIsGraver DEF GradeInv
  <2>4. ASSUME NEW f \in found, f.row = j
        PROVE  \E g \in found : g.row = i /\ Rank[g.severity] >= Rank[f.severity]
    <3>1. /\ Actionable(rows[j])
          /\ f.severity = PriorityTier(rows[j].amount, rows[j].days)
      BY <2>1, <2>4 DEF Priorities
    <3>2. Actionable(rows[i])
      BY <2>2, <2>3, <3>1 DEF Actionable, Owed
    <3> DEFINE g == [type |-> EscalationStage(rows[i].days),
                     severity |-> PriorityTier(rows[i].amount, rows[i].days),
                     of |-> "row", row |-> i]
    <3>3. g \in found
      BY <2>1, <3>2 DEF Priorities
    <3> QED  BY <2>3, <3>1, <3>3
  <2> QED  BY <2>3, <2>4
<1>2. ASSUME GradeInv, stage \in {"ended", "planned"}, desk = "compliance",
             NEW i \in DOMAIN rows, NEW j \in DOMAIN rows,
             rows[i].expires # Unset, rows[j].expires # Unset, rows[i].expires <= rows[j].expires,
             NEW f \in found, f.row = j
      PROVE  \E g \in found : g.row = i /\ Rank[g.severity] >= Rank[f.severity]
  <2> USE <1>2
  <2> DEFINE flags(k) == IF rows[k].expires # Unset THEN CredentialFlags(rows[k].expires)
                         ELSE OvertimeFlags(rows[k]) \cup ContractFlags(rows[k]) \cup WorkerFlags(rows[k])
  <2>1. found = UNION {On("row", k, flags(k)) : k \in DOMAIN rows}
    <3>1. found = Violations
      BY DEF GradeInv, Result, NothingGiven
    <3> QED  BY <3>1, Zenon DEF Violations
  <2>2. rows[i].expires \in Int /\ rows[j].expires \in Int
    BY DEF GradeInv, RowsFit
  <2>3. flags(i) = CredentialFlags(rows[i].expires) /\ flags(j) = CredentialFlags(rows[j].expires)
    OBVIOUS
  <2> HIDE DEF flags
  <2>4. PICK h \in flags(j) : f.severity = h.severity
    <3>1. PICK k \in DOMAIN rows : f \in On("row", k, flags(k))
      BY <2>1
    <3>2. PICK h \in flags(k) : f = [type |-> h.type, severity |-> h.severity, of |-> "row", row |-> k]
      BY <3>1 DEF On
    <3> QED  BY <3>2
  <2>5. PICK g \in flags(i) : Rank[g.severity] >= Rank[h.severity]
    BY <2>2, <2>3, SoonerIsGraver DEF GradeInv
  <2> DEFINE v == [type |-> g.type, severity |-> g.severity, of |-> "row", row |-> i]
  <2>6. v \in On("row", i, flags(i))
    BY DEF On
  <2>7. v \in found
    BY <2>1, <2>6
  <2> QED  BY <2>4, <2>5, <2>7
<1>3. GradeInv => OlderIsNotGentler
  BY <1>1, <1>2 DEF OlderIsNotGentler
<1> QED  BY <1>3, GradersStart, GradersKeep, PTL DEF AnalystSpec
=============================================================================
