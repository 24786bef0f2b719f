----------------------------- MODULE TimeAnomaly -----------------------------
(***************************************************************************)
(* The life of a Time Anomaly alert: the LangGraph nodes that raise it and  *)
(* contact the employee, the SQS queue of SLA timers, the worker that wakes *)
(* an alert when its timer fires, and the reviewer who resolves it.         *)
(*                                                                          *)
(* Every handler runs in one database transaction (get_tenant_session): it  *)
(* reads, calls Bullhorn, Twilio or SQS, and commits at the end or rolls    *)
(* back on an exception.  No handler locks the row it reads, so a handler   *)
(* that decides on what it read is two actions here, its read and its       *)
(* commit; a node that reads the row only when it writes it is one.         *)
(***************************************************************************)
EXTENDS Naturals

CONSTANTS
    Runs,              \* graph invocations; the alert a run raises bears its name
    Slots,             \* (placement, pay period) pairs
    SlotOf,            \* the slot each run is invoked for
    Workers,           \* SLA timer worker tasks
    Reviewers,         \* humans on the HITL queue
    HumanResolutions,  \* the resolution strings reviewers send
    AcceptedEvents,    \* event types the CHECK of agent_alert_events lets in
    AcceptedActors,    \* actor types that CHECK lets in
    StripPrivateKeys,  \* FALSE: _build_template_variables as written
    NextDeclared,      \* FALSE: TimeAnomalyAlertState as written, without `next`
    SidOutcomes,       \* is the tenant's messaging service SID set?
    TimerOutcomes,     \* may schedule_timer succeed (TRUE), return None (FALSE)?
    Faults,            \* the failures the environment may inject
    MaxFaults,         \* bound: how many of them in one behaviour
    MaxReceives        \* maxReceiveCount of the timer queue

FaultKinds == {"bullhorn", "template", "twilio", "network", "graph_crash",
               "worker_crash", "visibility", "delete"}

ASSUME ConstantsAssumption ==
    /\ SlotOf \in [Runs -> Slots]
    /\ StripPrivateKeys \in BOOLEAN
    /\ NextDeclared \in BOOLEAN
    /\ SidOutcomes \subseteq BOOLEAN
    /\ TimerOutcomes \subseteq BOOLEAN
    /\ Faults \subseteq FaultKinds
    /\ MaxFaults \in Nat
    /\ MaxReceives \in Nat
    /\ {"detected", "sms_sent", "sms_skipped_no_consent", "closed", "hitl_assigned"}
         \subseteq AcceptedEvents
    /\ "agent" \in AcceptedActors

\* Migration 045 also lists wait_recheck, which no handler writes.
AlertStates == {"detected", "outreach_sent", "escalated_hitl", "resolved"}
Resolutions == {"employee_corrected", "hitl_resolved", "excluded",
                "dismissed_false_positive"}
EventTypes == {"detected", "sms_sent", "sms_skipped_no_consent", "closed",
               "hitl_assigned", "first_reminder_sent", "resolved"}
Sheets == {"missing", "anomalous", "fine"}
Reasons == {"first_reminder", "escalate"}
LossCauses == {"bullhorn_error", "timer_not_sent", "dead_letter", "graph_crash"}

\* An SLA timer on the queue: `due` once scheduled_at is less than a minute
\* away, `recv` the number of times SQS has delivered it.
Message == [alert : Runs, reason : Reasons, due : BOOLEAN, recv : 0..MaxReceives]

\* A message in a worker's hands.  `held` until its visibility timeout expires;
\* `seen` and `found` are what resume_alert read: the alert's state, and whether
\* Bullhorn had a timesheet.
Job == [worker : Workers, msg : Message, step : {"received", "resuming", "handled"},
        held : BOOLEAN, seen : AlertStates \cup {"none"}, found : BOOLEAN]

\* A resolve request between its read of the alert and its commit.
Review == [by : Reviewers, alert : Runs, seen : AlertStates,
           resolution : HumanResolutions]

VARIABLES
    sheet,       \* Bullhorn: the timesheet of each slot
    pc,          \* the node each run is about to execute
    trigger,     \* what the detector of a run saw: the kind of its alert
    state,       \* agent_alerts.state ("none": no such row)
    resolution,  \* agent_alerts.resolution ("none": NULL)
    log,         \* agent_alert_events: how many rows of each type
    queue,       \* the visible messages of the timer queue, with multiplicity
    jobs,        \* the messages the workers are processing
    reviews,     \* the resolve requests in flight
    lost,        \* history: timers that went without having been acted on
    faults       \* how many failures have been injected

alertVars == <<state, resolution, log>>
vars == <<sheet, pc, trigger, state, resolution, log, queue, jobs, reviews, lost,
          faults>>

TypeOK ==
    /\ sheet \in [Slots -> Sheets]
    /\ pc \in [Runs -> {"detect", "insert", "outreach", "wait_recheck",
                        "escalate_hitl", "end", "failed", "crashed"}]
    /\ trigger \in [Runs -> {"none", "missing", "anomalous"}]
    /\ state \in [Runs -> AlertStates \cup {"none"}]
    /\ resolution \in [Runs -> Resolutions \cup {"none"}]
    /\ log \in [Runs -> [EventTypes -> Nat]]
    /\ queue \in [Message -> Nat]
    /\ jobs \subseteq Job
    /\ reviews \subseteq Review
    /\ lost \subseteq [alert : Runs, cause : LossCauses]
    /\ faults \in 0..MaxFaults

Init ==
    /\ sheet \in [Slots -> {"missing", "anomalous"}]
    /\ pc = [r \in Runs |-> "detect"]
    /\ trigger = [r \in Runs |-> "none"]
    /\ state = [r \in Runs |-> "none"]
    /\ resolution = [r \in Runs |-> "none"]
    /\ log = [r \in Runs |-> [e \in EventTypes |-> 0]]
    /\ queue = [m \in Message |-> 0]
    /\ jobs = {}
    /\ reviews = {}
    /\ lost = {}
    /\ faults = 0

-----------------------------------------------------------------------------
(* The alert repository and its tables. *)

\* Mutant: the CHECK does not list the resolutions.
UnlistedResolution(s, res) == (s = "resolved") <=> (res # "none")

\* The CHECK constraints of migration 045 on one row.
RowCheck(s, res) ==
    /\ res \in Resolutions \cup {"none"}
    /\ (s = "resolved") <=> (res # "none")

\* The CHECK constraints of migration 046 on one event.
EventCheck(type, actor) == type \in AcceptedEvents /\ actor \in AcceptedActors

\* transition_state by a session that loaded the row in state `seen`: the UPDATE
\* carries only the columns whose value changed, so a state equal to the one
\* loaded is not written, and a resolution only if one is given.
NewState(r, seen, new) == IF new = seen THEN state[r] ELSE new
NewResolution(r, res) == IF res = "none" THEN resolution[r] ELSE res

\* Mutant: the alert is checked as the handler read it, not by the database.
CheckedOnRead(r, seen, new, res) == res \in Resolutions \cup {"none"} /\ seen # "resolved"

TransitionAllowed(r, seen, new, res) ==
    RowCheck(NewState(r, seen, new), NewResolution(r, res))

Transition(r, seen, new, res) ==
    /\ TransitionAllowed(r, seen, new, res)
    /\ state' = [state EXCEPT ![r] = NewState(r, seen, new)]
    /\ resolution' = [resolution EXCEPT ![r] = NewResolution(r, res)]

Record(r, type) == log' = [log EXCEPT ![r][type] = @ + 1]

Put(q, m) == [q EXCEPT ![m] = @ + 1]
Take(q, m) == [q EXCEPT ![m] = @ - 1]

\* schedule_timer: a message that is due only after one more bridging hop.
Timer(r, reason) == [alert |-> r, reason |-> reason, due |-> FALSE, recv |-> 0]

Lose(r, cause) == lost' = lost \cup {[alert |-> r, cause |-> cause]}

Fault(kind) ==
    /\ kind \in Faults
    /\ faults < MaxFaults
    /\ faults' = faults + 1

Goto(r, node) == pc' = [pc EXCEPT ![r] = node]
-----------------------------------------------------------------------------
(* The graph: detect -> outreach -> wait_recheck -> escalate_hitl.           *)

OpenAlert(s) ==
    \E r \in Runs : SlotOf[r] = s /\ state[r] \notin {"none", "resolved"}

\* Mutant: any answer of Bullhorn counts as a timesheet.
AnyAnswer(s) == sheet[s] \in Sheets

\* gateway.get_timesheet_by_placement_and_period returned a timesheet.
SheetPresent(s) == sheet[s] # "missing"

\* detect_node up to the INSERT: the Bullhorn read, then the detectors' queries.
\* A detector may also decline (suppression, Group A2's streak, a tolerance).
DetectRead(r) ==
    /\ pc[r] = "detect"
    /\ \/ /\ Fault("bullhorn")
          /\ Goto(r, "end")
          /\ UNCHANGED trigger
       \/ /\ Goto(r, "end")
          /\ UNCHANGED <<trigger, faults>>
       \/ /\ sheet[SlotOf[r]] # "fine"
          /\ ~OpenAlert(SlotOf[r])
          /\ trigger' = [trigger EXCEPT ![r] = sheet[SlotOf[r]]]
          /\ Goto(r, "insert")
          /\ UNCHANGED faults
    /\ UNCHANGED <<sheet, alertVars, queue, jobs, reviews, lost>>

\* create_alert and the commit of detect_node's transaction.  The graph routes on
\* the key `next` of its state; LangGraph drops what a node returns under a key the
\* state type does not declare, and _route_from_detect then ends the run.
DetectInsert(r) ==
    /\ pc[r] = "insert"
    /\ state' = [state EXCEPT ![r] = "detected"]
    /\ Record(r, "detected")
    /\ Goto(r, IF NextDeclared THEN "outreach" ELSE "end")
    /\ UNCHANGED <<sheet, trigger, resolution, queue, jobs, reviews, lost, faults>>

\* The variables outreach_node hands to the renderer, and those it accepts.
AllowedVariables == {"employee_first_name", "week_ending_date", "bte_link",
                     "recruiter_name", "company_short_name",
                     "pay_period_start", "pay_period_end"}
PrivateVariables == {"_employee_phone"}
TemplateVariables ==
    AllowedVariables \cup (IF StripPrivateKeys THEN {} ELSE PrivateVariables)
VariablesValid == TemplateVariables \subseteq AllowedVariables

\* outreach_node when render raises: an unknown variable, or no active template.
\* The alert's state does not change.
OutreachUnrendered(r) ==
    /\ pc[r] = "outreach"
    /\ IF VariablesValid THEN Fault("template") ELSE UNCHANGED faults
    /\ Record(r, "sms_skipped_no_consent")
    /\ Goto(r, "escalate_hitl")
    /\ UNCHANGED <<sheet, trigger, state, resolution, queue, jobs, reviews, lost>>

\* outreach_node for a tenant without a messaging service SID.
OutreachWithoutSid(r) ==
    /\ pc[r] = "outreach"
    /\ VariablesValid
    /\ FALSE \in SidOutcomes
    /\ IF TransitionAllowed(r, state[r], "escalated_hitl", "none")
       THEN /\ Record(r, "sms_skipped_no_consent")
            /\ Transition(r, state[r], "escalated_hitl", "none")
            /\ Goto(r, "escalate_hitl")
       ELSE /\ Goto(r, "failed")
            /\ UNCHANGED alertVars
    /\ UNCHANGED <<sheet, trigger, queue, jobs, reviews, lost, faults>>

\* outreach_node to its commit.  An answer of Twilio that is an error still moves the
\* alert to outreach_sent.  Without a timer the graph rechecks at once.
OutreachSend(r) ==
    /\ pc[r] = "outreach"
    /\ VariablesValid
    /\ TRUE \in SidOutcomes
    /\ TransitionAllowed(r, state[r], "outreach_sent", "none")
    /\ Transition(r, state[r], "outreach_sent", "none")
    /\ \/ Record(r, "sms_sent") /\ UNCHANGED faults
       \/ Record(r, "sms_skipped_no_consent") /\ Fault("twilio")
    /\ \/ /\ TRUE \in TimerOutcomes
          /\ queue' = Put(queue, Timer(r, "first_reminder"))
          /\ Goto(r, "end")
       \/ /\ FALSE \in TimerOutcomes
          /\ Goto(r, "wait_recheck")
          /\ UNCHANGED queue
    /\ UNCHANGED <<sheet, trigger, jobs, reviews, lost>>

\* outreach_node of an alert a reviewer resolved meanwhile: the UPDATE violates
\* the CHECK, the exception leaves the graph, the transaction is rolled back.
OutreachRejected(r) ==
    /\ pc[r] = "outreach"
    /\ VariablesValid
    /\ TRUE \in SidOutcomes
    /\ ~TransitionAllowed(r, state[r], "outreach_sent", "none")
    /\ Goto(r, "failed")
    /\ UNCHANGED <<sheet, trigger, alertVars, queue, jobs, reviews, lost, faults>>

\* The POST to Twilio times out or finds no connection: only TwilioConfigError and
\* TwilioSendError are caught, so the exception leaves the graph before any timer is
\* sent, the transaction is rolled back and the alert stays as it was.
OutreachUnsent(r) ==
    /\ pc[r] = "outreach"
    /\ VariablesValid
    /\ TRUE \in SidOutcomes
    /\ Fault("network")
    /\ Goto(r, "failed")
    /\ UNCHANGED <<sheet, trigger, alertVars, queue, jobs, reviews, lost>>

WaitRecheck(r) ==
    /\ pc[r] = "wait_recheck"
    /\ \/ /\ Fault("bullhorn")
          /\ Goto(r, "escalate_hitl")
          /\ UNCHANGED alertVars
       \/ /\ ~SheetPresent(SlotOf[r])
          /\ Goto(r, "escalate_hitl")
          /\ UNCHANGED <<alertVars, faults>>
       \/ /\ SheetPresent(SlotOf[r])
          /\ Record(r, "closed")
          /\ Transition(r, state[r], "resolved", "employee_corrected")
          /\ Goto(r, "end")
          /\ UNCHANGED faults
    /\ UNCHANGED <<sheet, trigger, queue, jobs, reviews, lost>>

EscalateHitl(r) ==
    /\ pc[r] = "escalate_hitl"
    /\ IF TransitionAllowed(r, state[r], "escalated_hitl", "none")
       THEN /\ Record(r, "hitl_assigned")
            /\ Transition(r, state[r], "escalated_hitl", "none")
            /\ Goto(r, "end")
       ELSE /\ Goto(r, "failed")
            /\ UNCHANGED alertVars
    /\ UNCHANGED <<sheet, trigger, queue, jobs, reviews, lost, faults>>

\* The process of a run dies between two commits.  In outreach_node the timer
\* may already be on the queue: SQS takes part in no transaction.
GraphCrash(r) ==
    /\ pc[r] \notin {"end", "failed", "crashed"}
    /\ Fault("graph_crash")
    /\ Goto(r, "crashed")
    /\ IF pc[r] \in {"wait_recheck", "escalate_hitl"}
       THEN Lose(r, "graph_crash")
       ELSE UNCHANGED lost
    /\ \/ UNCHANGED queue
       \/ /\ pc[r] = "outreach"
          /\ VariablesValid
          /\ TRUE \in SidOutcomes \cap TimerOutcomes
          /\ TransitionAllowed(r, state[r], "outreach_sent", "none")
          /\ queue' = Put(queue, Timer(r, "first_reminder"))
    /\ UNCHANGED <<sheet, trigger, alertVars, jobs, reviews>>

-----------------------------------------------------------------------------
(* The SLA timer worker.  The queue delivers at least once.                  *)

Receive(w, m) ==
    /\ \A j \in jobs : j.worker # w
    /\ queue[m] > 0
    /\ m.recv < MaxReceives
    /\ queue' = Take(queue, m)
    /\ jobs' = jobs \cup {[worker |-> w, msg |-> [m EXCEPT !.recv = @ + 1],
                          step |-> "received", held |-> TRUE,
                          seen |-> "none", found |-> FALSE]}
    /\ UNCHANGED <<sheet, pc, trigger, alertVars, reviews, lost, faults>>

\* SQS itself: a message received MaxReceives times moves to the DLQ.
DeadLetter(m) ==
    /\ queue[m] > 0
    /\ m.recv = MaxReceives
    /\ queue' = Take(queue, m)
    /\ Lose(m.alert, "dead_letter")
    /\ UNCHANGED <<sheet, pc, trigger, alertVars, jobs, reviews, faults>>

Advance(j, step) == jobs' = (jobs \ {j}) \cup {[j EXCEPT !.step = step]}

\* Mutant: the message is deleted before it is processed.
DeletedFirst(q, j) == q

\* The exception path of the worker's loop: the message is not deleted and
\* becomes visible again when its visibility timeout expires.
Redeliver(q, j) == IF j.held THEN Put(q, j.msg) ELSE q
Return(j) == jobs' = jobs \ {j} /\ queue' = Redeliver(queue, j)

\* _process_message of a timer that is not due: a fresh message replaces it, by
\* a send and then a delete (Delete below).
Reschedule(j) ==
    /\ j.step = "received"
    /\ ~j.msg.due
    /\ queue' = Put(queue, [j.msg EXCEPT !.due = TRUE, !.recv = 0])
    /\ Advance(j, "handled")
    /\ UNCHANGED <<sheet, pc, trigger, alertVars, reviews, lost, faults>>

\* resume_alert up to its Bullhorn read.  A missing or resolved alert needs
\* nothing; a Bullhorn error is returned as a status, so the message is deleted.
ResumeRead(j) ==
    /\ j.step = "received"
    /\ j.msg.due
    /\ \/ /\ state[j.msg.alert] \in {"none", "resolved"}
          /\ Advance(j, "handled")
          /\ UNCHANGED <<lost, faults>>
       \/ /\ state[j.msg.alert] \notin {"none", "resolved"}
          /\ Fault("bullhorn")
          /\ Advance(j, "handled")
          /\ Lose(j.msg.alert, "bullhorn_error")
       \/ /\ state[j.msg.alert] \notin {"none", "resolved"}
          /\ jobs' = (jobs \ {j}) \cup
                {[j EXCEPT !.step = "resuming", !.seen = state[j.msg.alert],
                           !.found = SheetPresent(SlotOf[j.msg.alert])]}
          /\ UNCHANGED <<lost, faults>>
    /\ UNCHANGED <<sheet, pc, trigger, alertVars, queue, reviews>>

\* The timesheet had arrived: close the alert.
ResumeClose(j) ==
    /\ j.step = "resuming"
    /\ j.found
    /\ Record(j.msg.alert, "closed")
    /\ Transition(j.msg.alert, j.seen, "resolved", "employee_corrected")
    /\ Advance(j, "handled")
    /\ UNCHANGED <<sheet, pc, trigger, queue, reviews, lost, faults>>

\* Mutant: the timer would be sent only after the event is written.
SentLast(q) == queue

\* What was sent stays sent when the transaction rolls back.
AfterRollback(q) == q

\* First reminder: the escalation timer goes out first, then the event is
\* written.  If the table rejects the event the transaction rolls back, but the
\* timer stays on the queue and the message comes back.
ResumeRemind(j) ==
    /\ j.step = "resuming"
    /\ ~j.found
    /\ j.msg.reason = "first_reminder"
    /\ \E sent \in TimerOutcomes :
        LET a == j.msg.alert
            q == IF sent THEN Put(queue, Timer(a, "escalate")) ELSE queue
        IN  IF EventCheck("first_reminder_sent", "agent")
            THEN /\ Record(a, "first_reminder_sent")
                 /\ queue' = q
                 /\ Advance(j, "handled")
                 /\ IF sent THEN UNCHANGED lost ELSE Lose(a, "timer_not_sent")
            ELSE /\ queue' = Redeliver(AfterRollback(q), j)
                 /\ jobs' = jobs \ {j}
                 /\ UNCHANGED <<log, lost>>
    /\ UNCHANGED <<sheet, pc, trigger, state, resolution, reviews, faults>>

\* Escalation.  If a reviewer resolved the alert since it was read, the CHECK
\* rejects the UPDATE; an alert read as escalated has no state column to write.
ResumeEscalate(j) ==
    /\ j.step = "resuming"
    /\ ~j.found
    /\ j.msg.reason = "escalate"
    /\ IF TransitionAllowed(j.msg.alert, j.seen, "escalated_hitl", "none")
       THEN /\ Record(j.msg.alert, "hitl_assigned")
            /\ Transition(j.msg.alert, j.seen, "escalated_hitl", "none")
            /\ Advance(j, "handled")
            /\ UNCHANGED queue
       ELSE /\ Return(j)
            /\ UNCHANGED alertVars
    /\ UNCHANGED <<sheet, pc, trigger, reviews, lost, faults>>

\* delete_message after a handled message; it may fail, and is only logged.
Delete(j) ==
    /\ j.step = "handled"
    /\ \/ jobs' = jobs \ {j} /\ UNCHANGED <<queue, faults>>
       \/ Fault("delete") /\ Return(j)
    /\ UNCHANGED <<sheet, pc, trigger, alertVars, reviews, lost>>

\* The visibility timeout (120 s) expires while the worker still has the message.
VisibilityExpires(j) ==
    /\ j.held
    /\ Fault("visibility")
    /\ queue' = Put(queue, j.msg)
    /\ jobs' = (jobs \ {j}) \cup {[j EXCEPT !.held = FALSE]}
    /\ UNCHANGED <<sheet, pc, trigger, alertVars, reviews, lost>>

\* The worker task is killed: an open transaction rolls back.
WorkerCrash(j) ==
    /\ Fault("worker_crash")
    /\ Return(j)
    /\ UNCHANGED <<sheet, pc, trigger, alertVars, reviews, lost>>

-----------------------------------------------------------------------------
(* The reviewer (POST /alerts/{id}/resolve, without a Bullhorn action: module *)
(* AlertReview has those) and the employee.                                   *)

ResolveRead(h, r, res) ==
    /\ \A v \in reviews : v.by # h
    /\ state[r] \notin {"none", "resolved"}
    /\ reviews' = reviews \cup {[by |-> h, alert |-> r, seen |-> state[r],
                                resolution |-> res]}
    /\ UNCHANGED <<sheet, pc, trigger, alertVars, queue, jobs, lost, faults>>

ResolveCommit(v) ==
    /\ reviews' = reviews \ {v}
    /\ IF /\ EventCheck("resolved", "human")
          /\ TransitionAllowed(v.alert, v.seen, "resolved", v.resolution)
       THEN /\ Record(v.alert, "resolved")
            /\ Transition(v.alert, v.seen, "resolved", v.resolution)
       ELSE UNCHANGED alertVars
    /\ UNCHANGED <<sheet, pc, trigger, queue, jobs, lost, faults>>

\* The employee submits a missing timesheet, or corrects an anomalous one.
SubmitSheet(s) ==
    /\ sheet[s] # "fine"
    /\ \/ sheet' = [sheet EXCEPT ![s] = "fine"]
       \/ sheet[s] = "missing" /\ sheet' = [sheet EXCEPT ![s] = "anomalous"]
    /\ UNCHANGED <<pc, trigger, alertVars, queue, jobs, reviews, lost, faults>>

-----------------------------------------------------------------------------
RunStep(r) ==
    \/ DetectRead(r) \/ DetectInsert(r)
    \/ OutreachUnrendered(r) \/ OutreachWithoutSid(r)
    \/ OutreachSend(r) \/ OutreachRejected(r) \/ OutreachUnsent(r)
    \/ WaitRecheck(r) \/ EscalateHitl(r)

Handle(j) ==
    \/ Reschedule(j) \/ ResumeRead(j)
    \/ ResumeClose(j) \/ ResumeRemind(j) \/ ResumeEscalate(j)
    \/ Delete(j)

WorkerStep ==
    \/ \E w \in Workers, m \in Message : Receive(w, m)
    \/ \E j \in jobs : Handle(j)

Next ==
    \/ \E r \in Runs : RunStep(r) \/ GraphCrash(r)
    \/ WorkerStep
    \/ \E m \in Message : DeadLetter(m)
    \/ \E j \in jobs : VisibilityExpires(j) \/ WorkerCrash(j)
    \/ \E h \in Reviewers, r \in Runs, res \in HumanResolutions : ResolveRead(h, r, res)
    \/ \E v \in reviews : ResolveCommit(v)
    \/ \E s \in Slots : SubmitSheet(s)

Spec == Init /\ [][Next]_vars

\* A started graph run keeps executing its nodes and the worker service keeps
\* polling (ECS restarts it); employees and reviewers owe nothing.
FairSpec ==
    /\ Spec
    /\ \A r \in Runs : WF_vars(RunStep(r))
    /\ WF_vars(WorkerStep)

-----------------------------------------------------------------------------
(* Properties.                                                               *)

Contract == INSTANCE AlertContract WITH Alerts <- Runs, stage <- state

\* Refinement: seen through agent_alerts.state, nodes, worker and reviewers
\* together only raise an alert once and move it forward; a stale commit (a
\* worker or node that read the row before a reviewer resolved it) cannot
\* reopen it.
ImplementsContract == Contract!Spec

\* A timer of alert r that will still be acted on: on the queue, or with a worker
\* that has not finished with it and from whom it returns if it fails.
TimerPending(r) ==
    \/ \E m \in Message : m.alert = r /\ queue[m] > 0
    \/ \E j \in jobs : j.msg.alert = r /\ j.held /\ j.step \in {"received", "resuming"}

\* No alert is forgotten while it waits for the employee: one in outreach_sent has
\* a timer pending or its graph run about to recheck it, unless its timer went in
\* one of the four ways `lost` names (a Bullhorn error in resume_alert, a timer
\* that could not be sent, the DLQ, a crash of the graph process).
NoOrphan ==
    \A r \in Runs :
        state[r] = "outreach_sent" =>
            \/ pc[r] \in {"wait_recheck", "escalate_hitl"}
            \/ TimerPending(r)
            \/ \E l \in lost : l.alert = r

\* The append-only event log and the alert row tell the same story: an alert is
\* resolved exactly when a `closed` or `resolved` event says so, and an escalated
\* one carries the hitl_assigned event the queue shows, or its run is about to
\* append it (or was killed there).
EventsMatchState ==
    \A r \in Runs :
        /\ state[r] = "resolved" <=> log[r]["closed"] + log[r]["resolved"] > 0
        /\ state[r] = "escalated_hitl" =>
              log[r]["hitl_assigned"] > 0 \/ pc[r] \in {"escalate_hitl", "crashed"}

\* The agent closes an alert only if a timesheet was there, however long ago the
\* worker read it: what it acted on still holds when it commits.
ClosedAfterSubmission ==
    \A r \in Runs : log[r]["closed"] > 0 => sheet[SlotOf[r]] # "missing"

\* The SLA: an alert the employee was contacted about is eventually closed or put
\* before a human.
SlaHonoured ==
    \A r \in Runs :
        state[r] = "outreach_sent" ~> state[r] \in {"escalated_hitl", "resolved"}

\* The graph's documented shape (graph.py: detect, outreach, wait_recheck, then close or
\* escalate_hitl): an alert that was detected does not stay so.  False of the graph as
\* written, whose routing key is not in its state.
DetectedIsHandled ==
    \A r \in Runs :
        state[r] = "detected" ~>
            state[r] \in {"outreach_sent", "escalated_hitl", "resolved"}
=============================================================================
