------------------------- MODULE TimeAnomaly_proofs -------------------------
(***************************************************************************)
(* The Time Anomaly agent, for any number of runs, slots, workers, reviewers *)
(* and failures: its types, and the life of an alert.  Handlers decide on    *)
(* rows they do not lock; what saves the alert from a stale commit is the    *)
(* pair of CHECKs on the row and transition_state's writing only the columns *)
(* that changed.                                                             *)
(***************************************************************************)
EXTENDS TimeAnomaly, TLAPS

-----------------------------------------------------------------------------
(* The types.                                                                *)

(* Putting a message on the queue, or taking a visible one off, leaves a     *)
(* function from messages to naturals.                                       *)
LEMMA PutType ==
    ASSUME NEW q \in [Message -> Nat], NEW m \in Message
    PROVE  Put(q, m) \in [Message -> Nat]
  BY DEF Put

LEMMA TakeType ==
    ASSUME NEW q \in [Message -> Nat], NEW m \in Message, q[m] > 0
    PROVE  Take(q, m) \in [Message -> Nat]
  BY DEF Take

LEMMA TimerType ==
    ASSUME NEW r \in Runs, NEW reason \in Reasons
    PROVE  Timer(r, reason) \in Message
  BY ConstantsAssumption DEF Timer, Message

(* One more event in the log of an alert leaves the log well typed.          *)
LEMMA RecordType ==
    ASSUME TypeOK, NEW r \in Runs, NEW type \in EventTypes, Record(r, type)
    PROVE  log' \in [Runs -> [EventTypes -> Nat]]
  BY DEF Record, TypeOK

(* transition_state writes a state and a resolution the CHECKs allow.        *)
LEMMA TransitionType ==
    ASSUME TypeOK, NEW r \in Runs, NEW seen, NEW new \in AlertStates, NEW res,
           Transition(r, seen, new, res)
    PROVE  /\ state' \in [Runs -> AlertStates \cup {"none"}]
           /\ resolution' \in [Runs -> Resolutions \cup {"none"}]
  <1>1. NewState(r, seen, new) \in AlertStates \cup {"none"}
    BY DEF NewState, TypeOK
  <1>2. NewResolution(r, res) \in Resolutions \cup {"none"}
    BY DEF Transition, TransitionAllowed, RowCheck
  <1> QED
    BY <1>1, <1>2 DEF Transition, TypeOK

(* A message a worker gives back is a message.                               *)
LEMMA RedeliverType ==
    ASSUME NEW q \in [Message -> Nat], NEW j \in Job
    PROVE  Redeliver(q, j) \in [Message -> Nat]
  <1>1. j.msg \in Message
    BY DEF Job
  <1> QED
    BY <1>1, PutType DEF Redeliver

(* Injecting a fault stays within the budget.                                *)
LEMMA FaultType ==
    ASSUME TypeOK, NEW kind, Fault(kind)
    PROVE  faults' \in 0..MaxFaults
  BY ConstantsAssumption DEF Fault, TypeOK

(* What the worker's handlers make of a message or of a job is again one.    *)
LEMMA ReceivedType ==
    ASSUME NEW m \in Message, NEW w \in Workers
    PROVE  [worker |-> w, msg |-> m, step |-> "received", held |-> TRUE,
            seen |-> "none", found |-> FALSE] \in Job
  BY DEF Job

LEMMA AdvanceType ==
    ASSUME TypeOK, NEW j \in jobs, Advance(j, "handled")
    PROVE  jobs' \subseteq Job
  <1>1. j \in Job
    BY DEF TypeOK
  <1>2. [j EXCEPT !.step = "handled"] \in Job
    BY <1>1 DEF Job
  <1> QED
    BY <1>2 DEF Advance, TypeOK

LEMMA ResumingType ==
    ASSUME NEW j \in Job, NEW s \in AlertStates \cup {"none"}, NEW b \in BOOLEAN
    PROVE  [j EXCEPT !.step = "resuming", !.seen = s, !.found = b] \in Job
  BY DEF Job

LEMMA ReplacementType ==
    ASSUME NEW m \in Message
    PROVE  [m EXCEPT !.due = TRUE, !.recv = 0] \in Message
  <1>1. 0 \in 0..MaxReceives
    BY ConstantsAssumption
  <1> QED
    BY <1>1, Zenon DEF Message

(* Every reachable state is well typed.                                      *)
THEOREM TypeCorrect == Spec => []TypeOK
  <1>1. Init => TypeOK
    BY ConstantsAssumption
       DEF Init, TypeOK, Sheets, EventTypes, Message
  <1>2. TypeOK /\ [Next]_vars => TypeOK'
    <2> SUFFICES ASSUME TypeOK, [Next]_vars PROVE TypeOK'
      OBVIOUS
    <2> USE ConstantsAssumption
    <2>0. \A r \in Runs : SlotOf[r] \in Slots
      OBVIOUS
    <2>1. ASSUME NEW r \in Runs, DetectRead(r) PROVE TypeOK'
      <3>1. faults' \in 0..MaxFaults
        BY <2>1, FaultType DEF DetectRead, TypeOK
      <3>2. trigger' \in [Runs -> {"none", "missing", "anomalous"}]
        BY <2>1, <2>0 DEF DetectRead, TypeOK, Sheets
      <3> QED
        BY <2>1, <3>1, <3>2 DEF DetectRead, TypeOK, alertVars, Goto
    <2>2. ASSUME NEW r \in Runs, DetectInsert(r) PROVE TypeOK'
      <3>1. log' \in [Runs -> [EventTypes -> Nat]]
        BY <2>2, RecordType DEF DetectInsert, EventTypes
      <3> QED
        BY <2>2, <3>1 DEF DetectInsert, TypeOK, Goto, AlertStates
    <2>3. ASSUME NEW r \in Runs, OutreachUnrendered(r) PROVE TypeOK'
      <3>1. log' \in [Runs -> [EventTypes -> Nat]]
        BY <2>3, RecordType DEF OutreachUnrendered, EventTypes
      <3>f. faults' \in 0..MaxFaults
        BY <2>3, FaultType DEF OutreachUnrendered, TypeOK
      <3> QED
        BY <2>3, <3>1, <3>f DEF OutreachUnrendered, TypeOK, Goto
    <2>4. ASSUME NEW r \in Runs, OutreachWithoutSid(r) PROVE TypeOK'
      <3>1. CASE TransitionAllowed(r, state[r], "escalated_hitl", "none")
        <4>1. log' \in [Runs -> [EventTypes -> Nat]]
          BY <2>4, <3>1, RecordType DEF OutreachWithoutSid, EventTypes
        <4>2. /\ state' \in [Runs -> AlertStates \cup {"none"}]
              /\ resolution' \in [Runs -> Resolutions \cup {"none"}]
          BY <2>4, <3>1, TransitionType DEF OutreachWithoutSid, AlertStates
        <4> QED
          BY <2>4, <3>1, <4>1, <4>2 DEF OutreachWithoutSid, TypeOK, Goto
      <3>2. CASE ~TransitionAllowed(r, state[r], "escalated_hitl", "none")
        BY <2>4, <3>2 DEF OutreachWithoutSid, TypeOK, Goto, alertVars
      <3> QED
        BY <3>1, <3>2
    <2>5. ASSUME NEW r \in Runs, OutreachSend(r) PROVE TypeOK'
      <3>1. log' \in [Runs -> [EventTypes -> Nat]]
        BY <2>5, RecordType DEF OutreachSend, EventTypes
      <3>2. /\ state' \in [Runs -> AlertStates \cup {"none"}]
            /\ resolution' \in [Runs -> Resolutions \cup {"none"}]
        BY <2>5, TransitionType DEF OutreachSend, AlertStates
      <3>3. queue' \in [Message -> Nat]
        BY <2>5, PutType, TimerType DEF OutreachSend, TypeOK, Reasons
      <3>f. faults' \in 0..MaxFaults
        BY <2>5, FaultType DEF OutreachSend, TypeOK
      <3> QED
        BY <2>5, <3>1, <3>2, <3>3, <3>f DEF OutreachSend, TypeOK, Goto
    <2>6. ASSUME NEW r \in Runs, OutreachRejected(r) PROVE TypeOK'
      BY <2>6 DEF OutreachRejected, TypeOK, Goto, alertVars
    <2>7. ASSUME NEW r \in Runs, WaitRecheck(r) PROVE TypeOK'
      <3>1. log' \in [Runs -> [EventTypes -> Nat]]
        BY <2>7, RecordType DEF WaitRecheck, EventTypes, alertVars, TypeOK
      <3>2. /\ state' \in [Runs -> AlertStates \cup {"none"}]
            /\ resolution' \in [Runs -> Resolutions \cup {"none"}]
        BY <2>7, TransitionType DEF WaitRecheck, AlertStates, alertVars, TypeOK
      <3>f. faults' \in 0..MaxFaults
        BY <2>7, FaultType DEF WaitRecheck, TypeOK
      <3> QED
        BY <2>7, <3>1, <3>2, <3>f DEF WaitRecheck, TypeOK, Goto
    <2>8. ASSUME NEW r \in Runs, EscalateHitl(r) PROVE TypeOK'
      <3>1. log' \in [Runs -> [EventTypes -> Nat]]
        BY <2>8, RecordType DEF EscalateHitl, EventTypes, alertVars, TypeOK
      <3>2. /\ state' \in [Runs -> AlertStates \cup {"none"}]
            /\ resolution' \in [Runs -> Resolutions \cup {"none"}]
        BY <2>8, TransitionType DEF EscalateHitl, AlertStates, alertVars, TypeOK
      <3> QED
        BY <2>8, <3>1, <3>2 DEF EscalateHitl, TypeOK, Goto
    <2>9. ASSUME NEW r \in Runs, GraphCrash(r) PROVE TypeOK'
      <3>1. queue' \in [Message -> Nat]
        BY <2>9, PutType, TimerType DEF GraphCrash, TypeOK, Reasons
      <3>2. lost' \subseteq [alert : Runs, cause : LossCauses]
        BY <2>9 DEF GraphCrash, TypeOK, Lose, LossCauses
      <3>f. faults' \in 0..MaxFaults
        BY <2>9, FaultType DEF GraphCrash, TypeOK
      <3> QED
        BY <2>9, <3>1, <3>2, <3>f DEF GraphCrash, TypeOK, Goto, alertVars
    <2>10. ASSUME NEW w \in Workers, NEW m \in Message, Receive(w, m) PROVE TypeOK'
      <3>1. [m EXCEPT !.recv = @ + 1] \in Message
        BY <2>10 DEF Receive, Message
      <3>2. jobs' \subseteq Job
        BY <2>10, <3>1, ReceivedType DEF Receive, TypeOK
      <3>3. queue' \in [Message -> Nat]
        BY <2>10, TakeType DEF Receive, TypeOK
      <3> QED
        BY <2>10, <3>2, <3>3 DEF Receive, TypeOK, alertVars
    <2>11. ASSUME NEW m \in Message, DeadLetter(m) PROVE TypeOK'
      <3>1. queue' \in [Message -> Nat]
        BY <2>11, TakeType DEF DeadLetter, TypeOK
      <3>2. lost' \subseteq [alert : Runs, cause : LossCauses]
        BY <2>11 DEF DeadLetter, TypeOK, Lose, LossCauses, Message
      <3> QED
        BY <2>11, <3>1, <3>2 DEF DeadLetter, TypeOK, alertVars
    <2>12. ASSUME NEW j \in jobs, Reschedule(j) PROVE TypeOK'
      <3>1. j \in Job
        BY DEF TypeOK
      <3>2. [j.msg EXCEPT !.due = TRUE, !.recv = 0] \in Message
        BY <3>1, ReplacementType DEF Job
      <3>3. queue' \in [Message -> Nat]
        BY <2>12, <3>2, PutType DEF Reschedule, TypeOK
      <3>4. jobs' \subseteq Job
        BY <2>12, AdvanceType DEF Reschedule
      <3> QED
        BY <2>12, <3>3, <3>4 DEF Reschedule, TypeOK, alertVars
    <2>13. ASSUME NEW j \in jobs, ResumeRead(j) PROVE TypeOK'
      <3>1. j \in Job /\ j.msg \in Message /\ j.msg.alert \in Runs
        BY DEF TypeOK, Job, Message
      <3>2. state[j.msg.alert] \in AlertStates \cup {"none"}
        BY <3>1 DEF TypeOK
      <3>3. jobs' \subseteq Job
        <4>1. SheetPresent(SlotOf[j.msg.alert]) \in BOOLEAN
          BY DEF SheetPresent
        <4>2. CASE Advance(j, "handled")
          BY <4>2, AdvanceType
        <4>3. CASE jobs' = (jobs \ {j}) \cup
                {[j EXCEPT !.step = "resuming", !.seen = state[j.msg.alert],
                           !.found = SheetPresent(SlotOf[j.msg.alert])]}
          <5>1. [j EXCEPT !.step = "resuming", !.seen = state[j.msg.alert],
                          !.found = SheetPresent(SlotOf[j.msg.alert])] \in Job
            BY <4>1, <3>1, <3>2, ResumingType
          <5> QED
            BY <4>3, <5>1 DEF TypeOK
        <4> QED
          BY <2>13, <4>2, <4>3 DEF ResumeRead
      <3>4. lost' \subseteq [alert : Runs, cause : LossCauses]
        BY <2>13, <3>1 DEF ResumeRead, TypeOK, Lose, LossCauses
      <3>f. faults' \in 0..MaxFaults
        BY <2>13, FaultType DEF ResumeRead, TypeOK
      <3> QED
        BY <2>13, <3>3, <3>4, <3>f DEF ResumeRead, TypeOK, alertVars
    <2>14. ASSUME NEW j \in jobs, ResumeClose(j) PROVE TypeOK'
      <3>1. j \in Job /\ j.msg.alert \in Runs
        BY DEF TypeOK, Job, Message
      <3>2. log' \in [Runs -> [EventTypes -> Nat]]
        BY <2>14, <3>1, RecordType DEF ResumeClose, EventTypes
      <3>3. /\ state' \in [Runs -> AlertStates \cup {"none"}]
            /\ resolution' \in [Runs -> Resolutions \cup {"none"}]
        BY <2>14, <3>1, TransitionType DEF ResumeClose, AlertStates
      <3>4. jobs' \subseteq Job
        BY <2>14, AdvanceType DEF ResumeClose
      <3> QED
        BY <2>14, <3>2, <3>3, <3>4 DEF ResumeClose, TypeOK
    <2>15. ASSUME NEW j \in jobs, ResumeRemind(j) PROVE TypeOK'
      <3>1. j \in Job /\ j.msg \in Message /\ j.msg.alert \in Runs
        BY DEF TypeOK, Job, Message
      <3> PICK sent \in TimerOutcomes :
            LET a == j.msg.alert
                q == IF sent THEN Put(queue, Timer(a, "escalate")) ELSE queue
            IN  IF EventCheck("first_reminder_sent", "agent")
                THEN /\ Record(a, "first_reminder_sent")
                     /\ queue' = q
                     /\ Advance(j, "handled")
                     /\ IF sent THEN UNCHANGED lost ELSE Lose(a, "timer_not_sent")
                ELSE /\ queue' = Redeliver(AfterRollback(q), j)
                     /\ jobs' = jobs \ {j}
                     /\ UNCHANGED <<log, lost>>
        BY <2>15 DEF ResumeRemind
      <3> DEFINE q == IF sent THEN Put(queue, Timer(j.msg.alert, "escalate")) ELSE queue
      <3>2. q \in [Message -> Nat]
        BY <3>1, PutType, TimerType DEF TypeOK, Reasons
      <3>3. queue' \in [Message -> Nat]
        BY <3>1, <3>2, RedeliverType DEF AfterRollback
      <3>4. log' \in [Runs -> [EventTypes -> Nat]]
        BY <3>1, RecordType DEF EventTypes, TypeOK
      <3>5. jobs' \subseteq Job
        BY AdvanceType DEF TypeOK
      <3>6. lost' \subseteq [alert : Runs, cause : LossCauses]
        BY <3>1 DEF TypeOK, Lose, LossCauses
      <3> QED
        BY <2>15, <3>3, <3>4, <3>5, <3>6 DEF ResumeRemind, TypeOK
    <2>16. ASSUME NEW j \in jobs, ResumeEscalate(j) PROVE TypeOK'
      <3>1. j \in Job /\ j.msg.alert \in Runs
        BY DEF TypeOK, Job, Message
      <3>2. log' \in [Runs -> [EventTypes -> Nat]]
        BY <2>16, <3>1, RecordType DEF ResumeEscalate, EventTypes, alertVars, TypeOK
      <3>3. /\ state' \in [Runs -> AlertStates \cup {"none"}]
            /\ resolution' \in [Runs -> Resolutions \cup {"none"}]
        BY <2>16, <3>1, TransitionType DEF ResumeEscalate, AlertStates, alertVars, TypeOK
      <3>4. jobs' \subseteq Job /\ queue' \in [Message -> Nat]
        BY <2>16, <3>1, AdvanceType, RedeliverType DEF ResumeEscalate, Return, TypeOK
      <3> QED
        BY <2>16, <3>2, <3>3, <3>4 DEF ResumeEscalate, TypeOK
    <2>17. ASSUME NEW j \in jobs, Delete(j) PROVE TypeOK'
      <3>1. queue' \in [Message -> Nat]
        BY <2>17, RedeliverType DEF Delete, Return, TypeOK
      <3>f. faults' \in 0..MaxFaults
        BY <2>17, FaultType DEF Delete, TypeOK
      <3> QED
        BY <2>17, <3>1, <3>f DEF Delete, Return, TypeOK, alertVars
    <2>18. ASSUME NEW j \in jobs, VisibilityExpires(j) PROVE TypeOK'
      <3>1. j \in Job /\ j.msg \in Message
        BY DEF TypeOK, Job
      <3>2. queue' \in [Message -> Nat]
        BY <2>18, <3>1, PutType DEF VisibilityExpires, TypeOK
      <3>3. jobs' \subseteq Job
        BY <2>18, <3>1 DEF VisibilityExpires, TypeOK, Job
      <3>f. faults' \in 0..MaxFaults
        BY <2>18, FaultType DEF VisibilityExpires, TypeOK
      <3> QED
        BY <2>18, <3>2, <3>3, <3>f DEF VisibilityExpires, TypeOK, alertVars
    <2>19. ASSUME NEW j \in jobs, WorkerCrash(j) PROVE TypeOK'
      <3>1. queue' \in [Message -> Nat]
        BY <2>19, RedeliverType DEF WorkerCrash, Return, TypeOK
      <3>f. faults' \in 0..MaxFaults
        BY <2>19, FaultType DEF WorkerCrash, TypeOK
      <3> QED
        BY <2>19, <3>1, <3>f DEF WorkerCrash, Return, TypeOK, alertVars
    <2>20. ASSUME NEW h \in Reviewers, NEW r \in Runs, NEW res \in HumanResolutions,
                  ResolveRead(h, r, res)
           PROVE TypeOK'
      BY <2>20 DEF ResolveRead, TypeOK, Review, alertVars
    <2>21. ASSUME NEW v \in reviews, ResolveCommit(v) PROVE TypeOK'
      <3>1. v.alert \in Runs
        BY DEF TypeOK, Review
      <3>2. log' \in [Runs -> [EventTypes -> Nat]]
        BY <2>21, <3>1, RecordType DEF ResolveCommit, EventTypes, alertVars, TypeOK
      <3>3. /\ state' \in [Runs -> AlertStates \cup {"none"}]
            /\ resolution' \in [Runs -> Resolutions \cup {"none"}]
        BY <2>21, <3>1, TransitionType DEF ResolveCommit, AlertStates, alertVars, TypeOK
      <3> QED
        BY <2>21, <3>2, <3>3 DEF ResolveCommit, TypeOK
    <2>22. ASSUME NEW s \in Slots, SubmitSheet(s) PROVE TypeOK'
      BY <2>22 DEF SubmitSheet, TypeOK, Sheets, alertVars
    <2>23. CASE UNCHANGED vars
      BY <2>23 DEF vars, alertVars, TypeOK
    <2>24. ASSUME NEW r \in Runs, OutreachUnsent(r) PROVE TypeOK'
      <3>1. faults' \in 0..MaxFaults
        BY <2>24, FaultType DEF OutreachUnsent, TypeOK
      <3> QED
        BY <2>24, <3>1 DEF OutreachUnsent, TypeOK, Goto, alertVars
    <2> QED
      BY <2>1, <2>2, <2>3, <2>4, <2>5, <2>6, <2>7, <2>8, <2>9, <2>10, <2>11, <2>12,
         <2>13, <2>14, <2>15, <2>16, <2>17, <2>18, <2>19, <2>20, <2>21, <2>22, <2>23,
         <2>24
         DEF Next, RunStep, WorkerStep, Handle
  <1> QED
    BY <1>1, <1>2, PTL DEF Spec

-----------------------------------------------------------------------------
(* The life of an alert.                                                     *)

\* A run at one of these nodes has sent no timer yet.
BeforeTimer == {"detect", "insert", "outreach"}

RowInv == \A r \in Runs : RowCheck(state[r], resolution[r])

\* What the state s of an alert can be when its run is about to execute node n: only a
\* reviewer can have changed it before outreach_node commits.
PcAt(n, s) ==
    /\ n \in {"detect", "insert"} => s = "none"
    /\ n = "outreach" => s \in {"detected", "resolved"}
    /\ n \in {"wait_recheck", "escalate_hitl"} => s # "none"

PcInv == \A r \in Runs : PcAt(pc[r], state[r])

TimerInv ==
    /\ \A m \in Message : queue[m] > 0 => pc[m.alert] \notin BeforeTimer
    /\ \A j \in jobs : pc[j.msg.alert] \notin BeforeTimer

\* What a worker or a reviewer has read was an open alert, which still exists.
ReadInv ==
    /\ \A j \in jobs : j.step = "resuming" =>
          j.seen \notin {"none", "resolved"} /\ state[j.msg.alert] # "none"
    /\ \A v \in reviews : v.seen # "resolved" /\ state[v.alert] # "none"

LifeInv == RowInv /\ PcInv /\ TimerInv /\ ReadInv /\ EventsMatchState

\* EventsMatchState of one alert in state s with log l, its run at node n.
EventsAt(s, l, n) ==
    /\ s = "resolved" <=> l["closed"] + l["resolved"] > 0
    /\ s = "escalated_hitl" => l["hitl_assigned"] > 0 \/ n \in {"escalate_hitl", "crashed"}

\* The moves of AlertContract, and standing still.
Moves(s, t) ==
    \/ s = t
    \/ s = "none" /\ t = "detected"
    \/ s = "detected" /\ t \in {"outreach_sent", "escalated_hitl", "resolved"}
    \/ s = "outreach_sent" /\ t \in {"escalated_hitl", "resolved"}
    \/ s = "escalated_hitl" /\ t = "resolved"

AlertStep == RowInv' /\ PcInv' /\ EventsMatchState' /\ [Contract!Next]_state

\* A step that changes at most one alert, and that one lawfully, is a step of the
\* contract and keeps rows and logs in order.
LEMMA OneAlert ==
    ASSUME TypeOK, TypeOK', LifeInv, NEW r \in Runs,
           \A q \in Runs \ {r} : /\ state'[q] = state[q] /\ resolution'[q] = resolution[q]
                                /\ log'[q] = log[q] /\ pc'[q] = pc[q],
           Moves(state[r], state'[r]), RowCheck(state'[r], resolution'[r]),
           PcAt(pc'[r], state'[r]), EventsAt(state'[r], log'[r], pc'[r])
    PROVE  AlertStep
  <1>1. RowInv' /\ PcInv'
    BY DEF LifeInv, RowInv, PcInv
  <1>2. EventsMatchState'
    BY DEF LifeInv, EventsMatchState, EventsAt
  <1>3. state' = [state EXCEPT ![r] = state'[r]]
    BY DEF TypeOK
  <1>4. [Contract!Next]_state
    <2>1. CASE state'[r] = state[r]
      BY <1>3, <2>1 DEF TypeOK
    <2>2. CASE state[r] = "none" /\ state'[r] = "detected"
      BY <1>3, <2>2 DEF Contract!Next, Contract!Raise
    <2>3. CASE state[r] = "detected" /\ state'[r] = "outreach_sent"
      BY <1>3, <2>3 DEF Contract!Next, Contract!Contact
    <2>4. CASE state[r] \in {"detected", "outreach_sent"} /\ state'[r] = "escalated_hitl"
      BY <1>3, <2>4 DEF Contract!Next, Contract!Escalate
    <2>5. CASE /\ state[r] \in {"detected", "outreach_sent", "escalated_hitl"}
               /\ state'[r] = "resolved"
      BY <1>3, <2>5 DEF Contract!Next, Contract!Close
    <2> QED
      BY <2>1, <2>2, <2>3, <2>4, <2>5 DEF Moves
  <1> QED
    BY <1>1, <1>2, <1>4 DEF AlertStep

\* One that changes no alert does not matter to them.
LEMMA NoAlert ==
    ASSUME LifeInv, UNCHANGED <<state, resolution, log, pc>>
    PROVE  AlertStep
  BY DEF LifeInv, RowInv, PcInv, EventsMatchState, AlertStep

\* transition_state to a state that closes or escalates moves an existing alert forward
\* or leaves it, and its row passes the CHECKs, whatever the session had read.
LEMMA CloseEffect ==
    ASSUME TypeOK, RowInv, NEW r \in Runs, state[r] # "none", NEW seen, NEW res,
           seen # "resolved" \/ seen = state[r],
           Transition(r, seen, "resolved", res)
    PROVE  /\ state'[r] = "resolved" /\ Moves(state[r], state'[r])
           /\ RowCheck(state'[r], resolution'[r])
           /\ \A q \in Runs \ {r} : state'[q] = state[q] /\ resolution'[q] = resolution[q]
  <1>1. /\ state'[r] = NewState(r, seen, "resolved")
        /\ resolution'[r] = NewResolution(r, res)
        /\ RowCheck(state'[r], resolution'[r])
        /\ \A q \in Runs \ {r} : state'[q] = state[q] /\ resolution'[q] = resolution[q]
    BY DEF Transition, TransitionAllowed, TypeOK
  <1>2. state[r] \in AlertStates
    BY DEF TypeOK
  <1> QED
    BY <1>1, <1>2 DEF NewState, Moves, AlertStates

LEMMA EscalateEffect ==
    ASSUME TypeOK, RowInv, NEW r \in Runs, state[r] # "none", NEW seen,
           Transition(r, seen, "escalated_hitl", "none")
    PROVE  /\ Moves(state[r], state'[r]) /\ RowCheck(state'[r], resolution'[r])
           /\ state'[r] # "none"
           /\ state'[r] = "resolved" <=> state[r] = "resolved"
           /\ seen = state[r] \/ seen # "escalated_hitl" => state'[r] = "escalated_hitl"
           /\ state'[r] \in {state[r], "escalated_hitl"}
           /\ \A q \in Runs \ {r} : state'[q] = state[q] /\ resolution'[q] = resolution[q]
  <1>1. /\ state'[r] = NewState(r, seen, "escalated_hitl")
        /\ resolution'[r] = resolution[r]
        /\ RowCheck(state'[r], resolution'[r])
        /\ \A q \in Runs \ {r} : state'[q] = state[q] /\ resolution'[q] = resolution[q]
    BY DEF Transition, TransitionAllowed, NewResolution, TypeOK
  <1>2. state[r] \in AlertStates /\ RowCheck(state[r], resolution[r])
    BY DEF TypeOK, RowInv
  <1>3. state'[r] \in {state[r], "escalated_hitl"}
    BY <1>1 DEF NewState
  <1>4. state'[r] = "resolved" <=> state[r] = "resolved"
    BY <1>1, <1>2 DEF RowCheck
  <1>5. seen = state[r] \/ seen # "escalated_hitl" => state'[r] = "escalated_hitl"
    BY <1>1 DEF NewState
  <1> QED
    BY <1>1, <1>2, <1>3, <1>4, <1>5 DEF Moves, AlertStates

\* An event appended to the log of r.
LEMMA RecordEffect ==
    ASSUME TypeOK, NEW r \in Runs, NEW type \in EventTypes, Record(r, type)
    PROVE  /\ log'[r][type] = log[r][type] + 1
           /\ \A t \in EventTypes \ {type} : log'[r][t] = log[r][t]
           /\ \A q \in Runs \ {r} : log'[q] = log[q]
           /\ \A t \in EventTypes : log[r][t] \in Nat
  BY DEF Record, TypeOK

LEMMA GotoEffect ==
    ASSUME TypeOK, NEW r \in Runs, NEW n, Goto(r, n)
    PROVE  pc'[r] = n /\ \A q \in Runs \ {r} : pc'[q] = pc[q]
  BY DEF Goto, TypeOK

LEMMA PutEffect ==
    ASSUME NEW q \in [Message -> Nat], NEW m, NEW n \in Message, Put(q, m)[n] > 0
    PROVE  n = m \/ q[n] > 0
  BY DEF Put

LEMMA TakeEffect ==
    ASSUME NEW q \in [Message -> Nat], NEW m, NEW n \in Message, Take(q, m)[n] > 0
    PROVE  q[n] > 0
  BY DEF Take

\* The timers after a step that adds none for a run before its outreach, and takes no run
\* back there.
LEMMA TimersKept ==
    ASSUME LifeInv,
           \A r \in Runs : pc'[r] \in BeforeTimer => pc[r] \in BeforeTimer,
           \A m \in Message : queue'[m] > 0 => queue[m] > 0 \/ pc'[m.alert] \notin BeforeTimer,
           \A j \in jobs' : \/ pc'[j.msg.alert] \notin BeforeTimer
                           \/ \E k \in jobs : k.msg.alert = j.msg.alert,
           TypeOK, TypeOK'
    PROVE  TimerInv'
  <1>1. \A m \in Message : m.alert \in Runs
    BY DEF Message
  <1>2. \A j \in jobs' : j.msg.alert \in Runs
    BY <1>1 DEF TypeOK, Job
  <1> QED
    BY <1>1, <1>2 DEF LifeInv, TimerInv

\* What was read stays so as long as alerts are not removed.
LEMMA ReadsKept ==
    ASSUME LifeInv,
           \A r \in Runs : state[r] # "none" => state'[r] # "none",
           \A j \in jobs' : \/ j.step # "resuming"
                           \/ \E k \in jobs : /\ k.step = "resuming" /\ k.seen = j.seen
                                             /\ k.msg.alert = j.msg.alert,
           reviews' \subseteq reviews,
           TypeOK, TypeOK'
    PROVE  ReadInv'
  <1>1. \A j \in jobs' : j.msg.alert \in Runs
    BY DEF TypeOK, Job, Message
  <1>2. \A v \in reviews' : v.alert \in Runs
    BY DEF TypeOK, Review
  <1> QED
    BY <1>1, <1>2 DEF LifeInv, ReadInv

\* Contract moves never remove an alert.
LEMMA NotRemoved ==
    ASSUME TypeOK, TypeOK', LifeInv, NEW r \in Runs,
           \A q \in Runs \ {r} : state'[q] = state[q], Moves(state[r], state'[r])
    PROVE  \A q \in Runs : state[q] # "none" => state'[q] # "none"
  BY DEF Moves

-----------------------------------------------------------------------------
(* The nodes of the graph.                                                   *)

LEMMA DetectLife ==
    ASSUME TypeOK, TypeOK', LifeInv, NEW r \in Runs, DetectRead(r) \/ DetectInsert(r)
    PROVE  LifeInv' /\ [Contract!Next]_state
  <1> USE DEF alertVars
  <1>1. CASE DetectRead(r)
    <2>1. /\ pc[r] = "detect" /\ pc'[r] \in {"end", "insert"}
          /\ \A q \in Runs \ {r} : pc'[q] = pc[q]
          /\ UNCHANGED <<state, resolution, log, queue, jobs, reviews>>
      BY <1>1, GotoEffect DEF DetectRead
    <2>2. state[r] = "none"
      BY <2>1 DEF LifeInv, PcInv, PcAt
    <2>3. AlertStep
      <3>1. RowCheck(state[r], resolution[r])
        BY DEF LifeInv, RowInv
      <3>2. EventsAt(state'[r], log'[r], pc'[r])
        BY <2>1, <2>2 DEF LifeInv, EventsMatchState, EventsAt
      <3>3. Moves(state[r], state'[r]) /\ PcAt(pc'[r], state'[r])
        BY <2>1, <2>2 DEF Moves, PcAt
      <3> QED
        BY <2>1, <3>1, <3>2, <3>3, OneAlert
    <2>4. TimerInv'
      BY <2>1, TimersKept DEF BeforeTimer
    <2>5. ReadInv'
      BY <2>1, ReadsKept
    <2> QED
      BY <2>3, <2>4, <2>5 DEF AlertStep, LifeInv
  <1>2. CASE DetectInsert(r)
    <2>1. /\ pc[r] = "insert" /\ pc'[r] \in {"outreach", "end"}
          /\ \A q \in Runs \ {r} : pc'[q] = pc[q]
          /\ UNCHANGED <<resolution, queue, jobs, reviews>>
      BY <1>2, GotoEffect DEF DetectInsert
    <2>2. state[r] = "none" /\ resolution[r] = "none"
      BY <2>1 DEF LifeInv, PcInv, PcAt, RowInv, RowCheck, TypeOK, Resolutions
    <2>3. state'[r] = "detected" /\ \A q \in Runs \ {r} : state'[q] = state[q]
      BY <1>2 DEF DetectInsert, TypeOK
    <2>4. /\ log'[r]["closed"] = log[r]["closed"] /\ log'[r]["resolved"] = log[r]["resolved"]
          /\ \A q \in Runs \ {r} : log'[q] = log[q]
      BY <1>2, RecordEffect DEF DetectInsert, EventTypes
    <2>5. AlertStep
      <3>1. RowCheck(state'[r], resolution'[r])
        BY <2>1, <2>2, <2>3 DEF RowCheck
      <3>2. EventsAt(state'[r], log'[r], pc'[r])
        BY <2>2, <2>3, <2>4 DEF LifeInv, EventsMatchState, EventsAt
      <3>3. Moves(state[r], state'[r]) /\ PcAt(pc'[r], state'[r])
        BY <2>1, <2>2, <2>3 DEF Moves, PcAt
      <3> QED
        BY <2>1, <2>3, <2>4, <3>1, <3>2, <3>3, OneAlert
    <2>6. TimerInv'
      BY <2>1, TimersKept DEF BeforeTimer
    <2>7. ReadInv'
      BY <2>1, <2>3, ReadsKept
    <2> QED
      BY <2>5, <2>6, <2>7 DEF AlertStep, LifeInv
  <1> QED
    BY <1>1, <1>2

LEMMA OutreachLife ==
    ASSUME TypeOK, TypeOK', LifeInv, NEW r \in Runs,
           OutreachUnrendered(r) \/ OutreachWithoutSid(r) \/ OutreachSend(r)
             \/ OutreachRejected(r) \/ OutreachUnsent(r)
    PROVE  LifeInv' /\ [Contract!Next]_state
  <1> USE DEF alertVars
  <1>1. /\ pc[r] = "outreach" /\ state[r] \in {"detected", "resolved"}
        /\ RowCheck(state[r], resolution[r]) /\ EventsAt(state[r], log[r], pc[r])
        /\ UNCHANGED <<jobs, reviews>>
    BY DEF OutreachUnrendered, OutreachWithoutSid, OutreachSend, OutreachRejected,
           OutreachUnsent, LifeInv, PcInv, PcAt, RowInv, EventsMatchState, EventsAt
  \* What any of them does to the alert and to where the run goes next.
  <1>2. /\ pc'[r] \in {"escalate_hitl", "failed", "end", "wait_recheck"}
        /\ \A q \in Runs \ {r} : pc'[q] = pc[q]
        /\ state'[r] \in {state[r], "escalated_hitl", "outreach_sent"}
        /\ state'[r] = "escalated_hitl" => state[r] = "detected" /\ pc'[r] = "escalate_hitl"
        /\ state'[r] = "outreach_sent" => state[r] = "detected"
        /\ RowCheck(state'[r], resolution'[r])
        /\ \A q \in Runs \ {r} : state'[q] = state[q] /\ resolution'[q] = resolution[q]
        /\ log'[r]["closed"] = log[r]["closed"] /\ log'[r]["resolved"] = log[r]["resolved"]
        /\ \A q \in Runs \ {r} : log'[q] = log[q]
    <2>1. CASE OutreachUnrendered(r)
      <3>1. pc'[r] = "escalate_hitl" /\ \A q \in Runs \ {r} : pc'[q] = pc[q]
        BY <2>1, GotoEffect DEF OutreachUnrendered
      <3>2. /\ log'[r]["closed"] = log[r]["closed"] /\ log'[r]["resolved"] = log[r]["resolved"]
            /\ \A q \in Runs \ {r} : log'[q] = log[q]
        BY <2>1, RecordEffect DEF OutreachUnrendered, EventTypes
      <3>3. UNCHANGED <<state, resolution>>
        BY <2>1 DEF OutreachUnrendered
      <3> QED
        BY <1>1, <3>1, <3>2, <3>3
    <2>2. CASE OutreachRejected(r)
      <3>1. pc'[r] = "failed" /\ \A q \in Runs \ {r} : pc'[q] = pc[q]
        BY <2>2, GotoEffect DEF OutreachRejected
      <3>2. UNCHANGED <<state, resolution, log>>
        BY <2>2 DEF OutreachRejected
      <3> QED
        BY <1>1, <3>1, <3>2
    <2>3. CASE OutreachWithoutSid(r) /\ TransitionAllowed(r, state[r], "escalated_hitl", "none")
      <3>1. pc'[r] = "escalate_hitl" /\ \A q \in Runs \ {r} : pc'[q] = pc[q]
        BY <2>3, GotoEffect DEF OutreachWithoutSid
      <3>2. /\ log'[r]["closed"] = log[r]["closed"] /\ log'[r]["resolved"] = log[r]["resolved"]
            /\ \A q \in Runs \ {r} : log'[q] = log[q]
        BY <2>3, RecordEffect DEF OutreachWithoutSid, EventTypes
      <3>3. /\ RowCheck(state'[r], resolution'[r]) /\ state'[r] = "escalated_hitl"
            /\ state[r] # "resolved"
            /\ \A q \in Runs \ {r} : state'[q] = state[q] /\ resolution'[q] = resolution[q]
        <4>1. Transition(r, state[r], "escalated_hitl", "none")
          BY <2>3 DEF OutreachWithoutSid
        <4>2. RowInv /\ state[r] # "none"
          BY <1>1 DEF LifeInv
        <4> QED
          BY <1>1, <4>1, <4>2, EscalateEffect
      <3> QED
        BY <1>1, <3>1, <3>2, <3>3
    <2>4. CASE OutreachWithoutSid(r) /\ ~TransitionAllowed(r, state[r], "escalated_hitl", "none")
      <3>1. pc'[r] = "failed" /\ \A q \in Runs \ {r} : pc'[q] = pc[q]
        BY <2>4, GotoEffect DEF OutreachWithoutSid
      <3>2. UNCHANGED <<state, resolution, log>>
        BY <2>4 DEF OutreachWithoutSid
      <3> QED
        BY <1>1, <3>1, <3>2
    <2>5. CASE OutreachSend(r)
      <3>1. pc'[r] \in {"end", "wait_recheck"} /\ \A q \in Runs \ {r} : pc'[q] = pc[q]
        BY <2>5, GotoEffect DEF OutreachSend
      <3>2. /\ log'[r]["closed"] = log[r]["closed"] /\ log'[r]["resolved"] = log[r]["resolved"]
            /\ \A q \in Runs \ {r} : log'[q] = log[q]
        BY <2>5, RecordEffect DEF OutreachSend, EventTypes
      <3>3. Transition(r, state[r], "outreach_sent", "none")
        BY <2>5 DEF OutreachSend
      <3>4. /\ state'[r] = "outreach_sent" /\ resolution'[r] = resolution[r]
            /\ RowCheck("outreach_sent", resolution[r])
            /\ \A q \in Runs \ {r} : state'[q] = state[q] /\ resolution'[q] = resolution[q]
        BY <1>1, <3>3 DEF Transition, TransitionAllowed, NewState, NewResolution, TypeOK
      <3>5. state[r] = "detected"
        BY <1>1, <3>4 DEF RowCheck
      <3> QED
        BY <3>1, <3>2, <3>4, <3>5
    <2>6. CASE OutreachUnsent(r)
      <3>1. pc'[r] = "failed" /\ \A q \in Runs \ {r} : pc'[q] = pc[q]
        BY <2>6, GotoEffect DEF OutreachUnsent
      <3>2. UNCHANGED <<state, resolution, log>>
        BY <2>6 DEF OutreachUnsent
      <3> QED
        BY <1>1, <3>1, <3>2
    <2> QED
      BY <2>1, <2>2, <2>3, <2>4, <2>5, <2>6
  <1>3. AlertStep
    <2>1. EventsAt(state'[r], log'[r], pc'[r])
      BY <1>1, <1>2 DEF EventsAt
    <2>2. Moves(state[r], state'[r]) /\ PcAt(pc'[r], state'[r])
      BY <1>1, <1>2 DEF Moves, PcAt
    <2> QED
      BY <1>2, <2>1, <2>2, OneAlert
  <1>4. TimerInv'
    <2>1. pc'[r] \notin BeforeTimer
      BY <1>2 DEF BeforeTimer
    <2>2. \A m \in Message : queue'[m] > 0 => queue[m] > 0 \/ m.alert = r
      <3>1. CASE queue' = queue
        BY <3>1
      <3>2. CASE queue' = Put(queue, Timer(r, "first_reminder"))
        <4>1. Timer(r, "first_reminder").alert = r
          BY DEF Timer
        <4> QED
          BY <3>2, <4>1, PutEffect DEF TypeOK
      <3> QED
        BY <3>1, <3>2 DEF OutreachUnrendered, OutreachWithoutSid, OutreachSend,
                          OutreachRejected, OutreachUnsent
    <2> QED
      BY <1>1, <1>2, <2>1, <2>2, TimersKept
  <1>5. ReadInv'
    <2>1. \A q \in Runs : state[q] # "none" => state'[q] # "none"
      BY <1>1, <1>2
    <2> QED
      BY <1>1, <2>1, ReadsKept
  <1> QED
    BY <1>3, <1>4, <1>5 DEF AlertStep, LifeInv

LEMMA RecheckLife ==
    ASSUME TypeOK, TypeOK', LifeInv, NEW r \in Runs,
           WaitRecheck(r) \/ EscalateHitl(r) \/ GraphCrash(r)
    PROVE  LifeInv' /\ [Contract!Next]_state
  <1> USE DEF alertVars
  <1>1. /\ RowCheck(state[r], resolution[r]) /\ EventsAt(state[r], log[r], pc[r])
        /\ PcAt(pc[r], state[r]) /\ RowInv
        /\ UNCHANGED <<jobs, reviews>>
    BY DEF WaitRecheck, EscalateHitl, GraphCrash, LifeInv, PcInv, RowInv,
           EventsMatchState, EventsAt
  <1>2. /\ pc'[r] \in {"escalate_hitl", "end", "failed", "crashed"}
        /\ \A q \in Runs \ {r} : pc'[q] = pc[q]
    <2>1. CASE WaitRecheck(r)
      BY <2>1, GotoEffect DEF WaitRecheck
    <2>2. CASE EscalateHitl(r)
      BY <2>2, GotoEffect DEF EscalateHitl
    <2>3. CASE GraphCrash(r)
      BY <2>3, GotoEffect DEF GraphCrash
    <2> QED
      BY <2>1, <2>2, <2>3
  <1>3. /\ AlertStep
        /\ \A q \in Runs : state[q] # "none" => state'[q] # "none"
    <2>1. CASE UNCHANGED alertVars /\ pc'[r] = "escalate_hitl" /\ WaitRecheck(r)
      <3>1. EventsAt(state'[r], log'[r], pc'[r]) /\ PcAt(pc'[r], state'[r])
        BY <1>1, <2>1 DEF EventsAt, PcAt, WaitRecheck
      <3> QED
        BY <1>1, <1>2, <2>1, <3>1, OneAlert DEF Moves
    <2>2. CASE WaitRecheck(r) /\ Transition(r, state[r], "resolved", "employee_corrected")
               /\ Record(r, "closed") /\ pc'[r] = "end"
      <3>1. state[r] # "none"
        BY <1>1, <2>2 DEF WaitRecheck, PcAt
      <3>2. /\ state'[r] = "resolved" /\ RowCheck(state'[r], resolution'[r])
            /\ Moves(state[r], state'[r])
            /\ \A q \in Runs \ {r} : state'[q] = state[q] /\ resolution'[q] = resolution[q]
        BY <1>1, <2>2, <3>1, CloseEffect
      <3>3. log'[r]["closed"] + log'[r]["resolved"] > 0
        BY <2>2, RecordEffect DEF EventTypes
      <3>4. \A q \in Runs \ {r} : log'[q] = log[q]
        BY <2>2, RecordEffect DEF EventTypes
      <3>5. EventsAt(state'[r], log'[r], pc'[r]) /\ PcAt(pc'[r], state'[r])
        BY <2>2, <3>2, <3>3 DEF EventsAt, PcAt
      <3> QED
        BY <1>2, <3>2, <3>4, <3>5, OneAlert, NotRemoved
    <2>3. CASE EscalateHitl(r) /\ TransitionAllowed(r, state[r], "escalated_hitl", "none")
      <3>1. state[r] # "none"
        BY <1>1, <2>3 DEF EscalateHitl, PcAt
      <3>2. /\ Transition(r, state[r], "escalated_hitl", "none") /\ Record(r, "hitl_assigned")
            /\ Goto(r, "end")
        BY <2>3 DEF EscalateHitl
      <3>3. /\ state'[r] = "escalated_hitl" /\ RowCheck(state'[r], resolution'[r])
            /\ Moves(state[r], state'[r]) /\ state[r] # "resolved"
            /\ \A q \in Runs \ {r} : state'[q] = state[q] /\ resolution'[q] = resolution[q]
        BY <1>1, <3>1, <3>2, EscalateEffect
      <3>4. /\ log'[r]["closed"] = log[r]["closed"] /\ log'[r]["resolved"] = log[r]["resolved"]
            /\ log'[r]["hitl_assigned"] > 0
            /\ \A q \in Runs \ {r} : log'[q] = log[q]
        BY <3>2, RecordEffect DEF EventTypes
      <3>5. EventsAt(state'[r], log'[r], pc'[r]) /\ PcAt(pc'[r], state'[r])
        BY <1>1, <3>2, <3>3, <3>4, GotoEffect DEF EventsAt, PcAt
      <3> QED
        BY <1>2, <3>3, <3>4, <3>5, OneAlert, NotRemoved
    <2>4. CASE EscalateHitl(r) /\ ~TransitionAllowed(r, state[r], "escalated_hitl", "none")
      <3>1. UNCHANGED alertVars /\ pc'[r] = "failed"
        BY <2>4, GotoEffect DEF EscalateHitl
      <3>2. state[r] # "escalated_hitl"
        BY <1>1, <2>4 DEF TransitionAllowed, NewState, NewResolution
      <3>3. EventsAt(state'[r], log'[r], pc'[r]) /\ PcAt(pc'[r], state'[r])
        BY <1>1, <3>1, <3>2 DEF EventsAt, PcAt
      <3> QED
        BY <1>1, <1>2, <3>1, <3>3, OneAlert DEF Moves
    <2>5. CASE GraphCrash(r)
      <3>1. UNCHANGED alertVars /\ pc'[r] = "crashed"
        BY <2>5, GotoEffect DEF GraphCrash
      <3>2. EventsAt(state'[r], log'[r], pc'[r]) /\ PcAt(pc'[r], state'[r])
        BY <1>1, <3>1 DEF EventsAt, PcAt
      <3> QED
        BY <1>1, <1>2, <3>1, <3>2, OneAlert DEF Moves
    <2> QED
      BY <2>1, <2>2, <2>3, <2>4, <2>5, GotoEffect DEF WaitRecheck
  <1>4. TimerInv'
    <2>1. pc'[r] \notin BeforeTimer
      BY <1>2 DEF BeforeTimer
    <2>2. \A m \in Message : queue'[m] > 0 => queue[m] > 0 \/ m.alert = r
      <3>1. CASE queue' = queue
        BY <3>1
      <3>2. CASE queue' = Put(queue, Timer(r, "first_reminder"))
        <4>1. Timer(r, "first_reminder").alert = r
          BY DEF Timer
        <4> QED
          BY <3>2, <4>1, PutEffect DEF TypeOK
      <3> QED
        BY <3>1, <3>2 DEF WaitRecheck, EscalateHitl, GraphCrash
    <2> QED
      BY <1>1, <1>2, <2>1, <2>2, TimersKept
  <1>5. ReadInv'
    BY <1>1, <1>3, ReadsKept
  <1> QED
    BY <1>3, <1>4, <1>5 DEF AlertStep, LifeInv

-----------------------------------------------------------------------------
(* The worker.                                                               *)

\* The queue and the jobs after a worker has let go of j, putting back what it held.
LEMMA ReturnEffect ==
    ASSUME TypeOK, NEW j \in jobs, NEW q \in [Message -> Nat], NEW m \in Message,
           Redeliver(q, j)[m] > 0
    PROVE  m = j.msg \/ q[m] > 0
  BY PutEffect DEF Redeliver

\* Steps of the worker and of the queue that touch no alert.
LEMMA IdleWorkerLife ==
    ASSUME TypeOK, TypeOK', LifeInv, UNCHANGED <<state, resolution, log, pc, reviews>>,
           \A m \in Message : queue'[m] > 0 =>
              \/ queue[m] > 0
              \/ \E j \in jobs : j.msg.alert = m.alert,
           \A j \in jobs' : \/ pc[j.msg.alert] \notin BeforeTimer
                           \/ \E k \in jobs : k.msg.alert = j.msg.alert,
           \A j \in jobs' : \/ j.step # "resuming"
                           \/ \E k \in jobs : /\ k.step = "resuming" /\ k.seen = j.seen
                                             /\ k.msg.alert = j.msg.alert
    PROVE  LifeInv' /\ [Contract!Next]_state
  <1>1. AlertStep
    BY NoAlert
  <1>2. \A m \in Message : queue'[m] > 0 => queue[m] > 0 \/ pc'[m.alert] \notin BeforeTimer
    BY DEF LifeInv, TimerInv
  <1>3. TimerInv'
    BY <1>2, TimersKept
  <1>4. ReadInv'
    BY ReadsKept
  <1> QED
    BY <1>1, <1>3, <1>4 DEF AlertStep, LifeInv

LEMMA DeliveryLife ==
    ASSUME TypeOK, TypeOK', LifeInv,
           \/ \E w \in Workers, m \in Message : Receive(w, m)
           \/ \E m \in Message : DeadLetter(m)
           \/ \E j \in jobs : Reschedule(j) \/ Delete(j) \/ VisibilityExpires(j) \/ WorkerCrash(j)
    PROVE  LifeInv' /\ [Contract!Next]_state
  <1> USE DEF alertVars
  <1>1. ASSUME NEW w \in Workers, NEW m \in Message, Receive(w, m)
        PROVE  LifeInv' /\ [Contract!Next]_state
    <2> DEFINE new == [worker |-> w, msg |-> [m EXCEPT !.recv = @ + 1],
                       step |-> "received", held |-> TRUE, seen |-> "none",
                       found |-> FALSE]
    <2>1. /\ jobs' = jobs \cup {new} /\ queue' = Take(queue, m) /\ queue[m] > 0
          /\ UNCHANGED <<state, resolution, log, pc, reviews>>
      BY <1>1 DEF Receive
    <2>2. new.msg.alert = m.alert /\ new.step = "received"
      BY DEF Message
    <2>3. pc[m.alert] \notin BeforeTimer
      BY <2>1 DEF LifeInv, TimerInv
    <2>4. \A n \in Message : queue'[n] > 0 => queue[n] > 0
      BY <2>1, TakeEffect DEF TypeOK
    <2> HIDE DEF new
    <2> QED
      BY <2>1, <2>2, <2>3, <2>4, IdleWorkerLife
  <1>2. ASSUME NEW m \in Message, DeadLetter(m)
        PROVE  LifeInv' /\ [Contract!Next]_state
    <2>1. \A n \in Message : queue'[n] > 0 => queue[n] > 0
      BY <1>2, TakeEffect DEF DeadLetter, TypeOK
    <2> QED
      BY <1>2, <2>1, IdleWorkerLife DEF DeadLetter
  <1>3. ASSUME NEW j \in jobs, Reschedule(j)
        PROVE  LifeInv' /\ [Contract!Next]_state
    <2>1. j \in Job /\ j.msg \in Message
      BY DEF TypeOK, Job
    <2>2. [j.msg EXCEPT !.due = TRUE, !.recv = 0].alert = j.msg.alert
      BY <2>1 DEF Message
    <2>3. \A n \in Message : queue'[n] > 0 => queue[n] > 0 \/ n.alert = j.msg.alert
      BY <1>3, <2>2, PutEffect DEF Reschedule, TypeOK
    <2>4. /\ [j EXCEPT !.step = "handled"].step = "handled"
          /\ [j EXCEPT !.step = "handled"].msg = j.msg
      BY <2>1 DEF Job
    <2>5. jobs' = (jobs \ {j}) \cup {[j EXCEPT !.step = "handled"]}
      BY <1>3 DEF Reschedule, Advance
    <2>6. UNCHANGED <<state, resolution, log, pc, reviews>>
      BY <1>3 DEF Reschedule
    <2> QED
      BY <2>3, <2>4, <2>5, <2>6, IdleWorkerLife
  <1>4. ASSUME NEW j \in jobs, Delete(j) \/ WorkerCrash(j)
        PROVE  LifeInv' /\ [Contract!Next]_state
    <2>1. \A n \in Message : queue'[n] > 0 => queue[n] > 0 \/ n.alert = j.msg.alert
      BY <1>4, ReturnEffect DEF Delete, WorkerCrash, Return, TypeOK
    <2>2. jobs' = jobs \ {j} /\ UNCHANGED <<state, resolution, log, pc, reviews>>
      BY <1>4 DEF Delete, WorkerCrash, Return
    <2> QED
      BY <2>1, <2>2, IdleWorkerLife
  <1>5. ASSUME NEW j \in jobs, VisibilityExpires(j)
        PROVE  LifeInv' /\ [Contract!Next]_state
    <2>1. \A n \in Message : queue'[n] > 0 => queue[n] > 0 \/ n.alert = j.msg.alert
      BY <1>5, PutEffect DEF VisibilityExpires, TypeOK
    <2>2. j \in Job
      BY DEF TypeOK
    <2>3. /\ [j EXCEPT !.held = FALSE].step = j.step /\ [j EXCEPT !.held = FALSE].msg = j.msg
          /\ [j EXCEPT !.held = FALSE].seen = j.seen
      BY <2>2 DEF Job
    <2>4. /\ jobs' = (jobs \ {j}) \cup {[j EXCEPT !.held = FALSE]}
          /\ UNCHANGED <<state, resolution, log, pc, reviews>>
      BY <1>5 DEF VisibilityExpires
    <2> QED
      BY <2>1, <2>3, <2>4, IdleWorkerLife
  <1> QED
    BY <1>1, <1>2, <1>3, <1>4, <1>5

LEMMA AdvanceEffect ==
    ASSUME TypeOK, NEW j \in jobs, Advance(j, "handled")
    PROVE  \A k \in jobs' : k \in jobs \/ (k.step = "handled" /\ k.msg.alert = j.msg.alert)
  <1>1. j \in Job
    BY DEF TypeOK
  <1> DEFINE new == [j EXCEPT !.step = "handled"]
  <1>2. new.step = "handled" /\ new.msg = j.msg
    BY <1>1 DEF Job
  <1>3. jobs' = (jobs \ {j}) \cup {new}
    BY DEF Advance
  <1> HIDE DEF new
  <1> QED
    BY <1>2, <1>3

\* resume_alert up to its commit, and a first reminder, which changes no state.
LEMMA ResumeReadLife ==
    ASSUME TypeOK, TypeOK', LifeInv, NEW j \in jobs, ResumeRead(j)
    PROVE  LifeInv' /\ [Contract!Next]_state
  <1> USE DEF alertVars
  <1>1. /\ UNCHANGED <<state, resolution, log, pc, reviews, queue>>
        /\ j \in Job /\ j.msg.alert \in Runs
    BY DEF ResumeRead, TypeOK, Job, Message
  <1>2. CASE Advance(j, "handled")
    BY <1>1, <1>2, AdvanceEffect, IdleWorkerLife
  <1>3. CASE /\ state[j.msg.alert] \notin {"none", "resolved"}
             /\ jobs' = (jobs \ {j}) \cup
                  {[j EXCEPT !.step = "resuming", !.seen = state[j.msg.alert],
                             !.found = SheetPresent(SlotOf[j.msg.alert])]}
    <2> DEFINE k == [j EXCEPT !.step = "resuming", !.seen = state[j.msg.alert],
                              !.found = SheetPresent(SlotOf[j.msg.alert])]
    <2>1. k.msg = j.msg /\ k.seen = state[j.msg.alert]
      BY <1>1 DEF Job
    <2>2. jobs' = (jobs \ {j}) \cup {k}
      BY <1>3
    <2> HIDE DEF k
    <2>3. TimerInv'
      BY <1>1, <2>1, <2>2, TimersKept
    <2>4. ReadInv'
      BY <1>1, <1>3, <2>1, <2>2 DEF LifeInv, ReadInv
    <2>5. AlertStep
      BY <1>1, NoAlert
    <2> QED
      BY <2>3, <2>4, <2>5 DEF AlertStep, LifeInv
  <1> QED
    BY <1>2, <1>3 DEF ResumeRead

LEMMA ResumeLife ==
    ASSUME TypeOK, TypeOK', LifeInv, NEW j \in jobs,
           ResumeClose(j) \/ ResumeRemind(j) \/ ResumeEscalate(j)
    PROVE  LifeInv' /\ [Contract!Next]_state
  <1> USE DEF alertVars
  <1> DEFINE a == j.msg.alert
  <1>1. /\ j \in Job /\ j.msg \in Message /\ a \in Runs
        /\ state[a] # "none" /\ j.seen \notin {"none", "resolved"}
        /\ UNCHANGED <<pc, reviews>>
        /\ pc[a] \notin BeforeTimer
    BY DEF ResumeClose, ResumeRemind, ResumeEscalate, TypeOK, Job, Message, LifeInv,
           ReadInv, TimerInv
  <1>2. /\ RowInv /\ EventsAt(state[a], log[a], pc[a]) /\ RowCheck(state[a], resolution[a])
        /\ PcAt(pc[a], state[a])
    BY <1>1 DEF LifeInv, RowInv, PcInv, EventsMatchState, EventsAt
  <1> HIDE DEF a
  \* The job is handled or returned.
  <1>3. /\ \A k \in jobs' : k \in jobs \/ (k.step = "handled" /\ k.msg.alert = a)
        /\ \A m \in Message : queue'[m] > 0 => queue[m] > 0 \/ m.alert = a
    <2>1. CASE ResumeClose(j)
      BY <2>1, AdvanceEffect DEF ResumeClose, a
    <2>2. CASE ResumeEscalate(j)
      <3>1. CASE Advance(j, "handled") /\ UNCHANGED queue
        BY <3>1, AdvanceEffect DEF a
      <3>2. CASE Return(j)
        <4>1. jobs' = jobs \ {j} /\ queue' = Redeliver(queue, j)
          BY <3>2 DEF Return
        <4>2. \A m \in Message : queue'[m] > 0 => m = j.msg \/ queue[m] > 0
          BY <4>1, ReturnEffect DEF TypeOK
        <4> QED
          BY <4>1, <4>2 DEF a
      <3> QED
        BY <2>2, <3>1, <3>2 DEF ResumeEscalate
    <2>3. CASE ResumeRemind(j)
      <3> DEFINE q(sent) == IF sent THEN Put(queue, Timer(a, "escalate")) ELSE queue
      <3>1. PICK sent \in TimerOutcomes :
              \/ queue' = q(sent) /\ Advance(j, "handled")
              \/ queue' = Redeliver(q(sent), j) /\ jobs' = jobs \ {j}
        BY <2>3 DEF ResumeRemind, AfterRollback, a
      <3>2. q(sent) \in [Message -> Nat]
        BY <1>1, PutType, TimerType DEF TypeOK, Reasons
      <3>3. Timer(a, "escalate").alert = a
        BY DEF Timer
      <3>4. \A m \in Message : q(sent)[m] > 0 => queue[m] > 0 \/ m.alert = a
        BY <3>3, PutEffect DEF TypeOK
      <3> HIDE DEF q
      <3>5. CASE queue' = q(sent) /\ Advance(j, "handled")
        BY <3>4, <3>5, AdvanceEffect DEF a
      <3>6. CASE queue' = Redeliver(q(sent), j) /\ jobs' = jobs \ {j}
        <4>1. \A m \in Message : queue'[m] > 0 => m = j.msg \/ q(sent)[m] > 0
          BY <3>2, <3>6, ReturnEffect
        <4> QED
          BY <3>4, <3>6, <4>1 DEF a
      <3> QED
        BY <3>1, <3>5, <3>6
    <2> QED
      BY <2>1, <2>2, <2>3
  <1>4. AlertStep /\ \A q \in Runs : state[q] # "none" => state'[q] # "none"
    <2>1. CASE ResumeClose(j)
      <3>1. Record(a, "closed") /\ Transition(a, j.seen, "resolved", "employee_corrected")
        BY <2>1 DEF ResumeClose, a
      <3>2. /\ state'[a] = "resolved" /\ Moves(state[a], state'[a])
            /\ RowCheck(state'[a], resolution'[a])
            /\ \A q \in Runs \ {a} : state'[q] = state[q] /\ resolution'[q] = resolution[q]
        BY <1>1, <1>2, <3>1, CloseEffect
      <3>3. /\ log'[a]["closed"] + log'[a]["resolved"] > 0
            /\ \A q \in Runs \ {a} : log'[q] = log[q]
        BY <1>1, <3>1, RecordEffect DEF EventTypes
      <3>4. EventsAt(state'[a], log'[a], pc'[a]) /\ PcAt(pc'[a], state'[a])
        BY <1>1, <3>2, <3>3 DEF EventsAt, PcAt, BeforeTimer
      <3> QED
        BY <1>1, <3>2, <3>3, <3>4, OneAlert, NotRemoved
    <2>2. CASE ResumeEscalate(j) /\ Transition(a, j.seen, "escalated_hitl", "none")
                 /\ Record(a, "hitl_assigned")
      <3>1. /\ Moves(state[a], state'[a]) /\ RowCheck(state'[a], resolution'[a])
            /\ state'[a] # "none" /\ (state'[a] = "resolved" <=> state[a] = "resolved")
            /\ \A q \in Runs \ {a} : state'[q] = state[q] /\ resolution'[q] = resolution[q]
        BY <1>1, <1>2, <2>2, EscalateEffect
      <3>2. /\ log'[a]["closed"] = log[a]["closed"] /\ log'[a]["resolved"] = log[a]["resolved"]
            /\ log'[a]["hitl_assigned"] > 0
            /\ \A q \in Runs \ {a} : log'[q] = log[q]
        BY <1>1, <2>2, RecordEffect DEF EventTypes
      <3>3. EventsAt(state'[a], log'[a], pc'[a]) /\ PcAt(pc'[a], state'[a])
        BY <1>1, <1>2, <3>1, <3>2 DEF EventsAt, PcAt, BeforeTimer
      <3> QED
        BY <1>1, <3>1, <3>2, <3>3, OneAlert, NotRemoved
    <2>3. CASE UNCHANGED alertVars
      BY <1>1, <2>3, NoAlert
    <2>4. CASE ResumeRemind(j) /\ Record(a, "first_reminder_sent") /\ UNCHANGED <<state, resolution>>
      <3>1. /\ log'[a]["closed"] = log[a]["closed"] /\ log'[a]["resolved"] = log[a]["resolved"]
            /\ log'[a]["hitl_assigned"] = log[a]["hitl_assigned"]
            /\ \A q \in Runs \ {a} : log'[q] = log[q]
        BY <1>1, <2>4, RecordEffect DEF EventTypes
      <3>2. EventsAt(state'[a], log'[a], pc'[a]) /\ PcAt(pc'[a], state'[a])
        BY <1>1, <1>2, <2>4, <3>1 DEF EventsAt
      <3> QED
        BY <1>1, <1>2, <2>4, <3>1, <3>2, OneAlert DEF Moves
    <2> QED
      BY <2>1, <2>2, <2>3, <2>4 DEF ResumeClose, ResumeRemind, ResumeEscalate, a
  <1>5. TimerInv'
    BY <1>1, <1>3, TimersKept DEF a
  <1>6. ReadInv'
    BY <1>1, <1>3, <1>4, ReadsKept
  <1> QED
    BY <1>4, <1>5, <1>6 DEF AlertStep, LifeInv

-----------------------------------------------------------------------------
(* The reviewer and the employee.                                            *)

LEMMA ReviewLife ==
    ASSUME TypeOK, TypeOK', LifeInv,
           \/ \E h \in Reviewers, r \in Runs, res \in HumanResolutions : ResolveRead(h, r, res)
           \/ \E v \in reviews : ResolveCommit(v)
    PROVE  LifeInv' /\ [Contract!Next]_state
  <1> USE DEF alertVars
  <1>1. UNCHANGED <<pc, queue, jobs>>
    BY DEF ResolveRead, ResolveCommit
  <1>2. TimerInv'
    BY <1>1, TimersKept
  <1>3. ASSUME NEW h \in Reviewers, NEW r \in Runs, NEW res \in HumanResolutions,
               ResolveRead(h, r, res)
        PROVE  LifeInv' /\ [Contract!Next]_state
    <2>1. AlertStep
      BY <1>1, <1>3, NoAlert DEF ResolveRead
    <2>2. ReadInv'
      BY <1>1, <1>3 DEF ResolveRead, LifeInv, ReadInv
    <2> QED
      BY <1>2, <2>1, <2>2 DEF AlertStep, LifeInv
  <1>4. ASSUME NEW v \in reviews, ResolveCommit(v)
        PROVE  LifeInv' /\ [Contract!Next]_state
    <2> DEFINE a == v.alert
    <2>1. /\ a \in Runs /\ state[a] # "none" /\ v.seen # "resolved"
          /\ reviews' \subseteq reviews
      BY <1>4 DEF ResolveCommit, TypeOK, Review, LifeInv, ReadInv
    <2>2. PcAt(pc[a], state[a]) /\ RowInv
      BY <2>1 DEF LifeInv, PcInv
    <2>3. AlertStep /\ \A q \in Runs : state[q] # "none" => state'[q] # "none"
      <3>1. CASE UNCHANGED alertVars
        BY <1>1, <3>1, NoAlert
      <3>2. CASE Record(a, "resolved") /\ Transition(a, v.seen, "resolved", v.resolution)
        <4>1. /\ state'[a] = "resolved" /\ Moves(state[a], state'[a])
              /\ RowCheck(state'[a], resolution'[a])
              /\ \A q \in Runs \ {a} : state'[q] = state[q] /\ resolution'[q] = resolution[q]
          BY <2>1, <2>2, <3>2, CloseEffect
        <4>2. /\ log'[a]["closed"] + log'[a]["resolved"] > 0
              /\ \A q \in Runs \ {a} : log'[q] = log[q]
          BY <2>1, <3>2, RecordEffect DEF EventTypes
        <4>3. EventsAt(state'[a], log'[a], pc'[a]) /\ PcAt(pc'[a], state'[a])
          BY <1>1, <2>1, <2>2, <4>1, <4>2 DEF EventsAt, PcAt
        <4> QED
          BY <1>1, <2>1, <4>1, <4>2, <4>3, OneAlert, NotRemoved
      <3> QED
        BY <1>4, <3>1, <3>2 DEF ResolveCommit
    <2>4. ReadInv'
      BY <1>1, <2>1, <2>3, ReadsKept
    <2> QED
      BY <1>2, <2>3, <2>4 DEF AlertStep, LifeInv
  <1> QED
    BY <1>3, <1>4

-----------------------------------------------------------------------------
(* The theorems.                                                             *)

LEMMA LifeStep ==
    ASSUME TypeOK, TypeOK', LifeInv, [Next]_vars
    PROVE  LifeInv' /\ [Contract!Next]_state
  <1>1. ASSUME NEW r \in Runs, RunStep(r) \/ GraphCrash(r)
        PROVE  LifeInv' /\ [Contract!Next]_state
    BY <1>1, DetectLife, OutreachLife, RecheckLife DEF RunStep
  <1>2. ASSUME WorkerStep \/ (\E m \in Message : DeadLetter(m))
                 \/ (\E j \in jobs : VisibilityExpires(j) \/ WorkerCrash(j))
        PROVE  LifeInv' /\ [Contract!Next]_state
    BY <1>2, DeliveryLife, ResumeReadLife, ResumeLife DEF WorkerStep, Handle
  <1>3. ASSUME \/ \E h \in Reviewers, r \in Runs, res \in HumanResolutions :
                     ResolveRead(h, r, res)
               \/ \E v \in reviews : ResolveCommit(v)
        PROVE  LifeInv' /\ [Contract!Next]_state
    BY <1>3, ReviewLife
  <1>4. ASSUME \/ \E s \in Slots : SubmitSheet(s)
               \/ UNCHANGED vars
        PROVE  LifeInv' /\ [Contract!Next]_state
    <2>1. UNCHANGED <<state, resolution, log, pc, queue, jobs, reviews>>
      BY <1>4 DEF SubmitSheet, vars, alertVars
    <2>2. AlertStep
      BY <2>1, NoAlert
    <2>3. TimerInv' /\ ReadInv'
      BY <2>1, TimersKept, ReadsKept
    <2> QED
      BY <2>2, <2>3 DEF AlertStep, LifeInv
  <1> QED
    BY <1>1, <1>2, <1>3, <1>4 DEF Next

LEMMA LifeInit == Init => LifeInv
  BY DEF Init, LifeInv, RowInv, RowCheck, PcInv, PcAt, TimerInv, ReadInv,
         EventsMatchState, EventTypes

\* Whatever the graph, the worker and the reviewers read before they commit, an alert is
\* raised once, moves only forward, and once resolved stays resolved.
THEOREM RefinesContract == Spec => ImplementsContract
  <1>1. Init => Contract!Init
    BY DEF Init, Contract!Init
  <1>2. TypeOK /\ TypeOK' /\ LifeInv /\ [Next]_vars => LifeInv' /\ [Contract!Next]_state
    BY LifeStep
  <1> QED
    BY <1>1, <1>2, LifeInit, TypeCorrect, PTL DEF Spec, ImplementsContract, Contract!Spec

\* The log and the row of an alert agree in every reachable state, for any number of runs,
\* workers, reviewers and failures.
THEOREM LogAgrees == Spec => []EventsMatchState
  <1>1. TypeOK /\ TypeOK' /\ LifeInv /\ [Next]_vars => LifeInv'
    BY LifeStep
  <1>2. LifeInv => EventsMatchState
    BY DEF LifeInv
  <1> QED
    BY <1>1, <1>2, LifeInit, TypeCorrect, PTL DEF Spec

-----------------------------------------------------------------------------
(* No alert is forgotten.                                                    *)

\* Bullhorn keeps the timesheets it has.
LEMMA SheetsStay ==
    ASSUME TypeOK, [Next]_vars, NEW s \in Slots, SheetPresent(s)
    PROVE  SheetPresent(s)'
  <1>1. CASE UNCHANGED sheet
    BY <1>1 DEF SheetPresent
  <1>2. CASE \E t \in Slots : SubmitSheet(t)
    BY <1>2 DEF SubmitSheet, SheetPresent, TypeOK
  <1>3. UNCHANGED sheet \/ \E t \in Slots : SubmitSheet(t)
    BY DEF Next, RunStep, DetectRead, DetectInsert, OutreachUnrendered, OutreachWithoutSid,
           OutreachSend, OutreachRejected, OutreachUnsent, WaitRecheck, EscalateHitl, GraphCrash,
           WorkerStep, Receive, Handle, Reschedule, ResumeRead, ResumeClose,
           ResumeRemind, ResumeEscalate, Delete, DeadLetter, VisibilityExpires,
           WorkerCrash, ResolveRead, ResolveCommit, vars
  <1> QED
    BY <1>1, <1>2, <1>3

\* Where the jobs of the next state come from: they are those of this state, as far as
\* what was read and found goes, a message just received, or one whose alert is just read.
JobFrom(k) ==
    \/ \E j \in jobs : /\ k.msg.alert = j.msg.alert /\ k.found = j.found
                       /\ k.step = "resuming" => j.step = "resuming" /\ k.seen = j.seen
    \/ k.step = "received" /\ ~k.found
    \/ /\ k.seen = state[k.msg.alert]
       /\ k.found = SheetPresent(SlotOf[k.msg.alert])

LEMMA AdvanceFrom ==
    ASSUME TypeOK, NEW j \in jobs, Advance(j, "handled")
    PROVE  \A k \in jobs' : JobFrom(k)
  <1>1. j \in Job
    BY DEF TypeOK
  <1> DEFINE new == [j EXCEPT !.step = "handled"]
  <1>2. new.step = "handled" /\ new.msg = j.msg /\ new.found = j.found
    BY <1>1 DEF Job
  <1>3. jobs' = (jobs \ {j}) \cup {new}
    BY DEF Advance
  <1> HIDE DEF new
  <1> QED
    BY <1>2, <1>3 DEF JobFrom

LEMMA JobsFrom ==
    ASSUME TypeOK, [Next]_vars
    PROVE  \A k \in jobs' : JobFrom(k)
  <1>1. CASE jobs' \subseteq jobs
    BY <1>1 DEF JobFrom
  <1>2. ASSUME NEW w \in Workers, NEW m \in Message, Receive(w, m)
        PROVE  \A k \in jobs' : JobFrom(k)
    BY <1>2 DEF Receive, JobFrom
  <1>3. ASSUME NEW j \in jobs, Advance(j, "handled")
        PROVE  \A k \in jobs' : JobFrom(k)
    BY <1>3, AdvanceFrom
  <1>4. ASSUME NEW j \in jobs,
               jobs' = (jobs \ {j}) \cup
                  {[j EXCEPT !.step = "resuming", !.seen = state[j.msg.alert],
                             !.found = SheetPresent(SlotOf[j.msg.alert])]}
        PROVE  \A k \in jobs' : JobFrom(k)
    <2> DEFINE new == [j EXCEPT !.step = "resuming", !.seen = state[j.msg.alert],
                                !.found = SheetPresent(SlotOf[j.msg.alert])]
    <2>1. /\ new.msg = j.msg /\ new.seen = state[j.msg.alert]
          /\ new.found = SheetPresent(SlotOf[j.msg.alert])
      BY DEF TypeOK, Job
    <2>2. jobs' = (jobs \ {j}) \cup {new}
      BY <1>4
    <2> HIDE DEF new
    <2> QED
      BY <2>1, <2>2 DEF JobFrom
  <1>5. ASSUME NEW j \in jobs, VisibilityExpires(j)
        PROVE  \A k \in jobs' : JobFrom(k)
    <2> DEFINE new == [j EXCEPT !.held = FALSE]
    <2>1. new.msg = j.msg /\ new.seen = j.seen /\ new.found = j.found /\ new.step = j.step
      BY DEF TypeOK, Job
    <2>2. jobs' = (jobs \ {j}) \cup {new}
      BY <1>5 DEF VisibilityExpires
    <2> HIDE DEF new
    <2> QED
      BY <2>1, <2>2 DEF JobFrom
  <1>6. \/ jobs' \subseteq jobs
        \/ \E w \in Workers, m \in Message : Receive(w, m)
        \/ \E j \in jobs : \/ Advance(j, "handled")
                          \/ VisibilityExpires(j)
                          \/ jobs' = (jobs \ {j}) \cup
                                {[j EXCEPT !.step = "resuming", !.seen = state[j.msg.alert],
                                           !.found = SheetPresent(SlotOf[j.msg.alert])]}
    <2>1. ASSUME NEW r \in Runs, RunStep(r) \/ GraphCrash(r) PROVE jobs' = jobs
      BY <2>1 DEF RunStep, DetectRead, DetectInsert, OutreachUnrendered,
         OutreachWithoutSid, OutreachSend, OutreachRejected, OutreachUnsent, WaitRecheck, EscalateHitl,
         GraphCrash
    <2>2. ASSUME NEW j \in jobs, Handle(j) \/ WorkerCrash(j)
          PROVE  \/ jobs' \subseteq jobs
                 \/ Advance(j, "handled")
                 \/ jobs' = (jobs \ {j}) \cup
                       {[j EXCEPT !.step = "resuming", !.seen = state[j.msg.alert],
                                  !.found = SheetPresent(SlotOf[j.msg.alert])]}
      BY <2>2 DEF Handle, Reschedule, ResumeRead, ResumeClose, ResumeRemind,
         ResumeEscalate, Delete, WorkerCrash, Return
    <2>3. ASSUME \/ \E m \in Message : DeadLetter(m)
                 \/ \E h \in Reviewers, r \in Runs, res \in HumanResolutions :
                       ResolveRead(h, r, res)
                 \/ \E v \in reviews : ResolveCommit(v)
                 \/ \E s \in Slots : SubmitSheet(s)
                 \/ UNCHANGED vars
          PROVE  jobs' = jobs
      BY <2>3 DEF DeadLetter, ResolveRead, ResolveCommit, SubmitSheet, vars
    <2> QED
      BY <2>1, <2>2, <2>3 DEF Next, WorkerStep
  <1> QED
    BY <1>1, <1>2, <1>3, <1>4, <1>5, <1>6

\* An alert read as escalated has not gone back to waiting for the employee, and what
\* Bullhorn had when the worker asked has not gone.
SeenInv ==
    \A j \in jobs : (j.step = "resuming" /\ j.seen = "escalated_hitl") =>
        state[j.msg.alert] \in {"escalated_hitl", "resolved"}

FoundInv == \A j \in jobs : j.found => SheetPresent(SlotOf[j.msg.alert])

\* A lawful move is what the contract's steps make of an alert.
LEMMA ContractMoves ==
    ASSUME TypeOK, [Contract!Next]_state, NEW r \in Runs
    PROVE  Moves(state[r], state'[r])
  BY DEF TypeOK, Moves, Contract!Next, Contract!Raise, Contract!Contact,
         Contract!Escalate, Contract!Close

LEMMA SeenStep ==
    ASSUME TypeOK, TypeOK', LifeInv, SeenInv, FoundInv, [Next]_vars
    PROVE  SeenInv' /\ FoundInv'
  <1> SUFFICES ASSUME NEW k \in jobs'
               PROVE  /\ (k.step = "resuming" /\ k.seen = "escalated_hitl") =>
                            state'[k.msg.alert] \in {"escalated_hitl", "resolved"}
                      /\ k.found => SheetPresent(SlotOf[k.msg.alert])'
    BY DEF SeenInv, FoundInv
  <1> DEFINE a == k.msg.alert
  <1>1. a \in Runs /\ SlotOf[a] \in Slots
    BY ConstantsAssumption DEF TypeOK, Job, Message
  <1>2. JobFrom(k)
    BY JobsFrom
  <1>3. state[a] \in {"escalated_hitl", "resolved"} => state'[a] \in {"escalated_hitl", "resolved"}
    BY <1>1, LifeStep, ContractMoves DEF Moves
  <1>4. SheetPresent(SlotOf[a]) => SheetPresent(SlotOf[a])'
    BY <1>1, SheetsStay
  <1> HIDE DEF a
  <1>5. (k.step = "resuming" /\ k.seen = "escalated_hitl") =>
           state[a] \in {"escalated_hitl", "resolved"}
    BY <1>2 DEF JobFrom, SeenInv, a
  <1>6. k.found => SheetPresent(SlotOf[a])
    BY <1>2 DEF JobFrom, FoundInv, a
  <1> QED
    BY <1>3, <1>4, <1>5, <1>6 DEF a

\* What the agent closes it has found a timesheet for.
LEMMA ClosedStep ==
    ASSUME TypeOK, TypeOK', LifeInv, FoundInv, [Next]_vars, NEW r \in Runs,
           log'[r]["closed"] > 0
    PROVE  log[r]["closed"] > 0 \/ SheetPresent(SlotOf[r])
  <1> USE DEF alertVars
  <1>1. ASSUME UNCHANGED log PROVE log[r]["closed"] > 0
    BY <1>1
  <1>2. ASSUME NEW q \in Runs, NEW type \in EventTypes \ {"closed"}, Record(q, type)
        PROVE  log[r]["closed"] > 0
    BY <1>2, RecordEffect DEF EventTypes
  <1>3. ASSUME NEW q \in Runs, Record(q, "closed"), SheetPresent(SlotOf[q])
        PROVE  log[r]["closed"] > 0 \/ SheetPresent(SlotOf[r])
    BY <1>3, RecordEffect DEF EventTypes
  <1>4. \/ UNCHANGED log
        \/ \E q \in Runs, type \in EventTypes \ {"closed"} : Record(q, type)
        \/ \E q \in Runs : Record(q, "closed") /\ SheetPresent(SlotOf[q])
    <2>1. ASSUME NEW q \in Runs, RunStep(q) \/ GraphCrash(q)
          PROVE  \/ UNCHANGED log
                 \/ \E type \in EventTypes \ {"closed"} : Record(q, type)
                 \/ Record(q, "closed") /\ SheetPresent(SlotOf[q])
      BY <2>1 DEF RunStep, DetectRead, DetectInsert, OutreachUnrendered,
         OutreachWithoutSid, OutreachSend, OutreachRejected, OutreachUnsent, WaitRecheck, EscalateHitl,
         GraphCrash, EventTypes
    <2>2. ASSUME NEW j \in jobs, Handle(j)
          PROVE  \/ UNCHANGED log
                 \/ \E q \in Runs, type \in EventTypes \ {"closed"} : Record(q, type)
                 \/ \E q \in Runs : Record(q, "closed") /\ SheetPresent(SlotOf[q])
      <3>1. j.msg.alert \in Runs
        BY DEF TypeOK, Job, Message
      <3> QED
        BY <2>2, <3>1 DEF Handle, Reschedule, ResumeRead, ResumeClose, ResumeRemind,
           ResumeEscalate, Delete, FoundInv, EventTypes
    <2>3. ASSUME NEW v \in reviews, ResolveCommit(v)
          PROVE  UNCHANGED log \/ \E q \in Runs : Record(q, "resolved")
      BY <2>3 DEF ResolveCommit, TypeOK, Review
    <2>4. ASSUME \/ \E w \in Workers, m \in Message : Receive(w, m)
                 \/ \E m \in Message : DeadLetter(m)
                 \/ \E j \in jobs : VisibilityExpires(j) \/ WorkerCrash(j)
                 \/ \E h \in Reviewers, q \in Runs, res \in HumanResolutions :
                       ResolveRead(h, q, res)
                 \/ \E s \in Slots : SubmitSheet(s)
                 \/ UNCHANGED vars
          PROVE  UNCHANGED log
      BY <2>4 DEF Receive, DeadLetter, VisibilityExpires, WorkerCrash, ResolveRead,
         SubmitSheet, vars
    <2>5. "resolved" \in EventTypes \ {"closed"}
      BY DEF EventTypes
    <2> QED
      BY <2>1, <2>2, <2>3, <2>4, <2>5 DEF Next, WorkerStep
  <1> QED
    BY <1>1, <1>2, <1>3, <1>4

\* The agent never closes an alert without a timesheet, however late it commits.
THEOREM ClosedOnSubmission == Spec => []ClosedAfterSubmission
  <1> DEFINE IInv == LifeInv /\ SeenInv /\ FoundInv /\ ClosedAfterSubmission
  <1>1. Init => IInv
    BY LifeInit DEF Init, SeenInv, FoundInv, ClosedAfterSubmission, EventTypes
  <1>2. TypeOK /\ TypeOK' /\ IInv /\ [Next]_vars => IInv'
    <2> SUFFICES ASSUME TypeOK, TypeOK', IInv, [Next]_vars PROVE IInv'
      OBVIOUS
    <2>1. LifeInv' /\ SeenInv' /\ FoundInv'
      BY LifeStep, SeenStep
    <2>2. ASSUME NEW r \in Runs, log'[r]["closed"] > 0 PROVE SheetPresent(SlotOf[r])'
      <3>1. SlotOf[r] \in Slots
        BY ConstantsAssumption
      <3>2. SheetPresent(SlotOf[r])
        BY <2>2, ClosedStep DEF ClosedAfterSubmission, SheetPresent
      <3> QED
        BY <3>1, <3>2, SheetsStay
    <2> QED
      BY <2>1, <2>2 DEF ClosedAfterSubmission, SheetPresent
  <1>3. IInv => ClosedAfterSubmission
    OBVIOUS
  <1> QED
    BY <1>1, <1>2, <1>3, TypeCorrect, PTL DEF Spec

\* What NoOrphan asks of an alert that waits for the employee.
Covered(r) ==
    \/ pc[r] \in {"wait_recheck", "escalate_hitl"}
    \/ TimerPending(r)
    \/ \E l \in lost : l.alert = r

\* A worker that will act on its message, or from whom it returns.
Working(j) == j.held /\ j.step \in {"received", "resuming"}

LEMMA PutKeeps ==
    ASSUME NEW q \in [Message -> Nat], NEW m \in Message
    PROVE  /\ Put(q, m)[m] > 0
           /\ \A n \in Message : q[n] > 0 => Put(q, m)[n] > 0
  BY DEF Put

LEMMA RedeliverKeeps ==
    ASSUME NEW q \in [Message -> Nat], NEW j \in Job
    PROVE  /\ j.held => Redeliver(q, j)[j.msg] > 0
           /\ \A n \in Message : q[n] > 0 => Redeliver(q, j)[n] > 0
  <1>1. j.msg \in Message
    BY DEF Job
  <1> QED
    BY <1>1, PutKeeps DEF Redeliver

\* A step that takes at most the job j away from those at work covers every alert as
\* before, if it covers that of j.
LEMMA JobStep ==
    ASSUME TypeOK, TypeOK', NoOrphan, NEW j \in jobs,
           UNCHANGED pc, lost \subseteq lost', jobs \ {j} \subseteq jobs',
           \A m \in Message : queue[m] > 0 => queue'[m] > 0,
           \A r \in Runs : state'[r] = "outreach_sent" => state[r] = "outreach_sent",
           (state'[j.msg.alert] = "outreach_sent" /\ Working(j)) => Covered(j.msg.alert)'
    PROVE  NoOrphan'
  <1> SUFFICES ASSUME NEW r \in Runs, state'[r] = "outreach_sent"
               PROVE  Covered(r)'
    BY DEF NoOrphan, Covered
  <1>1. Covered(r)
    BY DEF NoOrphan, Covered
  <1>2. CASE pc[r] \in {"wait_recheck", "escalate_hitl"} \/ \E l \in lost : l.alert = r
    BY <1>2 DEF Covered
  <1>3. CASE \E m \in Message : m.alert = r /\ queue[m] > 0
    BY <1>3 DEF Covered, TimerPending
  <1>4. CASE \E k \in jobs : k.msg.alert = r /\ Working(k)
    BY <1>4 DEF Covered, TimerPending, Working
  <1> QED
    BY <1>1, <1>2, <1>3, <1>4 DEF Covered, TimerPending, Working

\* A step of the run r: whatever it makes of its own alert, those of others stay covered.
LEMMA RunOrphan ==
    ASSUME TypeOK, TypeOK', LifeInv, LifeInv', NoOrphan, NEW r \in Runs,
           RunStep(r) \/ GraphCrash(r)
    PROVE  NoOrphan'
  <1> USE DEF alertVars
  <1>1. \A m \in Message : queue[m] > 0 => queue'[m] > 0
    <2>1. CASE queue' = queue
      BY <2>1
    <2>2. CASE queue' = Put(queue, Timer(r, "first_reminder"))
      BY <2>2, PutKeeps, TimerType DEF TypeOK, Reasons
    <2> QED
      BY <2>1, <2>2 DEF RunStep, DetectRead, DetectInsert, OutreachUnrendered,
         OutreachWithoutSid, OutreachSend, OutreachRejected, OutreachUnsent, WaitRecheck, EscalateHitl,
         GraphCrash
  <1>2. /\ jobs' = jobs /\ lost \subseteq lost'
        /\ \A q \in Runs \ {r} : pc'[q] = pc[q]
    BY GotoEffect DEF RunStep, DetectRead, DetectInsert, OutreachUnrendered, Lose,
         OutreachWithoutSid, OutreachSend, OutreachRejected, OutreachUnsent, WaitRecheck, EscalateHitl,
         GraphCrash
  <1>3. \A q \in Runs \ {r} : state'[q] = state[q]
    <2>1. \/ UNCHANGED state
          \/ \E new, res : Transition(r, state[r], new, res)
          \/ state' = [state EXCEPT ![r] = "detected"]
      <3>1. CASE DetectInsert(r)
        BY <3>1 DEF DetectInsert
      <3>2. CASE OutreachWithoutSid(r)
        BY <3>2 DEF OutreachWithoutSid
      <3>3. CASE OutreachSend(r)
        BY <3>3 DEF OutreachSend
      <3>4. CASE WaitRecheck(r)
        BY <3>4 DEF WaitRecheck
      <3>5. CASE EscalateHitl(r)
        BY <3>5 DEF EscalateHitl
      <3>6. CASE \/ DetectRead(r) \/ OutreachUnrendered(r) \/ OutreachRejected(r)
                 \/ OutreachUnsent(r) \/ GraphCrash(r)
        BY <3>6 DEF DetectRead, OutreachUnrendered, OutreachRejected, OutreachUnsent,
             GraphCrash
      <3> QED
        BY <3>1, <3>2, <3>3, <3>4, <3>5, <3>6 DEF RunStep
    <2>2. ASSUME NEW new, NEW res, Transition(r, state[r], new, res)
          PROVE  \A q \in Runs \ {r} : state'[q] = state[q]
      BY <2>2 DEF Transition, TypeOK
    <2>3. ASSUME state' = [state EXCEPT ![r] = "detected"]
          PROVE  \A q \in Runs \ {r} : state'[q] = state[q]
      BY <2>3 DEF TypeOK
    <2> QED
      BY <2>1, <2>2, <2>3
  <1>4. ASSUME state'[r] = "outreach_sent" PROVE Covered(r)'
    <2>1. PcAt(pc[r], state[r]) /\ PcAt(pc'[r], state'[r]) /\ RowCheck(state[r], resolution[r])
      BY DEF LifeInv, PcInv, RowInv
    <2>2. CASE OutreachSend(r)
      <3>1. CASE queue' = Put(queue, Timer(r, "first_reminder"))
        <4>1. /\ Timer(r, "first_reminder") \in Message
              /\ Timer(r, "first_reminder").alert = r
          BY TimerType DEF Reasons, Timer
        <4>2. queue'[Timer(r, "first_reminder")] > 0
          BY <3>1, <4>1, PutKeeps DEF TypeOK
        <4> QED
          BY <4>1, <4>2 DEF Covered, TimerPending
      <3>2. CASE Goto(r, "wait_recheck")
        BY <3>2, GotoEffect DEF Covered
      <3> QED
        BY <2>2, <3>1, <3>2 DEF OutreachSend
    <2>3. CASE WaitRecheck(r)
      <3>1. CASE Goto(r, "escalate_hitl")
        BY <3>1, GotoEffect DEF Covered
      <3>2. CASE Transition(r, state[r], "resolved", "employee_corrected")
        BY <1>4, <3>2 DEF Transition, NewState, TypeOK
      <3> QED
        BY <2>3, <3>1, <3>2 DEF WaitRecheck
    <2>4. CASE EscalateHitl(r)
      <3>1. CASE Transition(r, state[r], "escalated_hitl", "none")
        BY <1>4, <3>1 DEF Transition, NewState, TypeOK
      <3>2. CASE ~TransitionAllowed(r, state[r], "escalated_hitl", "none")
        <4>1. state[r] = "resolved"
          BY <2>1, <3>2 DEF TransitionAllowed, NewState, NewResolution, RowCheck, TypeOK
        <4> QED
          BY <1>4, <2>4, <3>2, <4>1 DEF EscalateHitl
      <3> QED
        BY <2>4, <3>1, <3>2 DEF EscalateHitl
    <2>5. CASE GraphCrash(r)
      <3>1. state[r] = "outreach_sent"
        BY <1>4, <2>5 DEF GraphCrash
      <3>2. pc[r] \in {"wait_recheck", "escalate_hitl"}
        BY <2>1, <2>5, <3>1 DEF GraphCrash, PcAt, TypeOK
      <3>3. [alert |-> r, cause |-> "graph_crash"] \in lost'
        BY <2>5, <3>2 DEF GraphCrash, Lose
      <3> QED
        BY <3>3 DEF Covered
    <2>6. CASE \/ DetectRead(r) \/ DetectInsert(r) \/ OutreachUnrendered(r)
               \/ OutreachWithoutSid(r) \/ OutreachRejected(r) \/ OutreachUnsent(r)
      <3>1. state[r] \in {"none", "detected", "resolved"}
        BY <2>1, <2>6 DEF DetectRead, DetectInsert, OutreachUnrendered, OutreachWithoutSid,
             OutreachRejected, OutreachUnsent, PcAt
      <3>2. state'[r] \in {state[r], "detected", "escalated_hitl"}
        BY <2>6 DEF DetectRead, DetectInsert, OutreachUnrendered, OutreachWithoutSid,
             OutreachRejected, OutreachUnsent, Transition, NewState, TypeOK
      <3> QED
        BY <1>4, <3>1, <3>2
    <2> QED
      BY <2>2, <2>3, <2>4, <2>5, <2>6 DEF RunStep
  <1>5. ASSUME NEW q \in Runs \ {r}, state'[q] = "outreach_sent" PROVE Covered(q)'
    <2>1. Covered(q)
      BY <1>3, <1>5 DEF NoOrphan, Covered
    <2> QED
      BY <1>1, <1>2, <2>1 DEF Covered, TimerPending
  <1> QED
    BY <1>4, <1>5 DEF NoOrphan, Covered

\* A handler that is done with its message does not hide an alert that still waits.
LEMMA HandledJob ==
    ASSUME TypeOK, NEW j \in jobs, Advance(j, "handled")
    PROVE  jobs \ {j} \subseteq jobs'
  BY DEF Advance

\* A timer lost on the record accounts for its alert.
LEMMA LoseCovers ==
    ASSUME NEW r, NEW c, Lose(r, c)
    PROVE  Covered(r)' /\ lost \subseteq lost'
  <1>1. [alert |-> r, cause |-> c] \in lost' /\ lost \subseteq lost'
    BY DEF Lose
  <1>2. [alert |-> r, cause |-> c].alert = r
    OBVIOUS
  <1> QED
    BY <1>1, <1>2 DEF Covered

\* The first reminder sends the escalation timer, records that it could not, or rolls
\* back and returns the message it came from.
LEMMA ResumeRemindOrphan ==
    ASSUME TypeOK, TypeOK', NoOrphan, NEW j \in jobs, ResumeRemind(j)
    PROVE  NoOrphan'
  <1> DEFINE a == j.msg.alert
             next == Timer(a, "escalate")
  <1>1. j \in Job /\ a \in Runs /\ queue \in [Message -> Nat] /\ j.msg \in Message
    BY DEF TypeOK, Job, Message
  <1>2. next \in Message /\ next.alert = a
    BY <1>1, TimerType DEF Reasons, Timer
  <1>3. UNCHANGED <<pc, state>>
    BY DEF ResumeRemind
  <1>4. PICK sent \in TimerOutcomes :
          LET q == IF sent THEN Put(queue, next) ELSE queue
          IN  IF EventCheck("first_reminder_sent", "agent")
              THEN /\ queue' = q
                   /\ Advance(j, "handled")
                   /\ IF sent THEN UNCHANGED lost ELSE Lose(a, "timer_not_sent")
              ELSE /\ queue' = Redeliver(q, j)
                   /\ jobs' = jobs \ {j}
                   /\ UNCHANGED lost
    BY DEF ResumeRemind, AfterRollback
  <1> DEFINE q == IF sent THEN Put(queue, next) ELSE queue
  <1> HIDE DEF next
  <1>5. /\ q \in [Message -> Nat] /\ \A m \in Message : queue[m] > 0 => q[m] > 0
        /\ sent => q[next] > 0
    BY <1>1, <1>2, PutKeeps DEF Put
  <1>6. \A m \in Message : m.alert = a /\ queue'[m] > 0 => Covered(a)'
    BY DEF Covered, TimerPending
  <1> HIDE DEF q
  <1>7. CASE queue' = q /\ Advance(j, "handled") /\ sent /\ UNCHANGED lost
    BY <1>2, <1>3, <1>5, <1>6, <1>7, HandledJob, JobStep
  <1>8. CASE queue' = q /\ Advance(j, "handled") /\ Lose(a, "timer_not_sent")
    <2>1. Covered(a)' /\ lost \subseteq lost'
      BY <1>8, LoseCovers
    <2> QED
      BY <1>3, <1>5, <1>8, <2>1, HandledJob, JobStep
  <1>9. CASE queue' = Redeliver(q, j) /\ jobs' = jobs \ {j} /\ UNCHANGED lost
    <2>1. /\ j.held => queue'[j.msg] > 0
          /\ \A m \in Message : queue[m] > 0 => queue'[m] > 0
      BY <1>1, <1>5, <1>9, RedeliverKeeps
    <2> QED
      BY <1>1, <1>3, <1>6, <1>9, <2>1, JobStep DEF Working
  <1> QED
    BY <1>4, <1>7, <1>8, <1>9 DEF q

\* A step of the job j: whoever lets go of a timer has acted on it, lost it on the record,
\* put it back or sent the next one.
LEMMA JobOrphan ==
    ASSUME TypeOK, TypeOK', LifeInv, SeenInv, NoOrphan, NEW j \in jobs,
           Handle(j) \/ VisibilityExpires(j) \/ WorkerCrash(j)
    PROVE  NoOrphan'
  <1> DEFINE a == j.msg.alert
  <1>1. j \in Job /\ j.msg \in Message /\ a \in Runs /\ queue \in [Message -> Nat]
    BY DEF TypeOK, Job, Message
  <1>2. \A m \in Message : m.alert = a /\ queue'[m] > 0 => Covered(a)'
    BY DEF Covered, TimerPending
  <1>3. ASSUME NEW c, Lose(a, c) PROVE Covered(a)' /\ lost \subseteq lost'
    BY <1>3, LoseCovers
  <1>4. ASSUME Return(j)
        PROVE  /\ jobs \ {j} \subseteq jobs' /\ (j.held => Covered(a)')
               /\ \A m \in Message : queue[m] > 0 => queue'[m] > 0
    BY <1>1, <1>2, <1>4, RedeliverKeeps DEF Return
  <1>5. CASE Reschedule(j)
    <2> DEFINE m == [j.msg EXCEPT !.due = TRUE, !.recv = 0]
    <2>1. m \in Message /\ m.alert = a
      BY <1>1, ReplacementType DEF Message
    <2>2. queue' = Put(queue, m)
      BY <1>5 DEF Reschedule
    <2> HIDE DEF m
    <2>3. queue'[m] > 0 /\ \A n \in Message : queue[n] > 0 => queue'[n] > 0
      BY <1>1, <2>1, <2>2, PutKeeps
    <2>4. UNCHANGED <<pc, lost, state>> /\ Advance(j, "handled")
      BY <1>5 DEF Reschedule, alertVars
    <2> QED
      BY <1>2, <2>1, <2>3, <2>4, HandledJob, JobStep
  <1>6. CASE ResumeRead(j)
    <2>1. UNCHANGED <<pc, state, queue>> /\ j.step = "received"
      BY <1>6 DEF ResumeRead, alertVars
    <2>2. CASE state[a] \in {"none", "resolved"} /\ Advance(j, "handled") /\ UNCHANGED lost
      BY <2>1, <2>2, HandledJob, JobStep
    <2>3. CASE Lose(a, "bullhorn_error") /\ Advance(j, "handled")
      BY <1>3, <2>1, <2>3, HandledJob, JobStep
    <2>4. CASE /\ UNCHANGED lost
               /\ jobs' = (jobs \ {j}) \cup
                    {[j EXCEPT !.step = "resuming", !.seen = state[j.msg.alert],
                               !.found = SheetPresent(SlotOf[j.msg.alert])]}
      <3> DEFINE k == [j EXCEPT !.step = "resuming", !.seen = state[j.msg.alert],
                                !.found = SheetPresent(SlotOf[j.msg.alert])]
      <3>1. k.msg = j.msg /\ k.step = "resuming" /\ k.held = j.held
        BY <1>1 DEF Job
      <3>2. jobs' = (jobs \ {j}) \cup {k}
        BY <2>4
      <3> HIDE DEF k
      <3>3. Working(j) => Covered(a)'
        BY <3>1, <3>2 DEF Working, Covered, TimerPending
      <3> QED
        BY <2>1, <2>4, <3>2, <3>3, JobStep
    <2> QED
      BY <1>6, <2>2, <2>3, <2>4 DEF ResumeRead
  <1>7. CASE ResumeClose(j)
    <2>1. /\ UNCHANGED <<pc, lost, queue>> /\ Advance(j, "handled")
          /\ Transition(a, j.seen, "resolved", "employee_corrected")
          /\ state[a] # "none" /\ j.seen # "resolved"
      BY <1>7 DEF ResumeClose, LifeInv, ReadInv
    <2>2. state'[a] = "resolved" /\ \A q \in Runs \ {a} : state'[q] = state[q]
      BY <1>1, <2>1, CloseEffect DEF LifeInv
    <2> QED
      BY <2>1, <2>2, HandledJob, JobStep
  <1>8. CASE ResumeRemind(j)
    BY <1>8, ResumeRemindOrphan
  <1>9. CASE ResumeEscalate(j)
    <2>1. UNCHANGED <<pc, lost>> /\ j.step = "resuming" /\ state[a] # "none"
      BY <1>9 DEF ResumeEscalate, LifeInv, ReadInv
    <2>2. CASE /\ Transition(a, j.seen, "escalated_hitl", "none")
               /\ Advance(j, "handled") /\ UNCHANGED queue
      <3>1. /\ state'[a] \in {state[a], "escalated_hitl"}
            /\ j.seen # "escalated_hitl" => state'[a] = "escalated_hitl"
            /\ \A q \in Runs \ {a} : state'[q] = state[q]
        BY <1>1, <2>1, <2>2, EscalateEffect DEF LifeInv
      <3>2. j.seen = "escalated_hitl" => state[a] \in {"escalated_hitl", "resolved"}
        BY <2>1 DEF SeenInv
      <3>3. state'[a] # "outreach_sent"
        BY <3>1, <3>2
      <3> HIDE DEF a
      <3>4. \A r \in Runs : state'[r] = "outreach_sent" => state[r] = "outreach_sent"
        BY <3>1, <3>3
      <3> QED
        BY <2>1, <2>2, <3>3, <3>4, HandledJob, JobStep DEF a
    <2>3. CASE Return(j) /\ UNCHANGED alertVars
      BY <1>4, <2>1, <2>3, JobStep DEF alertVars, Working
    <2> QED
      BY <1>9, <2>2, <2>3 DEF ResumeEscalate
  <1>10. CASE Delete(j)
    <2>1. UNCHANGED <<pc, lost, state>> /\ j.step = "handled"
      BY <1>10 DEF Delete, alertVars
    <2>2. jobs' = jobs \ {j} /\ (UNCHANGED queue \/ Return(j))
      BY <1>10 DEF Delete, Return
    <2> QED
      BY <1>4, <2>1, <2>2, JobStep DEF Working
  <1>11. CASE VisibilityExpires(j)
    <2>1. /\ UNCHANGED <<pc, lost, state>> /\ queue' = Put(queue, j.msg)
          /\ jobs \ {j} \subseteq jobs'
      BY <1>11 DEF VisibilityExpires, alertVars
    <2> QED
      BY <1>1, <1>2, <2>1, PutKeeps, JobStep
  <1>12. CASE WorkerCrash(j)
    <2>1. UNCHANGED <<pc, lost, state>> /\ Return(j)
      BY <1>12 DEF WorkerCrash, alertVars
    <2> QED
      BY <1>4, <2>1, JobStep DEF Working
  <1> QED
    BY <1>5, <1>6, <1>7, <1>8, <1>9, <1>10, <1>11, <1>12 DEF Handle

\* A worker takes a timer: now it is the worker's.
LEMMA ReceiveOrphan ==
    ASSUME TypeOK, TypeOK', NoOrphan, NEW w \in Workers, NEW m \in Message, Receive(w, m)
    PROVE  NoOrphan'
  <1> DEFINE k == [worker |-> w, msg |-> [m EXCEPT !.recv = @ + 1],
                   step |-> "received", held |-> TRUE, seen |-> "none",
                   found |-> FALSE]
  <1>1. /\ jobs' = jobs \cup {k} /\ queue' = Take(queue, m)
        /\ UNCHANGED <<state, pc, lost>>
    BY DEF Receive, alertVars
  <1>2. k.msg.alert = m.alert /\ Working(k)
    BY DEF Message, Working
  <1> HIDE DEF k
  <1>3. \A n \in Message \ {m} : queue[n] > 0 => queue'[n] > 0
    BY <1>1 DEF Take, TypeOK
  <1>4. TimerPending(m.alert)'
    BY <1>1, <1>2 DEF TimerPending, Working
  <1> QED
    BY <1>1, <1>3, <1>4 DEF NoOrphan, TimerPending

\* SQS moves a timer to the DLQ: that is on the record.
LEMMA DeadLetterOrphan ==
    ASSUME TypeOK, TypeOK', NoOrphan, NEW m \in Message, DeadLetter(m)
    PROVE  NoOrphan'
  <1>1. /\ UNCHANGED <<state, pc, jobs>> /\ lost \subseteq lost'
        /\ Covered(m.alert)'
    BY LoseCovers DEF DeadLetter, alertVars
  <1>2. \A n \in Message \ {m} : queue[n] > 0 => queue'[n] > 0
    BY DEF DeadLetter, Take, TypeOK
  <1> QED
    BY <1>1, <1>2 DEF NoOrphan, TimerPending, Covered

\* The reviewer and the employee leave timers alone.
LEMMA OutsideOrphan ==
    ASSUME TypeOK, TypeOK', LifeInv, NoOrphan,
           \/ \E h \in Reviewers, r \in Runs, res \in HumanResolutions : ResolveRead(h, r, res)
           \/ \E v \in reviews : ResolveCommit(v)
           \/ \E s \in Slots : SubmitSheet(s)
           \/ UNCHANGED vars
    PROVE  NoOrphan'
  <1>1. UNCHANGED <<pc, queue, jobs, lost>>
    BY DEF ResolveRead, ResolveCommit, SubmitSheet, vars
  <1>2. \A r \in Runs : state'[r] = "outreach_sent" => state[r] = "outreach_sent"
    <2>1. CASE UNCHANGED state
      BY <2>1
    <2>2. ASSUME NEW v \in reviews, Transition(v.alert, v.seen, "resolved", v.resolution)
          PROVE  \A r \in Runs : state'[r] = "outreach_sent" => state[r] = "outreach_sent"
      <3>1. v.alert \in Runs /\ v.seen # "resolved" /\ state[v.alert] # "none"
        BY DEF TypeOK, Review, LifeInv, ReadInv
      <3> QED
        BY <2>2, <3>1, CloseEffect DEF LifeInv
    <2> QED
      BY <2>1, <2>2 DEF ResolveRead, ResolveCommit, SubmitSheet, vars, alertVars
  <1> QED
    BY <1>1, <1>2 DEF NoOrphan, TimerPending

\* No alert that waits for the employee is forgotten, unless its timer was lost in one of
\* the four ways the model records.
THEOREM NoneForgotten == Spec => []NoOrphan
  <1> DEFINE IInv == LifeInv /\ SeenInv /\ NoOrphan /\ FoundInv
  <1>1. Init => IInv
    BY LifeInit DEF Init, SeenInv, FoundInv, NoOrphan
  <1>2. TypeOK /\ TypeOK' /\ IInv /\ [Next]_vars => IInv'
    <2> SUFFICES ASSUME TypeOK, TypeOK', IInv, [Next]_vars PROVE IInv'
      OBVIOUS
    <2>1. LifeInv' /\ SeenInv' /\ FoundInv'
      BY LifeStep, SeenStep
    <2>2. NoOrphan'
      BY <2>1, RunOrphan, JobOrphan, ReceiveOrphan, DeadLetterOrphan, OutsideOrphan
         DEF Next, WorkerStep
    <2> QED
      BY <2>1, <2>2
  <1>3. IInv => NoOrphan
    OBVIOUS
  <1> QED
    BY <1>1, <1>2, <1>3, TypeCorrect, PTL DEF Spec
=============================================================================
