------------------------------ MODULE MCAgents ------------------------------
(* Finite instances, in one run, of what the agents of a tenant are made of:   *)
(* the plan cycle, the detectors of Time Anomaly, the matchers, the graders,   *)
(* the wording of messages and the calls to language models; and of the people *)
(* about them: the tenant's users, and the reviewers of the VMS matches.       *)
(* These modules share nothing; each behaviour moves one of them and leaves    *)
(* the others at rest.                                                        *)
EXTENDS MCPlanRun, MCDetection, Matching, Analysts, Templates, ModelCalls, MCPeople, MCVmsReview

Scenes == DetectScenes \cup
    {"planning", "matching", "grading", "wording", "calling", "managing", "reviewing"}

(* Matchers. *)
MCAmounts == {-100, 0, 100, 101, 102}

(* Graders. *)
Placed(pay, bill, state, approval, end) ==
    [pay |-> pay, bill |-> bill, state |-> state, status |-> approval, end |-> end]
MCStateWages == [CA |-> 1650, TX |-> 725]

PlacedRows == {
    Placed(700, 2000, Unset, "active", -1), Placed(1000, 2000, "CA", "closed", 1),
    Placed(2000, 1500, "TX", "active", Unset), Placed(2000, 2100, "ZZ", "active", 1),
    Placed(20000, 80000, "CA", "closed", -1), Placed(0, 0, "CA", "active", -1),
    Placed(800, 1000, "TX", "draft", 1)}

\* The sync stores no state.
Synced == {[p EXCEPT !.state = Unset] : p \in PlacedRows}

Charge(pay, bill, pay_hours, pay_rate) ==
    [placement |-> 1, period |-> 1, pay |-> pay, bill |-> bill, pay_hours |-> pay_hours,
     bill_hours |-> 40, pay_rate |-> pay_rate, bill_rate |-> 3000,
     card_pay_rate |-> 2000, card_bill_rate |-> 2000]
Charges == {Charge(100, 150, 40, 2000), Charge(-100, 0, 20, 3000),
            Charge(600000, 0, 0, 0), Charge(0, 800000, 40, 0)}

Worker(classification, hours, ot, months) ==
    [expires |-> Unset, classification |-> classification, hours |-> hours, ot |-> ot,
     months |-> months, max_months |-> 6, max_hours |-> 100, cumulative |-> hours, tenure |-> 13,
     exclusive |-> FALSE]
Workers == {Worker("exempt", 50, 5, 3), Worker("non-exempt", 50, 0, 7), Worker("w2", 50, 0, Unset),
            Worker("contractor", 120, 0, 1)}
\* A row of the audit log has none of the fields.
LogRow == [expires |-> Unset, classification |-> Unset, hours |-> 0, ot |-> 0, months |-> Unset,
             max_months |-> 0, max_hours |-> 0, cumulative |-> 0, tenure |-> 0, exclusive |-> FALSE]
Credentials == {[LogRow EXCEPT !.expires = n] : n \in {-1, 0, 5, 7, 8, 20, 30, 31}}

Invoiced(amount, days) == [amount |-> amount, days |-> days]
Invoices == {Invoiced(a, d) : a \in {100, 1000000, 6000000}, d \in {0, 10, 20, 35, 65, 95}}

Of(agent_of, by, records, charged) ==
    [desk |-> agent_of, asked |-> by, rows |-> records, charges |-> charged]
Pairs(S) == {<<x, y>> : x \in S, y \in S}

MCJobs ==
    {Of("risk_alert", "call", ps, cs) :
        ps \in {<< >>} \cup Pairs(PlacedRows), cs \in {<< >>} \cup Pairs(Charges)}
    \cup {Of("risk_alert", "plan", ps, << >>) : ps \in Pairs(Synced)}
    \cup {Of("collections", "call", is, << >>) : is \in Pairs(Invoices)}
    \cup {Of("collections", "plan", <<i>>, << >>) : i \in {Invoiced(1000000, 0)}}
    \cup {Of("compliance", "call", rs, << >>) : rs \in Pairs(Credentials) \cup Pairs(Workers)}
    \cup {Of("compliance", "plan", <<LogRow>>, << >>)}

MCRiskOverrides == {
    [key |-> "minimum_wage", value |-> 1500], [key |-> "minimum_wage", value |-> 9000],
    [key |-> "low_markup_pct", value |-> Unset], [key |-> "high_markup_pct", value |-> 50],
    [key |-> "state_wages", value |-> [ZZ |-> 2500]], [key |-> "typo", value |-> 1],
    [key |-> "approved", value |-> {"draft"}]}

\* Thresholds in the order of the defaults, reversed, and all alike.
Schedule(followup, escalation, legal, high, critical, warning, soon) ==
    [DefaultSchedule EXCEPT !.followup_days = followup, !.escalation_days = escalation,
        !.legal_days = legal, !.high_priority_amount = high, !.critical_priority_amount = critical,
        !.warning_days = warning, !.critical_days = soon]
MCSchedules == {
    Schedule(20, 35, 65, 100, 1000000, 20, 5), Schedule(65, 35, 20, 6000000, 100, 5, 20),
    Schedule(35, 35, 35, 1000000, 1000000, 8, 8)}

(* Wording. *)
MCDrafts == {[channel |-> "sms", subject |-> 1, body |-> 2], [channel |-> "sms", subject |-> 2, body |-> 1],
             [channel |-> "sms", subject |-> 1, body |-> 3], [channel |-> "fax", subject |-> 1, body |-> 1],
             [channel |-> "email_body", subject |-> 2, body |-> 2]}
MCFound == <<{"bte_link"}, {}, {"employee_phone"}>>
MCPlatformText == [channel |-> "sms", subject |-> 0, body |-> 0]

----------------------------------------------------------------------------
PlanStill == UNCHANGED <<vars, crowd>>
DetectStill == UNCHANGED detectVars
MatchStill == UNCHANGED matchVars
AnalystStill == UNCHANGED analystVars
TemplateStill == UNCHANGED templateVars
CallStill == UNCHANGED callVars
PeopleStill == UNCHANGED peopleVars
ReviewStill == UNCHANGED reviewVars

\* The parts that have more than one initial state, when they do not move.
MatchAtRest == agent = "invoice_matching" /\ via = "graph" /\ documents = << >> /\ charges = << >>
AnalystAtRest ==
    /\ desk = "risk_alert" /\ asked_by = "call" /\ rows = << >> /\ postings = << >>
    /\ cfg = Defaults /\ schedule = DefaultSchedule /\ stage = "called"
    /\ found = {} /\ human_review_required = FALSE /\ actions = {}

AgentsInit ==
    /\ scene \in Scenes
    /\ Init /\ crowd \in (IF scene = "planning" THEN BOOLEAN ELSE {FALSE})
    /\ Starts /\ DetectInit
    /\ (IF scene = "matching" THEN TRUE ELSE MatchAtRest) /\ MatchInit
    /\ IF scene = "grading" THEN AnalystInit ELSE AnalystAtRest
    /\ TemplateInit
    /\ (IF scene = "calling" THEN TRUE ELSE loop = FALSE) /\ CallInit
    /\ PeopleInit /\ ReviewInit

Planning == /\ scene = "planning" /\ MCNext
            /\ DetectStill /\ MatchStill /\ AnalystStill /\ TemplateStill /\ CallStill
            /\ PeopleStill /\ ReviewStill
Detecting == /\ scene \in DetectScenes /\ DetectNext /\ Bounds
             /\ PlanStill /\ MatchStill /\ AnalystStill /\ TemplateStill /\ CallStill
             /\ PeopleStill /\ ReviewStill
Pairing == /\ scene = "matching" /\ MatchNext
           /\ PlanStill /\ DetectStill /\ AnalystStill /\ TemplateStill /\ CallStill
           /\ PeopleStill /\ ReviewStill
Grading == /\ scene = "grading" /\ AnalystNext
           /\ PlanStill /\ DetectStill /\ MatchStill /\ TemplateStill /\ CallStill
           /\ PeopleStill /\ ReviewStill
Wording == /\ scene = "wording" /\ TemplateNext
           /\ PlanStill /\ DetectStill /\ MatchStill /\ AnalystStill /\ CallStill
           /\ PeopleStill /\ ReviewStill
Calling == /\ scene = "calling" /\ CallNext
           /\ PlanStill /\ DetectStill /\ MatchStill /\ AnalystStill /\ TemplateStill
           /\ PeopleStill /\ ReviewStill
Managing == /\ scene = "managing" /\ PeopleNext
            /\ PlanStill /\ DetectStill /\ MatchStill /\ AnalystStill /\ TemplateStill /\ CallStill
            /\ ReviewStill
Reviewing == /\ scene = "reviewing" /\ ReviewNext /\ Turns
             /\ PlanStill /\ DetectStill /\ MatchStill /\ AnalystStill /\ TemplateStill /\ CallStill
             /\ PeopleStill

AgentsNext ==
    /\ \/ Planning \/ Detecting \/ Pairing \/ Grading \/ Wording \/ Calling
       \/ Managing \/ Reviewing
    /\ UNCHANGED scene

AgentsSpec ==
    AgentsInit /\ [][AgentsNext]_<<vars, crowd, detectVars, matchVars, analystVars, templateVars,
                                   callVars, peopleVars, reviewVars, scene>>
=============================================================================
