------------------------------ MODULE Analysts ------------------------------
(***************************************************************************)
(* The rule-based agents that grade records one by one: risk alert           *)
(* (placements and charges), collections (unpaid invoices) and compliance    *)
(* (placements and credentials).  An analysis applies the rules to its rows, *)
(* decides whether a person must look, lets a language model comment, and    *)
(* ends; asked for by create_agent_plan, what it found becomes the actions   *)
(* of a plan.                                                               *)
(*                                                                          *)
(* Thresholds are the platform's defaults, which only a caller of the nodes  *)
(* may override (the risk rules check each value, the other two take what    *)
(* they are given).  What a tenant has set is never read: nothing calls the  *)
(* loaders, so that a plan is made with the defaults, and of placements that *)
(* the sync has stored without a state.  Money is in cents, markups and      *)
(* differences in whole percent, dates are days from today.                  *)
(***************************************************************************)
EXTENDS Integers, Sequences, FiniteSets

CONSTANTS
    Jobs,               \* what may be analysed: [desk, asked, rows, charges]
    RiskOverrides,      \* keys and values a caller may override, one at a time
    Schedules,          \* thresholds a caller may give collections and compliance
    StateWages,         \* minimum wage of each state
    Unset               \* None

Desks == {"risk_alert", "collections", "compliance"}

VARIABLES
    desk,        \* which of the agents runs
    asked_by,    \* "call": by its caller; "plan": by create_agent_plan
    rows,        \* the records it examines
    postings,    \* risk alert: the charges
    cfg,         \* the thresholds of risk alert
    schedule,    \* the thresholds of the other two
    stage,       \* where the run is
    found,       \* what the rules flagged: [type, severity, of, row]
    human_review_required,
    actions      \* of the plan

analystVars ==
    <<desk, asked_by, rows, postings, cfg, schedule, stage, found, human_review_required, actions>>

Defaults == [
    minimum_wage |-> 725, high_pay_rate |-> 15000, high_bill_rate |-> 22500,
    low_markup_pct |-> 10, high_markup_pct |-> 250, bill_rate_mismatch_pct |-> 20,
    high_pay_amount |-> 500000, high_bill_amount |-> 750000,
    state_wages |-> [s \in {} |-> 0],
    approved |-> {"approved", "active", "placed"},
    inactive |-> {"terminated", "cancelled", "closed", "inactive"}]

\* The range of each threshold.
Fields == [
    minimum_wage |-> <<0, 5000>>, high_pay_rate |-> <<5000, 50000>>,
    high_bill_rate |-> <<5000, 100000>>, low_markup_pct |-> <<0, 100>>,
    high_markup_pct |-> <<50, 500>>, bill_rate_mismatch_pct |-> <<1, 100>>,
    high_pay_amount |-> <<10000, 10000000>>, high_bill_amount |-> <<10000, 10000000>>]

DefaultSchedule == [
    reminder_days |-> 15, followup_days |-> 30, escalation_days |-> 60, legal_days |-> 90,
    high_priority_amount |-> 1000000, critical_priority_amount |-> 5000000,
    warning_days |-> 30, critical_days |-> 7, overtime_hours |-> 40]

\* A value of another type, or out of range, is ignored; so is a key that is not known.
ApplyOverride(c, key, value) ==
    IF key \in {"state_wages", "approved", "inactive"} THEN [c EXCEPT ![key] = value]
    ELSE IF key \in DOMAIN Fields /\ value # Unset
    THEN IF Fields[key][1] <= value /\ value <= Fields[key][2]
         THEN [c EXCEPT ![key] = value] ELSE c
    ELSE c

\* Rows with the fields that their desk reads (a synced placement has no state), tables of
\* wages by state, thresholds that are numbers: what the rules do with text is not modelled.
ASSUME AnalystsAssumption ==
    /\ \A job \in Jobs : \A i \in DOMAIN job.rows :
         CASE job.desk = "risk_alert" -> /\ {job.rows[i].pay, job.rows[i].bill} \subseteq Int
                                         /\ job.asked = "plan" => job.rows[i].state = Unset
           [] job.desk = "collections" -> {job.rows[i].amount, job.rows[i].days} \subseteq Int
           [] job.desk = "compliance" -> job.rows[i].expires \in Int \cup {Unset}
    /\ \A s \in DOMAIN StateWages : s # Unset /\ StateWages[s] \in Int
    /\ \A o \in RiskOverrides :
         /\ o.key \in DOMAIN Fields => o.value \in Int \cup {Unset}
         /\ o.key = "state_wages" => \A s \in DOMAIN o.value : s # Unset /\ o.value[s] \in Int
    /\ \A s \in Schedules : \A threshold \in DOMAIN DefaultSchedule : s[threshold] \in Int

Risky == {"high", "critical"}

AnalystInit ==
    /\ \E job \in Jobs : /\ desk = job.desk /\ asked_by = job.asked
                         /\ rows = job.rows /\ postings = job.charges
    /\ cfg = Defaults
    /\ schedule = DefaultSchedule
    /\ stage = "called"
    /\ found = {}
    /\ human_review_required = FALSE
    /\ actions = {}

----------------------------------------------------------------------------
Flag(condition, type, severity) ==
    IF condition THEN {[type |-> type, severity |-> severity]} ELSE {}

Distance(a, b) == IF a < b THEN b - a ELSE a - b

(* Risk alert: placements.                                                   *)

MismatchRisks(p) ==
    Flag(p.status \in cfg.approved /\ p.end # Unset /\ p.end < 0,
         "active_placement_date_mismatch", "medium")
    \cup Flag(p.status \in cfg.inactive /\ p.end # Unset /\ p.end > 0,
              "inactive_placement_date_mismatch", "medium")

FEDERAL_MIN_WAGE == 725

\* (mutant) The caller's table of wages replaces the static one.
OwnTable(state) ==
    IF DOMAIN cfg.state_wages = {} /\ state \in DOMAIN StateWages THEN StateWages[state]
    ELSE IF state \in DOMAIN cfg.state_wages THEN cfg.state_wages[state]
    ELSE FEDERAL_MIN_WAGE

\* The caller's, the static table's, or the federal one.
StateWage(state) ==
    IF state \in DOMAIN cfg.state_wages THEN cfg.state_wages[state]
    ELSE IF state \in DOMAIN StateWages THEN StateWages[state]
    ELSE FEDERAL_MIN_WAGE

RateRisks(p) ==
    Flag(p.pay > 0 /\ p.pay < cfg.minimum_wage, "below_federal_min_wage", "high")
    \cup Flag(/\ p.pay > 0 /\ p.state # Unset
              /\ StateWage(p.state) > cfg.minimum_wage /\ p.pay < StateWage(p.state),
              "below_state_min_wage", "high")
    \cup Flag(p.pay > cfg.high_pay_rate, "high_pay_rate", "medium")
    \cup Flag(p.bill > cfg.high_bill_rate, "high_bill_rate", "medium")

\* The markup is (bill - pay) / pay.
MarkupRisks(p) ==
    IF p.pay <= 0 \/ p.bill <= 0 THEN {}
    ELSE IF p.bill < p.pay THEN Flag(TRUE, "negative_markup", "high")
    ELSE IF 100 * (p.bill - p.pay) < cfg.low_markup_pct * p.pay
    THEN Flag(TRUE, "low_markup", "medium")
    ELSE Flag(100 * (p.bill - p.pay) > cfg.high_markup_pct * p.pay, "high_markup", "medium")

(* Risk alert: charges.                                                      *)

AmountRisks(c) ==
    Flag(c.pay < 0, "negative_pay_amount", "high")
    \cup Flag(c.bill < 0, "negative_bill_amount", "high")
    \cup Flag(c.pay > cfg.high_pay_amount, "high_pay_amount", "medium")
    \cup Flag(c.bill > cfg.high_bill_amount, "high_bill_amount", "medium")
    \cup Flag(c.pay > 0 /\ c.bill = 0, "pay_no_bill", "medium")
    \cup Flag(c.bill > 0 /\ c.pay = 0, "bill_no_pay", "medium")

OffCard(rate, card) ==
    card > 0 /\ rate > 0 /\ 100 * Distance(rate, card) > cfg.bill_rate_mismatch_pct * card

HoursRisks(c) ==
    Flag(c.pay_hours > 0 /\ c.bill_hours > 0 /\ c.pay_hours # c.bill_hours,
         "pay_bill_hours_mismatch", "medium")
    \cup Flag(OffCard(c.pay_rate, c.card_pay_rate), "pay_rate_card_mismatch", "medium")
    \cup Flag(OffCard(c.bill_rate, c.card_bill_rate), "bill_rate_card_mismatch", "medium")

\* The charges of one placement and period with the same two amounts.
Copies(i) ==
    {j \in DOMAIN postings :
        /\ <<postings[j].placement, postings[j].period>> = <<postings[i].placement, postings[i].period>>
        /\ <<postings[j].pay, postings[j].bill>> = <<postings[i].pay, postings[i].bill>>}

DuplicateRisks(i) ==
    Flag(Cardinality(Copies(i)) >= 2 /\ \A j \in Copies(i) : i <= j, "duplicate_charge", "high")

PlacementRisks(p) == MismatchRisks(p) \cup RateRisks(p) \cup MarkupRisks(p)
ChargeRisks(i) == AmountRisks(postings[i]) \cup HoursRisks(postings[i]) \cup DuplicateRisks(i)

On(of, i, flags) == {[type |-> f.type, severity |-> f.severity, of |-> of, row |-> i] : f \in flags}

Risks ==
    UNION {On("row", i, PlacementRisks(rows[i])) : i \in DOMAIN rows}
    \cup UNION {On("charge", i, ChargeRisks(i)) : i \in DOMAIN postings}

----------------------------------------------------------------------------
(* Collections: the stage of escalation and the tier of every invoice that   *)
(* is owed something and is due.                                             *)

Owed(r) == r.amount > 0 /\ r.days > 0

\* (mutant) The lowest threshold is tested first.
LowestFirst(days) ==
    IF days >= schedule.followup_days THEN "follow_up"
    ELSE IF days >= schedule.escalation_days THEN "escalation"
    ELSE IF days >= schedule.legal_days THEN "legal"
    ELSE "reminder"

EscalationStage(days) ==
    IF days >= schedule.legal_days THEN "legal"
    ELSE IF days >= schedule.escalation_days THEN "escalation"
    ELSE IF days >= schedule.followup_days THEN "follow_up"
    ELSE "reminder"

PriorityTier(amount, days) ==
    IF \/ amount >= schedule.critical_priority_amount
       \/ days >= schedule.legal_days /\ amount >= schedule.high_priority_amount THEN "critical"
    ELSE IF amount >= schedule.high_priority_amount \/ days >= schedule.escalation_days THEN "high"
    ELSE IF days >= schedule.followup_days THEN "medium"
    ELSE "low"

Actionable(r) ==
    Owed(r) /\ (EscalationStage(r.days) # "reminder" \/ PriorityTier(r.amount, r.days) \in Risky)

Priorities ==
    {[type |-> EscalationStage(rows[i].days), severity |-> PriorityTier(rows[i].amount, rows[i].days),
      of |-> "row", row |-> i] : i \in {k \in DOMAIN rows : Actionable(rows[k])}}

----------------------------------------------------------------------------
(* Compliance.  A row is a placement, or a credential with the days until it  *)
(* expires; `non-exempt' contains `exempt'.                                   *)

CredentialFlags(days) ==
    IF days < 0 THEN Flag(TRUE, "credential_expired", "critical")
    ELSE IF days <= schedule.critical_days
    THEN Flag(TRUE, "credential_expiring_critical", "high")
    ELSE Flag(days <= schedule.warning_days, "credential_expiring_warning", "medium")

HasExempt(classification) == classification \in {"exempt", "non-exempt"}

OvertimeFlags(p) ==
    Flag(HasExempt(p.classification) /\ p.ot > 0, "exempt_with_overtime", "high")
    \cup Flag(p.hours > schedule.overtime_hours /\ p.ot = 0 /\ ~HasExempt(p.classification),
              "missing_overtime", "medium")

ContractFlags(p) ==
    Flag(p.months # Unset /\ p.max_months > 0 /\ p.months > p.max_months,
         "contract_duration_exceeded", "high")
    \cup Flag(p.max_hours > 0 /\ p.cumulative > p.max_hours, "contract_hours_exceeded", "high")

WorkerFlags(p) ==
    Flag(p.classification \in {"1099", "contractor"} /\ (p.tenure > 12 \/ p.exclusive),
         "worker_misclassification_risk", "medium")

Violations ==
    UNION {On("row", i, IF rows[i].expires # Unset THEN CredentialFlags(rows[i].expires)
                        ELSE OvertimeFlags(rows[i]) \cup ContractFlags(rows[i]) \cup WorkerFlags(rows[i])) :
           i \in DOMAIN rows}

----------------------------------------------------------------------------
(* The run.                                                                  *)

\* config_overrides: the planners give none.
Override ==
    /\ stage = "called" /\ asked_by = "call"
    /\ IF desk = "risk_alert"
       THEN /\ \E o \in RiskOverrides : cfg' = ApplyOverride(cfg, o.key, o.value)
            /\ UNCHANGED schedule
       ELSE schedule' \in Schedules /\ UNCHANGED cfg
    /\ UNCHANGED <<desk, asked_by, rows, postings, stage, found, human_review_required, actions>>

NothingGiven == rows = << >> /\ postings = << >>

Analyse(where, what, review, next) ==
    /\ desk = where /\ stage = "called" /\ ~NothingGiven
    /\ found' = what
    /\ human_review_required' = review
    /\ stage' = IF review THEN next ELSE "ended"
    /\ UNCHANGED <<desk, asked_by, rows, postings, cfg, schedule, actions>>

analyze_node == Analyse("risk_alert", Risks, \E r \in Risks : r.severity = "high", "review")
prioritize_node == Analyse("collections", Priorities, Priorities # {}, "model")
scan_node == Analyse("compliance", Violations, Violations # {}, "model")

\* Without any input there is an error, and nothing to do.
NoInput ==
    /\ stage = "called" /\ NothingGiven
    /\ stage' = "ended"
    /\ UNCHANGED <<desk, asked_by, rows, postings, cfg, schedule, found, human_review_required, actions>>

\* The model's drafts and opinions, or its failure, change nothing that is modelled.
AskModel ==
    /\ stage = "model"
    /\ stage' = "review"
    /\ UNCHANGED <<desk, asked_by, rows, postings, cfg, schedule, found, human_review_required, actions>>

review_node ==
    /\ stage = "review"
    /\ human_review_required' = TRUE
    /\ stage' = "ended"
    /\ UNCHANGED <<desk, asked_by, rows, postings, cfg, schedule, found, actions>>

\* The mappers keep what was found.  A row of collections has no days_past_due
\* here, so that its action is of low severity.
Mapped(f) == [type |-> f.type, row |-> f.row,
              severity |-> IF desk = "collections" THEN "low" ELSE f.severity]

MakePlan ==
    /\ stage = "ended" /\ asked_by = "plan"
    /\ actions' = {Mapped(f) : f \in found}
    /\ stage' = "planned"
    /\ UNCHANGED <<desk, asked_by, rows, postings, cfg, schedule, found, human_review_required>>

AnalystNext ==
    \/ Override \/ NoInput
    \/ analyze_node \/ prioritize_node \/ scan_node
    \/ AskModel \/ review_node \/ MakePlan

AnalystSpec == AnalystInit /\ [][AnalystNext]_analystVars

----------------------------------------------------------------------------
(* Properties.                                                               *)

\* The static table of wages with the caller's over it.
Wages ==
    [s \in (DOMAIN StateWages) \cup (DOMAIN cfg.state_wages) |->
        IF s \in DOMAIN cfg.state_wages THEN cfg.state_wages[s] ELSE StateWages[s]]

Underpaid(p) ==
    \/ p.pay < cfg.minimum_wage
    \/ p.state \in DOMAIN Wages /\ p.pay < Wages[p.state]

\* Paid less than the law asks for, or paid more than is billed.
Losing(p) == p.pay > 0 /\ (Underpaid(p) \/ (p.bill > 0 /\ p.bill < p.pay))

\* A placement that pays less than the minimum wage, its state's if it names one, or costs
\* more than it brings, always reaches a person as a high risk of that very placement: in a
\* call for any wages and thresholds the caller has overridden, in a plan for the
\* platform's, which are those of no tenant and, without a state, the federal minimum
\* alone (analyze_node to _plan_risk_alert).
LossesReachAPerson ==
    desk = "risk_alert" /\ stage \in {"ended", "planned"} =>
        \A i \in DOMAIN rows : Losing(rows[i]) =>
            /\ human_review_required
            /\ \E f \in found : f.of = "row" /\ f.row = i /\ f.severity = "high"
            /\ stage = "planned" => \E a \in actions : a.row = i /\ a.severity = "high"

Rank == [low |-> 1, medium |-> 2, high |-> 3, critical |-> 4]
Steps == [reminder |-> 1, follow_up |-> 2, escalation |-> 3, legal |-> 4]

\* Of two invoices, the one that is older and not smaller is not treated more
\* gently, and of two credentials neither is the one that expires first, also
\* with thresholds in an order nobody would choose
\* (prioritize_ar and check_credential_expiry test them one after the other).
OlderIsNotGentler ==
    stage \in {"ended", "planned"} =>
        /\ desk = "collections" =>
             \A i, j \in DOMAIN rows :
                Owed(rows[j]) /\ rows[i].days >= rows[j].days /\ rows[i].amount >= rows[j].amount =>
                    /\ Steps[EscalationStage(rows[i].days)] >= Steps[EscalationStage(rows[j].days)]
                    /\ \A f \in found : f.row = j =>
                         \E g \in found : g.row = i /\ Rank[g.severity] >= Rank[f.severity]
        /\ desk = "compliance" =>
             \A i, j \in DOMAIN rows :
                rows[i].expires # Unset /\ rows[j].expires # Unset
                /\ rows[i].expires <= rows[j].expires =>
                    \A f \in found : f.row = j =>
                        \E g \in found : g.row = i /\ Rank[g.severity] >= Rank[f.severity]
=============================================================================
