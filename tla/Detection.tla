----------------------------- MODULE Detection -----------------------------
(***************************************************************************)
(* The detectors of the Time Anomaly agent, for one placement.  A run of the *)
(* detect node reads the tenant's settings and the timesheet of a pay period *)
(* from Bullhorn, asks the detectors of groups A (no timesheet), B (hours    *)
(* over a limit) and C (hours unlike the usual) and stores the alert that    *)
(* the first of them proposes.  Runs overlap, periods are examined in any    *)
(* order, timesheets come late, and reviewers and the timer worker resolve   *)
(* alerts in between.                                                       *)
(*                                                                          *)
(* Periods are numbered.  The reads of one run are one step, its insert is   *)
(* another.  What the exception registry and the settings hold is written by *)
(* hand: nothing in the program inserts into the one, and the endpoint that  *)
(* should write the other fails.  Hours and percentages are whole numbers.   *)
(***************************************************************************)
EXTENDS Integers, Sequences, FiniteSets, FiniteSetsExt

CONSTANTS
    Weeks,              \* the pay periods: 1 .. Weeks
    Detectors,          \* runs that may be under way together
    Sheets,             \* the timesheets an employee may submit: [reg, ot]
    Histories,          \* sets of earlier rows of the timesheets table
    Settings,           \* the settings a tenant may have, by key (None: no row)
    Mutes,              \* rows the exception registry may be given
    Resolutions,        \* how an alert may end; the rules ask for one of them
    MaxAlerts, MaxMutes,  \* bounds
    Bad,                \* a setting whose value has the wrong type
    None                \* no timesheet, no row, NULL

ASSUME DetectionAssumption ==
    /\ {Weeks, MaxAlerts, MaxMutes} \subseteq Nat
    /\ None \notin Sheets /\ None \notin Resolutions
    /\ \A s \in Settings : s["consecutive_miss_threshold"] \in Int \cup {None, Bad}

MissTypes == {"group_a1_first_miss", "group_a2_consecutive_miss"}
OverTypes == {"group_b_total_over_limit", "group_b_ot_over_limit", "group_b_reg_over_limit"}
AlertTypes == MissTypes \cup OverTypes \cup {"group_c_variance"}

Alert == [week : 1 .. Weeks, type : AlertTypes, severity : {"medium", "high"},
          resolution : Resolutions \cup {None}]      \* None: not resolved

Idle == [step |-> "idle"]
Candidate == [type : AlertTypes, severity : {"medium", "high"}]

VARIABLES
    sheets,      \* Bullhorn's timesheet of each period, or None
    alerts,      \* agent_alerts, in the order of their insertion
    registry,    \* exception_registry, unexpired rows, oldest first
    settings,    \* agent_settings
    history,     \* the timesheets table: earlier weeks, as synchronised
    runs,        \* the graph runs under way
    doubled      \* periods that two runs examined at a time (history variable)

detectVars == <<sheets, alerts, registry, settings, history, runs, doubled>>

DetectInit ==
    /\ sheets = [w \in 1 .. Weeks |-> None]
    /\ alerts = << >>
    /\ registry = << >>
    /\ settings \in Settings
    /\ history \in Histories
    /\ runs = [d \in Detectors |-> Idle]
    /\ doubled = {}

----------------------------------------------------------------------------
(* Configuration: the platform's defaults, and the four keys that override  *)
(* them; a number of the wrong type is as good as none, a basis is any text. *)

Overridden(key, default) == IF settings[key] \in {None, Bad} THEN default ELSE settings[key]

consecutive_miss_threshold == Overridden("consecutive_miss_threshold", 2)
reg_hours_limit == Overridden("reg_hours_limit", 40)
ot_hours_limit == 20
total_hours_limit == 60
tolerance_pct == Overridden("tolerance_pct", 25)
magnitude_multiplier == 2
basis == IF settings["basis"] = None THEN "employee_history" ELSE settings["basis"]
lookback_weeks == 8

----------------------------------------------------------------------------
(* What the detectors look up.                                               *)

Unresolved(a) == a.resolution = None

\* The newest row of the registry for this alert type, or None.
Suppression(type) ==
    LET of == {i \in DOMAIN registry : registry[i].type = type}
    IN  IF of = {} THEN None ELSE registry[Max(of)]

Suppressed(type) == Suppression(type) # None

\* (mutant) Only the newest alert of the placement is looked at.
NewestOpen(week) ==
    alerts # << >> /\ alerts[Len(alerts)].week = week /\ Unresolved(alerts[Len(alerts)])

OpenAlert(week) == \E i \in DOMAIN alerts : alerts[i].week = week /\ Unresolved(alerts[i])

\* Earlier misses, whatever became of them.
PriorMisses(week) ==
    {i \in DOMAIN alerts : alerts[i].type \in MissTypes /\ alerts[i].week < week}

----------------------------------------------------------------------------
(* Group A.                                                                  *)

DetectA1(week) ==
    /\ ~Suppressed("group_a1_first_miss")
    /\ ~OpenAlert(week)
    /\ PriorMisses(week) = {}

\* (mutant) Without the lower bound, a threshold of one needs no earlier miss.
Unbounded(threshold) == threshold - 1

Needed(threshold) == IF threshold - 1 > 1 THEN threshold - 1 ELSE 1

\* The n last earlier misses by period, or all there are: rows of one period
\* come in any order.
Latest(week, n) ==
    {last \in SUBSET PriorMisses(week) :
        /\ Cardinality(last) = Min({n, Cardinality(PriorMisses(week))})
        /\ \A i \in last, j \in PriorMisses(week) \ last : alerts[j].week <= alerts[i].week}

\* Enough of them, and none that the employee has corrected.
Streak(last, n) ==
    /\ Cardinality(last) >= n
    /\ \A i \in last : alerts[i].resolution # "employee_corrected"

DetectA2(week, last) ==
    /\ ~Suppressed("group_a2_consecutive_miss")
    /\ ~OpenAlert(week)
    /\ Streak(last, Needed(consecutive_miss_threshold))

FirstMiss == [type |-> "group_a1_first_miss", severity |-> "medium"]
ConsecutiveMiss == [type |-> "group_a2_consecutive_miss", severity |-> "high"]

----------------------------------------------------------------------------
(* Group B: one variant, the most severe; if that one is muted, none.        *)

Total(sheet) == sheet.reg + sheet.ot

Variant(sheet) ==
    IF Total(sheet) > total_hours_limit THEN "group_b_total_over_limit"
    ELSE IF sheet.ot > ot_hours_limit THEN "group_b_ot_over_limit"
    ELSE IF sheet.reg > reg_hours_limit THEN "group_b_reg_over_limit"
    ELSE None

DetectB(week, sheet) ==
    /\ ~OpenAlert(week)
    /\ Variant(sheet) # None
    /\ ~Suppressed(Variant(sheet))

----------------------------------------------------------------------------
(* Group C.  A row of the history whose status is NULL fails NOT IN as well. *)

Excluding == {"DidNotWork", "Excluded", "Rejected", None}

Sample(week) ==
    {t \in history : t.week < week /\ t.week >= week - lookback_weeks /\ t.status \notin Excluding}

\* The sum of the sample's hours; the benchmark is their average.
Usual(week) == MapThenSumSet(Total, Sample(week))

\* |total - expected| / expected, with both sides multiplied by 100 and by the
\* size of the sample.
Off(sheet, week) ==
    LET off == Cardinality(Sample(week)) * Total(sheet) - Usual(week)
    IN  100 * (IF off < 0 THEN -off ELSE off)

Refires(sheet, week) ==
    LET mute == Suppression("group_c_variance")
    IN  mute # None =>
            /\ mute.magnitude # None
            /\ Off(sheet, week) >= mute.magnitude * magnitude_multiplier * Usual(week)

DetectC(week, sheet) ==
    /\ ~OpenAlert(week)
    /\ Cardinality(Sample(week)) >= 3
    /\ Usual(week) > 0
    /\ Off(sheet, week) > tolerance_pct * Usual(week)
    /\ Refires(sheet, week)

\* HistoricalAverageProvider refuses a basis it does not know, and detect_node
\* does not catch that: the run ends in an error.
KnownBasis == basis \in {"employee_history", "placement_history", "client_history"}

----------------------------------------------------------------------------
(* The detect node.                                                          *)

\* What the detectors may make of a period: a candidate or None.
Proposals(week, sheet) ==
    IF sheet = None
    THEN IF DetectA1(week) THEN {FirstMiss}
         ELSE {IF DetectA2(week, last) THEN ConsecutiveMiss ELSE None :
               last \in Latest(week, Needed(consecutive_miss_threshold))}
    ELSE {IF DetectB(week, sheet) THEN [type |-> Variant(sheet), severity |-> "medium"]
          ELSE IF KnownBasis /\ DetectC(week, sheet)
          THEN [type |-> "group_c_variance", severity |-> "medium"] ELSE None}

Examines(d, week) == runs[d] # Idle /\ runs[d].week = week

\* The settings and the timesheet are read (if Bullhorn fails, the run ends
\* and nothing has changed).
Fetch(d) ==
    /\ runs[d] = Idle
    /\ \E w \in 1 .. Weeks :
         /\ runs' = [runs EXCEPT ![d] = [step |-> "fetched", week |-> w, sheet |-> sheets[w]]]
         /\ doubled' = doubled \cup {v \in {w} : \E e \in Detectors : Examines(e, v)}
    /\ UNCHANGED <<sheets, alerts, registry, settings, history>>

Quiet(d) ==
    /\ runs[d].step = "fetched"
    /\ None \in Proposals(runs[d].week, runs[d].sheet)
    /\ runs' = [runs EXCEPT ![d] = Idle]
    /\ UNCHANGED <<sheets, alerts, registry, settings, history, doubled>>

Propose(d) ==
    /\ runs[d].step = "fetched"
    /\ \E c \in Proposals(runs[d].week, runs[d].sheet) \ {None} :
         runs' = [runs EXCEPT ![d] = [step |-> "proposed", week |-> runs[d].week,
                                      candidate |-> c]]
    /\ UNCHANGED <<sheets, alerts, registry, settings, history, doubled>>

CreateAlert(d) ==
    /\ runs[d].step = "proposed"
    /\ Len(alerts) < MaxAlerts
    /\ alerts' = Append(alerts, [week |-> runs[d].week, type |-> runs[d].candidate.type,
                                 severity |-> runs[d].candidate.severity, resolution |-> None])
    /\ runs' = [runs EXCEPT ![d] = Idle]
    /\ UNCHANGED <<sheets, registry, settings, history, doubled>>

\* The employee submits, the worker or a reviewer resolves, somebody mutes or unmutes.
Submit(w) ==
    /\ sheets[w] = None
    /\ \E s \in Sheets : sheets' = [sheets EXCEPT ![w] = s]
    /\ UNCHANGED <<alerts, registry, settings, history, runs, doubled>>

Resolve(i) ==
    /\ Unresolved(alerts[i])
    /\ \E r \in Resolutions :
         /\ r = "employee_corrected" => sheets[alerts[i].week] # None
         /\ alerts' = [alerts EXCEPT ![i].resolution = r]
    /\ UNCHANGED <<sheets, registry, settings, history, runs, doubled>>

Mute ==
    /\ Len(registry) < MaxMutes
    /\ \E m \in Mutes : registry' = Append(registry, m)
    /\ UNCHANGED <<sheets, alerts, settings, history, runs, doubled>>

Expire ==
    /\ registry # << >>
    /\ registry' = Tail(registry)
    /\ UNCHANGED <<sheets, alerts, settings, history, runs, doubled>>

DetectNext ==
    \/ \E d \in Detectors : Fetch(d) \/ Quiet(d) \/ Propose(d) \/ CreateAlert(d)
    \/ \E w \in 1 .. Weeks : Submit(w)
    \/ \E i \in DOMAIN alerts : Resolve(i)
    \/ Mute
    \/ Expire

DetectSpec == DetectInit /\ [][DetectNext]_detectVars

----------------------------------------------------------------------------
(* Properties.                                                               *)

\* Every state the detectors can bring about is well typed.
DetectTypeOK ==
    /\ sheets \in [1 .. Weeks -> Sheets \cup {None}]
    /\ alerts \in Seq(Alert) /\ Len(alerts) <= MaxAlerts
    /\ registry \in Seq(Mutes) /\ Len(registry) <= MaxMutes
    /\ settings \in Settings
    /\ history \in Histories
    /\ doubled \subseteq 1 .. Weeks
    /\ \A d \in Detectors :
         \/ runs[d] = Idle
         \/ runs[d] \in [step : {"fetched"}, week : 1 .. Weeks, sheet : Sheets \cup {None}]
         \/ runs[d] \in [step : {"proposed"}, week : 1 .. Weeks, candidate : Candidate]

\* A consecutive miss (high severity, four hours less for the employee) follows
\* a first miss of an earlier period, whatever the order in which periods are
\* examined, the overlap of runs, the threshold and what is muted
\* (detect_group_a2 counts rows that only detect_group_a1 starts).
FirstMissFirst ==
    \A i \in DOMAIN alerts :
        alerts[i].type = "group_a2_consecutive_miss" =>
            \E j \in 1 .. i : /\ alerts[j].type = "group_a1_first_miss"
                             /\ alerts[j].week < alerts[i].week

\* At most one alert of a period is unresolved, unless two runs examined the
\* period at a time.  It is what _has_open_alert_for_period is for.
OneOpen ==
    \A i, j \in DOMAIN alerts :
        /\ Unresolved(alerts[i]) /\ Unresolved(alerts[j])
        /\ alerts[i].week = alerts[j].week /\ alerts[i].week \notin doubled
        => i = j

\* What detect_group_a1 says of itself: it fires when there is no timesheet and
\* no missing-timesheet alert of the cycle before, unless it is muted or an
\* alert of the period is open.
FirstMissRaised ==
    [][\A d \in Detectors :
        (/\ runs[d].step = "fetched" /\ runs'[d] = Idle
         /\ runs[d].sheet = None
         /\ ~Suppressed("group_a1_first_miss")
         /\ ~OpenAlert(runs[d].week))
        => \E i \in PriorMisses(runs[d].week) : alerts[i].week = runs[d].week - 1]_detectVars
=============================================================================
