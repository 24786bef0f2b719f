----------------------------- MODULE AlertReview -----------------------------
(***************************************************************************)
(* The reviewer's side of an alert: resolve_alert with a Bullhorn action     *)
(* (mark a timesheet Did-Not-Work, set or release a billing hold) and        *)
(* reverse_alert_action, which undoes the latest one.                        *)
(*                                                                          *)
(* A request runs in one database transaction but writes Bullhorn in the     *)
(* middle of it: it reads the alert (or the event to undo), GETs the entity, *)
(* POSTs it, and only then appends its events and commits.  Each of the four *)
(* is a step here.  A request that fails rolls its transaction back, also     *)
(* when it is a CHECK that refuses its row or its events; what it posted      *)
(* stays in Bullhorn.                                                        *)
(***************************************************************************)
EXTENDS Integers, Sequences, FiniteSets

CONSTANTS
    Alerts,
    Sheets,            \* Bullhorn timesheets
    Charges,           \* Bullhorn billable charges
    SheetOf,           \* alert -> its timesheet, or NoEntity (_resolve_timesheet_id)
    ChargeOf,          \* alert -> its charge, or NoEntity (_resolve_charge_id)
    NoEntity,
    Reviewers,
    SentResolutions,   \* the resolutions reviewers send
    AcceptedEvents,    \* event types the CHECK of agent_alert_events lets in
    AcceptedActors,    \* actor types it lets in
    Edited,            \* the entities people edit in Bullhorn meanwhile
    MaxRequests,       \* bound: requests in one behaviour
    MaxFaults          \* bound: no request fails half way once so many have failed

Entities == Sheets \cup Charges
Actions == {"mark_dnw", "set_hold", "release_hold"}
Resolutions == {"employee_corrected", "hitl_resolved", "excluded",
                "dismissed_false_positive"}

ASSUME ReviewAssumption ==
    /\ SheetOf \in [Alerts -> Sheets \cup {NoEntity}]
    /\ ChargeOf \in [Alerts -> Charges \cup {NoEntity}]
    /\ NoEntity \notin Entities
    /\ Sheets \cap Charges = {}
    /\ Edited \subseteq Entities
    /\ MaxRequests \in Nat
    /\ MaxFaults \in Nat

\* What Bullhorn holds of an entity: a timesheet's status and hours, a charge's
\* hold and its reason.
Marks == {"Submitted", "DidNotWork", "free", "on_hold"}
Details == {"h1", "h2", "no_reason", "staff", "staffingagent", "reinstated"}
Value == [mark : Marks, detail : Details]
NoValue == [mark |-> "none", detail |-> "none"]

Submitted(hours) == [mark |-> "Submitted", detail |-> hours]
Free == [mark |-> "free", detail |-> "no_reason"]
OnHold(reason) == [mark |-> "on_hold", detail |-> reason]

ById(e) == IF e \in Sheets THEN {Submitted("h1"), Submitted("h2")}
                           ELSE {Free, OnHold("staff")}

\* A request of a reviewer.  `target` is the index of the event to undo, `prior`
\* the prior_state the gateway read.
Request == [id : 1..MaxRequests, kind : {"resolve", "reverse"}, alert : Alerts,
            action : Actions \cup {"none"}, dry_run : BOOLEAN,
            resolution : SentResolutions \cup {"none"}, entity : Entities \cup {NoEntity},
            target : Nat, prior : Value \cup {NoValue}]

NoRequest == [id |-> 0, kind |-> "none"]

\* A row of agent_alert_events.  `of` is the request that wrote it, `undoes` the
\* index of the event a reversal names in its metadata.
Event == [type : {"action", "resolved", "reversed"}, action : Actions \cup {"none"},
          entity : Entities \cup {NoEntity}, reversal_available : BOOLEAN,
          prior : Value \cup {NoValue}, recent : BOOLEAN, of : 1..MaxRequests,
          undoes : Nat]

VARIABLES
    bullhorn,    \* entity -> its value
    state,       \* alert -> "open" or "resolved"
    resolution,  \* alert -> resolution, or "none"
    events,      \* alert -> its events, in the order of created_at
    step,        \* reviewer -> what its request has done
    req,         \* the requests in flight, by reviewer
    served,      \* how many requests were begun
    posted,      \* history: the writes Bullhorn received from requests
    failed,      \* history: ids of the requests that were answered with an error
                 \* or with nothing, after they had begun
    writer,      \* history: who wrote each entity last
    overlapped   \* history: two requests have been in flight at a time

vars == <<bullhorn, state, resolution, events, step, req, served, posted, failed,
          writer, overlapped>>

Steps == {"idle", "read", "fetched", "written"}
Post == [id : 1..MaxRequests, kind : {"resolve", "reverse"}, alert : Alerts,
         action : Actions, entity : Entities, before : Value]

TypeOK ==
    /\ bullhorn \in [Entities -> Value]
    /\ state \in [Alerts -> {"open", "resolved"}]
    /\ resolution \in [Alerts -> Resolutions \cup {"none"}]
    /\ events \in [Alerts -> Seq(Event)]
    /\ step \in [Reviewers -> Steps]
    /\ \A h \in Reviewers : step[h] # "idle" => req[h] \in Request
    /\ served \in 0..MaxRequests
    /\ posted \subseteq Post
    /\ failed \subseteq 1..MaxRequests
    /\ writer \in [Entities -> {"people", "resolve", "reverse"}]
    /\ overlapped \in BOOLEAN

Init ==
    /\ bullhorn \in {b \in [Entities -> Value] : \A e \in Entities : b[e] \in ById(e)}
    /\ state = [a \in Alerts |-> "open"]
    /\ resolution = [a \in Alerts |-> "none"]
    /\ events = [a \in Alerts |-> <<>>]
    /\ step = [h \in Reviewers |-> "idle"]
    /\ req = [h \in Reviewers |-> NoRequest]
    /\ served = 0
    /\ posted = {}
    /\ failed = {}
    /\ writer = [e \in Entities |-> "people"]
    /\ overlapped = FALSE

-----------------------------------------------------------------------------
(* The gateway's writes.                                                     *)

\* The id the gateway needs: _resolve_timesheet_id or _resolve_charge_id.
EntityFor(a, action) == IF action = "mark_dnw" THEN SheetOf[a] ELSE ChargeOf[a]

\* What the POST of an action makes of a value.  Did-Not-Work leaves the hours.
Done(action, v) ==
    CASE action = "mark_dnw"     -> [v EXCEPT !.mark = "DidNotWork"]
      [] action = "set_hold"     -> OnHold("staffingagent")
      [] action = "release_hold" -> Free

\* Mutant: undoing a Did-Not-Work puts the status back, not the hours.
StatusOnly(action, prior) ==
    CASE action = "mark_dnw"     -> Submitted("h1")
      [] action = "set_hold"     -> Free
      [] action = "release_hold" -> OnHold("reinstated")

\* What the POST of a reversal makes of it: only reverse_timesheet_dnw is given
\* the snapshot.
Undone(action, prior) ==
    CASE action = "mark_dnw"     -> prior
      [] action = "set_hold"     -> Free
      [] action = "release_hold" -> OnHold("reinstated")

EventCheck(type) == type \in AcceptedEvents /\ "human" \in AcceptedActors

EventType(action) ==
    CASE action = "mark_dnw"     -> "timesheet_marked_dnw"
      [] action = "set_hold"     -> "billable_charge_hold_set"
      [] action = "release_hold" -> "billable_charge_hold_released"

Begin(h, r) ==
    /\ step[h] = "idle"
    /\ served < MaxRequests
    /\ served' = served + 1
    /\ step' = [step EXCEPT ![h] = "read"]
    /\ req' = [req EXCEPT ![h] = r]
    /\ overlapped' = (overlapped \/ \E g \in Reviewers : step[g] # "idle")

Write(h, kind, action, v) ==
    /\ step' = [step EXCEPT ![h] = "written"]
    /\ bullhorn' = [bullhorn EXCEPT ![req[h].entity] = v]
    /\ writer' = [writer EXCEPT ![req[h].entity] = kind]
    /\ posted' = posted \cup {[id |-> req[h].id, kind |-> kind, alert |-> req[h].alert,
                               action |-> action, entity |-> req[h].entity,
                               before |-> bullhorn[req[h].entity]]}

End(h) ==
    /\ step' = [step EXCEPT ![h] = "idle"]
    /\ req' = [req EXCEPT ![h] = NoRequest]

-----------------------------------------------------------------------------
(* POST /alerts/{id}/resolve.                                                *)

\* Mutant: a resolved alert is not refused.
Present(a) == state[a] \in {"open", "resolved"}

MayResolve(a) == state[a] # "resolved"

\* The alert is read and its state checked, and the id the action needs is found;
\* without one the answer is 409.
ResolveRead(h, a, action, dry, res) ==
    /\ MayResolve(a)
    /\ action = "none" => ~dry
    /\ action # "none" /\ ~dry => EntityFor(a, action) # NoEntity
    /\ Begin(h, [id |-> served + 1, kind |-> "resolve", alert |-> a, action |-> action,
                 dry_run |-> dry, resolution |-> res,
                 entity |-> IF action = "none" \/ dry THEN NoEntity
                                                      ELSE EntityFor(a, action),
                 target |-> 0, prior |-> NoValue])
    /\ UNCHANGED <<bullhorn, state, resolution, events, posted, failed, writer>>

Resolving(h) == step[h] # "idle" /\ req[h].kind = "resolve"

\* Mutant: the event of the action is committed before the action is done.
LoggedFirst(h) ==
    /\ Resolving(h)
    /\ step[h] = "read"
    /\ req[h].entity # NoEntity
    /\ req' = [req EXCEPT ![h].prior = bullhorn[req[h].entity]]
    /\ step' = [step EXCEPT ![h] = "fetched"]
    /\ events' = [events EXCEPT ![req[h].alert] = Append(@,
          [type |-> "action", action |-> req[h].action, entity |-> req[h].entity,
           reversal_available |-> TRUE, prior |-> bullhorn[req[h].entity],
           recent |-> TRUE, of |-> req[h].id, undoes |-> 0])]
    /\ UNCHANGED <<bullhorn, state, resolution, served, posted, failed, writer, overlapped>>

\* The gateway's GET: prior_state.
ResolveFetch(h) ==
    /\ Resolving(h)
    /\ step[h] = "read"
    /\ req[h].entity # NoEntity
    /\ req' = [req EXCEPT ![h].prior = bullhorn[req[h].entity]]
    /\ step' = [step EXCEPT ![h] = "fetched"]
    /\ UNCHANGED <<bullhorn, state, resolution, events, served, posted, failed, writer, overlapped>>

\* The gateway's POST.
ResolveWrite(h) ==
    /\ Resolving(h)
    /\ step[h] = "fetched"
    /\ Write(h, "resolve", req[h].action, Done(req[h].action, bullhorn[req[h].entity]))
    /\ UNCHANGED <<state, resolution, events, req, served, failed, overlapped>>

\* The event of the action, if any, and the `resolved` event.
ResolveEvents(r) ==
    (IF r.action = "none" THEN <<>>
     ELSE <<[type |-> "action", action |-> r.action, entity |-> r.entity,
             reversal_available |-> r.prior # NoValue, prior |-> r.prior,
             recent |-> TRUE, of |-> r.id, undoes |-> 0]>>)
    \o <<[type |-> "resolved", action |-> "none", entity |-> NoEntity,
          reversal_available |-> FALSE, prior |-> NoValue, recent |-> TRUE,
          of |-> r.id, undoes |-> 0]>>

\* The CHECKs on what a resolve request inserts and updates.
ResolveAllowed(r) ==
    /\ r.action # "none" => EventCheck(EventType(r.action))
    /\ EventCheck("resolved")
    /\ r.resolution \in Resolutions

\* Mutant: the transaction may commit before the POST.
CommittedEarly(h) ==
    LET r == req[h] IN
    /\ Resolving(h)
    /\ IF r.entity = NoEntity THEN step[h] = "read" ELSE step[h] \in {"fetched", "written"}
    /\ End(h)
    /\ events' = [events EXCEPT ![r.alert] = @ \o ResolveEvents(r)]
    /\ state' = [state EXCEPT ![r.alert] = "resolved"]
    /\ resolution' = [resolution EXCEPT ![r.alert] = r.resolution]
    /\ UNCHANGED <<bullhorn, served, posted, failed, writer, overlapped>>

\* Mutant: the row is kept and the request succeeds although its events are refused.
LogOptional(h) ==
    LET r == req[h] IN
    /\ Resolving(h)
    /\ IF r.entity = NoEntity THEN step[h] = "read" ELSE step[h] = "written"
    /\ End(h)
    /\ events' = IF ResolveAllowed(r)
                 THEN [events EXCEPT ![r.alert] = @ \o ResolveEvents(r)] ELSE events
    /\ state' = [state EXCEPT ![r.alert] = "resolved"]
    /\ resolution' = [resolution EXCEPT ![r.alert] =
                        IF r.resolution \in Resolutions THEN r.resolution ELSE @]
    /\ UNCHANGED <<bullhorn, served, posted, failed, writer, overlapped>>

\* The events, transition_state and the commit; or a CHECK rejects one of them, the
\* transaction is rolled back and the answer is a 500.
ResolveCommit(h) ==
    LET r == req[h] IN
    /\ Resolving(h)
    /\ IF r.entity = NoEntity THEN step[h] = "read" ELSE step[h] = "written"
    /\ End(h)
    /\ IF ResolveAllowed(r)
       THEN /\ events' = [events EXCEPT ![r.alert] = @ \o ResolveEvents(r)]
            /\ state' = [state EXCEPT ![r.alert] = "resolved"]
            /\ resolution' = [resolution EXCEPT ![r.alert] = r.resolution]
            /\ UNCHANGED failed
       ELSE failed' = failed \cup {r.id} /\ UNCHANGED <<events, state, resolution>>
    /\ UNCHANGED <<bullhorn, served, posted, writer, overlapped>>

-----------------------------------------------------------------------------
(* POST /alerts/{id}/reverse.                                                *)

Reversible(a) == {i \in 1..Len(events[a]) : events[a][i].reversal_available}

\* _load_latest_actionable_event, and _within_reversal_window of it.
Latest(a) == CHOOSE i \in Reversible(a) : \A j \in Reversible(a) : j <= i

ReverseRead(h, a) ==
    /\ Reversible(a) # {}
    /\ LET e == events[a][Latest(a)] IN
        /\ e.recent
        /\ e.entity # NoEntity
        /\ Begin(h, [id |-> served + 1, kind |-> "reverse", alert |-> a,
                     action |-> e.action, dry_run |-> FALSE, resolution |-> "none",
                     entity |-> e.entity, target |-> Latest(a), prior |-> e.prior])
    /\ UNCHANGED <<bullhorn, state, resolution, events, posted, failed, writer>>

Reversing(h) == step[h] # "idle" /\ req[h].kind = "reverse"

\* The gateway's POST; what its GET reads is only reported.
ReverseWrite(h) ==
    /\ Reversing(h)
    /\ step[h] = "read"
    /\ Write(h, "reverse", req[h].action, Undone(req[h].action, req[h].prior))
    /\ UNCHANGED <<state, resolution, events, req, served, failed, overlapped>>

\* The `reversed` event.  The alert stays resolved.
ReverseCommit(h) ==
    LET r == req[h] IN
    /\ Reversing(h)
    /\ step[h] = "written"
    /\ End(h)
    /\ IF EventCheck("reversed")
       THEN /\ events' = [events EXCEPT ![r.alert] =
                Append(@, [type |-> "reversed", action |-> r.action, entity |-> r.entity,
                           reversal_available |-> FALSE, prior |-> NoValue,
                           recent |-> TRUE, of |-> r.id, undoes |-> r.target])]
            /\ UNCHANGED failed
       ELSE failed' = failed \cup {r.id} /\ UNCHANGED events
    /\ UNCHANGED <<bullhorn, state, resolution, served, posted, writer, overlapped>>

-----------------------------------------------------------------------------
(* The environment.                                                          *)

\* A request fails: Bullhorn does not answer (before or after it applied the
\* write), or the process dies before the commit.
RequestFails(h) ==
    /\ step[h] # "idle"
    /\ Cardinality(failed) < MaxFaults
    /\ failed' = failed \cup {req[h].id}
    /\ End(h)
    /\ UNCHANGED <<bullhorn, state, resolution, events, served, posted, writer, overlapped>>

\* The SLA timer worker closes the alert (module TimeAnomaly).
AgentCloses(a) ==
    /\ state[a] = "open"
    /\ state' = [state EXCEPT ![a] = "resolved"]
    /\ resolution' = [resolution EXCEPT ![a] = "employee_corrected"]
    /\ UNCHANGED <<bullhorn, events, step, req, served, posted, failed, writer, overlapped>>

\* REVERSAL_WINDOW_DAYS pass after an event, and so after those before it.
WindowCloses(a, i) ==
    /\ events[a][i].recent
    /\ events' = [events EXCEPT ![a] =
            [j \in 1..Len(@) |-> IF j <= i THEN [@[j] EXCEPT !.recent = FALSE] ELSE @[j]]]
    /\ UNCHANGED <<bullhorn, state, resolution, step, req, served, posted, failed, writer, overlapped>>

\* An employee corrects a timesheet, or staff sets or lifts a hold, in Bullhorn.
PeopleEdit(e) ==
    /\ e \in Edited
    /\ \E v \in ById(e) \ {bullhorn[e]} : bullhorn' = [bullhorn EXCEPT ![e] = v]
    /\ writer' = [writer EXCEPT ![e] = "people"]
    /\ UNCHANGED <<state, resolution, events, step, req, served, posted, failed, overlapped>>

-----------------------------------------------------------------------------
Next ==
    \/ \E h \in Reviewers, a \in Alerts :
        \/ \E action \in Actions \cup {"none"}, dry \in BOOLEAN, res \in SentResolutions :
              ResolveRead(h, a, action, dry, res)
        \/ ReverseRead(h, a)
    \/ \E h \in Reviewers :
        \/ ResolveFetch(h) \/ ResolveWrite(h) \/ ResolveCommit(h)
        \/ ReverseWrite(h) \/ ReverseCommit(h)
        \/ RequestFails(h)
    \/ \E a \in Alerts : AgentCloses(a) \/ \E i \in 1..Len(events[a]) : WindowCloses(a, i)
    \/ \E e \in Entities : PeopleEdit(e)

Spec == Init /\ [][Next]_vars

-----------------------------------------------------------------------------
(* Properties.                                                               *)

InFlight(id) == \E h \in Reviewers : step[h] # "idle" /\ req[h].id = id
LastWrite(p) ==
    /\ writer[p.entity] # "people"
    /\ \A q \in posted : q.entity = p.entity => q.id <= p.id
Recorded(id) == \E a \in Alerts : \E i \in 1..Len(events[a]) : events[a][i].of = id

\* A request that is answered with success has in the log what it wrote to Bullhorn,
\* whatever the CHECKs refuse, however requests overlap and whichever fail: so the 7-day
\* undo has the snapshot to work from.
AnsweredIsRecorded ==
    \A p \in posted : InFlight(p.id) \/ Recorded(p.id) \/ p.id \in failed

\* Until requests overlap, an alert is acted on once: of the requests that resolve it, all
\* but one write nothing to Bullhorn or are answered with an error.
ActsAtMostOnce ==
    ~overlapped =>
        \A a \in Alerts :
            Cardinality({p \in posted : /\ p.alert = a /\ p.kind = "resolve"
                                        /\ p.id \notin failed}) <= 1

\* Undoing a Did-Not-Work puts the timesheet back to what it was when the action it
\* undoes was written, also when another alert's action on it came before and whichever
\* requests failed, unless requests overlap or people edit timesheets meanwhile.
UndoRestoresBefore ==
    ~overlapped /\ Edited \cap Sheets = {} =>
    \A p \in posted : p.kind = "reverse" /\ p.action = "mark_dnw" /\ LastWrite(p) =>
        \E q \in posted :
            /\ q.kind = "resolve" /\ q.alert = p.alert /\ q.id < p.id
            /\ bullhorn[p.entity] = q.before

\* The last event of the log about an entity: <<alert, index>>.
About(e) == {x \in Alerts \X (1..(2 * MaxRequests)) :
                x[2] <= Len(events[x[1]]) /\ events[x[1]][x[2]].entity = e}
LastAbout(e) ==
    CHOOSE x \in About(e) : \A y \in About(e) :
        events[y[1]][y[2]].of <= events[x[1]][x[2]].of

\* What an event says of its charge: a hold was set, or its release was undone.
Holds(ev) == IF ev.type = "action" THEN ev.action = "set_hold" ELSE ev.action = "release_hold"

\* The log tells the truth about a charge: if a request that was not answered with an
\* error wrote it last, the last event about the charge is of that request, and the charge
\* is on hold exactly if that event says so; whichever requests failed before it, until
\* requests overlap.
HoldMatchesLog ==
    ~overlapped =>
        \A p \in posted :
            (p.entity \in Charges /\ LastWrite(p) /\ ~InFlight(p.id) /\ p.id \notin failed) =>
                /\ About(p.entity) # {}
                /\ LET ev == events[LastAbout(p.entity)[1]][LastAbout(p.entity)[2]] IN
                    /\ ev.of = p.id
                    /\ bullhorn[p.entity].mark = "on_hold" <=> Holds(ev)

\* What a reversal undoes is an action that an earlier request wrote to Bullhorn for that
\* alert, and that is in the log: whatever two reviewers, failures and people do meanwhile,
\* what was not done is not undone.  It may have been undone before.
UndoneWasDone ==
    \A p \in posted : p.kind = "reverse" =>
        \E q \in posted :
            /\ q.kind = "resolve" /\ q.alert = p.alert
            /\ q.action = p.action /\ q.entity = p.entity
            /\ q.id < p.id
            /\ Recorded(q.id)

-----------------------------------------------------------------------------
(* What the repository says and the schema does not let the code do.         *)

\* alerts.py: "the side effect's ``prior_state`` is stored on the event so :func:`reverse`
\* can undo it": what a request wrote to Bullhorn is in the log when it is over.
EveryActionLogged == \A p \in posted : InFlight(p.id) \/ Recorded(p.id)
=============================================================================
