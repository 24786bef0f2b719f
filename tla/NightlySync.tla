---------------------------- MODULE NightlySync ----------------------------
(***************************************************************************)
(* The nightly job over all the entity types it copies (sync/                *)
(* bullhorn_sync.py): one after another, in the order of run_sync, it reads  *)
(* the time of the entity's last sync, fetches what was modified since,      *)
(* upserts it and records the sync.  An exception ends the job.  Module      *)
(* BullhornSync has the pages of one type, its events and its consumer; here *)
(* are the order of the types, the rows they point to, and what an upsert    *)
(* does to a row that is there.                                             *)
(*                                                                          *)
(* A table stands for one record of its type.  The content of the record is  *)
(* its version, and a row holds a version for every group of columns.        *)
(***************************************************************************)
EXTENDS Naturals, FiniteSets, Sequences

CONSTANTS
    Synced,        \* the tables that are looked at
    Refusals,      \* Bullhorn may have a value that does not fit its column
    None,
    MaxTime, MaxEdits, MaxFaults  \* bounds

-----------------------------------------------------------------------------
(* The tables.                                                               *)

\* The columns, by what they are for: the day the record was added; its status and flags;
\* money, hours and texts; quantity and rate, whose product is an amount; the dates it is
\* for; its type; and the records it points to.
Groups == {"added", "status", "amount", "factors", "period", "kind", "refs"}

\* The columns that ON CONFLICT leaves as they are, the tables the row points to, and
\* whether the fetch is limited to what was modified since the last sync.
Table(kept, refs, incremental) == [kept |-> kept, refs |-> refs, incremental |-> incremental]

sync_placements ==
    Table({"added"}, {"candidates", "job_orders", "client_corporations"}, TRUE)
sync_billable_charges ==
    Table({"added", "refs"}, {"candidates", "client_corporations", "placements", "job_orders",
                              "timesheets"}, TRUE)
sync_bill_masters ==
    Table({"added", "period", "kind", "refs"}, {"billable_charges"}, TRUE)
sync_bill_master_transactions ==
    Table({"added", "factors", "period", "kind", "refs"}, {"bill_masters"}, TRUE)
sync_payable_charges ==
    Table({"added", "refs"}, {"candidates", "client_corporations", "placements", "job_orders",
                              "timesheets"}, TRUE)
sync_pay_masters == Table({"added", "kind", "refs"}, {"payable_charges"}, TRUE)
sync_pay_master_transactions ==
    Table({"added", "factors", "period", "kind", "refs"}, {"pay_masters"}, TRUE)
sync_client_corporations == Table({"added"}, {}, TRUE)
sync_job_orders == Table({"added"}, {"client_corporations"}, TRUE)
sync_candidates == Table({}, {}, FALSE)
sync_timesheets == Table({}, {"placements"}, TRUE)
sync_timesheet_entries == Table({}, {"timesheets"}, TRUE)
sync_invoices == Table({}, {}, TRUE)

\* The order of run_sync.
Order == <<"placements", "billable_charges", "bill_masters", "bill_master_transactions",
           "payable_charges", "pay_masters", "pay_master_transactions",
           "client_corporations", "job_orders", "candidates", "timesheets",
           "timesheet_entries", "invoices">>

TableOf == [placements |-> sync_placements, billable_charges |-> sync_billable_charges,
    bill_masters |-> sync_bill_masters,
    bill_master_transactions |-> sync_bill_master_transactions,
    payable_charges |-> sync_payable_charges, pay_masters |-> sync_pay_masters,
    pay_master_transactions |-> sync_pay_master_transactions,
    client_corporations |-> sync_client_corporations, job_orders |-> sync_job_orders,
    candidates |-> sync_candidates, timesheets |-> sync_timesheets,
    timesheet_entries |-> sync_timesheet_entries, invoices |-> sync_invoices]

Refs(t) == TableOf[t].refs \cap Synced
Place(t) == CHOOSE i \in DOMAIN Order : Order[i] = t
Before(t) == {u \in Synced : Place(u) < Place(t)}

ASSUME NightlyAssumption ==
    /\ Synced \subseteq DOMAIN TableOf /\ Synced # {}
    /\ Refusals \in BOOLEAN
    /\ {MaxEdits, MaxFaults} \subseteq Nat /\ MaxTime \in Nat \ {0}

-----------------------------------------------------------------------------
VARIABLES
    now,
    source,      \* Bullhorn's record of each table, or None
    row,         \* Aurora's row: a version for each group of columns, or None
    last_synced_at,  \* sync_state (0: none)
    night,       \* the job: its step, the tables it has still to do, what it has fetched, and
                 \* whether that record was edited since
    edits, faults,
    missed       \* history: tables edited between their fetch and _record_sync

vars == <<now, source, row, last_synced_at, night, edits, faults, missed>>

Version == 1..MaxEdits
Record == [version : Version, fits : BOOLEAN, modified : 1..MaxTime]

\* None is the absence of a record and of a row.
ASSUME NoneAssumption == None \notin Record /\ None \notin [Groups -> Version]

Idle == [step |-> "idle", todo |-> {}, began |-> 0, got |-> None, edited |-> FALSE]

TypeOK ==
    /\ now \in 1..MaxTime
    /\ source \in [Synced -> Record \cup {None}]
    /\ row \in [Synced -> [Groups -> Version] \cup {None}]
    /\ last_synced_at \in [Synced -> 0..now]
    /\ night \in [step : {"idle", "fetch", "upsert", "record"}, todo : SUBSET Synced,
                  began : 0..now, got : Record \cup {None}, edited : BOOLEAN]
    /\ night.step = "idle" <=> night.todo = {}
    /\ edits \in 0..MaxEdits /\ faults \in 0..MaxFaults
    /\ missed \subseteq Synced

Init ==
    /\ now = 1
    /\ source = [t \in Synced |-> None] /\ row = [t \in Synced |-> None]
    /\ last_synced_at = [t \in Synced |-> 0]
    /\ night = Idle
    /\ edits = 0 /\ faults = 0 /\ missed = {}

\* The entity the job is at.
Current == CHOOSE t \in night.todo : night.todo \cap Before(t) = {}

-----------------------------------------------------------------------------
(* Bullhorn.                                                                 *)

Tick == /\ now < MaxTime /\ now' = now + 1
        /\ UNCHANGED <<source, row, last_synced_at, night, edits, faults, missed>>

\* A record that is added, or changed.
Edited(t, fits) ==
    IF source[t] = None THEN [version |-> 1, fits |-> fits, modified |-> now]
    ELSE [source[t] EXCEPT !.version = @ + 1, !.fits = fits, !.modified = now]

\* A record is added when those it points to are there.
Edit(t) ==
    /\ edits < MaxEdits /\ edits' = edits + 1
    /\ \A u \in Refs(t) : source[u] # None
    /\ \E fits \in IF Refusals THEN BOOLEAN ELSE {TRUE} :
        source' = [source EXCEPT ![t] = Edited(t, fits)]
    /\ missed' = missed \ {t}
    /\ night' = [night EXCEPT !.edited =
                    @ \/ (night.step \in {"upsert", "record"} /\ Current = t)]
    /\ UNCHANGED <<now, row, last_synced_at, faults>>

-----------------------------------------------------------------------------
(* run_sync.                                                                 *)

\* The scheduler starts it for all entities.
Begins ==
    /\ night.step = "idle"
    /\ night' = [Idle EXCEPT !.step = "fetch", !.todo = Synced, !.began = now]
    /\ UNCHANGED <<now, source, row, last_synced_at, edits, faults, missed>>

\* Mutant: the type is fetched whole only if nothing has been synchronised.
FromFirst(t) == \A u \in Synced : last_synced_at[u] = 0

\* _get_last_synced: whether the type is fetched whole.
Whole(t) == last_synced_at[t] = 0 \/ ~TableOf[t].incremental

\* _fetch_all, or _search_all.
Fetch ==
    /\ night.step = "fetch"
    /\ LET t == Current
           matches == /\ source[t] # None
                      /\ Whole(t) \/ source[t].modified >= last_synced_at[t]
       IN  night' = [night EXCEPT !.step = "upsert",
                                  !.got = IF matches THEN source[t] ELSE None]
    /\ UNCHANGED <<now, source, row, last_synced_at, edits, faults, missed>>

\* The columns that are not updated.
Kept(t) == TableOf[t].kept

\* The row after INSERT ... ON CONFLICT DO UPDATE.
Upserted(t, version) ==
    IF row[t] = None THEN [g \in Groups |-> version]
    ELSE [g \in Groups |-> IF g \in Kept(t) THEN row[t][g] ELSE version]

\* The job after the entity it is at.
GoesOn == [night EXCEPT !.step = "fetch", !.got = None, !.edited = FALSE, !.todo = @ \ {Current}]

\* Nothing catches the exception.
Refused == night' = Idle

\* executemany is one transaction: one value that is refused, and none is written.
Upsert ==
    /\ night.step = "upsert"
    /\ IF night.got # None /\ ~night.got.fits THEN Refused /\ UNCHANGED row
       ELSE /\ row' = IF night.got = None THEN row
                      ELSE [row EXCEPT ![Current] = Upserted(Current, night.got.version)]
            /\ night' = [night EXCEPT !.step = "record"]
    /\ UNCHANGED <<now, source, last_synced_at, edits, faults, missed>>

\* The entity is the last one to do.
Ends == night.todo = {Current}

\* _record_sync takes the time itself.
RecordSync ==
    /\ night.step = "record"
    /\ last_synced_at' = [last_synced_at EXCEPT ![Current] = now]
    /\ night' = IF Ends THEN Idle ELSE GoesOn
    /\ missed' = IF /\ night.edited /\ TableOf[Current].incremental
                    /\ source[Current].modified < now
                 THEN missed \cup {Current}
                 ELSE IF night.got # None THEN missed \ {Current} ELSE missed
    /\ UNCHANGED <<now, source, row, edits, faults>>

\* The job dies, or Bullhorn or Aurora answers it with an error.
Fails ==
    /\ night.step # "idle" /\ faults < MaxFaults
    /\ faults' = faults + 1
    /\ night' = Idle
    /\ UNCHANGED <<now, source, row, last_synced_at, edits, missed>>

-----------------------------------------------------------------------------
Job == Begins \/ Fetch \/ Upsert \/ RecordSync

Next == Tick \/ Job \/ Fails \/ \E t \in Synced : Edit(t)

Spec == Init /\ [][Next]_vars

\* The scheduler starts a job every night, and a job runs until it ends.
FairSpec == Spec /\ WF_vars(Begins) /\ WF_vars(Fetch \/ Upsert \/ RecordSync)

-----------------------------------------------------------------------------
(* Properties.                                                               *)

\* When a job over all entities ends, every row points to rows that are there, also across
\* jobs that stopped half way, if what it points to was last changed before the job began
\* and not between an earlier job's fetch and _record_sync of it.
PointsToRows ==
    [][(RecordSync /\ Ends) =>
        \A t \in Synced : \A u \in Refs(t) :
            (row[t] # None /\ source[u].modified < night.began /\ u \notin missed) => row[u] # None]_vars

\* A table whose record does not fit: the jobs of all nights stop there.
Stops(t) == source[t] # None /\ ~source[t].fits /\ t \notin missed

\* Once Bullhorn is left alone, every table catches up, unless one that is before it or
\* itself stops the job, or its last change fell between its fetch and _record_sync.
CatchesUp ==
    \A t \in Synced :
        <>[](\/ source[t] = None \/ t \in missed
             \/ \E u \in Before(t) \cup {t} : Stops(u)
             \/ row[t] # None /\ \A g \in Groups \ Kept(t) : row[t][g] = source[t].version)
=============================================================================
