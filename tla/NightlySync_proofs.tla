------------------------- MODULE NightlySync_proofs -------------------------
(***************************************************************************)
(* What holds of the nightly job over any of the tables, whatever is edited  *)
(* meanwhile and at whatever step a job dies: when one ends, the rows point  *)
(* to rows that are there.                                                   *)
(***************************************************************************)
EXTENDS NightlySync, WellFoundedInduction, TLAPS

LEMMA Constants ==
    /\ Synced \subseteq DOMAIN TableOf /\ Synced # {}
    /\ MaxTime \in Nat /\ MaxTime > 0 /\ MaxEdits \in Nat /\ MaxFaults \in Nat
    /\ None \notin Record /\ None \notin [Groups -> Version]
BY NightlyAssumption, NoneAssumption

-----------------------------------------------------------------------------
(* The table the job is at.                                                  *)

LEMMA PlaceType ==
    ASSUME NEW t \in Synced
    PROVE  Place(t) \in Nat
<1>1. DOMAIN Order = 1..13  BY DEF Order
<1>2. \A u \in DOMAIN TableOf :
        u \in {"placements", "billable_charges", "bill_masters", "bill_master_transactions",
               "payable_charges", "pay_masters", "pay_master_transactions",
               "client_corporations", "job_orders", "candidates", "timesheets",
               "timesheet_entries", "invoices"}
  BY Zenon DEF TableOf
<1>3. \E i \in 1..13 : Order[i] = t
  BY <1>2, Constants DEF Order
<1>4. Place(t) \in 1..13
  BY <1>1, <1>3 DEF Place
<1> QED  BY <1>4

\* While there is a table to do, the job is at one of them.
LEMMA CurrentIsToDo ==
    ASSUME night.todo \subseteq Synced, night.todo # {}
    PROVE  Current \in night.todo /\ Current \in Synced
<1> DEFINE places == {Place(t) : t \in night.todo}
<1>1. places \in SUBSET Nat /\ places # {}  BY PlaceType
<1>2. PICK p \in places : \A q \in places : <<q, p>> \notin OpToRel(<, Nat)
  BY <1>1, WFMin, NatLessThanWellFounded, Zenon
<1>3. PICK t \in night.todo : p = Place(t)  OBVIOUS
<1>4. \A u \in night.todo : ~(Place(u) < Place(t))
  <2>1. \A q \in places : q \in Nat  BY <1>1
  <2>2. \A q \in places : ~(q < p)  BY <1>2, <2>1 DEF OpToRel
  <2> QED  BY <1>3, <2>2
<1>5. night.todo \cap Before(t) = {}  BY <1>4 DEF Before
<1>6. Current \in night.todo  BY <1>3, <1>5 DEF Current
<1> QED  BY <1>6

-----------------------------------------------------------------------------
(* What a job relies on.                                                     *)

\* A row is of a record, and a record points to records.
Sourced ==
    \A t \in Synced :
        /\ row[t] # None => source[t] # None
        /\ source[t] # None => \A u \in Refs(t) : source[u] # None
        /\ source[t] # None => source[t].version <= edits

\* What is not fetched because it was last changed before its last sync, has a row.
Old(t) == TableOf[t].incremental /\ source[t].modified < last_synced_at[t]
Base == \A t \in Synced : (source[t] # None /\ t \notin missed /\ Old(t)) => row[t] # None

\* The tables that are done have a row for what was there when the job began.
Done ==
    night.step # "idle" => \A t \in Synced \ night.todo :
        (source[t] # None /\ t \notin missed /\ source[t].modified < night.began) => row[t] # None

\* The table the job is at: what was fetched, and what it tells of the record.
AtTable ==
    /\ night.step = "fetch" => ~night.edited
    /\ night.step \in {"upsert", "record"} =>
        /\ night.got # None => source[Current] # None
        /\ night.edited => source[Current] # None /\ source[Current].modified >= night.began
        /\ (~night.edited /\ night.got = None) => source[Current] = None \/ Old(Current)
    /\ (night.step = "record" /\ night.got # None) => row[Current] # None

NightInv == Sourced /\ Base /\ Done /\ AtTable

Jobs == [step : {"idle", "fetch", "upsert", "record"}, todo : SUBSET Synced,
         began : 0..now, got : Record \cup {None}, edited : BOOLEAN]

LEMMA StepType ==
    ASSUME TypeOK, NightInv, [Next]_vars
    PROVE  TypeOK'
<1> USE DEF Version
<1>1. /\ now \in Nat /\ now > 0 /\ now <= MaxTime /\ night \in Jobs
      /\ night.todo \subseteq Synced
      /\ night.step = "idle" <=> night.todo = {}
  BY Constants DEF TypeOK, Jobs
<1>2. CASE Tick
  <2>1. now' \in 1..MaxTime /\ now' >= now  BY <1>1, <1>2, Constants DEF Tick
  <2>2. last_synced_at' \in [Synced -> 0..now']  BY <1>1, <1>2, <2>1 DEF Tick, TypeOK
  <2>3. night' \in Jobs'  BY <1>1, <1>2, <2>1 DEF Tick, Jobs, TypeOK
  <2> QED  BY <1>2, <2>1, <2>2, <2>3 DEF Tick, TypeOK, Jobs
<1>3. ASSUME NEW t \in Synced, Edit(t) PROVE TypeOK'
  <2>1. PICK fits \in BOOLEAN : source' = [source EXCEPT ![t] = Edited(t, fits)]
    <3>1. (IF Refusals THEN BOOLEAN ELSE {TRUE}) \subseteq BOOLEAN  OBVIOUS
    <3> QED  BY <1>3, <3>1, Zenon DEF Edit
  <2>2. edits' \in 1..MaxEdits /\ edits' = edits + 1 /\ edits \in Nat
    BY <1>3, Constants DEF Edit, TypeOK
  <2>3. [version |-> 1, fits |-> fits, modified |-> now] \in Record
    BY <1>1, <2>2, Constants DEF Record
  <2>4. Edited(t, fits) \in Record
    <3>1. CASE source[t] = None  BY <2>3, <3>1 DEF Edited
    <3>2. CASE source[t] # None
      <4>1. source[t] \in Record  BY <3>2 DEF TypeOK
      <4>2. source[t].version <= edits  BY <3>2 DEF NightInv, Sourced
      <4>3. source[t].version + 1 \in 1..MaxEdits  BY <2>2, <4>1, <4>2, Constants DEF Record
      <4>4. now \in 1..MaxTime  BY <1>1, Constants
      <4> QED  BY <3>2, <4>1, <4>3, <4>4 DEF Edited, Record
    <3> QED  BY <3>1, <3>2
  <2>5. source' \in [Synced -> Record \cup {None}]
    <3> HIDE DEF Version
    <3> QED  BY <2>1, <2>4 DEF TypeOK
  <2>6. night' \in Jobs /\ night'.step = night.step /\ night'.todo = night.todo
    <3>1. (night.edited \/ (night.step \in {"upsert", "record"} /\ Current = t)) \in BOOLEAN
      BY <1>1, Zenon DEF Jobs
    <3>2. PICK e \in BOOLEAN : night' = [night EXCEPT !.edited = e]
      BY <1>3, <3>1 DEF Edit
    <3> QED  BY <1>1, <3>2 DEF Jobs
  <2>7. missed' \subseteq Synced  BY <1>3 DEF Edit, TypeOK
  <2>8. UNCHANGED <<now, row, last_synced_at, faults>>  BY <1>3 DEF Edit
  <2> QED
    BY <2>2, <2>5, <2>6, <2>7, <2>8 DEF TypeOK, Jobs
<1>4. CASE Begins
  <2>1. night' = [Idle EXCEPT !.step = "fetch", !.todo = Synced, !.began = now]
    BY <1>4 DEF Begins
  <2>2. /\ night' \in Jobs /\ night'.step = "fetch" /\ night'.todo = Synced
    <3> HIDE DEF Version
    <3>1. now \in 0..now  BY <1>1
    <3> QED  BY <2>1, <3>1 DEF Idle, Jobs
  <2> QED  BY <1>4, <2>2, Constants DEF Begins, TypeOK, Jobs
<1>5. CASE Fetch
  <2>1. Current \in Synced  BY <1>1, <1>5, CurrentIsToDo DEF Fetch
  <2>2. PICK g \in Record \cup {None} : night' = [night EXCEPT !.step = "upsert", !.got = g]
    <3>1. source[Current] \in Record \cup {None}  BY <2>1 DEF TypeOK
    <3> QED  BY <1>5, <3>1 DEF Fetch
  <2>3. night' \in Jobs /\ night'.step = "upsert" /\ night'.todo = night.todo
    BY <1>1, <2>2 DEF Jobs
  <2> QED  BY <1>1, <1>5, <2>3 DEF Fetch, TypeOK, Jobs
<1>6. CASE Upsert
  <2>1. Current \in Synced  BY <1>1, <1>6, CurrentIsToDo DEF Upsert
  <2>2. night' \in Jobs /\ (night'.step = "idle" <=> night'.todo = {})
    <3>1. Idle \in Jobs /\ Idle.step = "idle" /\ Idle.todo = {}
      BY <1>1 DEF Idle, Jobs
    <3>2. night' = Idle \/ night' = [night EXCEPT !.step = "record"]
      BY <1>6 DEF Upsert, Refused
    <3> QED  BY <1>1, <1>6, <3>1, <3>2 DEF Upsert, Jobs
  <2>3. row' \in [Synced -> [Groups -> Version] \cup {None}]
    <3>1. CASE night.got = None \/ ~night.got.fits  BY <1>6, <3>1 DEF Upsert, TypeOK
    <3>2. CASE night.got # None /\ night.got.fits
      <4>1. night.got.version \in Version  BY <1>1, <3>2 DEF Jobs, Record
      <4>2. Upserted(Current, night.got.version) \in [Groups -> Version]
        <5>1. row[Current] = None \/ row[Current] \in [Groups -> Version]
          BY <2>1 DEF TypeOK
        <5> HIDE DEF Version
        <5> QED  BY <4>1, <5>1 DEF Upserted
      <4>3. row' = [row EXCEPT ![Current] = Upserted(Current, night.got.version)]
        BY <1>6, <3>2 DEF Upsert
      <4> HIDE DEF Version
      <4> QED  BY <4>2, <4>3 DEF TypeOK
    <3> QED  BY <3>1, <3>2
  <2> QED  BY <1>6, <2>2, <2>3 DEF Upsert, TypeOK, Jobs
<1>7. CASE RecordSync
  <2>1. Current \in Synced /\ Current \in night.todo
    BY <1>1, <1>7, CurrentIsToDo DEF RecordSync
  <2>2. night' \in Jobs /\ (night'.step = "idle" <=> night'.todo = {})
    <3>1. CASE Ends
      BY <1>1, <1>7, <3>1 DEF RecordSync, Idle, Jobs
    <3>2. CASE ~Ends
      <4>1. night' = GoesOn  BY <1>7, <3>2 DEF RecordSync
      <4>2. night.todo \ {Current} # {}  BY <2>1, <3>2 DEF Ends
      <4>3. /\ night' \in Jobs /\ night'.step = "fetch"
            /\ night'.todo = night.todo \ {Current}
        BY <1>1, <4>1 DEF GoesOn, Jobs
      <4> QED  BY <4>2, <4>3
    <3> QED  BY <3>1, <3>2
  <2>3. last_synced_at' \in [Synced -> 0..now]
    <3>1. last_synced_at \in [Synced -> 0..now] /\ now \in 0..now  BY <1>1 DEF TypeOK
    <3> QED  BY <1>7, <3>1 DEF RecordSync
  <2>4. missed' \subseteq Synced  BY <1>7, <2>1 DEF RecordSync, TypeOK
  <2> QED  BY <1>7, <2>2, <2>3, <2>4 DEF RecordSync, TypeOK, Jobs
<1>8. CASE Fails
  <2>1. Idle \in Jobs /\ Idle.step = "idle" /\ Idle.todo = {}
    BY <1>1 DEF Idle, Jobs
  <2> QED  BY <1>8, <2>1, Constants DEF Fails, TypeOK, Jobs
<1>9. CASE UNCHANGED vars  BY <1>9 DEF vars, TypeOK
<1> QED  BY <1>2, <1>3, <1>4, <1>5, <1>6, <1>7, <1>8, <1>9 DEF Next, Job

\* What refers to the table the job is at is about the same table while the job has the
\* same to do.
LEMMA SameTable == night'.todo = night.todo => Current' = Current
BY DEF Current

LEMMA RefsType == \A t \in Synced : Refs(t) \subseteq Synced
BY DEF Refs

\* Bullhorn: an edit is later than any sync there was and than the beginning of the job.
LEMMA EditKeeps ==
    ASSUME TypeOK, NightInv, NEW t \in Synced, Edit(t)
    PROVE  NightInv'
<1>1. UNCHANGED <<now, row, last_synced_at>> /\ missed' = missed \ {t}
  BY DEF Edit
<1>2. /\ night \in Jobs /\ now \in Nat /\ edits \in Nat /\ edits' = edits + 1
      /\ night.began \in 0..now /\ \A u \in Synced : last_synced_at[u] \in 0..now
  BY Constants DEF Edit, TypeOK, Jobs
<1>3. PICK fits \in BOOLEAN : source' = [source EXCEPT ![t] = Edited(t, fits)]
  <2>1. (IF Refusals THEN BOOLEAN ELSE {TRUE}) \subseteq BOOLEAN  OBVIOUS
  <2> QED  BY <2>1, Zenon DEF Edit
<1>4. \A u \in Synced \ {t} : source'[u] = source[u]
  BY <1>3 DEF TypeOK
<1>5. source'[t] # None /\ source'[t].modified = now /\ source'[t].version <= edits'
  <2>1. source'[t] = Edited(t, fits)  BY <1>3 DEF TypeOK
  <2>2. CASE source[t] = None
    <3>1. source'[t] = [version |-> 1, fits |-> fits, modified |-> now]
      BY <2>1, <2>2 DEF Edited
    <3>2. [version |-> 1, fits |-> fits, modified |-> now] # None
      <4>1. 1 \in Version  BY <1>2, Constants DEF Version, Edit
      <4>2. now \in 1..MaxTime  BY DEF TypeOK
      <4>3. [version |-> 1, fits |-> fits, modified |-> now] \in Record
        BY <4>1, <4>2 DEF Record
      <4> QED  BY <4>3, Constants
    <3> QED  BY <1>2, <3>1, <3>2
  <2>3. CASE source[t] # None
    <3>1. source[t] \in Record /\ source[t].version <= edits
      BY <2>3 DEF TypeOK, NightInv, Sourced
    <3>2. source'[t] = [source[t] EXCEPT !.version = @ + 1, !.fits = fits, !.modified = now]
      BY <2>1, <2>3 DEF Edited
    <3>3. source'[t].modified = now /\ source'[t].version = source[t].version + 1
      BY <3>1, <3>2 DEF Record
    <3>4. source[t].version + 1 \in Version
      BY <1>2, <3>1, Constants DEF Edit, Record, Version, TypeOK
    <3>5. source'[t] \in Record
      <4>1. now \in 1..MaxTime  BY DEF TypeOK
      <4> QED  BY <3>1, <3>2, <3>4, <4>1 DEF Record
    <3>6. source'[t].version <= edits'  BY <1>2, <3>1, <3>3, <3>4 DEF Version, Record
    <3> QED  BY <3>3, <3>5, <3>6, Constants
  <2> QED  BY <2>2, <2>3
<1>6. /\ night'.step = night.step /\ night'.todo = night.todo /\ night'.got = night.got
      /\ night'.began = night.began
  BY <1>2 DEF Edit, Jobs
<1>7. Current' = Current  BY <1>6, SameTable
<1>8. night'.edited <=> night.edited \/ (night.step \in {"upsert", "record"} /\ Current = t)
  <2>1. night' = [night EXCEPT !.edited = night.edited
                          \/ (night.step \in {"upsert", "record"} /\ Current = t)]
    BY DEF Edit
  <2>2. night'.edited = (night.edited \/ (night.step \in {"upsert", "record"} /\ Current = t))
    BY <1>2, <2>1 DEF Jobs
  <2> QED  BY <2>2
<1>9. Sourced'
  <2> SUFFICES ASSUME NEW u \in Synced
               PROVE  /\ row[u] # None => source'[u] # None
                      /\ source'[u] # None => \A v \in Refs(u) : source'[v] # None
                      /\ source'[u] # None => source'[u].version <= edits'
    BY <1>1 DEF Sourced
  <2>1. row[u] # None => source'[u] # None  BY <1>4, <1>5 DEF NightInv, Sourced
  <2>2. source'[u] # None => \A v \in Refs(u) : source'[v] # None
    <3>1. \A v \in Synced : source[v] # None => source'[v] # None  BY <1>4, <1>5
    <3>2. u = t => \A v \in Refs(u) : source[v] # None  BY DEF Edit
    <3> QED  BY <1>4, <3>1, <3>2, RefsType DEF NightInv, Sourced
  <2>3. source'[u] # None => source'[u].version <= edits'
    <3>1. CASE u = t  BY <1>5, <3>1
    <3>2. CASE u # t
      <4>1. source'[u] = source[u]  BY <1>4, <3>2
      <4>2. source[u] # None => source[u] \in Record /\ source[u].version <= edits
        BY DEF TypeOK, NightInv, Sourced
      <4> QED  BY <1>2, <4>1, <4>2 DEF Record, Version
    <3> QED  BY <3>1, <3>2
  <2> QED  BY <2>1, <2>2, <2>3
<1>10. \A u \in Synced : (source'[u] # None /\ source'[u].modified < now) => u # t
  BY <1>2, <1>5
<1>11. Base'
  <2> SUFFICES ASSUME NEW u \in Synced, source'[u] # None, u \notin missed', Old(u)'
               PROVE  row[u] # None
    BY <1>1 DEF Base
  <2>1. u # t  BY <1>1, <1>2, <1>5 DEF Old
  <2> QED  BY <1>1, <1>4, <2>1 DEF Old, NightInv, Base
<1>12. Done'
  <2> SUFFICES ASSUME night.step # "idle", NEW u \in Synced \ night.todo,
                      source'[u] # None, u \notin missed', source'[u].modified < night.began
               PROVE  row[u] # None
    BY <1>1, <1>6 DEF Done
  <2>1. u # t  BY <1>2, <1>5
  <2> QED  BY <1>1, <1>4, <2>1 DEF NightInv, Done
<1>13. AtTable'
  <2>1. night.step = "fetch" => ~night'.edited
    BY <1>8 DEF NightInv, AtTable
  <2>2. (night.step = "record" /\ night.got # None) => row[Current] # None
    BY DEF NightInv, AtTable
  <2> SUFFICES ASSUME night.step \in {"upsert", "record"}
               PROVE  /\ night.got # None => source'[Current] # None
                      /\ night'.edited => /\ source'[Current] # None
                                          /\ source'[Current].modified >= night.began
                      /\ (~night'.edited /\ night.got = None)
                              => source'[Current] = None \/ Old(Current)'
    BY <1>1, <1>6, <1>7, <2>1, <2>2, Zenon DEF AtTable
  <2>3. Current \in Synced
    BY CurrentIsToDo DEF TypeOK
  <2>4. CASE Current = t
    BY <1>2, <1>5, <1>8, <2>4
  <2>5. CASE Current # t
    <3>1. source'[Current] = source[Current]  BY <1>4, <2>3, <2>5
    <3>2. Old(Current)' <=> Old(Current)
      BY <1>1, <1>7, <3>1 DEF Old
    <3>3. night'.edited <=> night.edited  BY <1>8, <2>5
    <3> QED  BY <3>1, <3>2, <3>3 DEF NightInv, AtTable
  <2> QED  BY <2>4, <2>5
<1> QED  BY <1>9, <1>11, <1>12, <1>13 DEF NightInv

LEMMA FetchKeeps ==
    ASSUME TypeOK, NightInv, Fetch
    PROVE  NightInv'
<1>1. UNCHANGED <<now, source, row, last_synced_at, edits, missed>>
  BY DEF Fetch
<1>2. night \in Jobs /\ night.step = "fetch" /\ ~night.edited
  BY DEF Fetch, NightInv, AtTable, TypeOK, Jobs
<1>3. Current \in Synced  BY <1>2, CurrentIsToDo DEF TypeOK
<1> DEFINE matches == /\ source[Current] # None
                      /\ Whole(Current) \/ source[Current].modified >= last_synced_at[Current]
<1>4. night' = [night EXCEPT !.step = "upsert",
                             !.got = IF matches THEN source[Current] ELSE None]
  BY DEF Fetch
<1>5. /\ night'.step = "upsert" /\ night'.todo = night.todo /\ night'.began = night.began
      /\ night'.got = (IF matches THEN source[Current] ELSE None)
      /\ ~night'.edited
  <2> HIDE DEF matches
  <2> QED  BY <1>2, <1>4 DEF Jobs
<1>6. Current' = Current  BY <1>5, SameTable
<1>7. Sourced' /\ Base' /\ Done'
  BY <1>1, <1>2, <1>5 DEF NightInv, Sourced, Base, Done, Old
<1>8. ~matches => source[Current] = None \/ Old(Current)
  <2> SUFFICES ASSUME ~matches, source[Current] # None PROVE Old(Current)
    OBVIOUS
  <2>1. source[Current].modified \in Nat /\ last_synced_at[Current] \in Nat
    BY <1>3 DEF TypeOK, Record
  <2> QED  BY <2>1 DEF Whole, Old
<1>9. AtTable'
  BY <1>1, <1>5, <1>6, <1>8 DEF AtTable, Old
<1> QED  BY <1>7, <1>9 DEF NightInv

\* What is written is of a record that is there, and a row stays.
LEMMA UpsertKeeps ==
    ASSUME TypeOK, NightInv, Upsert
    PROVE  NightInv'
<1>1. UNCHANGED <<now, source, last_synced_at, edits, missed>>
  BY DEF Upsert
<1>2. night \in Jobs /\ night.step = "upsert"  BY DEF Upsert, TypeOK, Jobs
<1>3. Current \in Synced  BY <1>2, CurrentIsToDo DEF TypeOK
<1>4. CASE night' = Idle /\ row' = row
  <2>1. night'.step = "idle" /\ night'.edited = FALSE  BY <1>4 DEF Idle
  <2> QED  BY <1>1, <1>4, <2>1 DEF NightInv, Sourced, Base, Done, AtTable, Old
<1>5. CASE night' = [night EXCEPT !.step = "record"]
           /\ row' = IF night.got = None THEN row
                     ELSE [row EXCEPT ![Current] = Upserted(Current, night.got.version)]
  <2>1. /\ night'.step = "record" /\ night'.todo = night.todo /\ night'.began = night.began
        /\ night'.got = night.got /\ night'.edited = night.edited
    BY <1>2, <1>5 DEF Jobs
  <2>2. Current' = Current  BY <2>1, SameTable
  <2>3. night.got # None => row'[Current] # None
    <3> SUFFICES ASSUME night.got # None PROVE row'[Current] # None
      OBVIOUS
    <3>1. night.got.version \in Version  BY <1>2 DEF Jobs, Record
    <3>2. row[Current] = None \/ row[Current] \in [Groups -> Version]
      BY <1>3 DEF TypeOK
    <3>3. Upserted(Current, night.got.version) \in [Groups -> Version]
      BY <3>1, <3>2 DEF Upserted
    <3>4. row'[Current] = Upserted(Current, night.got.version)
      BY <1>3, <1>5 DEF TypeOK
    <3> QED  BY <3>3, <3>4, Constants
  <2>4. \A u \in Synced : row[u] # None => row'[u] # None
    BY <1>3, <1>5, <2>3 DEF TypeOK
  <2>5. \A u \in Synced : row'[u] # None => row[u] # None \/ (u = Current /\ night.got # None)
    BY <1>3, <1>5 DEF TypeOK
  <2>6. night.got # None => source[Current] # None
    BY <1>2 DEF NightInv, AtTable
  <2>7. Sourced'  BY <1>1, <2>5, <2>6 DEF NightInv, Sourced
  <2>8. Base' /\ Done'  BY <1>1, <1>2, <2>1, <2>4 DEF NightInv, Base, Done, Old
  <2>9. AtTable'  BY <1>1, <1>2, <2>1, <2>2, <2>3 DEF NightInv, AtTable, Old
  <2> QED  BY <2>7, <2>8, <2>9 DEF NightInv
<1> QED  BY <1>4, <1>5 DEF Upsert, Refused

\* The table that is done has a row, or there was no record, or it was edited after the
\* job had begun.
LEMMA RecordKeeps ==
    ASSUME TypeOK, NightInv, RecordSync
    PROVE  NightInv'
<1>1. UNCHANGED <<now, source, row, edits>>
  BY DEF RecordSync
<1>2. /\ night \in Jobs /\ night.step = "record" /\ now \in Nat
      /\ night.began \in 0..now
  BY DEF RecordSync, TypeOK, Jobs
<1>3. Current \in Synced /\ Current \in night.todo
  BY <1>2, CurrentIsToDo DEF TypeOK
<1>4. /\ last_synced_at'[Current] = now
      /\ \A u \in Synced \ {Current} : last_synced_at'[u] = last_synced_at[u]
  BY <1>3 DEF RecordSync, TypeOK
<1>5. \A u \in Synced \ {Current} : u \in missed' <=> u \in missed
  BY DEF RecordSync
<1>6. /\ ~night'.edited
      /\ night'.step # "idle" => /\ night'.step = "fetch" /\ night'.began = night.began
                                 /\ night'.todo = night.todo \ {Current}
  <2>1. CASE Ends  BY <2>1 DEF RecordSync, Idle
  <2>2. CASE ~Ends
    <3>1. night' = GoesOn  BY <2>2 DEF RecordSync
    <3> QED  BY <1>2, <3>1 DEF GoesOn, Jobs
  <2> QED  BY <2>1, <2>2
<1>7. night'.step \in {"idle", "fetch"}
  BY <1>6, Zenon
<1>8. night.edited => source[Current] # None /\ source[Current].modified >= night.began
  BY <1>2 DEF NightInv, AtTable
<1>9. (night.edited /\ TableOf[Current].incremental /\ source[Current].modified < now)
          => Current \in missed'
  BY DEF RecordSync
<1>10. ASSUME source[Current] # None, Current \notin missed', ~night.edited
       PROVE  row[Current] # None
  <2>1. CASE night.got # None  BY <1>2, <2>1 DEF NightInv, AtTable
  <2>2. CASE night.got = None
    <3>1. Old(Current)  BY <1>2, <1>10, <2>2 DEF NightInv, AtTable
    <3>2. Current \notin missed  BY <1>10, <2>2 DEF RecordSync
    <3> QED  BY <1>3, <1>10, <3>1, <3>2 DEF NightInv, Base
  <2> QED  BY <2>1, <2>2
<1>11. Sourced'  BY <1>1 DEF NightInv, Sourced
<1>12. Base'
  <2> SUFFICES ASSUME NEW u \in Synced, source[u] # None, u \notin missed', Old(u)'
               PROVE  row[u] # None
    BY <1>1 DEF Base
  <2>1. CASE u = Current
    <3>1. TableOf[u].incremental /\ source[u].modified < now
      BY <1>1, <1>4, <2>1 DEF Old
    <3>2. ~night.edited  BY <1>9, <2>1, <3>1
    <3> QED  BY <1>10, <2>1, <3>2
  <2>2. CASE u # Current
    <3>1. Old(u)  BY <1>1, <1>4, <2>2 DEF Old
    <3> QED  BY <1>5, <2>2, <3>1 DEF NightInv, Base
  <2> QED  BY <2>1, <2>2
<1>13. Done'
  <2> SUFFICES ASSUME night'.step # "idle", NEW u \in Synced \ night'.todo, source[u] # None,
                      u \notin missed', source[u].modified < night.began
               PROVE  row[u] # None
    BY <1>1, <1>6 DEF Done
  <2>1. CASE u = Current
    <3>1. source[u].modified \in Nat  BY <1>3, <2>1 DEF TypeOK, Record
    <3>2. ~night.edited  BY <1>2, <1>8, <2>1, <3>1
    <3> QED  BY <1>10, <2>1, <3>2
  <2>2. CASE u # Current
    <3>1. u \in Synced \ night.todo  BY <1>6, <2>2
    <3> QED  BY <1>2, <1>5, <2>2, <3>1 DEF NightInv, Done
  <2> QED  BY <2>1, <2>2
<1>14. AtTable'  BY <1>6, <1>7 DEF AtTable
<1> QED  BY <1>11, <1>12, <1>13, <1>14 DEF NightInv

\* When a job over all entities ends, rows point to rows that are there, for whichever
\* tables are looked at: in the order of run_sync, which puts some before what they point
\* to, and across any number of jobs that stopped half way.
THEOREM RowsAreThere == Spec => PointsToRows
<1>1. Init => TypeOK /\ NightInv
  <2> SUFFICES ASSUME Init PROVE TypeOK /\ NightInv  OBVIOUS
  <2>1. TypeOK  BY Constants DEF Init, TypeOK, Idle
  <2>2. night.step = "idle" /\ ~night.edited  BY DEF Init, Idle
  <2>3. Sourced /\ Base /\ Done /\ AtTable
    BY <2>2 DEF Init, Sourced, Base, Done, AtTable
  <2> QED  BY <2>1, <2>3 DEF NightInv
<1>2. TypeOK /\ NightInv /\ [Next]_vars => TypeOK' /\ NightInv'
  <2> SUFFICES ASSUME TypeOK, NightInv, [Next]_vars PROVE TypeOK' /\ NightInv'
    OBVIOUS
  <2>1. TypeOK'  BY StepType
  <2>2. CASE UNCHANGED <<source, row, last_synced_at, edits, missed>> /\ night' = night
    <3>1. Current' = Current  BY <2>2, SameTable
    <3> QED  BY <2>1, <2>2, <3>1 DEF NightInv, Sourced, Base, Done, AtTable, Old
  <2>3. ASSUME NEW t \in Synced, Edit(t) PROVE NightInv'
    BY <2>3, EditKeeps
  <2>4. CASE Begins \/ Fails
    <3>1. UNCHANGED <<source, row, last_synced_at, edits, missed>>
      BY <2>4 DEF Begins, Fails
    <3>2. /\ ~night'.edited /\ night'.step \in {"idle", "fetch"}
          /\ night'.step = "fetch" => night'.todo = Synced
      <4>1. CASE Begins
        <5>1. night' = [Idle EXCEPT !.step = "fetch", !.todo = Synced, !.began = now]
          BY <4>1 DEF Begins
        <5>2. night'.edited = FALSE /\ night'.step = "fetch" /\ night'.todo = Synced
          BY <5>1 DEF Idle
        <5> QED  BY <5>2
      <4>2. CASE Fails
        <5>1. night'.edited = FALSE /\ night'.step = "idle"  BY <4>2 DEF Fails, Idle
        <5> QED  BY <5>1
      <4> QED  BY <2>4, <4>1, <4>2
    <3> QED  BY <2>1, <3>1, <3>2 DEF NightInv, Sourced, Base, Done, AtTable, Old
  <2>5. CASE Fetch  BY <2>1, <2>5, FetchKeeps
  <2>6. CASE Upsert  BY <2>1, <2>6, UpsertKeeps
  <2>7. CASE RecordSync  BY <2>1, <2>7, RecordKeeps
  <2> QED
    BY <2>1, <2>2, <2>3, <2>4, <2>5, <2>6, <2>7 DEF Next, Job, Tick, vars
<1>3. TypeOK /\ NightInv /\ [Next]_vars =>
        [(RecordSync /\ Ends) =>
            \A t \in Synced : \A u \in Refs(t) :
                (row[t] # None /\ source[u].modified < night.began /\ u \notin missed)
                    => row[u] # None]_vars
  <2> SUFFICES ASSUME TypeOK, NightInv, RecordSync, Ends,
                      NEW t \in Synced, NEW u \in Refs(t),
                      row[t] # None, source[u].modified < night.began, u \notin missed
               PROVE  row[u] # None
    OBVIOUS
  <2>1. u \in Synced /\ source[u] # None
    BY RefsType DEF NightInv, Sourced
  <2>2. night.step = "record" /\ night.began \in Nat
    BY DEF RecordSync, TypeOK
  <2>3. CASE u # Current
    BY <2>1, <2>2, <2>3 DEF Ends, NightInv, Done
  <2>4. CASE u = Current
    <3>1. source[u].modified \in Nat  BY <2>1 DEF TypeOK, Record
    <3>2. ~night.edited  BY <2>2, <2>4, <3>1 DEF NightInv, AtTable
    <3>3. CASE night.got # None  BY <2>2, <2>4, <3>3 DEF NightInv, AtTable
    <3>4. CASE night.got = None
      <4>1. Old(u)  BY <2>1, <2>2, <2>4, <3>2, <3>4 DEF NightInv, AtTable
      <4> QED  BY <2>1, <4>1 DEF NightInv, Base
    <3> QED  BY <3>3, <3>4
  <2> QED  BY <2>3, <2>4
<1> QED  BY <1>1, <1>2, <1>3, PTL DEF Spec, PointsToRows
=============================================================================
