-------------------------- MODULE AlertReview_proofs --------------------------
(***************************************************************************)
(* What holds of reviewers' actions on Bullhorn and their reversals, for any *)
(* number of alerts, entities and reviewers, any overlap of their requests,  *)
(* any failures, whatever the schema refuses and people edit meanwhile: the  *)
(* log knows every write of a request that was answered with success, and    *)
(* what is undone was done.  Until requests overlap, an alert is acted on    *)
(* once, an undo restores what was there, and the log tells which charges    *)
(* are on hold, but for what requests answered with an error have written.   *)
(***************************************************************************)
EXTENDS AlertReview, FiniteSetTheorems, SequenceTheorems, WellFoundedInduction, TLAPS

-----------------------------------------------------------------------------
(* The operators.                                                            *)

LEMMA Greatest ==
    ASSUME NEW n \in Nat, NEW S \in SUBSET (1 .. n), S # {}
    PROVE  \E m \in S : \A i \in S : i <= m
<1> DEFINE T == {n - i : i \in S}
<1>0. \A i \in S : i \in Nat /\ i <= n /\ n - i \in Nat  OBVIOUS
<1>1. T \subseteq Nat /\ T # {}  BY <1>0
<1>2. PICK m \in T : \A i \in T : <<i, m>> \notin OpToRel(<, Nat)
  BY <1>1, WFMin, NatLessThanWellFounded, Zenon
<1>3. \A i \in T : ~(i < m)
  BY <1>1, <1>2 DEF OpToRel
<1>4. PICK k \in S : m = n - k  BY <1>2
<1>5. ASSUME NEW i \in S PROVE i <= k
  <2>1. n - i \in T  OBVIOUS
  <2> QED  BY <1>0, <1>3, <1>4, <2>1
<1> QED  BY <1>5

LEMMA EntityTypes ==
    ASSUME NEW a \in Alerts, NEW action \in Actions
    PROVE  EntityFor(a, action) \in Entities \cup {NoEntity}
BY ReviewAssumption DEF EntityFor, Entities

LEMMA DoneType ==
    ASSUME NEW action \in Actions, NEW v \in Value
    PROVE  Done(action, v) \in Value /\ Undone(action, v) \in Value
BY DEF Done, Undone, Actions, Value, Marks, Details, OnHold, Free

\* No value is the one that stands for none.
LEMMA NoValueIsNone == NoValue \notin Value
<1>1. \A v \in Value : v.mark \in Marks  BY DEF Value
<1>2. NoValue.mark \notin Marks  BY DEF NoValue, Marks
<1> QED  BY <1>1, <1>2

LEMMA LatestIsReversible ==
    ASSUME NEW a \in Alerts, events[a] \in Seq(Event), Reversible(a) # {}
    PROVE  /\ Latest(a) \in 1 .. Len(events[a])
           /\ events[a][Latest(a)].reversal_available
<1>1. Reversible(a) \in SUBSET (1 .. Len(events[a])) /\ Len(events[a]) \in Nat
  BY DEF Reversible
<1>2. \E m \in Reversible(a) : \A i \in Reversible(a) : i <= m
  BY <1>1, Greatest
<1>3. Latest(a) \in Reversible(a)
  BY <1>2 DEF Latest
<1> QED  BY <1>3 DEF Reversible

-----------------------------------------------------------------------------
(* The inductive invariant.                                                  *)

\* The action was posted for the alert by request id.
WasPosted(a, action, entity, id) ==
    \E q \in posted : /\ q.kind = "resolve" /\ q.alert = a
                      /\ q.action = action /\ q.entity = entity /\ q.id = id

\* A request that resolves: what it acts on, and what it has read and written.
ResolveFits(h) ==
    LET r == req[h] IN
    /\ r.entity # NoEntity => r.action \in Actions
    /\ step[h] = "read" => r.prior = NoValue
    /\ step[h] # "read" => r.entity # NoEntity /\ r.prior \in Value
    /\ step[h] = "written" => WasPosted(r.alert, r.action, r.entity, r.id)

\* A request that undoes: the action was written by a request that is recorded.
ReverseFits(h) ==
    LET r == req[h] IN
    /\ r.entity # NoEntity /\ r.action \in Actions /\ r.prior \in Value
    /\ step[h] \in {"read", "written"}
    /\ \E id \in 1 .. r.id - 1 : WasPosted(r.alert, r.action, r.entity, id) /\ Recorded(id)

Fits(h) ==
    /\ req[h].id <= served
    /\ req[h].kind = "resolve" => ResolveFits(h)
    /\ req[h].kind = "reverse" => ReverseFits(h)

RequestsFit ==
    /\ DOMAIN req = Reviewers
    /\ \A h \in Reviewers : step[h] # "idle" => Fits(h)

\* An event that may be undone is about an action that was posted.
EventFits(a, e) ==
    /\ e.of <= served
    /\ e.reversal_available =>
         /\ e.entity # NoEntity /\ e.action \in Actions /\ e.prior \in Value
         /\ WasPosted(a, e.action, e.entity, e.of)

LogFits == \A a \in Alerts : \A i \in 1 .. Len(events[a]) : EventFits(a, events[a][i])

ReviewInv == TypeOK /\ RequestsFit /\ LogFits

-----------------------------------------------------------------------------
(* Steps that leave the log alone.                                           *)

LEMMA PostedStays ==
    ASSUME posted \subseteq posted', NEW a, NEW action, NEW entity, NEW id,
           WasPosted(a, action, entity, id)
    PROVE  WasPosted(a, action, entity, id)'
BY DEF WasPosted

LEMMA EventStays ==
    ASSUME posted \subseteq posted', served \in Nat, served' \in Nat, served <= served',
           NEW a, NEW e \in Event, EventFits(a, e)
    PROVE  EventFits(a, e)'
<1>1. e.of \in Nat  BY DEF Event
<1> QED  BY <1>1, PostedStays DEF EventFits

LEMMA LogStays ==
    ASSUME LogFits, TypeOK, UNCHANGED events, posted \subseteq posted', served <= served',
           served' \in Nat
    PROVE  /\ LogFits'
           /\ \A id : Recorded(id)' <=> Recorded(id)
<1>1. \A a \in Alerts : \A i \in 1 .. Len(events[a]) : events[a][i] \in Event
  BY DEF TypeOK
<1>2. ASSUME NEW a \in Alerts, NEW e \in Event, EventFits(a, e) PROVE EventFits(a, e)'
  BY <1>2, EventStays DEF TypeOK
<1> QED  BY <1>1, <1>2 DEF LogFits, Recorded

\* A reviewer who is not the one that acts.
LEMMA OthersFit ==
    ASSUME RequestsFit, TypeOK, NEW g \in Reviewers, step'[g] = step[g], req'[g] = req[g],
           posted \subseteq posted', served <= served', served' \in Nat,
           \A id : Recorded(id) => Recorded(id)', step[g] # "idle"
    PROVE  Fits(g)'
<1>1. req[g].id \in Nat /\ served \in Nat
  <2>1. req[g] \in Request  BY DEF TypeOK
  <2> QED  BY <2>1 DEF Request, TypeOK
<1>2. req'[g].id <= served'
  BY <1>1 DEF RequestsFit, Fits
<1>3. ASSUME req[g].kind = "resolve" PROVE ResolveFits(g)'
  BY <1>3, PostedStays DEF RequestsFit, Fits, ResolveFits
<1>4. ASSUME req[g].kind = "reverse" PROVE ReverseFits(g)'
  <2>1. ReverseFits(g)  BY <1>4 DEF RequestsFit, Fits
  <2>2. PICK id \in 1 .. req[g].id - 1 :
           WasPosted(req[g].alert, req[g].action, req[g].entity, id) /\ Recorded(id)
    BY <2>1 DEF ReverseFits
  <2>3. WasPosted(req[g].alert, req[g].action, req[g].entity, id)' /\ Recorded(id)'
    BY <2>2, PostedStays
  <2> QED  BY <2>1, <2>3 DEF ReverseFits
<1> QED  BY <1>2, <1>3, <1>4 DEF Fits

-----------------------------------------------------------------------------
(* The steps of a request.                                                   *)

LEMMA BeginStarts ==
    ASSUME ReviewInv, NEW h \in Reviewers, NEW r \in Request, Begin(h, r), r.id = served + 1,
           UNCHANGED <<bullhorn, state, resolution, events, posted, failed, writer>>,
           IF r.kind = "resolve"
           THEN (r.entity # NoEntity => r.action \in Actions) /\ r.prior = NoValue
           ELSE /\ r.entity # NoEntity /\ r.action \in Actions /\ r.prior \in Value
                /\ \E id \in 1 .. r.id - 1 :
                     WasPosted(r.alert, r.action, r.entity, id) /\ Recorded(id)
    PROVE  ReviewInv'
<1> USE DEF ReviewInv
<1>1. /\ step[h] = "idle" /\ served' = served + 1 /\ served' \in 0 .. MaxRequests
      /\ step' = [step EXCEPT ![h] = "read"] /\ req' = [req EXCEPT ![h] = r]
      /\ served \in Nat /\ served' \in Nat
  BY ReviewAssumption DEF Begin, TypeOK
<1>2. TypeOK'
  <2>1. overlapped' \in BOOLEAN  BY Zenon DEF Begin
  <2> QED  BY <1>1, <2>1 DEF TypeOK, Steps, RequestsFit
<1>3. LogFits' /\ \A id : Recorded(id)' <=> Recorded(id)
  BY <1>1, LogStays
<1>4. req'[h] = r /\ step'[h] = "read"
  BY <1>1 DEF TypeOK, RequestsFit
<1>5. Fits(h)'
  <2>1. r.kind \in {"resolve", "reverse"}
    BY DEF Request
  <2>2. CASE r.kind = "resolve"
    <3>1. ResolveFits(h)'
      BY <1>4, <2>2 DEF ResolveFits
    <3> QED  BY <1>1, <1>4, <2>2, <3>1 DEF Fits
  <2>3. CASE r.kind = "reverse"
    <3>1. \E id \in 1 .. r.id - 1 :
             WasPosted(r.alert, r.action, r.entity, id)' /\ Recorded(id)'
      BY <1>3, <2>3, PostedStays
    <3>2. ReverseFits(h)'
      BY <1>4, <2>3, <3>1 DEF ReverseFits
    <3> QED  BY <1>1, <1>4, <2>3, <3>2 DEF Fits
  <2> QED  BY <2>1, <2>2, <2>3
<1>6. RequestsFit'
  <2>1. ASSUME NEW g \in Reviewers, g # h, step'[g] # "idle" PROVE Fits(g)'
    <3>1. step'[g] = step[g] /\ req'[g] = req[g]
      BY <1>1, <2>1 DEF TypeOK, RequestsFit
    <3> QED  BY <1>1, <1>3, <2>1, <3>1, OthersFit
  <2> QED  BY <1>1, <1>5, <2>1 DEF RequestsFit
<1> QED  BY <1>2, <1>3, <1>6

LEMMA ReadsKeep ==
    ASSUME ReviewInv, NEW h \in Reviewers, NEW a \in Alerts,
           \/ \E action \in Actions \cup {"none"}, dry \in BOOLEAN, res \in SentResolutions :
                 ResolveRead(h, a, action, dry, res)
           \/ ReverseRead(h, a)
    PROVE  ReviewInv'
<1> USE DEF ReviewInv
<1>0. served \in 0 .. MaxRequests  BY DEF TypeOK
<1>1. ASSUME NEW action \in Actions \cup {"none"}, NEW dry \in BOOLEAN, NEW res \in SentResolutions,
             ResolveRead(h, a, action, dry, res)
      PROVE  ReviewInv'
  <2> DEFINE r == [id |-> served + 1, kind |-> "resolve", alert |-> a, action |-> action,
                   dry_run |-> dry, resolution |-> res,
                   entity |-> IF action = "none" \/ dry THEN NoEntity ELSE EntityFor(a, action),
                   target |-> 0, prior |-> NoValue]
  <2>1. Begin(h, r) /\ UNCHANGED <<bullhorn, state, resolution, events, posted, failed, writer>>
    BY <1>1 DEF ResolveRead
  <2>2. served + 1 \in 1 .. MaxRequests
    BY <1>0, <2>1, ReviewAssumption DEF Begin
  <2>3. r.entity \in Entities \cup {NoEntity}
    BY EntityTypes
  <2>4. r \in Request
    BY <2>2, <2>3 DEF Request
  <2>5. r.entity # NoEntity => r.action \in Actions
    OBVIOUS
  <2>6. r.id = served + 1 /\ r.kind = "resolve" /\ r.prior = NoValue
    OBVIOUS
  <2> HIDE DEF r
  <2> QED  BY <2>1, <2>4, <2>5, <2>6, BeginStarts
<1>2. ASSUME ReverseRead(h, a) PROVE ReviewInv'
  <2> DEFINE e == events[a][Latest(a)]
  <2>1. /\ Reversible(a) # {} /\ e.entity # NoEntity
        /\ UNCHANGED <<bullhorn, state, resolution, events, posted, failed, writer>>
    BY <1>2 DEF ReverseRead
  <2>2. Begin(h, [id |-> served + 1, kind |-> "reverse", alert |-> a,
                  action |-> e.action, dry_run |-> FALSE, resolution |-> "none",
                  entity |-> e.entity, target |-> Latest(a), prior |-> e.prior])
    BY <1>2 DEF ReverseRead
  <2> DEFINE r == [id |-> served + 1, kind |-> "reverse", alert |-> a,
                   action |-> e.action, dry_run |-> FALSE, resolution |-> "none",
                   entity |-> e.entity, target |-> Latest(a), prior |-> e.prior]
  <2>3. Latest(a) \in 1 .. Len(events[a]) /\ e.reversal_available /\ Latest(a) \in Nat
    BY <2>1, LatestIsReversible DEF TypeOK
  <2>4. e \in Event
    BY <2>3 DEF TypeOK
  <2>5. EventFits(a, e)
    BY <2>3 DEF LogFits
  <2>6. /\ e.entity \in Entities \cup {NoEntity} /\ e.action \in Actions /\ e.prior \in Value
        /\ e.of \in 1 .. MaxRequests /\ e.of <= served
        /\ WasPosted(a, e.action, e.entity, e.of)
    BY <2>3, <2>4, <2>5 DEF Event, EventFits
  <2>7. Recorded(e.of)
    BY <2>3 DEF Recorded
  <2> HIDE DEF e
  <2>8. served + 1 \in 1 .. MaxRequests
    BY <1>0, <2>2, ReviewAssumption DEF Begin
  <2>9. r \in Request
    BY <2>3, <2>6, <2>8 DEF Request
  <2>10. /\ r.id = served + 1 /\ r.kind = "reverse" /\ r.alert = a /\ r.action = e.action
         /\ r.entity = e.entity /\ r.prior = e.prior
    OBVIOUS
  <2>11. Begin(h, r)
    BY <2>2
  <2> HIDE DEF r
  <2>12. e.of \in 1 .. r.id - 1
    BY <1>0, <2>6, <2>10, ReviewAssumption
  <2> QED  BY <2>1, <2>6, <2>7, <2>9, <2>10, <2>11, <2>12, BeginStarts
<1> QED  BY <1>1, <1>2

LEMMA FetchKeeps ==
    ASSUME ReviewInv, NEW h \in Reviewers, ResolveFetch(h)
    PROVE  ReviewInv'
<1> USE DEF ReviewInv
<1> DEFINE e == req[h].entity
           r == [req[h] EXCEPT !.prior = bullhorn[e]]
<1>1. /\ step[h] = "read" /\ req[h].kind = "resolve" /\ e # NoEntity
      /\ req' = [req EXCEPT ![h] = r] /\ step' = [step EXCEPT ![h] = "fetched"]
      /\ UNCHANGED <<bullhorn, state, resolution, events, served, posted, failed, writer,
                     overlapped>>
  BY DEF ResolveFetch, Resolving
<1>2. req[h] \in Request
  BY <1>1 DEF TypeOK
<1>3. bullhorn[e] \in Value
  BY <1>1, <1>2 DEF Request, TypeOK
<1>4. /\ r \in Request /\ r.prior = bullhorn[e] /\ r.entity = e /\ r.kind = "resolve"
      /\ r.id = req[h].id /\ r.action = req[h].action /\ r.alert = req[h].alert
  BY <1>1, <1>2, <1>3 DEF Request
<1> HIDE DEF r
<1>5. req'[h] = r /\ step'[h] = "fetched"
  BY <1>1 DEF RequestsFit, TypeOK
<1>6. TypeOK'
  BY <1>1, <1>4 DEF TypeOK, Steps, RequestsFit
<1>7. LogFits' /\ (\A id : Recorded(id)' <=> Recorded(id)) /\ served \in Nat /\ served' \in Nat
  BY <1>1, LogStays DEF TypeOK
<1>8. Fits(h)'
  <2>1. Fits(h) /\ ResolveFits(h)  BY <1>1 DEF RequestsFit, Fits
  <2>2. ResolveFits(h)'
    BY <1>1, <1>3, <1>4, <1>5, <2>1 DEF ResolveFits
  <2> QED  BY <1>1, <1>4, <1>5, <2>1, <2>2 DEF Fits
<1>9. RequestsFit'
  <2>1. ASSUME NEW g \in Reviewers, g # h, step'[g] # "idle" PROVE Fits(g)'
    <3>1. step'[g] = step[g] /\ req'[g] = req[g]
      BY <1>1, <2>1 DEF TypeOK, RequestsFit
    <3> QED  BY <1>1, <1>7, <2>1, <3>1, OthersFit
  <2> QED  BY <1>1, <1>8, <2>1 DEF RequestsFit
<1> QED  BY <1>6, <1>7, <1>9

\* The POST of either kind of request.
LEMMA WritesKeep ==
    ASSUME ReviewInv, NEW h \in Reviewers, ResolveWrite(h) \/ ReverseWrite(h)
    PROVE  ReviewInv'
<1> USE DEF ReviewInv
<1> DEFINE r == req[h]
<1>1. PICK v : /\ Write(h, r.kind, r.action, v)
               /\ v = IF r.kind = "resolve" THEN Done(r.action, bullhorn[r.entity])
                      ELSE Undone(r.action, r.prior)
               /\ step[h] # "idle" /\ UNCHANGED <<state, resolution, events, req, served, failed, overlapped>>
  BY DEF ResolveWrite, ReverseWrite, Resolving, Reversing
<1>2. r \in Request
  BY <1>1 DEF TypeOK
<1>3. r.kind \in {"resolve", "reverse"} /\ r.alert \in Alerts /\ r.id \in 1 .. MaxRequests
  BY <1>2 DEF Request
<1>4. Fits(h)
  BY <1>1 DEF RequestsFit
<1>5. r.entity \in Entities /\ r.action \in Actions /\ (r.kind = "reverse" => r.prior \in Value)
  <2>1. r.entity \in Entities \cup {NoEntity}  BY <1>2 DEF Request
  <2>2. CASE ResolveWrite(h)
    <3>1. r.kind = "resolve" /\ step[h] = "fetched"  BY <2>2 DEF ResolveWrite, Resolving
    <3> QED  BY <1>4, <2>1, <3>1 DEF Fits, ResolveFits
  <2>3. CASE ReverseWrite(h)
    <3>1. r.kind = "reverse"  BY <2>3 DEF ReverseWrite, Reversing
    <3> QED  BY <1>4, <2>1, <3>1 DEF Fits, ReverseFits
  <2> QED  BY <2>2, <2>3
<1> DEFINE p == [id |-> r.id, kind |-> r.kind, alert |-> r.alert, action |-> r.action,
                 entity |-> r.entity, before |-> bullhorn[r.entity]]
<1>6. /\ step' = [step EXCEPT ![h] = "written"]
      /\ bullhorn' = [bullhorn EXCEPT ![r.entity] = v]
      /\ writer' = [writer EXCEPT ![r.entity] = r.kind]
      /\ posted' = posted \cup {p}
  BY <1>1 DEF Write
<1>7. bullhorn[r.entity] \in Value
  BY <1>5 DEF TypeOK
<1>8. v \in Value
  BY <1>1, <1>3, <1>5, <1>7, DoneType
<1>9. p \in Post
  BY <1>3, <1>5, <1>7 DEF Post
<1>10. TypeOK'
  BY <1>1, <1>3, <1>5, <1>6, <1>8, <1>9 DEF TypeOK, Steps
<1>11. LogFits' /\ (\A id : Recorded(id)' <=> Recorded(id)) /\ served \in Nat /\ served' \in Nat
  BY <1>1, <1>6, LogStays DEF TypeOK
<1>12. p \in posted' /\ p.kind = r.kind /\ p.alert = r.alert /\ p.action = r.action
       /\ p.entity = r.entity /\ p.id = r.id
  BY <1>6
<1> HIDE DEF p
<1>13. Fits(h)'
  <2>1. req' = req /\ step'[h] = "written" /\ served' = served
    BY <1>1, <1>6 DEF TypeOK
  <2>2. CASE r.kind = "resolve"
    <3>1. WasPosted(r.alert, r.action, r.entity, r.id)'
      BY <1>12, <2>1, <2>2 DEF WasPosted
    <3>2. step[h] = "fetched"
      BY <2>2 DEF ResolveWrite, ReverseWrite, Reversing
    <3>3. ResolveFits(h)'
      BY <1>4, <2>1, <2>2, <3>1, <3>2 DEF Fits, ResolveFits
    <3> QED  BY <1>4, <2>1, <2>2, <3>3 DEF Fits
  <2>3. CASE r.kind = "reverse"
    <3>1. PICK id \in 1 .. r.id - 1 : WasPosted(r.alert, r.action, r.entity, id) /\ Recorded(id)
      BY <1>4, <2>3 DEF Fits, ReverseFits
    <3>2. WasPosted(r.alert, r.action, r.entity, id)' /\ Recorded(id)'
      <4>1. WasPosted(req[h].alert, req[h].action, req[h].entity, id)'
        BY <1>6, <2>1, <3>1 DEF WasPosted
      <4> QED  BY <1>11, <3>1, <4>1
    <3>3. ReverseFits(h)'
      BY <1>5, <2>1, <2>3, <3>1, <3>2, <1>4 DEF Fits, ReverseFits
    <3> QED  BY <1>4, <2>1, <2>3, <3>3 DEF Fits
  <2> QED  BY <1>3, <2>2, <2>3
<1>14. RequestsFit'
  <2>1. ASSUME NEW g \in Reviewers, g # h, step'[g] # "idle" PROVE Fits(g)'
    <3>1. step'[g] = step[g] /\ req'[g] = req[g]
      BY <1>1, <1>6, <2>1 DEF TypeOK, RequestsFit
    <3> QED  BY <1>1, <1>6, <1>11, <2>1, <3>1, OthersFit
  <2> QED  BY <1>1, <1>13, <2>1 DEF RequestsFit
<1> QED  BY <1>10, <1>11, <1>14

\* The log of an alert grows by events that fit it.
LEMMA LogGrows ==
    ASSUME TypeOK, LogFits, UNCHANGED <<posted, served>>, NEW a \in Alerts, NEW es \in Seq(Event),
           events' = [events EXCEPT ![a] = events[a] \o es],
           \A i \in 1 .. Len(es) : EventFits(a, es[i])
    PROVE  /\ events' \in [Alerts -> Seq(Event)] /\ LogFits'
           /\ \A id : Recorded(id) => Recorded(id)'
           /\ \A i \in 1 .. Len(es) : \A id : id = es[i].of => Recorded(id)'
<1> DEFINE old == events[a]
<1>1. old \in Seq(Event) /\ Len(old) \in Nat /\ Len(es) \in Nat
  BY DEF TypeOK
<1>2. /\ old \o es \in Seq(Event) /\ Len(old \o es) = Len(old) + Len(es)
      /\ \A i \in 1 .. Len(old) : (old \o es)[i] = old[i]
      /\ \A i \in 1 .. Len(es) : (old \o es)[Len(old) + i] = es[i]
  BY <1>1
<1>3. /\ events'[a] = old \o es /\ DOMAIN events' = Alerts
      /\ \A b \in Alerts \ {a} : events'[b] = events[b]
  BY DEF TypeOK
<1>4. events' \in [Alerts -> Seq(Event)]
  BY <1>2 DEF TypeOK
<1>5. \A b, e : EventFits(b, e) => EventFits(b, e)'
  BY DEF EventFits, WasPosted
<1>6. ASSUME NEW b \in Alerts, NEW i \in 1 .. Len(events'[b]) PROVE EventFits(b, events'[b][i])
  <2>1. CASE b # a
    BY <1>3, <2>1 DEF LogFits
  <2>2. CASE b = a /\ i \in 1 .. Len(old)
    BY <1>2, <1>3, <2>2 DEF LogFits
  <2>3. CASE b = a /\ i \notin 1 .. Len(old)
    <3>1. PICK j \in 1 .. Len(es) : i = Len(old) + j
      <4>1. i - Len(old) \in 1 .. Len(es) /\ i = Len(old) + (i - Len(old))
        BY <1>1, <1>2, <1>3, <2>3
      <4> QED  BY <4>1
    <3> QED  BY <1>2, <1>3, <2>3, <3>1
  <2> QED  BY <2>1, <2>2, <2>3
<1>7. LogFits'
  BY <1>5, <1>6 DEF LogFits
<1>8. ASSUME NEW id, Recorded(id) PROVE Recorded(id)'
  <2>1. PICK b \in Alerts : \E i \in 1 .. Len(events[b]) : events[b][i].of = id
    BY <1>8 DEF Recorded
  <2>2. PICK i \in 1 .. Len(events[b]) : events[b][i].of = id
    BY <2>1
  <2>3. i \in 1 .. Len(events'[b]) /\ events'[b][i].of = id
    <3>1. CASE b # a  BY <1>3, <2>2, <3>1
    <3>2. CASE b = a  BY <1>1, <1>2, <1>3, <2>2, <3>2
    <3> QED  BY <3>1, <3>2
  <2> QED  BY <2>3 DEF Recorded
<1>9. ASSUME NEW i \in 1 .. Len(es), NEW id, id = es[i].of PROVE Recorded(id)'
  <2>1. Len(old) + i \in 1 .. Len(events'[a]) /\ events'[a][Len(old) + i] = es[i]
    BY <1>1, <1>2, <1>3
  <2> QED  BY <1>9, <2>1 DEF Recorded
<1> QED  BY <1>4, <1>7, <1>8, <1>9

\* The end of a request, however it ends.
LEMMA EndKeeps ==
    ASSUME ReviewInv, NEW h \in Reviewers, End(h),
           UNCHANGED <<bullhorn, served, posted, writer, overlapped>>,
           failed' \subseteq 1 .. MaxRequests,
           state' \in [Alerts -> {"open", "resolved"}],
           resolution' \in [Alerts -> Resolutions \cup {"none"}],
           events' \in [Alerts -> Seq(Event)], LogFits',
           \A id : Recorded(id) => Recorded(id)'
    PROVE  ReviewInv'
<1> USE DEF ReviewInv
<1>1. step' = [step EXCEPT ![h] = "idle"] /\ req' = [req EXCEPT ![h] = NoRequest]
  BY DEF End
<1>2. step'[h] = "idle" /\ \A g \in Reviewers \ {h} : step'[g] = step[g] /\ req'[g] = req[g]
  BY <1>1 DEF TypeOK, RequestsFit
<1>3. TypeOK'
  BY <1>1, <1>2 DEF TypeOK, Steps
<1>4. served \in Nat /\ served' \in Nat /\ served <= served' /\ posted \subseteq posted'
  BY DEF TypeOK
<1>5. RequestsFit'
  <2>1. ASSUME NEW g \in Reviewers, step'[g] # "idle" PROVE Fits(g)'
    BY <1>2, <1>4, <2>1, OthersFit
  <2> QED  BY <1>1, <2>1 DEF RequestsFit
<1> QED  BY <1>3, <1>5

\* The events a request leaves.
ReversedEvent(r) ==
    [type |-> "reversed", action |-> r.action, entity |-> r.entity,
     reversal_available |-> FALSE, prior |-> NoValue,
     recent |-> TRUE, of |-> r.id, undoes |-> r.target]

LEMMA ResolveEventsFit ==
    ASSUME ReviewInv, NEW h \in Reviewers, step[h] # "idle", req[h].kind = "resolve",
           IF req[h].entity = NoEntity THEN step[h] = "read" ELSE step[h] = "written"
    PROVE  LET es == ResolveEvents(req[h])
           IN  /\ es \in Seq(Event) /\ Len(es) \in Nat \ {0}
               /\ \A i \in 1 .. Len(es) : EventFits(req[h].alert, es[i]) /\ es[i].of = req[h].id
<1> DEFINE r == req[h]
           done == [type |-> "action", action |-> r.action, entity |-> r.entity,
                    reversal_available |-> r.prior # NoValue, prior |-> r.prior,
                    recent |-> TRUE, of |-> r.id, undoes |-> 0]
           closed == [type |-> "resolved", action |-> "none", entity |-> NoEntity,
                      reversal_available |-> FALSE, prior |-> NoValue, recent |-> TRUE,
                      of |-> r.id, undoes |-> 0]
<1>1. r \in Request /\ Fits(h) /\ ResolveFits(h)
  BY DEF ReviewInv, TypeOK, RequestsFit, Fits
<1>2. /\ r.action \in Actions \cup {"none"} /\ r.entity \in Entities \cup {NoEntity}
      /\ r.prior \in Value \cup {NoValue} /\ r.id \in 1 .. MaxRequests /\ r.id <= served
  BY <1>1 DEF Request, Fits
<1>3. done \in Event /\ closed \in Event
  BY <1>2 DEF Event
<1>4. EventFits(r.alert, done)
  <2>1. ASSUME r.prior # NoValue
        PROVE  /\ r.entity # NoEntity /\ r.action \in Actions /\ r.prior \in Value
               /\ WasPosted(r.alert, r.action, r.entity, r.id)
    BY <1>1, <1>2, <2>1 DEF ResolveFits
  <2> QED  BY <1>2, <2>1 DEF EventFits
<1>5. EventFits(r.alert, closed)
  BY <1>2 DEF EventFits
<1>6. done.of = r.id /\ closed.of = r.id
  OBVIOUS
<1>7. ResolveEvents(r) = (IF r.action = "none" THEN << >> ELSE <<done>>) \o <<closed>>
  BY DEF ResolveEvents
<1> HIDE DEF done, closed
<1>8. <<closed>> \in Seq(Event) /\ <<done>> \in Seq(Event) /\ << >> \in Seq(Event)
  BY <1>3
<1>9. CASE r.action = "none"
  <2>1. ResolveEvents(r) = <<closed>>
    <3>1. << >> \o <<closed>> = <<closed>>  OBVIOUS
    <3> QED  BY <1>7, <1>9, <3>1
  <2> QED  BY <1>5, <1>6, <1>8, <2>1
<1>10. CASE r.action # "none"
  <2>1. ResolveEvents(r) = <<done>> \o <<closed>>
    BY <1>7, <1>10
  <2>2. Len(<<done>>) = 1 /\ Len(<<closed>>) = 1 /\ <<done>>[1] = done /\ <<closed>>[1] = closed
    OBVIOUS
  <2> DEFINE es == <<done>> \o <<closed>>
  <2>3. es \in Seq(Event) /\ Len(es) = 2 /\ es[1] = done /\ es[2] = closed
    BY <1>8, <2>2
  <2> HIDE DEF es
  <2>4. \A i \in 1 .. Len(es) : es[i] = done \/ es[i] = closed
    BY <2>3
  <2>5. \A i \in 1 .. Len(es) : EventFits(r.alert, es[i]) /\ es[i].of = r.id
    BY <1>4, <1>5, <1>6, <2>4
  <2> QED  BY <2>1, <2>3, <2>5 DEF es
<1> QED  BY <1>9, <1>10

\* The database takes what the request writes.
Saved(h) ==
    \/ req[h].kind = "resolve" /\ ResolveAllowed(req[h])
    \/ req[h].kind = "reverse" /\ EventCheck("reversed")

LEMMA CommitsKeep ==
    ASSUME ReviewInv, NEW h \in Reviewers, ResolveCommit(h) \/ ReverseCommit(h)
    PROVE  /\ ReviewInv' /\ \A id : Recorded(id) => Recorded(id)'
           /\ IF Saved(h) THEN UNCHANGED failed /\ \A id : id = req[h].id => Recorded(id)'
                          ELSE failed' = failed \cup {req[h].id}
<1> USE DEF ReviewInv
<1> DEFINE r == req[h]
<1>1. /\ step[h] # "idle" /\ End(h) /\ UNCHANGED <<bullhorn, served, posted, writer, overlapped>>
      /\ IF Saved(h) THEN UNCHANGED failed ELSE failed' = failed \cup {r.id}
  BY DEF ResolveCommit, ReverseCommit, Resolving, Reversing, Saved
<1>2. r \in Request /\ r.alert \in Alerts /\ failed' \subseteq 1 .. MaxRequests
  BY <1>1 DEF TypeOK, Request
<1>3. CASE ~Saved(h)
  <2>0. UNCHANGED <<events, state, resolution>>
    BY <1>3 DEF ResolveCommit, ReverseCommit, Saved, Resolving, Reversing
  <2>1. LogFits' /\ \A id : Recorded(id)' <=> Recorded(id)
    BY <1>1, <2>0, LogStays DEF TypeOK
  <2> QED  BY <1>1, <1>2, <1>3, <2>0, <2>1, EndKeeps DEF TypeOK
<1>4. CASE ResolveCommit(h) /\ ResolveAllowed(r)
  <2> DEFINE es == ResolveEvents(r)
  <2>1. /\ r.kind = "resolve"
        /\ IF r.entity = NoEntity THEN step[h] = "read" ELSE step[h] = "written"
        /\ events' = [events EXCEPT ![r.alert] = events[r.alert] \o es]
        /\ state' = [state EXCEPT ![r.alert] = "resolved"]
        /\ resolution' = [resolution EXCEPT ![r.alert] = r.resolution]
        /\ r.resolution \in Resolutions
    BY <1>4 DEF ResolveCommit, Resolving, ResolveAllowed
  <2>2. /\ es \in Seq(Event) /\ Len(es) \in Nat \ {0}
        /\ \A i \in 1 .. Len(es) : EventFits(r.alert, es[i]) /\ es[i].of = r.id
    BY <1>1, <2>1, ResolveEventsFit
  <2> HIDE DEF es
  <2>3. /\ events' \in [Alerts -> Seq(Event)] /\ LogFits'
        /\ \A id : Recorded(id) => Recorded(id)'
        /\ \A i \in 1 .. Len(es) : \A id : id = es[i].of => Recorded(id)'
    BY <1>1, <1>2, <2>1, <2>2, LogGrows
  <2>a. \A id : id = r.id => Recorded(id)'
    <3> SUFFICES ASSUME NEW id, id = r.id PROVE Recorded(id)'  OBVIOUS
    <3>1. 1 \in 1 .. Len(es)  BY <2>2
    <3> QED  BY <2>2, <2>3, <3>1
  <2>4. /\ state' \in [Alerts -> {"open", "resolved"}]
        /\ resolution' \in [Alerts -> Resolutions \cup {"none"}]
    BY <2>1 DEF TypeOK
  <2>b. Saved(h)  BY <1>4, <2>1 DEF Saved
  <2> QED  BY <1>1, <1>2, <2>3, <2>a, <2>b, <2>4, EndKeeps
<1>5. CASE ReverseCommit(h) /\ EventCheck("reversed")
  <2> DEFINE e == ReversedEvent(r)
  <2>1. /\ r.kind = "reverse" /\ UNCHANGED <<state, resolution>>
        /\ events' = [events EXCEPT ![r.alert] = Append(events[r.alert], e)]
    BY <1>5 DEF ReverseCommit, Reversing, ReversedEvent
  <2>2. Fits(h) /\ ReverseFits(h)
    BY <1>1, <2>1 DEF RequestsFit, Fits
  <2>3. e \in Event /\ EventFits(r.alert, e)
    <3>1. r.action \in Actions /\ r.entity \in Entities \cup {NoEntity} /\ r.id \in 1 .. MaxRequests
          /\ r.target \in Nat /\ r.id <= served
      BY <1>2, <2>2 DEF Request, ReverseFits, Fits
    <3> QED  BY <3>1 DEF Event, EventFits, ReversedEvent
  <2> HIDE DEF e
  <2>4. /\ <<e>> \in Seq(Event) /\ \A i \in 1 .. Len(<<e>>) : EventFits(r.alert, <<e>>[i])
    BY <2>3
  <2>5. Append(events[r.alert], e) = events[r.alert] \o <<e>>
    BY <1>2, <2>3, AppendIsConcat DEF TypeOK
  <2>6. events' = [events EXCEPT ![r.alert] = events[r.alert] \o <<e>>]
    BY <2>1, <2>5
  <2>7. /\ events' \in [Alerts -> Seq(Event)] /\ LogFits'
        /\ \A id : Recorded(id) => Recorded(id)'
        /\ \A i \in 1 .. Len(<<e>>) : \A id : id = <<e>>[i].of => Recorded(id)'
    BY <1>1, <1>2, <2>4, <2>6, LogGrows
  <2>8. \A id : id = r.id => Recorded(id)'
    <3>1. 1 \in 1 .. Len(<<e>>) /\ <<e>>[1].of = r.id  BY DEF e, ReversedEvent
    <3> QED  BY <2>7, <3>1
  <2>9. Saved(h)  BY <1>5, <2>1 DEF Saved
  <2> QED  BY <1>1, <1>2, <2>1, <2>7, <2>8, <2>9, EndKeeps DEF TypeOK
<1> QED  BY <1>3, <1>4, <1>5 DEF Saved, ResolveCommit, ReverseCommit, Resolving, Reversing

-----------------------------------------------------------------------------
(* The environment.                                                          *)

LEMMA FailsKeep ==
    ASSUME ReviewInv, NEW h \in Reviewers, RequestFails(h)
    PROVE  ReviewInv' /\ \A id : Recorded(id) => Recorded(id)'
<1> USE DEF ReviewInv
<1>1. /\ step[h] # "idle" /\ End(h) /\ failed' = failed \cup {req[h].id}
      /\ UNCHANGED <<bullhorn, state, resolution, events, served, posted, writer, overlapped>>
  BY DEF RequestFails
<1>2. req[h].id \in 1 .. MaxRequests
  BY <1>1 DEF TypeOK, Request
<1>3. LogFits' /\ \A id : Recorded(id)' <=> Recorded(id)
  BY <1>1, LogStays DEF TypeOK
<1> QED  BY <1>1, <1>2, <1>3, EndKeeps DEF TypeOK

\* A step of somebody else leaves the requests where they are.
LEMMA OutsidersKeep ==
    ASSUME ReviewInv, UNCHANGED <<step, req, served, posted, failed>>,
           \A id : Recorded(id) => Recorded(id)'
    PROVE  RequestsFit'
<1> USE DEF ReviewInv
<1>1. served \in Nat /\ served' \in Nat /\ served <= served' /\ posted \subseteq posted'
  BY DEF TypeOK
<1> QED  BY <1>1, OthersFit DEF RequestsFit

LEMMA WindowKeeps ==
    ASSUME ReviewInv, NEW a \in Alerts, NEW i \in 1 .. Len(events[a]), WindowCloses(a, i)
    PROVE  ReviewInv' /\ \A id : Recorded(id) => Recorded(id)'
<1> USE DEF ReviewInv
<1> DEFINE old == events[a]
           late(e) == [e EXCEPT !.recent = FALSE]
           new == [j \in 1 .. Len(old) |-> IF j <= i THEN late(old[j]) ELSE old[j]]
<1>1. /\ events' = [events EXCEPT ![a] = new]
      /\ UNCHANGED <<bullhorn, state, resolution, step, req, served, posted, failed, writer,
                     overlapped>>
  BY DEF WindowCloses
<1>2. old \in Seq(Event) /\ Len(old) \in Nat /\ \A j \in 1 .. Len(old) : old[j] \in Event
  BY DEF TypeOK
<1>3. \A e \in Event : /\ late(e) \in Event /\ late(e).of = e.of /\ late(e).action = e.action
                       /\ late(e).entity = e.entity /\ late(e).prior = e.prior
                       /\ late(e).reversal_available = e.reversal_available
  BY DEF Event
<1> HIDE DEF late
<1>4. /\ new \in Seq(Event) /\ Len(new) = Len(old)
      /\ \A j \in 1 .. Len(old) : /\ new[j].of = old[j].of /\ new[j].action = old[j].action
                                  /\ new[j].entity = old[j].entity /\ new[j].prior = old[j].prior
                                  /\ new[j].reversal_available = old[j].reversal_available
  BY <1>2, <1>3
<1> HIDE DEF new
<1>5. /\ events' \in [Alerts -> Seq(Event)] /\ events'[a] = new
      /\ \A b \in Alerts \ {a} : events'[b] = events[b]
  BY <1>1, <1>4 DEF TypeOK
<1>6. LogFits'
  <2>1. \A b, e, f : /\ EventFits(b, e) /\ f.of = e.of /\ f.action = e.action /\ f.entity = e.entity
                     /\ f.prior = e.prior /\ f.reversal_available = e.reversal_available
                     => EventFits(b, f)'
    BY <1>1 DEF EventFits, WasPosted
  <2> QED  BY <1>4, <1>5, <2>1 DEF LogFits
<1>7. ASSUME NEW id, Recorded(id) PROVE Recorded(id)'
  <2>1. PICK b \in Alerts : \E j \in 1 .. Len(events[b]) : events[b][j].of = id
    BY <1>7 DEF Recorded
  <2>2. \E j \in 1 .. Len(events'[b]) : events'[b][j].of = id
    BY <1>4, <1>5, <2>1
  <2> QED  BY <2>2 DEF Recorded
<1>8. TypeOK'
  BY <1>1, <1>5 DEF TypeOK
<1> QED  BY <1>1, <1>6, <1>7, <1>8, OutsidersKeep

LEMMA OthersKeep ==
    ASSUME ReviewInv,
           \/ \E a \in Alerts : AgentCloses(a)
           \/ \E e \in Entities : PeopleEdit(e)
           \/ UNCHANGED vars
    PROVE  ReviewInv' /\ \A id : Recorded(id) => Recorded(id)'
<1> USE DEF ReviewInv
<1>1. UNCHANGED <<events, step, req, served, posted, failed>>
  BY DEF AgentCloses, PeopleEdit, vars
<1>2. LogFits' /\ \A id : Recorded(id)' <=> Recorded(id)
  BY <1>1, LogStays DEF TypeOK
<1>3. RequestsFit'
  BY <1>1, <1>2, OutsidersKeep
<1>4. TypeOK'
  <2>1. CASE \E a \in Alerts : AgentCloses(a)
    BY <1>1, <2>1 DEF AgentCloses, TypeOK, Resolutions
  <2>2. ASSUME NEW e \in Entities, PeopleEdit(e) PROVE TypeOK'
    <3>1. \A v \in ById(e) : v \in Value
      BY DEF ById, Value, Marks, Details, Submitted, Free, OnHold
    <3>2. PICK v \in Value : bullhorn' = [bullhorn EXCEPT ![e] = v]
      BY <2>2, <3>1 DEF PeopleEdit
    <3> QED  BY <2>2, <3>2 DEF PeopleEdit, TypeOK
  <2>3. CASE UNCHANGED vars
    BY <2>3 DEF vars, TypeOK
  <2> QED  BY <2>1, <2>2, <2>3
<1> QED  BY <1>2, <1>3, <1>4

LEMMA ReviewStarts == Init => ReviewInv
<1> SUFFICES ASSUME Init PROVE ReviewInv  OBVIOUS
<1>0. overlapped \in BOOLEAN  BY Zenon DEF Init
<1>1. \A e \in Entities : ById(e) \subseteq Value
  BY DEF ById, Value, Marks, Details, Submitted, Free, OnHold
<1>2. bullhorn \in [Entities -> Value]
  BY <1>1 DEF Init
<1>3. << >> \in Seq(Event)  OBVIOUS
<1>4. TypeOK
  BY <1>0, <1>2, <1>3, ReviewAssumption DEF Init, TypeOK, Steps
<1> QED  BY <1>4 DEF Init, ReviewInv, RequestsFit, LogFits

LEMMA ReviewKeeps ==
    ASSUME ReviewInv, [Next]_vars
    PROVE  ReviewInv' /\ \A id : Recorded(id) => Recorded(id)'
<1>1. ASSUME NEW h \in Reviewers, NEW a \in Alerts,
             \/ \E action \in Actions \cup {"none"}, dry \in BOOLEAN, res \in SentResolutions :
                   ResolveRead(h, a, action, dry, res)
             \/ ReverseRead(h, a)
      PROVE  ReviewInv' /\ \A id : Recorded(id) => Recorded(id)'
  <2>1. ReviewInv'  BY <1>1, ReadsKeep
  <2>2. UNCHANGED events  BY <1>1 DEF ResolveRead, ReverseRead
  <2> QED  BY <2>1, <2>2 DEF Recorded
<1>2. ASSUME NEW h \in Reviewers, ResolveFetch(h)
      PROVE  ReviewInv' /\ \A id : Recorded(id) => Recorded(id)'
  <2>1. UNCHANGED events  BY <1>2 DEF ResolveFetch
  <2> QED  BY <1>2, <2>1, FetchKeeps DEF Recorded
<1>3. ASSUME NEW h \in Reviewers, ResolveWrite(h) \/ ReverseWrite(h)
      PROVE  ReviewInv' /\ \A id : Recorded(id) => Recorded(id)'
  <2>1. UNCHANGED events  BY <1>3 DEF ResolveWrite, ReverseWrite
  <2> QED  BY <1>3, <2>1, WritesKeep DEF Recorded
<1>4. ASSUME NEW h \in Reviewers, ResolveCommit(h) \/ ReverseCommit(h) \/ RequestFails(h)
      PROVE  ReviewInv' /\ \A id : Recorded(id) => Recorded(id)'
  BY <1>4, CommitsKeep, FailsKeep
<1>5. ASSUME NEW a \in Alerts, NEW i \in 1 .. Len(events[a]), WindowCloses(a, i)
      PROVE  ReviewInv' /\ \A id : Recorded(id) => Recorded(id)'
  BY <1>5, WindowKeeps
<1> QED  BY <1>1, <1>2, <1>3, <1>4, <1>5, OthersKeep DEF Next

-----------------------------------------------------------------------------
\* Every reachable state of the reviewers' side is well typed.
THEOREM TypeCorrect == Spec => []TypeOK
<1>1. ReviewInv /\ [Next]_vars => ReviewInv'  BY ReviewKeeps
<1>2. ReviewInv => TypeOK  BY DEF ReviewInv
<1> QED  BY <1>1, <1>2, ReviewStarts, PTL DEF Spec

\* What Bullhorn has been sent: the posts of a step are those of a request that writes.
LEMMA NewPosts ==
    ASSUME ReviewInv, [Next]_vars
    PROVE  /\ posted \subseteq posted'
           /\ \A p \in posted' \ posted :
                \E h \in Reviewers :
                   /\ ResolveWrite(h) \/ ReverseWrite(h)
                   /\ p.kind = req[h].kind /\ p.alert = req[h].alert /\ p.action = req[h].action
                   /\ p.entity = req[h].entity /\ p.id = req[h].id
<1>1. ASSUME NEW h \in Reviewers, ResolveWrite(h) \/ ReverseWrite(h)
      PROVE  posted' = posted \cup {[id |-> req[h].id, kind |-> req[h].kind, alert |-> req[h].alert,
                                     action |-> req[h].action, entity |-> req[h].entity,
                                     before |-> bullhorn[req[h].entity]]}
  BY <1>1 DEF ResolveWrite, ReverseWrite, Resolving, Reversing, Write
<1>2. \/ \E h \in Reviewers : ResolveWrite(h) \/ ReverseWrite(h)
      \/ UNCHANGED posted
  BY DEF Next, ResolveRead, ReverseRead, ResolveFetch, ResolveCommit, ReverseCommit, RequestFails,
         AgentCloses, WindowCloses, PeopleEdit, vars
<1>3. CASE UNCHANGED posted  BY <1>3
<1>4. ASSUME NEW h \in Reviewers, ResolveWrite(h) \/ ReverseWrite(h)
      PROVE  /\ posted \subseteq posted'
             /\ \A p \in posted' \ posted :
                  /\ p.kind = req[h].kind /\ p.alert = req[h].alert /\ p.action = req[h].action
                  /\ p.entity = req[h].entity /\ p.id = req[h].id
  <2>1. \A p \in posted' \ posted :
           p = [id |-> req[h].id, kind |-> req[h].kind, alert |-> req[h].alert,
                action |-> req[h].action, entity |-> req[h].entity,
                before |-> bullhorn[req[h].entity]]
    BY <1>1, <1>4
  <2> QED  BY <1>1, <1>4, <2>1
<1> QED  BY <1>2, <1>3, <1>4

\* What an undo names is an action of the alert that a recorded request has posted,
\* whatever two reviewers, failures and people do meanwhile: only the commit of an
\* action leaves an event to undo, and the log is never shortened.
THEOREM UndoesWhatWasDone == Spec => []UndoneWasDone
<1>1. Init => UndoneWasDone
  BY DEF Init, UndoneWasDone
<1>2. ReviewInv /\ UndoneWasDone /\ [Next]_vars => ReviewInv' /\ UndoneWasDone'
  <2> SUFFICES ASSUME ReviewInv, UndoneWasDone, [Next]_vars PROVE ReviewInv' /\ UndoneWasDone'
    OBVIOUS
  <2>1. /\ ReviewInv' /\ (\A id : Recorded(id) => Recorded(id)') /\ posted \subseteq posted'
    BY ReviewKeeps, NewPosts
  <2>2. ASSUME NEW p \in posted, p.kind = "reverse"
        PROVE  \E q \in posted' : /\ q.kind = "resolve" /\ q.alert = p.alert
                                  /\ q.action = p.action /\ q.entity = p.entity
                                  /\ q.id < p.id /\ Recorded(q.id)'
    <3>1. PICK q \in posted : /\ q.kind = "resolve" /\ q.alert = p.alert
                              /\ q.action = p.action /\ q.entity = p.entity
                              /\ q.id < p.id /\ Recorded(q.id)
      BY <2>2 DEF UndoneWasDone
    <3> QED  BY <2>1, <3>1
  <2>3. ASSUME NEW p \in posted' \ posted, p.kind = "reverse"
        PROVE  \E q \in posted' : /\ q.kind = "resolve" /\ q.alert = p.alert
                                  /\ q.action = p.action /\ q.entity = p.entity
                                  /\ q.id < p.id /\ Recorded(q.id)'
    <3>1. PICK h \in Reviewers :
            /\ ResolveWrite(h) \/ ReverseWrite(h)
            /\ p.kind = req[h].kind /\ p.alert = req[h].alert /\ p.action = req[h].action
            /\ p.entity = req[h].entity /\ p.id = req[h].id
      BY NewPosts
    <3>2. step[h] # "idle" /\ req[h].kind = "reverse"
      BY <2>3, <3>1 DEF ResolveWrite, ReverseWrite, Resolving, Reversing
    <3>3. ReverseFits(h) /\ req[h].id \in Nat
      BY <3>2 DEF ReviewInv, RequestsFit, Fits, TypeOK, Request
    <3>4. PICK id \in 1 .. p.id - 1 : WasPosted(p.alert, p.action, p.entity, id) /\ Recorded(id)
      BY <3>1, <3>3 DEF ReverseFits
    <3>5. PICK q \in posted : /\ q.kind = "resolve" /\ q.alert = p.alert
                              /\ q.action = p.action /\ q.entity = p.entity /\ q.id = id
      BY <3>4 DEF WasPosted
    <3>6. q.id < p.id
      BY <3>1, <3>3, <3>4, <3>5
    <3> QED  BY <2>1, <3>4, <3>5, <3>6
  <2> QED  BY <2>1, <2>2, <2>3 DEF UndoneWasDone
<1> QED  BY <1>1, <1>2, ReviewStarts, PTL DEF Spec

\* Whatever the CHECKs of the two tables accept: what a request wrote to Bullhorn is in the
\* log once it is over, unless it was answered with an error.
THEOREM WritesAreRecorded == Spec => []AnsweredIsRecorded
<1>1. Init => AnsweredIsRecorded
  BY DEF Init, AnsweredIsRecorded
<1>2. ReviewInv /\ AnsweredIsRecorded /\ [Next]_vars => ReviewInv' /\ AnsweredIsRecorded'
  <2> SUFFICES ASSUME ReviewInv, AnsweredIsRecorded, [Next]_vars
               PROVE  ReviewInv' /\ AnsweredIsRecorded'
    OBVIOUS
  <2>1. /\ ReviewInv' /\ (\A id : Recorded(id) => Recorded(id)') /\ posted \subseteq posted'
    BY ReviewKeeps, NewPosts
  <2>2. failed \subseteq failed'
    BY DEF Next, ResolveRead, ReverseRead, ResolveFetch, ResolveWrite, ResolveCommit,
           ReverseWrite, ReverseCommit, RequestFails, AgentCloses, WindowCloses, PeopleEdit, vars
  <2>3. ASSUME NEW h \in Reviewers, NEW id, step[h] # "idle", req[h].id = id
        PROVE  InFlight(id)' \/ Recorded(id)' \/ id \in failed'
    <3>1. CASE step'[h] # "idle" /\ req'[h].id = req[h].id
      BY <2>3, <3>1 DEF InFlight
    <3>2. CASE ResolveCommit(h) \/ ReverseCommit(h)
      <4>1. Recorded(id)' \/ id \in failed'
        BY <2>3, <3>2, CommitsKeep
      <4> QED  BY <4>1
    <3>3. CASE RequestFails(h)
      BY <2>3, <3>3 DEF RequestFails
    <3>4. CASE UNCHANGED <<step, req>>
      BY <2>3, <3>4 DEF InFlight
    <3>5. ASSUME NEW g \in Reviewers, NEW s, NEW r, g # h,
                 step' = [step EXCEPT ![g] = s], req' = [req EXCEPT ![g] = r] \/ UNCHANGED req
          PROVE  step'[h] # "idle" /\ req'[h].id = req[h].id
      BY <2>3, <3>5 DEF ReviewInv, TypeOK, RequestsFit
    <3>6. ASSUME NEW g \in Reviewers, NEW r, Begin(g, r)
          PROVE  step'[h] # "idle" /\ req'[h].id = req[h].id
      <4>1. g # h  BY <2>3, <3>6 DEF Begin
      <4> QED  BY <3>5, <3>6, <4>1 DEF Begin
    <3>7. ASSUME NEW g \in Reviewers, ResolveFetch(g) \/ ResolveWrite(g) \/ ReverseWrite(g)
          PROVE  step'[h] # "idle" /\ req'[h].id = req[h].id
      <4>1. CASE g = h
        <5>1. step'[h] # "idle"
          BY <2>3, <3>7, <4>1 DEF ResolveFetch, ResolveWrite, ReverseWrite, Write, ReviewInv, TypeOK
        <5>2. req'[h].id = req[h].id
          <6>1. req[h] \in Request  BY <2>3 DEF ReviewInv, TypeOK
          <6> QED  BY <3>7, <4>1, <6>1 DEF ResolveFetch, ResolveWrite, ReverseWrite, ReviewInv,
                                           RequestsFit, Request
        <5> QED  BY <5>1, <5>2
      <4>2. CASE g # h
        BY <3>5, <3>7, <4>2 DEF ResolveFetch, ResolveWrite, ReverseWrite, Write
      <4> QED  BY <4>1, <4>2
    <3>8. ASSUME NEW g \in Reviewers, g # h, End(g)
          PROVE  step'[h] # "idle" /\ req'[h].id = req[h].id
      BY <3>5, <3>8 DEF End
    <3>9. \/ \E g \in Reviewers : \E r : Begin(g, r)
          \/ \E g \in Reviewers : ResolveFetch(g) \/ ResolveWrite(g) \/ ReverseWrite(g)
          \/ \E g \in Reviewers : ResolveCommit(g) \/ ReverseCommit(g) \/ RequestFails(g)
          \/ UNCHANGED <<step, req>>
      <4>1. ASSUME NEW g \in Reviewers, NEW a \in Alerts, NEW action, NEW dry, NEW res,
                   ResolveRead(g, a, action, dry, res)
            PROVE  \E r : Begin(g, r)
        BY <4>1, Zenon DEF ResolveRead
      <4>2. ASSUME NEW g \in Reviewers, NEW a \in Alerts, ReverseRead(g, a)
            PROVE  \E r : Begin(g, r)
        BY <4>2, Zenon DEF ReverseRead
      <4> QED  BY <4>1, <4>2 DEF Next, AgentCloses, WindowCloses, PeopleEdit, vars
    <3>10. ASSUME NEW g \in Reviewers, g # h, ResolveCommit(g) \/ ReverseCommit(g) \/ RequestFails(g)
           PROVE  End(g)
      BY <3>10 DEF ResolveCommit, ReverseCommit, RequestFails
    <3> QED  BY <3>1, <3>2, <3>3, <3>4, <3>6, <3>7, <3>8, <3>9, <3>10
  <2>4. ASSUME NEW p \in posted' PROVE InFlight(p.id)' \/ Recorded(p.id)' \/ p.id \in failed'
    <3>1. CASE p \in posted
      <4>1. InFlight(p.id) \/ Recorded(p.id) \/ p.id \in failed
        BY <3>1 DEF AnsweredIsRecorded
      <4>2. CASE InFlight(p.id)
        BY <2>3, <4>2 DEF InFlight
      <4>3. CASE Recorded(p.id) \/ p.id \in failed
        BY <2>1, <2>2, <4>3
      <4> QED  BY <4>1, <4>2, <4>3
    <3>2. CASE p \notin posted
      <4>1. PICK h \in Reviewers : (ResolveWrite(h) \/ ReverseWrite(h)) /\ p.id = req[h].id
        BY <3>2, NewPosts
      <4>2. step'[h] = "written" /\ req' = req
        BY <4>1 DEF ResolveWrite, ReverseWrite, Write, ReviewInv, TypeOK
      <4> QED  BY <4>1, <4>2 DEF InFlight
    <3> QED  BY <3>1, <3>2
  <2> QED  BY <2>1, <2>4 DEF AnsweredIsRecorded
<1> QED  BY <1>1, <1>2, ReviewStarts, PTL DEF Spec

-----------------------------------------------------------------------------
(* One request at a time.                                                    *)

\* Nobody but h has a request in flight.
OnlyOne(h) == \A g \in Reviewers \ {h} : step[g] = "idle"

\* Unless requests have overlapped, at most one is in flight.
Apart == ~overlapped => \A h \in Reviewers : step[h] # "idle" => OnlyOne(h)

\* A request begins, goes on or ends.
Moves(h) ==
    \/ \E a \in Alerts :
        \/ \E action \in Actions \cup {"none"}, dry \in BOOLEAN, res \in SentResolutions :
              ResolveRead(h, a, action, dry, res)
        \/ ReverseRead(h, a)
    \/ ResolveFetch(h) \/ ResolveWrite(h) \/ ResolveCommit(h)
    \/ ReverseWrite(h) \/ ReverseCommit(h)
    \/ RequestFails(h)

\* While requests do not overlap, the others are at rest before it and after it.
LEMMA MovesAlone ==
    ASSUME TypeOK, Apart, NEW h \in Reviewers, Moves(h), ~overlapped'
    PROVE  ~overlapped /\ OnlyOne(h) /\ OnlyOne(h)'
<1>1. ASSUME NEW r, Begin(h, r)
      PROVE  /\ \E x : step' = [step EXCEPT ![h] = x]
             /\ ~overlapped /\ OnlyOne(h)
  BY <1>1, Zenon DEF Begin, OnlyOne
<1>2. ASSUME step[h] # "idle", UNCHANGED overlapped
      PROVE  ~overlapped /\ OnlyOne(h)
  BY <1>2 DEF Apart
<1>3. \/ \E r : Begin(h, r)
      \/ /\ \E x : step' = [step EXCEPT ![h] = x]
         /\ step[h] # "idle" /\ UNCHANGED overlapped
  <2>1. ASSUME NEW a \in Alerts, NEW action, NEW dry, NEW res, ResolveRead(h, a, action, dry, res)
        PROVE  \E r : Begin(h, r)
    BY <2>1, Zenon DEF ResolveRead
  <2>2. ASSUME NEW a \in Alerts, ReverseRead(h, a) PROVE \E r : Begin(h, r)
    BY <2>2, Zenon DEF ReverseRead
  <2>3. ASSUME \/ ResolveFetch(h) \/ ResolveWrite(h) \/ ResolveCommit(h)
               \/ ReverseWrite(h) \/ ReverseCommit(h) \/ RequestFails(h)
        PROVE  /\ \E x : step' = [step EXCEPT ![h] = x]
               /\ step[h] # "idle" /\ UNCHANGED overlapped
    BY <2>3, Zenon DEF ResolveFetch, ResolveWrite, ResolveCommit, ReverseWrite, ReverseCommit,
                       RequestFails, Resolving, Reversing, Write, End
  <2> QED  BY <2>1, <2>2, <2>3 DEF Moves
<1>4. (\E x : step' = [step EXCEPT ![h] = x]) => \A g \in Reviewers \ {h} : step'[g] = step[g]
  BY DEF TypeOK
<1> QED  BY <1>1, <1>2, <1>3, <1>4 DEF OnlyOne

\* What comes of the steps of nobody's request.
LEMMA RestsOrMoves ==
    ASSUME [Next]_vars
    PROVE  \/ \E h \in Reviewers : Moves(h)
           \/ UNCHANGED <<step, req, served, posted, failed, overlapped>>
BY Zenon DEF Next, Moves, AgentCloses, WindowCloses, PeopleEdit, vars

LEMMA ApartKeeps ==
    ASSUME TypeOK, Apart, [Next]_vars
    PROVE  Apart' /\ (~overlapped' => ~overlapped)
<1>1. ASSUME NEW h \in Reviewers, Moves(h), ~overlapped'
      PROVE  ~overlapped /\ \A g \in Reviewers : step'[g] # "idle" => OnlyOne(g)'
  <2>1. ~overlapped /\ OnlyOne(h)'  BY <1>1, MovesAlone
  <2> QED  BY <2>1 DEF OnlyOne
<1>2. ASSUME UNCHANGED <<step, overlapped>> PROVE Apart' /\ (~overlapped' => ~overlapped)
  BY <1>2 DEF Apart, OnlyOne
<1> QED  BY <1>1, <1>2, RestsOrMoves DEF Apart

\* What has failed stays failed.
LEMMA FailuresStay == ASSUME [Next]_vars PROVE failed \subseteq failed'
BY DEF Next, ResolveRead, ReverseRead, ResolveFetch, ResolveWrite, ResolveCommit, ReverseWrite,
       ReverseCommit, RequestFails, AgentCloses, WindowCloses, PeopleEdit, vars

-----------------------------------------------------------------------------
(* A reviewer alone.                                                         *)

\* Requests have come one after the other, and still do after this step.
AloneStep == Apart /\ ~overlapped' /\ [Next]_vars

\* A write of a request that resolves, and that was not answered with an error.
Acted(p) == p.kind = "resolve" /\ p.id \notin failed

\* Its request has yet to commit.
Pending(p) ==
    \E h \in Reviewers : /\ step[h] = "written" /\ req[h].kind = "resolve"
                         /\ req[h].alert = p.alert /\ req[h].id = p.id

\* What is allowed once: an alert that was acted on is resolved, or its only request
\* is about to resolve it, and a request that has not acted yet is the first.
OnceInv ==
    /\ \A p, q \in posted : Acted(p) /\ Acted(q) /\ p.alert = q.alert => p = q
    /\ \A p \in posted : Acted(p) => state[p.alert] = "resolved" \/ Pending(p)
    /\ \A h \in Reviewers :
          step[h] \in {"read", "fetched"} /\ req[h].kind = "resolve" =>
              \A p \in posted : Acted(p) => p.alert # req[h].alert

\* While no other request is in flight, an alert whose action is not about to be committed
\* is resolved.
LEMMA ActedIsResolved ==
    ASSUME OnceInv, NEW h \in Reviewers, OnlyOne(h), NEW p \in posted, Acted(p),
           ~(step[h] = "written" /\ req[h].kind = "resolve" /\ req[h].id = p.id)
    PROVE  state[p.alert] = "resolved"
BY DEF OnceInv, Pending, OnlyOne

LEMMA OnceKeeps ==
    ASSUME ReviewInv, OnceInv, AloneStep
    PROVE  OnceInv'
<1> USE DEF ReviewInv
<1>0. [Next]_vars /\ \A p : Acted(p)' => Acted(p)
  BY FailuresStay DEF AloneStep, Acted
<1>a. ASSUME NEW h \in Reviewers, Moves(h) PROVE OnlyOne(h) /\ OnlyOne(h)'
  BY <1>a, MovesAlone DEF AloneStep
<1>1. ASSUME NEW h \in Reviewers, NEW a \in Alerts, NEW action \in Actions \cup {"none"},
             NEW dry \in BOOLEAN, NEW res \in SentResolutions, ResolveRead(h, a, action, dry, res)
      PROVE  OnceInv'
  <2>1. PICK r : Begin(h, r) /\ r.alert = a
    <3> DEFINE r == [id |-> served + 1, kind |-> "resolve", alert |-> a, action |-> action,
                     dry_run |-> dry, resolution |-> res,
                     entity |-> IF action = "none" \/ dry THEN NoEntity ELSE EntityFor(a, action),
                     target |-> 0, prior |-> NoValue]
    <3>1. Begin(h, r)  BY <1>1 DEF ResolveRead
    <3>2. r.alert = a  OBVIOUS
    <3> HIDE DEF r
    <3> QED  BY <3>1, <3>2
  <2>0. OnlyOne(h) /\ OnlyOne(h)'
    <3>1. Moves(h)  BY <1>1 DEF Moves
    <3> QED  BY <1>a, <3>1
  <2>2. /\ step[h] = "idle" /\ step'[h] = "read" /\ req'[h].alert = a
        /\ state[a] # "resolved" /\ UNCHANGED <<posted, state>>
    BY <1>1, <2>1 DEF ResolveRead, MayResolve, Begin, TypeOK, RequestsFit
  <2>3. \A p \in posted : Acted(p) => state[p.alert] = "resolved"
    BY <2>0, <2>2, ActedIsResolved
  <2> QED  BY <1>0, <2>0, <2>2, <2>3 DEF OnceInv, OnlyOne
<1>2. ASSUME NEW h \in Reviewers, NEW a \in Alerts, ReverseRead(h, a) PROVE OnceInv'
  <2>1. PICK r : Begin(h, r) /\ r.kind = "reverse"
    <3> DEFINE e == events[a][Latest(a)]
    <3>1. Begin(h, [id |-> served + 1, kind |-> "reverse", alert |-> a,
                    action |-> e.action, dry_run |-> FALSE, resolution |-> "none",
                    entity |-> e.entity, target |-> Latest(a), prior |-> e.prior])
      BY <1>2 DEF ReverseRead
    <3> QED  BY <3>1
  <2>0. OnlyOne(h) /\ OnlyOne(h)'
    <3>1. Moves(h)  BY <1>2 DEF Moves
    <3> QED  BY <1>a, <3>1
  <2>2. /\ step[h] = "idle" /\ step'[h] = "read" /\ req'[h].kind = "reverse"
        /\ UNCHANGED <<posted, state>>
    BY <1>2, <2>1 DEF ReverseRead, Begin, TypeOK, RequestsFit
  <2>3. \A p \in posted : Acted(p) => state[p.alert] = "resolved"
    BY <2>0, <2>2, ActedIsResolved
  <2> QED  BY <1>0, <2>0, <2>2, <2>3 DEF OnceInv, OnlyOne
<1>3. ASSUME NEW h \in Reviewers, ResolveFetch(h) PROVE OnceInv'
  <2>1. req[h] \in Request  BY <1>3 DEF ResolveFetch, TypeOK
  <2>0. OnlyOne(h) /\ OnlyOne(h)'
    <3>1. Moves(h)  BY <1>3 DEF Moves
    <3> QED  BY <1>a, <3>1
  <2>2. /\ step[h] = "read" /\ step'[h] = "fetched"
        /\ req[h].kind = "resolve" /\ req'[h].kind = "resolve" /\ req'[h].alert = req[h].alert
        /\ UNCHANGED <<posted, state>>
    BY <1>3, <2>1 DEF ResolveFetch, Resolving, TypeOK, RequestsFit, Request
  <2>3. \A p \in posted : Acted(p) => state[p.alert] = "resolved"
    BY <2>0, <2>2, ActedIsResolved
  <2> QED  BY <1>0, <2>0, <2>2, <2>3 DEF OnceInv, OnlyOne
<1>4. ASSUME NEW h \in Reviewers, ResolveWrite(h) \/ ReverseWrite(h) PROVE OnceInv'
  <2>0. OnlyOne(h) /\ OnlyOne(h)'
    <3>1. Moves(h)  BY <1>4 DEF Moves
    <3> QED  BY <1>a, <3>1
  <2>1. /\ step'[h] = "written" /\ UNCHANGED <<req, state>>
        /\ step[h] \in {"read", "fetched"} /\ req[h].kind \in {"resolve", "reverse"}
    BY <1>4 DEF ResolveWrite, ReverseWrite, Resolving, Reversing, Write, TypeOK
  <2>2. PICK p : /\ posted' = posted \cup {p}
                 /\ p.kind = req[h].kind /\ p.alert = req[h].alert /\ p.id = req[h].id
    <3> DEFINE p == [id |-> req[h].id, kind |-> req[h].kind, alert |-> req[h].alert,
                     action |-> req[h].action, entity |-> req[h].entity,
                     before |-> bullhorn[req[h].entity]]
    <3>1. posted' = posted \cup {p}
      BY <1>4 DEF ResolveWrite, ReverseWrite, Resolving, Reversing, Write
    <3>2. p.kind = req[h].kind /\ p.alert = req[h].alert /\ p.id = req[h].id
      OBVIOUS
    <3> HIDE DEF p
    <3> QED  BY <3>1, <3>2
  <2>4. \A q \in posted : Acted(q) => state[q.alert] = "resolved"
    BY <2>0, <2>1, ActedIsResolved
  <2>5. \A q \in posted : Acted(q)' /\ Acted(p)' => q.alert # p.alert
    <3>1. Acted(p)' => req[h].kind = "resolve"  BY <2>2 DEF Acted
    <3>2. req[h].kind = "resolve" => \A q \in posted : Acted(q) => q.alert # req[h].alert
      BY <2>1 DEF OnceInv
    <3> QED  BY <1>0, <2>2, <3>1, <3>2
  <2>6. Acted(p)' => Pending(p)'
    BY <2>1, <2>2 DEF Acted, Pending
  <2>7. \A q \in posted' : Acted(q)' => state'[q.alert] = "resolved" \/ Pending(q)'
    BY <1>0, <2>1, <2>2, <2>4, <2>6
  <2>8. \A q, x \in posted' : Acted(q)' /\ Acted(x)' /\ q.alert = x.alert => q = x
    BY <1>0, <2>2, <2>5 DEF OnceInv
  <2>9. \A g \in Reviewers : step'[g] \notin {"read", "fetched"}
    BY <2>0, <2>1 DEF OnlyOne
  <2> QED  BY <2>7, <2>8, <2>9 DEF OnceInv
<1>5. ASSUME NEW h \in Reviewers, ResolveCommit(h) \/ ReverseCommit(h) \/ RequestFails(h)
      PROVE  OnceInv'
  <2>0. OnlyOne(h) /\ OnlyOne(h)'
    <3>1. Moves(h)  BY <1>5 DEF Moves
    <3> QED  BY <1>a, <3>1
  <2>1. step'[h] = "idle" /\ UNCHANGED posted
    BY <1>5 DEF ResolveCommit, ReverseCommit, RequestFails, End, TypeOK
  <2>2. \A g \in Reviewers : step'[g] = "idle"
    BY <2>0, <2>1 DEF OnlyOne
  <2>3. \/ UNCHANGED state
        \/ req[h].kind = "resolve" /\ state' = [state EXCEPT ![req[h].alert] = "resolved"]
    BY <1>5 DEF ResolveCommit, ReverseCommit, RequestFails, Resolving
  <2>4. ASSUME NEW p \in posted, Acted(p)' PROVE state'[p.alert] = "resolved"
    <3>1. Acted(p) /\ p.alert \in Alerts  BY <1>0, <2>4 DEF TypeOK, Post
    <3>2. CASE step[h] = "written" /\ req[h].kind = "resolve" /\ req[h].id = p.id
      <4>1. req[h].id \notin failed'  BY <2>4, <3>2 DEF Acted
      <4>2. state' = [state EXCEPT ![req[h].alert] = "resolved"]
        BY <1>5, <3>2, <4>1 DEF ResolveCommit, ReverseCommit, RequestFails, Reversing
      <4>3. state[p.alert] = "resolved" \/ p.alert = req[h].alert
        BY <2>0, <3>1 DEF OnceInv, Pending, OnlyOne
      <4> QED  BY <3>1, <4>2, <4>3 DEF TypeOK
    <3>3. CASE ~(step[h] = "written" /\ req[h].kind = "resolve" /\ req[h].id = p.id)
      <4>1. state[p.alert] = "resolved"  BY <2>0, <3>1, <3>3, ActedIsResolved
      <4> QED  BY <2>3, <3>1, <4>1 DEF TypeOK
    <3> QED  BY <3>2, <3>3
  <2>5. \A p, q \in posted' : Acted(p)' /\ Acted(q)' /\ p.alert = q.alert => p = q
    BY <1>0, <2>1 DEF OnceInv
  <2> QED  BY <2>1, <2>2, <2>4, <2>5 DEF OnceInv
<1>6. ASSUME NEW a \in Alerts, AgentCloses(a) PROVE OnceInv'
  <2>1. /\ UNCHANGED <<step, req, posted, failed>>
        /\ state' = [state EXCEPT ![a] = "resolved"]
    BY <1>6 DEF AgentCloses
  <2>2. \A b : state[b] = "resolved" => state'[b] = "resolved"
    BY <2>1 DEF TypeOK
  <2> QED  BY <2>1, <2>2 DEF OnceInv, Acted, Pending
<1>7. CASE UNCHANGED <<step, req, posted, state, failed>>
  BY <1>7 DEF OnceInv, Acted, Pending
<1> QED
  BY <1>0, <1>1, <1>2, <1>3, <1>4, <1>5, <1>6, <1>7
  DEF Next, WindowCloses, PeopleEdit, vars

\* Whatever the schema refuses and whichever requests fail: until requests overlap, an
\* alert is acted on at most once by a request that is not answered with an error.  The
\* commit that follows the write resolves the alert, and a resolved alert is refused.
THEOREM ActsOnce == Spec => []ActsAtMostOnce
<1> DEFINE IInv == ReviewInv /\ Apart /\ (~overlapped => OnceInv)
<1>1. Init => IInv
  BY ReviewStarts DEF Init, OnceInv, Apart
<1>2. IInv /\ [Next]_vars => IInv'
  <2> SUFFICES ASSUME IInv, [Next]_vars PROVE IInv'  OBVIOUS
  <2>0. TypeOK  BY DEF ReviewInv
  <2>1. Apart' /\ (~overlapped' => ~overlapped)  BY <2>0, ApartKeeps
  <2>2. ~overlapped' => OnceInv'
    BY <2>1, OnceKeeps DEF AloneStep
  <2> QED  BY <2>1, <2>2, ReviewKeeps
<1>3. IInv => ActsAtMostOnce
  <2> SUFFICES ASSUME OnceInv, NEW a \in Alerts
               PROVE  Cardinality({p \in posted : /\ p.alert = a /\ p.kind = "resolve"
                                                  /\ p.id \notin failed}) <= 1
    BY DEF ActsAtMostOnce
  <2> DEFINE S == {p \in posted : p.alert = a /\ p.kind = "resolve" /\ p.id \notin failed}
  <2>1. CASE S = {}  BY <2>1, FS_EmptySet
  <2>2. CASE S # {}
    <3>1. PICK p \in S : TRUE  BY <2>2
    <3>2. S = {p}  BY <3>1 DEF OnceInv, Acted
    <3> QED  BY <3>2, FS_Singleton
  <2> QED  BY <2>1, <2>2
<1> QED  BY <1>1, <1>2, <1>3, PTL DEF Spec

-----------------------------------------------------------------------------
(* What a step does to the log.                                              *)

Logged(a, e) == \E i \in 1 .. Len(events[a]) : e = events[a][i]

\* Two events that differ in nothing but the age of the one and the other.
Same(e, f) ==
    /\ e.type = f.type /\ e.action = f.action /\ e.entity = f.entity /\ e.of = f.of
    /\ e.reversal_available = f.reversal_available /\ e.prior = f.prior

\* An event that the request r leaves in the log of its alert.
LeftBy(r, a, e) ==
    /\ a = r.alert /\ e.of = r.id /\ e.entity \in {r.entity, NoEntity}
    /\ e.entity # NoEntity =>
         e.action = r.action /\ (e.type = "action" <=> r.kind = "resolve")
    /\ e.reversal_available =>
         /\ r.kind = "resolve" /\ e.action = r.action /\ e.prior = r.prior
         /\ e.entity = r.entity /\ r.prior # NoValue

LEMMA ResolveEventsAre ==
    ASSUME NEW r \in Request, r.kind = "resolve", r.entity # NoEntity => r.action # "none"
    PROVE  LET es == ResolveEvents(r)
           IN  /\ es \in Seq(Event) /\ Len(es) \in 1 .. 2
               /\ \A i \in 1 .. Len(es) : LeftBy(r, r.alert, es[i])
               /\ r.entity # NoEntity => \E i \in 1 .. Len(es) : es[i].entity = r.entity
<1> DEFINE done == [type |-> "action", action |-> r.action, entity |-> r.entity,
                    reversal_available |-> r.prior # NoValue, prior |-> r.prior,
                    recent |-> TRUE, of |-> r.id, undoes |-> 0]
           closed == [type |-> "resolved", action |-> "none", entity |-> NoEntity,
                      reversal_available |-> FALSE, prior |-> NoValue, recent |-> TRUE,
                      of |-> r.id, undoes |-> 0]
<1>1. /\ r.action \in Actions \cup {"none"} /\ r.entity \in Entities \cup {NoEntity}
      /\ r.prior \in Value \cup {NoValue} /\ r.id \in 1 .. MaxRequests
  BY DEF Request
<1>2. done \in Event /\ closed \in Event
  BY <1>1 DEF Event
<1>3. LeftBy(r, r.alert, done) /\ LeftBy(r, r.alert, closed) /\ done.entity = r.entity
  BY DEF LeftBy
<1>4. ResolveEvents(r) = (IF r.action = "none" THEN << >> ELSE <<done>>) \o <<closed>>
  BY DEF ResolveEvents
<1> HIDE DEF done, closed
<1>5. <<closed>> \in Seq(Event) /\ <<done>> \in Seq(Event) /\ << >> \in Seq(Event)
  BY <1>2
<1>6. CASE r.action = "none"
  <2>1. ResolveEvents(r) = <<closed>>
    <3>1. << >> \o <<closed>> = <<closed>>  OBVIOUS
    <3> QED  BY <1>4, <1>6, <3>1
  <2> QED  BY <1>3, <1>5, <1>6, <2>1
<1>7. CASE r.action # "none"
  <2>1. ResolveEvents(r) = <<done>> \o <<closed>>
    BY <1>4, <1>7
  <2>2. Len(<<done>>) = 1 /\ Len(<<closed>>) = 1 /\ <<done>>[1] = done /\ <<closed>>[1] = closed
    OBVIOUS
  <2> DEFINE es == <<done>> \o <<closed>>
  <2>3. es \in Seq(Event) /\ Len(es) = 2 /\ es[1] = done /\ es[2] = closed
    BY <1>5, <2>2
  <2> HIDE DEF es
  <2>4. \A i \in 1 .. Len(es) : es[i] = done \/ es[i] = closed
    BY <2>3
  <2>5. 1 \in 1 .. Len(es) /\ Len(es) \in 1 .. 2
    BY <2>3
  <2> QED  BY <1>3, <2>1, <2>3, <2>4, <2>5 DEF es
<1> QED  BY <1>6, <1>7

\* The log after es has been appended to that of alert a.
LEMMA Appended ==
    ASSUME TypeOK, NEW a \in Alerts, NEW es \in Seq(Event),
           events' = [events EXCEPT ![a] = events[a] \o es]
    PROVE  /\ \A b \in Alerts : \A e : Logged(b, e) => Logged(b, e)'
           /\ \A i \in 1 .. Len(es) : \A e : e = es[i] => Logged(a, e)'
           /\ \A b \in Alerts : \A e : Logged(b, e)' =>
                 Logged(b, e) \/ (b = a /\ \E i \in 1 .. Len(es) : e = es[i])
           /\ \A b \in Alerts : Len(events'[b]) <= Len(events[b]) + Len(es)
<1> DEFINE old == events[a]
<1>1. old \in Seq(Event) /\ Len(old) \in Nat /\ Len(es) \in Nat
  BY DEF TypeOK
<1>2. /\ old \o es \in Seq(Event) /\ Len(old \o es) = Len(old) + Len(es)
      /\ \A i \in 1 .. Len(old) : (old \o es)[i] = old[i]
      /\ \A i \in 1 .. Len(es) : (old \o es)[Len(old) + i] = es[i]
  BY <1>1
<1>3. /\ events'[a] = old \o es
      /\ \A b \in Alerts \ {a} : events'[b] = events[b]
  BY DEF TypeOK
<1>4. ASSUME NEW e, Logged(a, e) PROVE Logged(a, e)'
  <2>1. PICK i \in 1 .. Len(old) : e = old[i]  BY <1>4 DEF Logged
  <2>2. i \in 1 .. Len(old \o es) /\ e = (old \o es)[i]  BY <1>1, <1>2, <2>1
  <2> QED  BY <1>3, <2>2 DEF Logged
<1>5. ASSUME NEW i \in 1 .. Len(es), NEW e, e = es[i] PROVE Logged(a, e)'
  <2>1. Len(old) + i \in 1 .. Len(old \o es) /\ e = (old \o es)[Len(old) + i]
    BY <1>1, <1>2, <1>5
  <2> QED  BY <1>3, <2>1 DEF Logged
<1>6. ASSUME NEW e, Logged(a, e)' PROVE Logged(a, e) \/ \E i \in 1 .. Len(es) : e = es[i]
  <2>1. PICK i \in 1 .. Len(old \o es) : e = (old \o es)[i]  BY <1>3, <1>6 DEF Logged
  <2>2. CASE i \in 1 .. Len(old)
    BY <1>2, <2>1, <2>2 DEF Logged
  <2>3. CASE i \notin 1 .. Len(old)
    <3>1. i - Len(old) \in 1 .. Len(es) /\ Len(old) + (i - Len(old)) = i
      BY <1>1, <1>2, <2>1, <2>3
    <3> QED  BY <1>2, <2>1, <3>1
  <2> QED  BY <2>2, <2>3
<1>7. \A b \in Alerts \ {a} : \A e : Logged(b, e) <=> Logged(b, e)'
  BY <1>3 DEF Logged
<1>8. \A b \in Alerts : Len(events'[b]) <= Len(events[b]) + Len(es)
  BY <1>1, <1>2, <1>3 DEF TypeOK
<1> QED  BY <1>4, <1>5, <1>6, <1>7, <1>8

LEMMA CommitLog ==
    ASSUME ReviewInv, NEW h \in Reviewers, ResolveCommit(h) \/ ReverseCommit(h)
    PROVE  /\ \A b \in Alerts : \A e : Logged(b, e) => Logged(b, e)'
           /\ \A b \in Alerts : \A e : Logged(b, e)' => Logged(b, e) \/ LeftBy(req[h], b, e)
           /\ \A b \in Alerts : Len(events'[b]) <= Len(events[b]) + 2
           /\ Saved(h) /\ req[h].entity # NoEntity =>
                 \A a : a = req[h].alert =>
                    \E e : Logged(a, e)' /\ e.entity = req[h].entity /\ e.of = req[h].id
<1> USE DEF ReviewInv
<1> DEFINE r == req[h]
<1>1. r \in Request /\ r.alert \in Alerts /\ step[h] # "idle" /\ Fits(h)
  <2>1. step[h] # "idle"  BY DEF ResolveCommit, ReverseCommit, Resolving, Reversing
  <2> QED  BY <2>1 DEF TypeOK, Request, RequestsFit
<1>2. ASSUME NEW es \in Seq(Event), Len(es) \in 1 .. 2,
             events' = [events EXCEPT ![r.alert] = events[r.alert] \o es],
             \A i \in 1 .. Len(es) : LeftBy(r, r.alert, es[i]),
             r.entity # NoEntity => \E i \in 1 .. Len(es) : es[i].entity = r.entity
      PROVE  /\ \A b \in Alerts : \A e : Logged(b, e) => Logged(b, e)'
             /\ \A b \in Alerts : \A e : Logged(b, e)' => Logged(b, e) \/ LeftBy(r, b, e)
             /\ \A b \in Alerts : Len(events'[b]) <= Len(events[b]) + 2
             /\ r.entity # NoEntity =>
                   \A a : a = r.alert =>
                      \E e : Logged(a, e)' /\ e.entity = r.entity /\ e.of = r.id
  <2>1. /\ \A b \in Alerts : \A e : Logged(b, e) => Logged(b, e)'
        /\ \A a : a = r.alert => \A i \in 1 .. Len(es) : \A e : e = es[i] => Logged(a, e)'
        /\ \A b \in Alerts : \A e : Logged(b, e)' =>
              Logged(b, e) \/ (b = r.alert /\ \E i \in 1 .. Len(es) : e = es[i])
        /\ \A b \in Alerts : Len(events'[b]) <= Len(events[b]) + Len(es)
    <3>1. ASSUME NEW a \in Alerts, a = r.alert
          PROVE  /\ \A b \in Alerts : \A e : Logged(b, e) => Logged(b, e)'
                 /\ \A i \in 1 .. Len(es) : \A e : e = es[i] => Logged(a, e)'
                 /\ \A b \in Alerts : \A e : Logged(b, e)' =>
                       Logged(b, e) \/ (b = a /\ \E i \in 1 .. Len(es) : e = es[i])
                 /\ \A b \in Alerts : Len(events'[b]) <= Len(events[b]) + Len(es)
      <4>1. events' = [events EXCEPT ![a] = events[a] \o es]
        BY <1>2, <3>1
      <4> QED  BY <1>2, <4>1, Appended
    <3> QED  BY <1>1, <3>1
  <2>2. \A b \in Alerts : Len(events'[b]) <= Len(events[b]) + 2
    <3>1. \A b \in Alerts : Len(events[b]) \in Nat  BY DEF TypeOK
    <3>2. \A b \in Alerts : Len(events'[b]) \in Nat
      <4>1. ReviewInv'  BY CommitsKeep
      <4> QED  BY <4>1 DEF TypeOK
    <3>3. Len(es) \in Nat /\ Len(es) <= 2
      BY <1>2
    <3>4. ASSUME NEW b \in Alerts PROVE Len(events'[b]) <= Len(events[b]) + 2
      <4>1. Len(events'[b]) <= Len(events[b]) + Len(es)  BY <2>1
      <4> HIDE DEF r
      <4> QED  BY <3>1, <3>2, <3>3, <4>1
    <3> QED  BY <3>4
  <2>3. ASSUME r.entity # NoEntity, NEW a, a = r.alert
        PROVE  \E e : Logged(a, e)' /\ e.entity = r.entity /\ e.of = r.id
    <3>1. PICK i \in 1 .. Len(es) : es[i].entity = r.entity  BY <1>2, <2>3
    <3>2. es[i].of = r.id  BY <1>2 DEF LeftBy
    <3> QED  BY <2>1, <2>3, <3>1, <3>2
  <2> QED  BY <1>2, <2>1, <2>2, <2>3
<1>3. CASE ResolveCommit(h) /\ ResolveAllowed(r)
  <2>1. /\ r.kind = "resolve"
        /\ IF r.entity = NoEntity THEN step[h] = "read" ELSE step[h] = "written"
        /\ events' = [events EXCEPT ![r.alert] = events[r.alert] \o ResolveEvents(r)]
    BY <1>3 DEF ResolveCommit, Resolving
  <2>2. r.entity # NoEntity => r.action # "none"
    BY <1>1, <2>1 DEF Fits, ResolveFits, Actions
  <2> DEFINE es == ResolveEvents(r)
  <2>3. /\ es \in Seq(Event) /\ Len(es) \in 1 .. 2
        /\ \A i \in 1 .. Len(es) : LeftBy(r, r.alert, es[i])
        /\ r.entity # NoEntity => \E i \in 1 .. Len(es) : es[i].entity = r.entity
    BY <1>1, <2>1, <2>2, ResolveEventsAre
  <2>4. events' = [events EXCEPT ![r.alert] = events[r.alert] \o es]
    BY <2>1
  <2> HIDE DEF es
  <2> QED  BY <1>2, <2>3, <2>4
<1>4. CASE ReverseCommit(h) /\ EventCheck("reversed")
  <2> DEFINE e == ReversedEvent(r)
  <2>1. /\ r.kind = "reverse"
        /\ events' = [events EXCEPT ![r.alert] = Append(events[r.alert], e)]
    BY <1>4 DEF ReverseCommit, Reversing, ReversedEvent
  <2>2. e \in Event /\ LeftBy(r, r.alert, e) /\ e.entity = r.entity
    <3>1. r.action \in Actions \cup {"none"} /\ r.entity \in Entities \cup {NoEntity}
          /\ r.id \in 1 .. MaxRequests /\ r.target \in Nat
      BY <1>1 DEF Request
    <3>2. e \in Event  BY <3>1 DEF Event, ReversedEvent
    <3>3. /\ e.of = r.id /\ e.entity = r.entity /\ e.action = r.action /\ e.type = "reversed"
          /\ e.reversal_available = FALSE
      BY DEF ReversedEvent
    <3> HIDE DEF e
    <3> QED  BY <2>1, <3>2, <3>3 DEF LeftBy
  <2> HIDE DEF e
  <2>3. events' = [events EXCEPT ![r.alert] = events[r.alert] \o <<e>>]
    <3>1. events[r.alert] \in Seq(Event)  BY <1>1 DEF TypeOK
    <3>2. Append(events[r.alert], e) = events[r.alert] \o <<e>>
      BY <2>2, <3>1, AppendIsConcat
    <3> QED  BY <2>1, <3>2
  <2>4. <<e>> \in Seq(Event) /\ Len(<<e>>) = 1 /\ <<e>>[1] = e
    BY <2>2
  <2>5. /\ \A i \in 1 .. Len(<<e>>) : LeftBy(r, r.alert, <<e>>[i])
        /\ \E i \in 1 .. Len(<<e>>) : <<e>>[i].entity = r.entity
    BY <2>2, <2>4
  <2> DEFINE es == <<e>>
  <2>6. /\ es \in Seq(Event) /\ Len(es) \in 1 .. 2
        /\ \A i \in 1 .. Len(es) : LeftBy(r, r.alert, es[i])
        /\ r.entity # NoEntity => \E i \in 1 .. Len(es) : es[i].entity = r.entity
        /\ events' = [events EXCEPT ![r.alert] = events[r.alert] \o es]
    BY <2>3, <2>4, <2>5
  <2> HIDE DEF es
  <2> QED  BY <1>2, <2>6
<1>5. CASE ~Saved(h)
  <2>1. UNCHANGED events
    BY <1>5 DEF ResolveCommit, ReverseCommit, Saved, Resolving, Reversing
  <2> QED  BY <1>5, <2>1 DEF Logged, TypeOK
<1> QED  BY <1>3, <1>4, <1>5 DEF Saved, ResolveCommit, ReverseCommit, Resolving, Reversing

\* The age of an event is all that changes in the log, but for what a commit leaves.
LEMMA AgedLog ==
    ASSUME ReviewInv,
           \/ UNCHANGED events
           \/ \E a \in Alerts : \E i \in 1 .. Len(events[a]) : WindowCloses(a, i)
    PROVE  \A b \in Alerts :
              /\ \A e : Logged(b, e) => \E f : Logged(b, f)' /\ Same(e, f)
              /\ \A f : Logged(b, f)' => \E e : Logged(b, e) /\ Same(e, f)
              /\ Len(events'[b]) = Len(events[b]) /\ Len(events[b]) \in Nat
<1> USE DEF ReviewInv
<1>0. /\ \A e : Same(e, e)
      /\ \A b \in Alerts : Len(events[b]) \in Nat
  BY DEF Same, TypeOK
<1>1. CASE UNCHANGED events
  BY <1>0, <1>1 DEF Logged
<1>2. ASSUME NEW a \in Alerts, NEW i \in 1 .. Len(events[a]), WindowCloses(a, i)
      PROVE  \A b \in Alerts :
                /\ \A e : Logged(b, e) => \E f : Logged(b, f)' /\ Same(e, f)
                /\ \A f : Logged(b, f)' => \E e : Logged(b, e) /\ Same(e, f)
                /\ Len(events'[b]) = Len(events[b])
  <2> DEFINE old == events[a]
             late(e) == [e EXCEPT !.recent = FALSE]
             new == [j \in 1 .. Len(old) |-> IF j <= i THEN late(old[j]) ELSE old[j]]
  <2>1. events' = [events EXCEPT ![a] = new]
    BY <1>2 DEF WindowCloses
  <2>2. old \in Seq(Event) /\ Len(old) \in Nat /\ \A j \in 1 .. Len(old) : old[j] \in Event
    BY DEF TypeOK
  <2>3. \A e \in Event : late(e) \in Event /\ Same(e, late(e))
    BY DEF Event, Same
  <2> HIDE DEF late
  <2>4. new \in Seq(Event) /\ Len(new) = Len(old) /\ \A j \in 1 .. Len(old) : Same(old[j], new[j])
    BY <1>0, <2>2, <2>3
  <2> HIDE DEF new
  <2>5. events'[a] = new /\ \A b \in Alerts \ {a} : events'[b] = events[b]
    BY <2>1 DEF TypeOK
  <2>6. /\ \A e : Logged(a, e) => \E f : Logged(a, f)' /\ Same(e, f)
        /\ \A f : Logged(a, f)' => \E e : Logged(a, e) /\ Same(e, f)
    BY <2>4, <2>5 DEF Logged
  <2>7. \A b \in Alerts \ {a} : \A e : Logged(b, e) <=> Logged(b, e)'
    BY <2>5 DEF Logged
  <2>8. \A b \in Alerts : Len(events'[b]) = Len(events[b])
    BY <2>4, <2>5
  <2> QED  BY <1>0, <2>6, <2>7, <2>8
<1> QED  BY <1>0, <1>1, <1>2

\* A step keeps what is logged, but for the age of it, and adds what a commit leaves.
LEMMA LogSteps ==
    ASSUME ReviewInv, [Next]_vars
    PROVE  /\ \A b \in Alerts : \A e : Logged(b, e) => \E f : Logged(b, f)' /\ Same(e, f)
           /\ \A b \in Alerts : \A f : Logged(b, f)' =>
                 \/ \E e : Logged(b, e) /\ Same(e, f)
                 \/ \E h \in Reviewers : /\ ResolveCommit(h) \/ ReverseCommit(h)
                                         /\ LeftBy(req[h], b, f)
<1> USE DEF ReviewInv
<1>0. \A e : Same(e, e)  BY DEF Same
<1>2. ASSUME NEW h \in Reviewers, ResolveCommit(h) \/ ReverseCommit(h)
      PROVE  /\ \A b \in Alerts : \A e : Logged(b, e) => \E f : Logged(b, f)' /\ Same(e, f)
             /\ \A b \in Alerts : \A f : Logged(b, f)' =>
                   \/ \E e : Logged(b, e) /\ Same(e, f)
                   \/ LeftBy(req[h], b, f)
  BY <1>0, <1>2, CommitLog
<1>3. \/ UNCHANGED events
      \/ \E h \in Reviewers : ResolveCommit(h) \/ ReverseCommit(h)
      \/ \E a \in Alerts : \E i \in 1 .. Len(events[a]) : WindowCloses(a, i)
  BY DEF Next, ResolveRead, ReverseRead, ResolveFetch, ResolveWrite, ReverseWrite, RequestFails,
         AgentCloses, PeopleEdit, vars
<1> QED  BY <1>2, <1>3, AgedLog

-----------------------------------------------------------------------------
(* What an undo restores.                                                    *)

\* Nobody edits timesheets in Bullhorn meanwhile.
SheetsAreOurs == Edited \cap Sheets = {}

\* Request id has done its action for alert a, on an entity that was v before.
Before(a, id, v) ==
    \E q \in posted : q.kind = "resolve" /\ q.alert = a /\ q.id = id /\ q.before = v

\* A request about a Did-Not-Work: what it has read is what its write replaces, or what
\* the write that it undoes has replaced.
DnwFits(h) ==
    LET r == req[h] IN
    /\ step[h] # "written" => \A p \in posted : p.id < r.id
    /\ r.action = "mark_dnw" /\ r.entity # NoEntity =>
         /\ r.entity \in Sheets
         /\ r.kind = "resolve" /\ step[h] = "fetched" => r.prior = bullhorn[r.entity]
         /\ r.kind = "resolve" /\ step[h] = "written" => Before(r.alert, r.id, r.prior)
         /\ r.kind = "reverse" => \E id \in 1 .. r.id - 1 : Before(r.alert, id, r.prior)

\* The log has the snapshots of what was done.
SnapshotsTrue ==
    \A a \in Alerts : \A e :
        Logged(a, e) /\ e.reversal_available /\ e.action = "mark_dnw" =>
            e.entity \in Sheets /\ Before(a, e.of, e.prior)

\* A timesheet of which the last write was an undo is as it was before what is undone.
Restored(p) ==
    /\ p.entity \in Sheets
    /\ (\A q \in posted : q.entity = p.entity => q.id <= p.id) =>
         \E id \in 1 .. p.id - 1 : Before(p.alert, id, bullhorn[p.entity])

UndoInv ==
    /\ \A h \in Reviewers : step[h] # "idle" => DnwFits(h)
    /\ \A p \in posted : p.id <= served
    /\ SnapshotsTrue
    /\ \A p \in posted : p.kind = "reverse" /\ p.action = "mark_dnw" => Restored(p)

LEMMA BeforeStays ==
    ASSUME posted \subseteq posted', NEW a, NEW id, NEW v, Before(a, id, v)
    PROVE  Before(a, id, v)'
BY DEF Before

LEMMA SnapshotsStay ==
    ASSUME ReviewInv, UndoInv, [Next]_vars
    PROVE  SnapshotsTrue'
<1> SUFFICES ASSUME NEW a \in Alerts, NEW f, Logged(a, f)', f.reversal_available,
                    f.action = "mark_dnw"
             PROVE  f.entity \in Sheets /\ Before(a, f.of, f.prior)'
  BY DEF SnapshotsTrue
<1>1. posted \subseteq posted'  BY NewPosts
<1>2. ASSUME NEW e, Logged(a, e), Same(e, f)
      PROVE  f.entity \in Sheets /\ Before(a, f.of, f.prior)'
  <2>1. e.entity \in Sheets /\ Before(a, e.of, e.prior)
    BY <1>2 DEF UndoInv, SnapshotsTrue, Same
  <2> QED  BY <1>1, <1>2, <2>1, BeforeStays DEF Same
<1>3. ASSUME NEW h \in Reviewers, ResolveCommit(h) \/ ReverseCommit(h), LeftBy(req[h], a, f)
      PROVE  f.entity \in Sheets /\ Before(a, f.of, f.prior)'
  <2> DEFINE r == req[h]
  <2>1. /\ r.kind = "resolve" /\ r.action = "mark_dnw" /\ r.prior # NoValue
        /\ a = r.alert /\ f.of = r.id /\ f.entity = r.entity /\ f.prior = r.prior
    BY <1>3 DEF LeftBy
  <2>2. /\ step[h] # "idle"
        /\ IF r.entity = NoEntity THEN step[h] = "read" ELSE step[h] = "written"
    BY <1>3, <2>1 DEF ResolveCommit, ReverseCommit, Resolving, Reversing
  <2>3. ResolveFits(h)
    BY <2>1, <2>2 DEF ReviewInv, RequestsFit, Fits
  <2>4. step[h] = "written" /\ r.entity # NoEntity
    BY <2>1, <2>2, <2>3 DEF ResolveFits
  <2>5. r.entity \in Sheets /\ Before(r.alert, r.id, r.prior)
    BY <2>1, <2>2, <2>4 DEF UndoInv, DnwFits
  <2> QED  BY <1>1, <2>1, <2>5, BeforeStays
<1> QED  BY <1>2, <1>3, LogSteps

\* A step that posts nothing and changes no timesheet.
LEMMA NothingPosted ==
    ASSUME ReviewInv, UndoInv, [Next]_vars, UNCHANGED posted, served <= served',
           served \in Nat, served' \in Nat,
           \A e \in Sheets : bullhorn'[e] = bullhorn[e],
           \A h \in Reviewers : step'[h] # "idle" => DnwFits(h)'
    PROVE  UndoInv'
<1>1. \A p \in posted : p.id \in Nat  BY DEF ReviewInv, TypeOK, Post
<1>2. \A p \in posted' : p.id <= served'
  BY <1>1 DEF UndoInv
<1>3. ASSUME NEW p \in posted', p.kind = "reverse", p.action = "mark_dnw"
      PROVE  Restored(p)'
  <2>1. Restored(p)  BY <1>3 DEF UndoInv
  <2> QED  BY <2>1 DEF Restored, Before
<1> QED  BY <1>2, <1>3, SnapshotsStay DEF UndoInv

LEMMA UndoReads ==
    ASSUME ReviewInv, UndoInv, NEW h \in Reviewers, OnlyOne(h), OnlyOne(h)', NEW a \in Alerts,
           \/ \E action \in Actions \cup {"none"}, dry \in BOOLEAN, res \in SentResolutions :
                 ResolveRead(h, a, action, dry, res)
           \/ ReverseRead(h, a)
    PROVE  UndoInv'
<1> USE DEF ReviewInv
<1>0. served \in Nat /\ (\A p \in posted : p.id \in Nat /\ p.id <= served) /\ [Next]_vars
  <2>1. \A p \in posted : p.id \in Nat  BY DEF TypeOK, Post
  <2>2. [Next]_vars  BY DEF Next
  <2> QED  BY <2>1, <2>2 DEF TypeOK, UndoInv
<1>1. ASSUME NEW r, Begin(h, r), r.id = served + 1, UNCHANGED <<bullhorn, posted>>,
             r.action = "mark_dnw" /\ r.entity # NoEntity =>
                /\ r.entity \in Sheets
                /\ r.kind = "reverse" => \E id \in 1 .. r.id - 1 : Before(r.alert, id, r.prior)
      PROVE  UndoInv'
  <2>1. /\ served' = served + 1 /\ req'[h] = r /\ step'[h] = "read"
    BY <1>1 DEF Begin, TypeOK, RequestsFit
  <2>2. served' \in Nat /\ served <= served'
    BY <1>0, <2>1
  <2>3. \A p \in posted : p.id < served + 1
    BY <1>0
  <2>4. DnwFits(h)'
    <3>1. \A id : Before(r.alert, id, r.prior) => Before(r.alert, id, r.prior)'
      BY <1>1 DEF Before
    <3> QED  BY <1>1, <2>1, <2>3, <3>1 DEF DnwFits
  <2> QED  BY <1>0, <1>1, <2>1, <2>2, <2>4, NothingPosted DEF OnlyOne
<1>2. ASSUME NEW action \in Actions \cup {"none"}, NEW dry \in BOOLEAN, NEW res \in SentResolutions,
             ResolveRead(h, a, action, dry, res)
      PROVE  UndoInv'
  <2> DEFINE r == [id |-> served + 1, kind |-> "resolve", alert |-> a, action |-> action,
                   dry_run |-> dry, resolution |-> res,
                   entity |-> IF action = "none" \/ dry THEN NoEntity ELSE EntityFor(a, action),
                   target |-> 0, prior |-> NoValue]
  <2>1. Begin(h, r) /\ UNCHANGED <<bullhorn, posted>>
    BY <1>2 DEF ResolveRead
  <2>2. r.action = "mark_dnw" /\ r.entity # NoEntity => r.entity \in Sheets
    BY ReviewAssumption DEF EntityFor
  <2>3. r.id = served + 1 /\ r.kind = "resolve"
    OBVIOUS
  <2> HIDE DEF r
  <2> QED  BY <1>1, <2>1, <2>2, <2>3
<1>3. ASSUME ReverseRead(h, a) PROVE UndoInv'
  <2> DEFINE e == events[a][Latest(a)]
  <2>1. Reversible(a) # {} /\ UNCHANGED <<bullhorn, posted>>
    BY <1>3 DEF ReverseRead
  <2>2. Begin(h, [id |-> served + 1, kind |-> "reverse", alert |-> a,
                  action |-> e.action, dry_run |-> FALSE, resolution |-> "none",
                  entity |-> e.entity, target |-> Latest(a), prior |-> e.prior])
    BY <1>3 DEF ReverseRead
  <2> DEFINE r == [id |-> served + 1, kind |-> "reverse", alert |-> a,
                   action |-> e.action, dry_run |-> FALSE, resolution |-> "none",
                   entity |-> e.entity, target |-> Latest(a), prior |-> e.prior]
  <2>3. Latest(a) \in 1 .. Len(events[a]) /\ e.reversal_available
    BY <2>1, LatestIsReversible DEF TypeOK
  <2>4. e.of \in Nat /\ 1 <= e.of /\ e.of <= served
    <3>1. e \in Event /\ EventFits(a, e)  BY <2>3 DEF TypeOK, LogFits
    <3> QED  BY <3>1 DEF Event, EventFits
  <2>5. e.action = "mark_dnw" => e.entity \in Sheets /\ Before(a, e.of, e.prior)
    BY <2>3 DEF UndoInv, SnapshotsTrue, Logged
  <2>6. /\ r.id = served + 1 /\ r.kind = "reverse" /\ r.alert = a /\ r.action = e.action
        /\ r.entity = e.entity /\ r.prior = e.prior
    OBVIOUS
  <2>7. Begin(h, r)  BY <2>2
  <2> HIDE DEF r, e
  <2>8. e.of \in 1 .. r.id - 1
    BY <1>0, <2>4, <2>6
  <2> QED  BY <1>1, <2>1, <2>5, <2>6, <2>7, <2>8
<1> QED  BY <1>2, <1>3

LEMMA UndoFetches ==
    ASSUME ReviewInv, UndoInv, NEW h \in Reviewers, OnlyOne(h), OnlyOne(h)', ResolveFetch(h)
    PROVE  UndoInv'
<1> USE DEF ReviewInv
<1> DEFINE e == req[h].entity
           r == [req[h] EXCEPT !.prior = bullhorn[e]]
<1>1. /\ step[h] = "read" /\ req[h].kind = "resolve" /\ e # NoEntity
      /\ req' = [req EXCEPT ![h] = r] /\ step' = [step EXCEPT ![h] = "fetched"]
      /\ UNCHANGED <<bullhorn, served, posted>>
  BY DEF ResolveFetch, Resolving
<1>2. req[h] \in Request /\ DnwFits(h) /\ served \in Nat
  BY <1>1 DEF TypeOK, UndoInv
<1>3. /\ r.prior = bullhorn[e] /\ r.entity = e /\ r.kind = "resolve"
      /\ r.id = req[h].id /\ r.action = req[h].action
  BY <1>1, <1>2 DEF Request
<1> HIDE DEF r
<1>4. req'[h] = r /\ step'[h] = "fetched"
  BY <1>1 DEF RequestsFit, TypeOK
<1>5. DnwFits(h)'
  BY <1>1, <1>2, <1>3, <1>4 DEF DnwFits
<1>6. [Next]_vars  BY DEF Next
<1> QED  BY <1>1, <1>2, <1>4, <1>5, <1>6, NothingPosted DEF OnlyOne

\* An undo writes what it has read of the log, and the write is the last.
LEMMA UndoWrites ==
    ASSUME ReviewInv, UndoInv, NEW h \in Reviewers, OnlyOne(h), OnlyOne(h)',
           ResolveWrite(h) \/ ReverseWrite(h)
    PROVE  UndoInv'
<1> USE DEF ReviewInv
<1> DEFINE r == req[h]
           p == [id |-> r.id, kind |-> r.kind, alert |-> r.alert, action |-> r.action,
                 entity |-> r.entity, before |-> bullhorn[r.entity]]
<1>1. PICK v : /\ Write(h, r.kind, r.action, v)
               /\ r.kind = "reverse" => v = Undone(r.action, r.prior)
               /\ r.kind \in {"resolve", "reverse"}
               /\ r.kind = "resolve" => step[h] = "fetched"
               /\ step[h] \in {"read", "fetched"} /\ UNCHANGED <<events, req, served>>
  BY DEF ResolveWrite, ReverseWrite, Resolving, Reversing
<1>2. /\ step'[h] = "written"
      /\ bullhorn' = [bullhorn EXCEPT ![r.entity] = v]
      /\ posted' = posted \cup {p}
  BY <1>1 DEF Write, TypeOK
<1>3. /\ p.id = r.id /\ p.kind = r.kind /\ p.alert = r.alert /\ p.action = r.action
      /\ p.entity = r.entity /\ p.before = bullhorn[r.entity]
  OBVIOUS
<1> HIDE DEF p
<1>4. /\ DnwFits(h) /\ Fits(h) /\ r.id \in Nat /\ r.id <= served /\ served \in Nat
      /\ \A q \in posted : q.id \in Nat /\ q.id < r.id
  <2>1. DnwFits(h) /\ Fits(h) /\ r \in Request
    BY <1>1 DEF UndoInv, RequestsFit, TypeOK
  <2>2. \A q \in posted : q.id \in Nat  BY DEF TypeOK, Post
  <2> QED  BY <1>1, <2>1, <2>2 DEF DnwFits, Fits, Request, TypeOK
<1>5. r.entity # NoEntity /\ r.entity \in Entities
  <2>1. r \in Request  BY <1>1 DEF TypeOK
  <2>2. r.entity # NoEntity
    BY <1>1, <1>4 DEF Fits, ResolveFits, ReverseFits
  <2> QED  BY <2>1, <2>2 DEF Request
<1>6. posted \subseteq posted'
  BY <1>2
<1>7. DnwFits(h)'
  <2>1. ASSUME r.kind = "resolve", r.action = "mark_dnw" PROVE Before(r.alert, r.id, r.prior)'
    <3>1. r.prior = bullhorn[r.entity]
      BY <1>1, <1>4, <1>5, <2>1 DEF DnwFits
    <3>2. p \in posted'  BY <1>2
    <3> QED  BY <1>1, <1>3, <2>1, <3>1, <3>2 DEF Before
  <2>2. ASSUME r.kind = "reverse", r.action = "mark_dnw"
        PROVE  \E id \in 1 .. r.id - 1 : Before(r.alert, id, r.prior)'
    <3>1. PICK id \in 1 .. r.id - 1 : Before(r.alert, id, r.prior)
      BY <1>4, <1>5, <2>2 DEF DnwFits
    <3>2. Before(r.alert, id, r.prior)'
      BY <1>1, <1>6, <3>1 DEF Before
    <3> QED  BY <3>2
  <2> QED  BY <1>1, <1>2, <1>4, <2>1, <2>2 DEF DnwFits
<1>8. ASSUME NEW q \in posted', q.kind = "reverse", q.action = "mark_dnw" PROVE Restored(q)'
  <2>1. CASE q \in posted
    <3>1. Restored(q)  BY <1>8, <2>1 DEF UndoInv
    <3>2. CASE q.entity = r.entity
      <4>1. ~(p.id <= q.id) /\ p \in posted' /\ p.entity = q.entity
        BY <1>2, <1>3, <1>4, <2>1, <3>2
      <4> QED  BY <3>1, <4>1 DEF Restored
    <3>3. CASE q.entity # r.entity
      <4>1. bullhorn'[q.entity] = bullhorn[q.entity]
        <5>1. q.entity \in Entities  BY <2>1 DEF TypeOK, Post
        <5> QED  BY <1>2, <3>3, <5>1 DEF TypeOK
      <4>2. (\A x \in posted' : x.entity = q.entity => x.id <= q.id) =>
              \E id \in 1 .. q.id - 1 : Before(q.alert, id, bullhorn[q.entity])
        BY <1>6, <3>1 DEF Restored
      <4>3. \A id, w : Before(q.alert, id, w) => Before(q.alert, id, w)'
        BY <1>6 DEF Before
      <4> QED  BY <3>1, <4>1, <4>2, <4>3 DEF Restored
    <3> QED  BY <3>2, <3>3
  <2>2. CASE q = p
    <3>1. r.kind = "reverse" /\ r.action = "mark_dnw"
      BY <1>3, <1>8, <2>2
    <3>2. r.entity \in Sheets /\ \E id \in 1 .. r.id - 1 : Before(r.alert, id, r.prior)
      BY <1>4, <1>5, <3>1 DEF DnwFits
    <3>3. bullhorn'[r.entity] = r.prior
      <4>1. v = r.prior  BY <1>1, <3>1 DEF Undone
      <4> QED  BY <1>2, <1>5, <4>1 DEF TypeOK
    <3>4. \A id : Before(r.alert, id, r.prior) => Before(r.alert, id, r.prior)'
      BY <1>1, <1>6 DEF Before
    <3>5. \E id \in 1 .. q.id - 1 : Before(q.alert, id, bullhorn[q.entity])'
      BY <1>1, <1>3, <2>2, <3>2, <3>3, <3>4
    <3> QED  BY <1>3, <2>2, <3>2, <3>5 DEF Restored
  <2> QED  BY <1>2, <2>1, <2>2
<1>9. \A q \in posted' : q.id <= served'
  BY <1>1, <1>2, <1>3, <1>4 DEF UndoInv
<1>10. [Next]_vars  BY DEF Next
<1> QED  BY <1>2, <1>7, <1>8, <1>9, <1>10, SnapshotsStay DEF UndoInv, OnlyOne

LEMMA UndoKeeps ==
    ASSUME SheetsAreOurs, ReviewInv, UndoInv, Apart, ~overlapped', [Next]_vars
    PROVE  UndoInv'
<1> USE DEF ReviewInv
<1>0. served \in Nat  BY DEF TypeOK
<1>a. ASSUME NEW h \in Reviewers, Moves(h) PROVE OnlyOne(h) /\ OnlyOne(h)'
  BY <1>a, MovesAlone
<1>1. ASSUME NEW h \in Reviewers, ResolveCommit(h) \/ ReverseCommit(h) \/ RequestFails(h)
      PROVE  UndoInv'
  <2>1. End(h) /\ UNCHANGED <<bullhorn, served, posted>>
    BY <1>1 DEF ResolveCommit, ReverseCommit, RequestFails
  <2>2. step'[h] = "idle" /\ OnlyOne(h)'
    <3>1. Moves(h)  BY <1>1 DEF Moves
    <3> QED  BY <1>a, <2>1, <3>1 DEF End, TypeOK
  <2> QED  BY <1>0, <2>1, <2>2, NothingPosted DEF OnlyOne
<1>2. ASSUME UNCHANGED <<step, req, served, posted>>, \A e \in Sheets : bullhorn'[e] = bullhorn[e]
      PROVE  UndoInv'
  <2>1. ASSUME NEW h \in Reviewers, step'[h] # "idle" PROVE DnwFits(h)'
    <3>1. DnwFits(h)  BY <1>2, <2>1 DEF UndoInv
    <3>2. \A a, id, v : Before(a, id, v) => Before(a, id, v)'
      BY <1>2 DEF Before
    <3>3. req[h].entity \in Sheets => bullhorn'[req[h].entity] = bullhorn[req[h].entity]
      BY <1>2
    <3> QED  BY <1>2, <3>1, <3>2, <3>3 DEF DnwFits
  <2> QED  BY <1>0, <1>2, <2>1, NothingPosted
<1>3. ASSUME NEW e \in Entities, PeopleEdit(e) PROVE UndoInv'
  <2>1. /\ e \notin Sheets /\ UNCHANGED <<step, req, served, posted>>
        /\ \E v : bullhorn' = [bullhorn EXCEPT ![e] = v]
    BY <1>3 DEF PeopleEdit, SheetsAreOurs
  <2>2. \A x \in Sheets : bullhorn'[x] = bullhorn[x]
    BY <2>1 DEF TypeOK, Entities
  <2> QED  BY <1>2, <2>1, <2>2
<1>4. ASSUME \/ \E a \in Alerts : AgentCloses(a) \/ \E i \in 1 .. Len(events[a]) : WindowCloses(a, i)
             \/ UNCHANGED vars
      PROVE  UndoInv'
  BY <1>2, <1>4 DEF AgentCloses, WindowCloses, vars
<1>5. ASSUME NEW h \in Reviewers, Moves(h) PROVE UndoInv'
  <2>1. OnlyOne(h) /\ OnlyOne(h)'  BY <1>a, <1>5
  <2> QED  BY <1>1, <1>5, <2>1, UndoReads, UndoFetches, UndoWrites DEF Moves
<1>6. \/ \E h \in Reviewers : Moves(h)
      \/ \E e \in Entities : PeopleEdit(e)
      \/ \E a \in Alerts : AgentCloses(a) \/ \E i \in 1 .. Len(events[a]) : WindowCloses(a, i)
      \/ UNCHANGED vars
  BY Zenon DEF Next, Moves
<1> QED  BY <1>3, <1>4, <1>5, <1>6

\* Unless requests overlap or people edit timesheets, an undo leaves a timesheet as it
\* was when the action that it undoes was written, whichever requests failed and however
\* many alerts have marked it before.
THEOREM UndoRestores == Spec => []UndoRestoresBefore
<1> DEFINE IInv == ReviewInv /\ Apart /\ (~overlapped /\ SheetsAreOurs => UndoInv)
<1>1. Init => UndoInv
  <2>1. ASSUME Init PROVE SnapshotsTrue
    BY <2>1 DEF Init, SnapshotsTrue, Logged
  <2> QED  BY <2>1 DEF Init, UndoInv
<1>2. Init => IInv
  BY <1>1, ReviewStarts DEF Init, Apart
<1>3. IInv /\ [Next]_vars => IInv'
  <2> SUFFICES ASSUME IInv, [Next]_vars PROVE IInv'  OBVIOUS
  <2>1. TypeOK  BY DEF ReviewInv
  <2>2. ASSUME ~overlapped', SheetsAreOurs PROVE UndoInv'
    BY <2>1, <2>2, ApartKeeps, UndoKeeps
  <2> QED  BY <2>1, <2>2, ReviewKeeps, ApartKeeps DEF SheetsAreOurs
<1>4. IInv => UndoRestoresBefore
  <2> SUFFICES ASSUME ReviewInv, UndoInv, NEW p \in posted, p.kind = "reverse", p.action = "mark_dnw",
                      LastWrite(p)
               PROVE  \E q \in posted : /\ q.kind = "resolve" /\ q.alert = p.alert /\ q.id < p.id
                                        /\ bullhorn[p.entity] = q.before
    BY DEF UndoRestoresBefore, SheetsAreOurs
  <2>1. PICK id \in 1 .. p.id - 1 : Before(p.alert, id, bullhorn[p.entity])
    BY DEF UndoInv, Restored, LastWrite
  <2>2. p.id \in Nat  BY DEF ReviewInv, TypeOK, Post
  <2>3. id < p.id  BY <2>2
  <2> QED  BY <2>1, <2>3 DEF Before
<1> QED  BY <1>2, <1>3, <1>4, PTL DEF Spec

-----------------------------------------------------------------------------
(* What the log says of a hold.                                              *)

OnHoldNow(e) == bullhorn[e].mark = "on_hold"
HoldActions == {"set_hold", "release_hold"}

\* What the write of request r leaves.
LeavesHold(r) ==
    IF r.kind = "resolve" THEN r.action = "set_hold" ELSE r.action = "release_hold"

\* The latest events about charge e, those of request n, say whether it is on hold.
ToldBy(e, n) ==
    /\ \E a \in Alerts : \E x : Logged(a, x) /\ x.entity = e /\ x.of = n
    /\ \A a \in Alerts : \A x : Logged(a, x) /\ x.entity = e =>
          /\ x.of <= n
          /\ x.of = n => (OnHoldNow(e) <=> Holds(x))

\* The request of a write has not committed yet.
InHand(p) ==
    \E h \in Reviewers : step[h] = "written" /\ req[h].id = p.id /\ req[h].entity = p.entity

\* The last write of a charge, by a request that was not answered with an error.
Stands(p) == p.entity \in Charges /\ LastWrite(p) /\ p.id \notin failed

\* A request comes after all that is logged and posted, and what it has written is what
\* it did.
HoldFits(h) ==
    LET r == req[h] IN
    /\ \A a \in Alerts : \A x : Logged(a, x) => x.of < r.id
    /\ \A a \in Alerts : Len(events[a]) + 2 <= 2 * r.id
    /\ step[h] # "written" => \A p \in posted : p.id < r.id
    /\ step[h] = "written" => \E p \in posted : p.id = r.id /\ p.entity = r.entity
    /\ r.entity \in Charges =>
         /\ r.action \in HoldActions
         /\ step[h] = "written" /\ writer[r.entity] # "people" =>
              (OnHoldNow(r.entity) <=> LeavesHold(r))

HoldInv ==
    /\ \A p \in posted : Stands(p) => InHand(p) \/ ToldBy(p.entity, p.id)
    /\ \A p \in posted : p.entity \in Charges => p.action \in HoldActions
    /\ \A p \in posted : p.id <= served
    /\ \A h \in Reviewers : step[h] # "idle" => HoldFits(h)
    /\ \A a \in Alerts : Len(events[a]) <= 2 * served

\* No commit.
Quiet == \/ UNCHANGED events
         \/ \E a \in Alerts : \E i \in 1 .. Len(events[a]) : WindowCloses(a, i)

\* A step that logs nothing tells of a charge what was told, if that has not changed.
LEMMA ToldStays ==
    ASSUME ReviewInv, Quiet, NEW e, NEW n, bullhorn'[e] = bullhorn[e], ToldBy(e, n)
    PROVE  ToldBy(e, n)'
<1>1. \A b \in Alerts : \A f : Logged(b, f)' => \E x : Logged(b, x) /\ Same(x, f)
  BY AgedLog DEF Quiet
<1>2. \E a \in Alerts : \E f : Logged(a, f)' /\ f.entity = e /\ f.of = n
  <2>0. PICK a \in Alerts : \E x : Logged(a, x) /\ x.entity = e /\ x.of = n
    BY DEF ToldBy
  <2>1. PICK x : Logged(a, x) /\ x.entity = e /\ x.of = n
    BY <2>0
  <2>2. PICK f : Logged(a, f)' /\ Same(x, f)
    BY <2>1, AgedLog DEF Quiet
  <2> QED  BY <2>1, <2>2 DEF Same
<1>3. ASSUME NEW a \in Alerts, NEW f, Logged(a, f)', f.entity = e
      PROVE  /\ f.of <= n
             /\ f.of = n => (OnHoldNow(e)' <=> Holds(f))
  <2>1. PICK x : Logged(a, x) /\ Same(x, f)
    BY <1>1, <1>3
  <2>2. x.entity = e /\ x.of = f.of /\ (Holds(x) <=> Holds(f))
    BY <1>3, <2>1 DEF Same, Holds
  <2>3. x.of <= n /\ (x.of = n => (OnHoldNow(e) <=> Holds(x)))
    BY <2>1, <2>2 DEF ToldBy
  <2> QED  BY <2>2, <2>3 DEF OnHoldNow
<1> QED  BY <1>2, <1>3 DEF ToldBy

LEMMA HoldStays ==
    ASSUME ReviewInv, HoldInv, Quiet, served <= served', served \in Nat, served' \in Nat,
           \A p \in posted' : p.id <= served' /\ (p.entity \in Charges => p.action \in HoldActions),
           \A p \in posted' : Stands(p)' =>
              \/ InHand(p)'
              \/ /\ p \in posted /\ Stands(p) /\ ~InHand(p)
                 /\ bullhorn'[p.entity] = bullhorn[p.entity],
           \A h \in Reviewers : step'[h] # "idle" => HoldFits(h)'
    PROVE  HoldInv'
<1>1. ASSUME NEW p \in posted', Stands(p)' PROVE InHand(p)' \/ ToldBy(p.entity, p.id)'
  <2>1. CASE InHand(p)'  BY <2>1
  <2>2. CASE ~InHand(p)'
    <3>1. /\ p \in posted /\ Stands(p) /\ ~InHand(p)
          /\ bullhorn'[p.entity] = bullhorn[p.entity]
      BY <1>1, <2>2
    <3>2. ToldBy(p.entity, p.id)  BY <3>1 DEF HoldInv
    <3> QED  BY <3>1, <3>2, ToldStays
  <2> QED  BY <2>1, <2>2
<1>2. \A a \in Alerts : Len(events'[a]) <= 2 * served'
  <2> SUFFICES ASSUME NEW a \in Alerts PROVE Len(events'[a]) <= 2 * served'  OBVIOUS
  <2>1. Len(events'[a]) = Len(events[a]) /\ Len(events[a]) \in Nat  BY AgedLog DEF Quiet
  <2>2. Len(events[a]) <= 2 * served  BY DEF HoldInv
  <2> QED  BY <2>1, <2>2
<1> QED  BY <1>1, <1>2 DEF HoldInv

\* What a request comes after does not change while nothing is logged.
LEMMA AfterTheLog ==
    ASSUME ReviewInv, Quiet, NEW id,
           \A a \in Alerts : \A x : Logged(a, x) => x.of < id,
           \A a \in Alerts : Len(events[a]) + 2 <= 2 * id
    PROVE  /\ \A a \in Alerts : \A x : Logged(a, x)' => x.of < id
           /\ \A a \in Alerts : Len(events'[a]) + 2 <= 2 * id
<1>1. \A a \in Alerts : \A f : Logged(a, f)' => \E x : Logged(a, x) /\ Same(x, f)
  BY AgedLog DEF Quiet
<1>2. \A a \in Alerts : Len(events'[a]) = Len(events[a])
  BY AgedLog DEF Quiet
<1> QED  BY <1>1, <1>2 DEF Same

LEMMA HoldReads ==
    ASSUME ReviewInv, HoldInv, NEW h \in Reviewers, OnlyOne(h), OnlyOne(h)', NEW a \in Alerts,
           \/ \E action \in Actions \cup {"none"}, dry \in BOOLEAN, res \in SentResolutions :
                 ResolveRead(h, a, action, dry, res)
           \/ ReverseRead(h, a)
    PROVE  HoldInv'
<1> USE DEF ReviewInv
<1>0. served \in Nat  BY DEF TypeOK
<1>1. ASSUME NEW r, Begin(h, r), r.id = served + 1,
             UNCHANGED <<bullhorn, events, writer, posted, failed>>,
             r.entity \in Charges => r.action \in HoldActions
      PROVE  HoldInv'
  <2>1. /\ served' = served + 1 /\ req'[h] = r /\ step'[h] = "read" /\ step[h] = "idle"
    BY <1>1 DEF Begin, TypeOK, RequestsFit
  <2>2. \A b \in Alerts : \A x : Logged(b, x) => x.of < served + 1
    <3> SUFFICES ASSUME NEW b \in Alerts, NEW x, Logged(b, x) PROVE x.of < served + 1  OBVIOUS
    <3>1. x \in Event /\ EventFits(b, x)  BY DEF Logged, TypeOK, LogFits
    <3>2. x.of \in Nat /\ x.of <= served  BY <3>1 DEF Event, EventFits
    <3> QED  BY <1>0, <3>2
  <2>3. \A b \in Alerts : Len(events[b]) + 2 <= 2 * (served + 1)
    <3>1. \A b \in Alerts : Len(events[b]) \in Nat /\ Len(events[b]) <= 2 * served
      BY DEF HoldInv, TypeOK
    <3> QED  BY <1>0, <3>1
  <2>4. \A p \in posted : p.id \in Nat /\ p.id <= served /\ p.id < served + 1 /\ p.id <= served + 1
    <3>1. \A p \in posted : p.id \in Nat /\ p.id <= served  BY DEF HoldInv, TypeOK, Post
    <3> QED  BY <1>0, <3>1
  <2>5. HoldFits(h)'
    <3>1. \A b \in Alerts : \A x : Logged(b, x)' => Logged(b, x)
      BY <1>1 DEF Logged
    <3> QED  BY <1>1, <2>1, <2>2, <2>3, <2>4, <3>1 DEF HoldFits
  <2>6. \A p : ~InHand(p) /\ (Stands(p)' => Stands(p))
    <3>1. \A g \in Reviewers : step[g] # "written"  BY <2>1 DEF OnlyOne
    <3> QED  BY <1>1, <3>1 DEF InHand, Stands, LastWrite
  <2>7. \A g \in Reviewers : step'[g] # "idle" => HoldFits(g)'
    BY <2>5 DEF OnlyOne
  <2>8. \A p \in posted' : p.id <= served' /\ (p.entity \in Charges => p.action \in HoldActions)
    BY <1>1, <2>1, <2>4 DEF HoldInv
  <2>9. served' \in Nat /\ served <= served'
    BY <1>0, <2>1
  <2>10. Quiet  BY <1>1 DEF Quiet
  <2> QED  BY <1>0, <1>1, <2>6, <2>7, <2>8, <2>9, <2>10, HoldStays
<1>2. ASSUME NEW action \in Actions \cup {"none"}, NEW dry \in BOOLEAN, NEW res \in SentResolutions,
             ResolveRead(h, a, action, dry, res)
      PROVE  HoldInv'
  <2> DEFINE r == [id |-> served + 1, kind |-> "resolve", alert |-> a, action |-> action,
                   dry_run |-> dry, resolution |-> res,
                   entity |-> IF action = "none" \/ dry THEN NoEntity ELSE EntityFor(a, action),
                   target |-> 0, prior |-> NoValue]
  <2>1. Begin(h, r) /\ UNCHANGED <<bullhorn, events, writer, posted, failed>>
    BY <1>2 DEF ResolveRead
  <2>2. r.entity \in Charges => r.action \in HoldActions
    BY ReviewAssumption DEF EntityFor, Entities, Actions, HoldActions
  <2>3. r.id = served + 1
    OBVIOUS
  <2> HIDE DEF r
  <2> QED  BY <1>1, <2>1, <2>2, <2>3
<1>3. ASSUME ReverseRead(h, a) PROVE HoldInv'
  <2> DEFINE e == events[a][Latest(a)]
  <2>1. Reversible(a) # {} /\ UNCHANGED <<bullhorn, events, writer, posted, failed>>
    BY <1>3 DEF ReverseRead
  <2>2. Begin(h, [id |-> served + 1, kind |-> "reverse", alert |-> a,
                  action |-> e.action, dry_run |-> FALSE, resolution |-> "none",
                  entity |-> e.entity, target |-> Latest(a), prior |-> e.prior])
    BY <1>3 DEF ReverseRead
  <2>3. e.entity \in Charges => e.action \in HoldActions
    <3>1. Latest(a) \in 1 .. Len(events[a]) /\ e.reversal_available
      BY <2>1, LatestIsReversible DEF TypeOK
    <3>2. EventFits(a, e)  BY <3>1 DEF LogFits
    <3>3. WasPosted(a, e.action, e.entity, e.of)  BY <3>1, <3>2 DEF EventFits
    <3> QED  BY <3>3 DEF WasPosted, HoldInv
  <2> DEFINE r == [id |-> served + 1, kind |-> "reverse", alert |-> a,
                   action |-> e.action, dry_run |-> FALSE, resolution |-> "none",
                   entity |-> e.entity, target |-> Latest(a), prior |-> e.prior]
  <2>4. r.id = served + 1 /\ r.entity = e.entity /\ r.action = e.action
    OBVIOUS
  <2>5. Begin(h, r)  BY <2>2
  <2> HIDE DEF r, e
  <2> QED  BY <1>1, <2>1, <2>3, <2>4, <2>5
<1> QED  BY <1>2, <1>3

LEMMA HoldFetches ==
    ASSUME ReviewInv, HoldInv, NEW h \in Reviewers, OnlyOne(h), OnlyOne(h)', ResolveFetch(h)
    PROVE  HoldInv'
<1> USE DEF ReviewInv
<1> DEFINE r == req[h]
           n == [r EXCEPT !.prior = bullhorn[r.entity]]
<1>1. /\ step[h] = "read" /\ req' = [req EXCEPT ![h] = n]
      /\ step' = [step EXCEPT ![h] = "fetched"]
      /\ UNCHANGED <<bullhorn, events, served, writer, posted, failed>>
  BY DEF ResolveFetch
<1>2. r \in Request /\ HoldFits(h) /\ served \in Nat
  BY <1>1 DEF TypeOK, HoldInv
<1>3. n.id = r.id /\ n.entity = r.entity /\ n.action = r.action
  BY <1>2 DEF Request
<1> HIDE DEF n
<1>4. req'[h] = n /\ step'[h] = "fetched"
  BY <1>1 DEF RequestsFit, TypeOK
<1>5. HoldFits(h)'
  <2>1. \A b \in Alerts : \A x : Logged(b, x)' => Logged(b, x)
    BY <1>1 DEF Logged
  <2> QED  BY <1>1, <1>2, <1>3, <1>4, <2>1 DEF HoldFits
<1>6. \A g \in Reviewers : step'[g] # "idle" => HoldFits(g)'
  BY <1>5 DEF OnlyOne
<1>7. \A p : ~InHand(p) /\ (Stands(p)' => Stands(p))
  <2>1. \A g \in Reviewers : step[g] # "written"  BY <1>1 DEF OnlyOne
  <2> QED  BY <1>1, <2>1 DEF InHand, Stands, LastWrite
<1>8. \A p \in posted' : p.id <= served' /\ (p.entity \in Charges => p.action \in HoldActions)
  BY <1>1 DEF HoldInv
<1>9. Quiet  BY <1>1 DEF Quiet
<1> QED  BY <1>1, <1>2, <1>6, <1>7, <1>8, <1>9, HoldStays

\* The POST of a request is the last write of its entity, and in its hands.
LEMMA HoldWrites ==
    ASSUME ReviewInv, HoldInv, NEW h \in Reviewers, OnlyOne(h), OnlyOne(h)',
           ResolveWrite(h) \/ ReverseWrite(h)
    PROVE  HoldInv'
<1> USE DEF ReviewInv
<1> DEFINE r == req[h]
<1>1. /\ UNCHANGED <<events, served, req, failed>> /\ served \in Nat
      /\ step[h] \in {"read", "fetched"} /\ r \in Request /\ HoldFits(h) /\ Fits(h)
      /\ r.kind \in {"resolve", "reverse"}
  <2>1. step[h] \in {"read", "fetched"} /\ UNCHANGED <<events, served, req, failed>>
    BY DEF ResolveWrite, ReverseWrite, Resolving, Reversing
  <2> QED  BY <2>1 DEF TypeOK, HoldInv, RequestsFit, Request
<1>2. r.entity # NoEntity /\ r.entity \in Entities
  <2>1. r.entity # NoEntity
    BY <1>1 DEF Fits, ResolveFits, ReverseFits, ResolveWrite, ReverseWrite, Resolving, Reversing
  <2> QED  BY <1>1, <2>1 DEF Request
<1>3. PICK v : /\ Write(h, r.kind, r.action, v)
               /\ v = IF r.kind = "resolve" THEN Done(r.action, bullhorn[r.entity])
                                            ELSE Undone(r.action, r.prior)
  BY DEF ResolveWrite, ReverseWrite, Resolving, Reversing
<1>4. PICK p : /\ posted' = posted \cup {p}
               /\ p.id = r.id /\ p.entity = r.entity /\ p.action = r.action
  <2> DEFINE p == [id |-> r.id, kind |-> r.kind, alert |-> r.alert, action |-> r.action,
                   entity |-> r.entity, before |-> bullhorn[r.entity]]
  <2>1. posted' = posted \cup {p}  BY <1>3 DEF Write
  <2>2. p.id = r.id /\ p.entity = r.entity /\ p.action = r.action  OBVIOUS
  <2> HIDE DEF p
  <2> QED  BY <2>1, <2>2
<1>5. /\ step'[h] = "written" /\ bullhorn'[r.entity] = v
      /\ \A e \in Entities \ {r.entity} : bullhorn'[e] = bullhorn[e] /\ writer'[e] = writer[e]
  BY <1>2, <1>3 DEF Write, TypeOK
<1>6. r.entity \in Charges => r.action \in HoldActions /\ (v.mark = "on_hold" <=> LeavesHold(r))
  <2>1. r.entity \in Charges => r.action \in HoldActions  BY <1>1 DEF HoldFits
  <2> QED  BY <1>1, <1>3, <2>1 DEF HoldActions, LeavesHold, Done, Undone, OnHold, Free
<1>7. HoldFits(h)'
  <2>1. \A b \in Alerts : \A x : Logged(b, x)' => Logged(b, x)
    BY <1>1 DEF Logged
  <2>2. \E q \in posted' : q.id = r.id /\ q.entity = r.entity
    BY <1>4
  <2>3. r.entity \in Charges =>
           r.action \in HoldActions /\ (OnHoldNow(r.entity)' <=> LeavesHold(r)')
    BY <1>1, <1>5, <1>6 DEF OnHoldNow, LeavesHold
  <2> QED  BY <1>1, <1>5, <2>1, <2>2, <2>3 DEF HoldFits
<1>8. \A g \in Reviewers : step'[g] # "idle" => HoldFits(g)'
  BY <1>7 DEF OnlyOne
<1>9. \A q \in posted : ~InHand(q) /\ q.id < r.id /\ q.id \in Nat /\ q.entity \in Entities
  <2>1. \A g \in Reviewers : step[g] # "written"  BY <1>1 DEF OnlyOne
  <2>2. \A q \in posted : q.id < r.id  BY <1>1 DEF HoldFits
  <2> QED  BY <2>1, <2>2 DEF InHand, TypeOK, Post
<1>10. ASSUME NEW q \in posted', Stands(q)'
       PROVE  \/ InHand(q)'
              \/ /\ q \in posted /\ Stands(q) /\ ~InHand(q)
                 /\ bullhorn'[q.entity] = bullhorn[q.entity]
  <2>1. CASE q = p
    BY <1>1, <1>4, <1>5, <2>1 DEF InHand
  <2>2. CASE q \in posted
    <3>1. q.entity # r.entity
      <4>1. q.entity = p.entity => p.id <= q.id
        BY <1>4, <1>10 DEF Stands, LastWrite
      <4>2. ~(p.id <= q.id)
        <5>1. r.id \in Nat  BY <1>1 DEF Request
        <5> QED  BY <1>4, <1>9, <2>2, <5>1
      <4> QED  BY <1>4, <4>1, <4>2
    <3>2. writer'[q.entity] = writer[q.entity] /\ bullhorn'[q.entity] = bullhorn[q.entity]
      BY <1>5, <1>9, <2>2, <3>1
    <3>3. Stands(q)
      BY <1>1, <1>4, <1>10, <3>2 DEF Stands, LastWrite
    <3> QED  BY <1>9, <2>2, <3>2, <3>3
  <2> QED  BY <1>4, <2>1, <2>2
<1>11. \A q \in posted' : q.id <= served' /\ (q.entity \in Charges => q.action \in HoldActions)
  <2>1. p.id <= served  BY <1>1, <1>4 DEF Fits
  <2> QED  BY <1>1, <1>4, <1>6, <2>1 DEF HoldInv
<1>12. Quiet  BY <1>1 DEF Quiet
<1> QED  BY <1>1, <1>8, <1>10, <1>11, <1>12, HoldStays

\* A request that ends with an error leaves no write that stands.
LEMMA HoldFails ==
    ASSUME ReviewInv, HoldInv, NEW h \in Reviewers, OnlyOne(h), OnlyOne(h)', End(h),
           failed' = failed \cup {req[h].id},
           UNCHANGED <<bullhorn, events, served, posted, writer>>
    PROVE  HoldInv'
<1> USE DEF ReviewInv
<1>1. served \in Nat /\ step'[h] = "idle"
  BY DEF TypeOK, End
<1>2. ASSUME NEW p \in posted', Stands(p)'
      PROVE  Stands(p) /\ ~InHand(p)
  <2>1. Stands(p) /\ p.id # req[h].id
    BY <1>2 DEF Stands, LastWrite
  <2> QED  BY <2>1 DEF InHand, OnlyOne
<1>3. \A g \in Reviewers : step'[g] = "idle"
  BY <1>1 DEF OnlyOne
<1>4. \A p \in posted' : p.id <= served' /\ (p.entity \in Charges => p.action \in HoldActions)
  BY DEF HoldInv
<1>5. Quiet  BY DEF Quiet
<1> QED  BY <1>1, <1>2, <1>3, <1>4, <1>5, HoldStays

\* A commit tells of its charge what the request has done, and nothing of the others.
LEMMA HoldCommits ==
    ASSUME ReviewInv, HoldInv, NEW h \in Reviewers, OnlyOne(h), OnlyOne(h)',
           ResolveCommit(h) \/ ReverseCommit(h), Saved(h)
    PROVE  HoldInv'
<1> USE DEF ReviewInv
<1> DEFINE r == req[h]
<1>1. /\ step[h] # "idle" /\ step'[h] = "idle"
      /\ UNCHANGED <<bullhorn, posted, writer, served, failed>>
      /\ r.entity # NoEntity => step[h] = "written"
  <2>1. step[h] # "idle" /\ End(h) /\ UNCHANGED <<bullhorn, posted, writer, served>>
    BY DEF ResolveCommit, ReverseCommit, Resolving, Reversing
  <2>2. UNCHANGED failed  BY CommitsKeep
  <2>3. step'[h] = "idle"  BY <2>1 DEF End, TypeOK
  <2>4. r.entity # NoEntity => step[h] = "written"  BY DEF ResolveCommit, ReverseCommit
  <2> QED  BY <2>1, <2>2, <2>3, <2>4
<1>2. r \in Request /\ HoldFits(h) /\ r.id \in Nat /\ r.alert \in Alerts
  BY <1>1 DEF TypeOK, HoldInv, Request
<1>3. /\ \A b \in Alerts : \A x : Logged(b, x) => Logged(b, x)'
      /\ \A b \in Alerts : \A x : Logged(b, x)' => Logged(b, x) \/ LeftBy(r, b, x)
  BY CommitLog
<1>4. NoEntity \notin Charges
  BY ReviewAssumption DEF Entities
<1>5. ASSUME NEW p \in posted, Stands(p)
      PROVE  ToldBy(p.entity, p.id)'
  <2> DEFINE e == p.entity
  <2>1. e \in Charges /\ e # NoEntity /\ writer[e] # "people" /\ p.id \in Nat
    BY <1>4, <1>5 DEF Stands, LastWrite, TypeOK, Post
  <2>2. OnHoldNow(e)' <=> OnHoldNow(e)
    BY <1>1 DEF OnHoldNow
  <2>3. CASE r.entity = e /\ r.id = p.id
    <3>1. \E a \in Alerts : \E x : Logged(a, x)' /\ x.entity = e /\ x.of = p.id
      BY <1>2, <2>1, <2>3, CommitLog
    <3>2. ASSUME NEW a \in Alerts, NEW x, Logged(a, x)', x.entity = e
          PROVE  x.of <= p.id /\ (x.of = p.id => (OnHoldNow(e)' <=> Holds(x)))
      <4>1. CASE Logged(a, x)
        <5>1. x \in Event  BY <4>1 DEF Logged, TypeOK
        <5>2. x.of \in Nat /\ x.of < r.id
          BY <1>2, <4>1, <5>1 DEF HoldFits, Event
        <5> QED  BY <2>1, <2>3, <5>2
      <4>2. CASE LeftBy(r, a, x)
        <5>1. x.of = r.id /\ x.action = r.action /\ (x.type = "action" <=> r.kind = "resolve")
          BY <2>1, <3>2, <4>2 DEF LeftBy
        <5>2. Holds(x) <=> LeavesHold(r)
          BY <5>1 DEF Holds, LeavesHold
        <5>3. OnHoldNow(e) <=> LeavesHold(r)
          BY <1>1, <1>2, <2>1, <2>3 DEF HoldFits
        <5> QED  BY <2>1, <2>2, <2>3, <5>1, <5>2, <5>3
      <4> QED  BY <1>3, <3>2, <4>1, <4>2
    <3> QED  BY <3>1, <3>2 DEF ToldBy
  <2>4. CASE ~(r.entity = e /\ r.id = p.id)
    <3>1. ToldBy(e, p.id)
      BY <1>5, <2>4 DEF HoldInv, InHand, OnlyOne
    <3>2. r.entity # e
      <4>1. SUFFICES ASSUME r.entity = e PROVE FALSE  OBVIOUS
      <4>2. r.id <= p.id
        <5>1. PICK q \in posted : q.id = r.id /\ q.entity = r.entity
          BY <1>1, <1>2, <2>1, <4>1 DEF HoldFits
        <5> QED  BY <1>5, <4>1, <5>1 DEF Stands, LastWrite
      <4>3. p.id < r.id
        BY <1>2, <3>1 DEF ToldBy, HoldFits
      <4> QED  BY <1>2, <2>1, <4>2, <4>3
    <3>3. \A a \in Alerts : \A x : Logged(a, x)' /\ x.entity = e => Logged(a, x)
      BY <1>3, <2>1, <3>2 DEF LeftBy
    <3>4. \E a \in Alerts : \E x : Logged(a, x)' /\ x.entity = e /\ x.of = p.id
      BY <1>3, <3>1 DEF ToldBy
    <3> QED  BY <2>2, <3>1, <3>3, <3>4 DEF ToldBy
  <2> QED  BY <2>3, <2>4
<1>6. ASSUME NEW a \in Alerts PROVE Len(events'[a]) <= 2 * served'
  <2>1. r.id <= served /\ served \in Nat
    BY <1>1 DEF TypeOK, RequestsFit, Fits
  <2>2. Len(events'[a]) <= Len(events[a]) + 2
    BY CommitLog
  <2>3. Len(events[a]) + 2 <= 2 * r.id
    BY <1>2 DEF HoldFits
  <2>4. Len(events[a]) \in Nat /\ Len(events'[a]) \in Nat
    <3>1. ReviewInv'  BY CommitsKeep
    <3> QED  BY <3>1 DEF TypeOK
  <2> QED  BY <1>1, <1>2, <2>1, <2>2, <2>3, <2>4
<1>7. \A g \in Reviewers : step'[g] = "idle"
  BY <1>1 DEF OnlyOne
<1>8. \A p : Stands(p)' => Stands(p)
  BY <1>1 DEF Stands, LastWrite
<1> QED  BY <1>1, <1>5, <1>6, <1>7, <1>8 DEF HoldInv

LEMMA HoldKeeps ==
    ASSUME ReviewInv, HoldInv, AloneStep
    PROVE  HoldInv'
<1> USE DEF ReviewInv
<1>0. served \in Nat /\ [Next]_vars
  BY DEF AloneStep, TypeOK
<1>1. ASSUME UNCHANGED <<step, req, served, posted, failed>>, Quiet,
             \A e \in Charges : \/ writer'[e] = "people"
                                \/ (writer'[e] = writer[e] /\ bullhorn'[e] = bullhorn[e])
      PROVE  HoldInv'
  <2>1. ASSUME NEW h \in Reviewers, step'[h] # "idle" PROVE HoldFits(h)'
    <3>1. HoldFits(h)  BY <1>1, <2>1 DEF HoldInv
    <3>2. \A id : id = req[h].id =>
             /\ \A a \in Alerts : \A x : Logged(a, x)' => x.of < id
             /\ \A a \in Alerts : Len(events'[a]) + 2 <= 2 * id
      BY <1>1, <3>1, AfterTheLog DEF HoldFits
    <3>3. req[h].entity \in Charges /\ writer'[req[h].entity] # "people" =>
             /\ writer[req[h].entity] # "people"
             /\ OnHoldNow(req[h].entity)' <=> OnHoldNow(req[h].entity)
      BY <1>1 DEF OnHoldNow
    <3>4. LeavesHold(req[h])' <=> LeavesHold(req[h])
      BY <1>1 DEF LeavesHold
    <3> QED  BY <1>1, <3>1, <3>2, <3>3, <3>4 DEF HoldFits
  <2>2. \A p : InHand(p)' <=> InHand(p)
    BY <1>1 DEF InHand
  <2>3. ASSUME NEW p \in posted', Stands(p)'
        PROVE  Stands(p) /\ bullhorn'[p.entity] = bullhorn[p.entity]
    BY <1>1, <2>3 DEF Stands, LastWrite
  <2>4. \A p \in posted' : p.id <= served' /\ (p.entity \in Charges => p.action \in HoldActions)
    BY <1>1 DEF HoldInv
  <2> QED  BY <1>0, <1>1, <2>1, <2>2, <2>3, <2>4, HoldStays
<1>2. ASSUME NEW e \in Entities, PeopleEdit(e) PROVE HoldInv'
  <2>1. /\ UNCHANGED <<step, req, served, posted, failed, events>>
        /\ \E v : bullhorn' = [bullhorn EXCEPT ![e] = v]
        /\ writer' = [writer EXCEPT ![e] = "people"]
    BY <1>2 DEF PeopleEdit
  <2>2. ASSUME NEW x \in Charges
        PROVE  \/ writer'[x] = "people"
               \/ (writer'[x] = writer[x] /\ bullhorn'[x] = bullhorn[x])
    <3>1. x \in Entities  BY DEF Entities
    <3>2. PICK v : bullhorn' = [bullhorn EXCEPT ![e] = v]  BY <2>1
    <3>3. DOMAIN bullhorn = Entities /\ DOMAIN writer = Entities  BY DEF TypeOK
    <3> QED  BY <2>1, <3>1, <3>2, <3>3
  <2> QED  BY <1>1, <2>1, <2>2 DEF Quiet
<1>3. ASSUME \/ \E a \in Alerts : AgentCloses(a) \/ \E i \in 1 .. Len(events[a]) : WindowCloses(a, i)
             \/ UNCHANGED vars
      PROVE  HoldInv'
  <2>1. UNCHANGED <<step, req, served, posted, failed, bullhorn, writer>> /\ Quiet
    BY <1>3 DEF AgentCloses, WindowCloses, Quiet, vars
  <2> QED  BY <1>1, <2>1
<1>4. ASSUME NEW h \in Reviewers, OnlyOne(h), OnlyOne(h)',
             ResolveCommit(h) \/ ReverseCommit(h) \/ RequestFails(h)
      PROVE  HoldInv'
  <2>1. CASE RequestFails(h)
    BY <1>4, <2>1, HoldFails DEF RequestFails
  <2>2. CASE (ResolveCommit(h) \/ ReverseCommit(h)) /\ Saved(h)
    BY <1>4, <2>2, HoldCommits
  <2>3. CASE (ResolveCommit(h) \/ ReverseCommit(h)) /\ ~Saved(h)
    <3>1. /\ End(h) /\ UNCHANGED <<bullhorn, events, served, posted, writer>>
          /\ failed' = failed \cup {req[h].id}
      BY <2>3 DEF ResolveCommit, ReverseCommit, Saved, Resolving, Reversing
    <3> QED  BY <1>4, <3>1, HoldFails
  <2> QED  BY <1>4, <2>1, <2>2, <2>3
<1>5. ASSUME NEW h \in Reviewers, Moves(h) PROVE HoldInv'
  <2>1. OnlyOne(h) /\ OnlyOne(h)'  BY <1>5, MovesAlone DEF AloneStep
  <2> QED  BY <1>4, <1>5, <2>1, HoldReads, HoldFetches, HoldWrites DEF Moves
<1>6. \/ \E h \in Reviewers : Moves(h)
      \/ \E e \in Entities : PeopleEdit(e)
      \/ \E a \in Alerts : AgentCloses(a) \/ \E i \in 1 .. Len(events[a]) : WindowCloses(a, i)
      \/ UNCHANGED vars
  BY <1>0, Zenon DEF Next, Moves
<1> QED  BY <1>2, <1>3, <1>5, <1>6

\* Whatever the schema refuses, whichever requests fail and people edit: until requests
\* overlap, the log tells what a charge is.  If a request that was not answered with an
\* error wrote it last, the last event about it is of that request and says whether it is
\* on hold.
THEOREM HoldIsLogged == Spec => []HoldMatchesLog
<1> DEFINE IInv == ReviewInv /\ Apart /\ (~overlapped => HoldInv)
<1>1. Init => HoldInv
  <2> SUFFICES ASSUME Init PROVE HoldInv  OBVIOUS
  <2>1. \A a \in Alerts : Len(events[a]) <= 2 * served
    <3>1. Len(<< >>) = 0  OBVIOUS
    <3> QED  BY <3>1 DEF Init
  <2> QED  BY <2>1 DEF Init, HoldInv
<1>2. Init => IInv
  BY <1>1, ReviewStarts DEF Init, Apart
<1>3. IInv /\ [Next]_vars => IInv'
  <2> SUFFICES ASSUME IInv, [Next]_vars PROVE IInv'  OBVIOUS
  <2>1. TypeOK  BY DEF ReviewInv
  <2>2. Apart' /\ (~overlapped' => ~overlapped)  BY <2>1, ApartKeeps
  <2>3. ~overlapped' => HoldInv'
    BY <2>2, HoldKeeps DEF AloneStep
  <2> QED  BY <2>2, <2>3, ReviewKeeps
<1>4. IInv => HoldMatchesLog
  <2> SUFFICES ASSUME ReviewInv, HoldInv, NEW p \in posted, Stands(p), ~InFlight(p.id)
               PROVE  /\ About(p.entity) # {}
                      /\ LET ev == events[LastAbout(p.entity)[1]][LastAbout(p.entity)[2]] IN
                           /\ ev.of = p.id
                           /\ bullhorn[p.entity].mark = "on_hold" <=> Holds(ev)
    BY DEF HoldMatchesLog, Stands
  <2> DEFINE e == p.entity
             n == p.id
  <2>1. ToldBy(e, n)
    BY DEF HoldInv, InHand, InFlight
  <2>2. PICK a \in Alerts : \E x : Logged(a, x) /\ x.entity = e /\ x.of = n
    BY <2>1 DEF ToldBy
  <2>3. PICK i \in 1 .. Len(events[a]) : events[a][i].entity = e /\ events[a][i].of = n
    BY <2>2 DEF Logged
  <2>4. i \in 1 .. (2 * MaxRequests)
    <3>1. Len(events[a]) \in Nat /\ Len(events[a]) <= 2 * served /\ served <= MaxRequests
          /\ served \in Nat /\ MaxRequests \in Nat
      BY ReviewAssumption DEF ReviewInv, TypeOK, HoldInv
    <3> QED  BY <3>1
  <2>5. <<a, i>> \in About(e)
    BY <2>3, <2>4 DEF About
  <2>6. \A y \in About(e) : /\ y[1] \in Alerts /\ Logged(y[1], events[y[1]][y[2]])
                            /\ events[y[1]][y[2]].entity = e
    BY DEF About, Logged
  <2>7. \A y \in About(e) : events[y[1]][y[2]].of <= n
    BY <2>1, <2>6 DEF ToldBy
  <2>8. \E x \in About(e) : \A y \in About(e) : events[y[1]][y[2]].of <= events[x[1]][x[2]].of
    BY <2>3, <2>5, <2>7
  <2>9. /\ LastAbout(e) \in About(e)
        /\ \A y \in About(e) : events[y[1]][y[2]].of <= events[LastAbout(e)[1]][LastAbout(e)[2]].of
    BY <2>8 DEF LastAbout
  <2> DEFINE ev == events[LastAbout(e)[1]][LastAbout(e)[2]]
  <2>10. ev.of = n
    <3>1. n <= ev.of  BY <2>3, <2>5, <2>9
    <3>2. ev.of <= n  BY <2>7, <2>9
    <3>3. ev \in Event
      <4>1. \A b \in Alerts : \A x : Logged(b, x) => x \in Event
        BY DEF Logged, ReviewInv, TypeOK
      <4>2. LastAbout(e)[1] \in Alerts /\ Logged(LastAbout(e)[1], ev)
        BY <2>6, <2>9
      <4> QED  BY <4>1, <4>2
    <3>4. ev.of \in Nat  BY <3>3 DEF Event
    <3>5. n \in Nat  BY DEF ReviewInv, TypeOK, Post
    <3> QED  BY <3>1, <3>2, <3>4, <3>5
  <2>11. OnHoldNow(e) <=> Holds(ev)
    BY <2>1, <2>6, <2>9, <2>10 DEF ToldBy
  <2> QED  BY <2>5, <2>10, <2>11 DEF OnHoldNow
<1> QED  BY <1>2, <1>3, <1>4, PTL DEF Spec
=============================================================================
