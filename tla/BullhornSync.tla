---------------------------- MODULE BullhornSync ----------------------------
(***************************************************************************)
(* The copy of one Bullhorn entity type in Aurora, kept by three processes: *)
(* the poller (sync/bullhorn_poller.py) turns the events of a Bullhorn      *)
(* subscription into SQS messages, the consumer (sync/bullhorn_consumer.py) *)
(* refetches the records the messages name and upserts them, and the        *)
(* nightly job (sync/bullhorn_sync.py) refetches what was modified since    *)
(* the time in sync_state.  ECS runs one poller and one consumer and        *)
(* restarts them when they die.                                             *)
(*                                                                          *)
(* A record's content is its version.  A record is named by its id, whose   *)
(* order is that of the pages.  Bullhorn and the job read the same clock.   *)
(* last_request_id is left out: it is written after a poll and never read   *)
(* by the next.                                                             *)
(***************************************************************************)
EXTENDS Naturals, FiniteSets

CONSTANTS
    Records,              \* ids of the entity type
    Subscribed,           \* the type is in SUBSCRIBED_ENTITIES and ENTITY_HANDLERS
    Incremental,          \* the nightly job asks for dateLastModified >= last_synced_at
    MayDelete,            \* staff delete records
    MaxEventsPerPoll,     \* MAX_EVENTS_PER_POLL
    MaxEventsPerMessage,  \* what fits in 200 KB
    MaxReceives,          \* maxReceiveCount of the queue
    FetchSize,            \* batch_size: the ids in one query of the consumer
    PageSize,             \* PAGE_SIZE
    Faults,               \* which of the faults below may happen
    MaxFaults, MaxVersion, MaxTime, MaxNights,  \* bounds
    Often                 \* bound: the records that change more than once

FaultKinds == {"poller", "consumer", "nightly", "fetch", "expiry", "retention"}

ASSUME SyncAssumption ==
    /\ Records \subseteq Nat /\ IsFiniteSet(Records)
    /\ {Subscribed, Incremental, MayDelete} \subseteq BOOLEAN
    /\ {MaxEventsPerPoll, MaxEventsPerMessage, MaxReceives, FetchSize, PageSize}
          \subseteq Nat \ {0}
    /\ Faults \subseteq FaultKinds
    /\ Often \subseteq Records
    /\ {MaxFaults, MaxVersion, MaxNights} \subseteq Nat /\ MaxTime \in Nat \ {0}

Event == [record : Records, type : {"UPDATED", "DELETED"}]
Versions == [Records -> 0..MaxVersion]   \* 0: no such record

Nothing == [r \in Records |-> 0]

VARIABLES
    now,
    version, modified, deleted,  \* Bullhorn's records, and when they were last modified
    subscription,  \* Bullhorn still has the subscription
    pending,       \* its events, not yet polled
    hand,          \* the poller's: polled, not yet published
    queue,         \* the messages of the queue, in flight or not
    consumer,      \* its batch, the message it is at, the records fetched for it
    nightly,       \* the job's step, last_synced_at as read, page offset, records so far
    nights,        \* how many nightly jobs have started
    aurora,        \* the version each record has in Aurora
    watermark,     \* sync_state.last_synced_at (0: none)
    lost,          \* history: records an event of which a fault has dropped
    raced,         \* history: records that changed while a nightly job was running
    faults         \* how many faults have happened

bullhorn == <<version, modified, deleted>>
events == <<subscription, pending, hand>>
vars == <<now, bullhorn, events, queue, consumer, nightly, nights, aurora, watermark,
          lost, raced, faults>>

Message == [id : Nat, events : SUBSET Event, received : 0..MaxReceives]

TypeOK ==
    /\ now \in 1..MaxTime
    /\ version \in Versions /\ aurora \in Versions
    /\ modified \in [Records -> 0..now]
    /\ deleted \subseteq Records
    /\ subscription \in BOOLEAN
    /\ pending \subseteq Event /\ hand \subseteq Event
    /\ queue \subseteq Message
    /\ consumer \in [batch : SUBSET Nat, at : Nat, got : Versions,
                     step : {"receive", "fetch", "upsert", "record", "delete"}]
    /\ nightly \in [step : {"idle", "fetch", "upsert", "record"}, began : Nat,
                    since : Nat, start : Nat, got : Versions]
    /\ nights \in 0..MaxNights
    /\ watermark \in 0..now
    /\ lost \subseteq Records /\ raced \subseteq Records
    /\ faults \in 0..MaxFaults

Receiving == [batch |-> {}, at |-> 0, got |-> Nothing, step |-> "receive"]
Idle == [step |-> "idle", began |-> 0, since |-> 0, start |-> 0, got |-> Nothing]

Init ==
    /\ now = 1
    /\ version = Nothing /\ modified = Nothing /\ deleted = {}
    /\ subscription = Subscribed /\ pending = {} /\ hand = {}
    /\ queue = {} /\ consumer = Receiving
    /\ nightly = Idle /\ nights = 0
    /\ aurora = Nothing /\ watermark = 0
    /\ lost = {} /\ raced = {} /\ faults = 0

Fault(kind) == kind \in Faults /\ faults < MaxFaults /\ faults' = faults + 1

\* Aurora after the upsert of the records in got, whatever it had before.
Upserted(got) == [r \in Records |-> IF got[r] = 0 THEN aurora[r] ELSE got[r]]

\* The records whose change is in these events.
Changed(E) == {e.record : e \in {e \in E : e.type = "UPDATED"}}

-----------------------------------------------------------------------------
(* Bullhorn and its staff.                                                   *)

Exists(r) == version[r] > 0 /\ r \notin deleted

Tick == now < MaxTime /\ now' = now + 1
        /\ UNCHANGED <<bullhorn, events, queue, consumer, nightly, nights, aurora,
                       watermark, lost, raced, faults>>

Emit(r, type) ==
    pending' = IF subscription THEN pending \cup {[record |-> r, type |-> type]} ELSE pending

Edit(r) ==
    /\ r \notin deleted /\ version[r] < MaxVersion
    /\ version[r] = 0 \/ r \in Often
    /\ version' = [version EXCEPT ![r] = @ + 1]
    /\ modified' = [modified EXCEPT ![r] = now]
    /\ Emit(r, "UPDATED")
    /\ lost' = IF subscription THEN lost \ {r} ELSE lost \cup {r}
    /\ raced' = IF nightly.step = "idle" THEN raced \ {r} ELSE raced \cup {r}
    /\ UNCHANGED <<now, deleted, subscription, hand, queue, consumer, nightly, nights,
                   aurora, watermark, faults>>

Delete(r) ==
    /\ MayDelete /\ Exists(r)
    /\ deleted' = deleted \cup {r}
    /\ Emit(r, "DELETED")
    /\ raced' = IF nightly.step = "idle" THEN raced ELSE Records
    /\ UNCHANGED <<now, version, modified, subscription, hand, queue, consumer, nightly,
                   nights, aurora, watermark, lost, faults>>

\* Bullhorn drops a subscription that has not been polled for a day.
SubscriptionExpires ==
    /\ subscription /\ Fault("expiry")
    /\ subscription' = FALSE
    /\ pending' = {}
    /\ lost' = lost \cup Changed(pending)
    /\ UNCHANGED <<now, bullhorn, hand, queue, consumer, nightly, nights, aurora,
                   watermark, raced>>

-----------------------------------------------------------------------------
(* The poller.                                                               *)

\* poll_once: the GET consumes the events it returns.
Poll ==
    /\ hand = {} /\ pending # {}
    /\ \E E \in SUBSET pending :
        /\ Cardinality(E) \in 1..MaxEventsPerPoll
        /\ Cardinality(E) = MaxEventsPerPoll \/ E = pending
        /\ hand' = E
        /\ pending' = pending \ E
    /\ UNCHANGED <<now, bullhorn, subscription, queue, consumer, nightly, nights, aurora,
                   watermark, lost, raced, faults>>

\* The GET is answered 404: the poller registers the subscription anew.
Reregister ==
    /\ Subscribed /\ ~subscription /\ hand = {}
    /\ subscription' = TRUE
    /\ UNCHANGED <<now, bullhorn, pending, hand, queue, consumer, nightly, nights, aurora,
                   watermark, lost, raced, faults>>

Fresh == CHOOSE i \in 1..(Cardinality(queue) + 1) : \A m \in queue : m.id # i

\* Mutant: nothing is published after the first part of a batch that was split.
FirstPart(E) == {}

\* What is left to publish of the hand once E has been sent.
Rest(E) == hand \ E

\* publish_events: one message, or several when the batch is too large for one.
Publish ==
    /\ \E E \in SUBSET hand :
        /\ Cardinality(E) \in 1..MaxEventsPerMessage
        /\ queue' = queue \cup {[id |-> Fresh, events |-> E, received |-> 0]}
        /\ hand' = Rest(E)
    /\ UNCHANGED <<now, bullhorn, subscription, pending, consumer, nightly, nights, aurora,
                   watermark, lost, raced, faults>>

\* The poller dies between the GET and the last send: an error of SQS, httpx or
\* asyncpg is not a RuntimeError, and ends run_poller.
PollerFails ==
    /\ hand # {} /\ Fault("poller")
    /\ hand' = {}
    /\ lost' = lost \cup Changed(hand)
    /\ UNCHANGED <<now, bullhorn, subscription, pending, queue, consumer, nightly, nights,
                   aurora, watermark, raced>>

-----------------------------------------------------------------------------
(* The queue and the consumer.                                               *)

\* Mutant: no redrive.
Always(m) == TRUE

Receivable(m) == m.received < MaxReceives

\* A receive returns messages and counts it against each of them.
Receive(M) ==
    /\ consumer.step = "receive"
    /\ M # {} /\ \A m \in M : Receivable(m)
    /\ queue' = (queue \ M) \cup {[m EXCEPT !.received = @ + 1] : m \in M}
    /\ consumer' = [consumer EXCEPT !.batch = {m.id : m \in M}, !.step = "fetch"]
    /\ UNCHANGED <<now, bullhorn, events, nightly, nights, aurora, watermark, lost, raced, faults>>

Dropped(m) ==
    /\ m.id \notin consumer.batch
    /\ queue' = queue \ {m}
    /\ lost' = lost \cup Changed(m.events)
    /\ UNCHANGED <<now, bullhorn, events, consumer, nightly, nights, aurora, watermark, raced>>

\* A message received MaxReceives times goes to the dead-letter queue.
DeadLetter(m) == ~Receivable(m) /\ Dropped(m) /\ UNCHANGED faults

\* One older than a day is dropped.
Retention(m) == Fault("retention") /\ Dropped(m)

\* What the consumer goes to after fetching got: process_events upserts, and records
\* the sync, only if it has fetched something.
Step(got) == IF got = Nothing THEN "delete" ELSE "upsert"

\* The batch of ids, in their order, that record r of these events is fetched with.
BatchOf(E, r) == Cardinality({q \in Changed(E) : q < r}) \div FetchSize

\* What the queries for these events return when those for the records in F fail.
Found(E, F) == [r \in Records |-> IF r \in Changed(E) \ F /\ Exists(r) THEN version[r] ELSE 0]

\* process_events refetches the records of a message of the batch; a DELETED event is
\* only logged.
FetchBut(m, F) ==
    /\ consumer.step = "fetch" /\ m.id \in consumer.batch
    /\ LET got == Found(m.events, F)
       IN  consumer' = [consumer EXCEPT !.at = m.id, !.got = got, !.step = Step(got)]
    /\ UNCHANGED <<now, bullhorn, events, queue, nightly, nights, aurora, watermark, raced>>

Fetch == \E m \in queue : FetchBut(m, {}) /\ UNCHANGED <<lost, faults>>

\* Bullhorn answers some of the queries with an error: each is logged, and the message goes
\* on with what the others have found.
FetchFails ==
    /\ Fault("fetch")
    /\ \E m \in queue : \E F \in SUBSET Changed(m.events) \ {{}} :
        /\ \A r, q \in Changed(m.events) :
              BatchOf(m.events, r) = BatchOf(m.events, q) => (r \in F <=> q \in F)
        /\ FetchBut(m, F)
        /\ lost' = lost \cup F

Upsert ==
    /\ consumer.step = "upsert"
    /\ aurora' = Upserted(consumer.got)
    /\ consumer' = [consumer EXCEPT !.got = Nothing, !.step = "record"]
    /\ UNCHANGED <<now, bullhorn, events, queue, nightly, nights, watermark, lost, raced, faults>>

\* _record_sync takes the time itself.
RecordSync ==
    /\ consumer.step = "record"
    /\ watermark' = now
    /\ consumer' = [consumer EXCEPT !.step = "delete"]
    /\ UNCHANGED <<now, bullhorn, events, queue, nightly, nights, aurora, lost, raced, faults>>

DeleteMessage ==
    /\ consumer.step = "delete"
    /\ queue' = {m \in queue : m.id # consumer.at}
    /\ LET left == consumer.batch \ {consumer.at}
       IN  consumer' = IF left = {} THEN Receiving
                       ELSE [Receiving EXCEPT !.batch = left, !.step = "fetch"]
    /\ UNCHANGED <<now, bullhorn, events, nightly, nights, aurora, watermark, lost, raced, faults>>

\* Mutant: the messages of the batch were deleted when they were received.
Acknowledged == {m \in queue : m.id \notin consumer.batch}

\* What is in the queue once the messages of a failed batch are visible again.
Redelivered == queue

\* A message raises, or the process dies: the rest of the batch is abandoned with it.
ConsumerFails ==
    /\ consumer.step # "receive" /\ Fault("consumer")
    /\ queue' = Redelivered
    /\ consumer' = Receiving
    /\ UNCHANGED <<now, bullhorn, events, nightly, nights, aurora, watermark, lost, raced>>

-----------------------------------------------------------------------------
(* The nightly job.                                                          *)

NightlyBegins ==
    /\ nightly.step = "idle" /\ nights < MaxNights
    /\ nights' = nights + 1
    /\ nightly' = [Idle EXCEPT !.step = "fetch", !.began = now, !.since = watermark]
    /\ UNCHANGED <<now, bullhorn, events, queue, consumer, aurora, watermark, lost, raced, faults>>

\* Mutant: dateLastModified > last_synced_at.
After(r) == Exists(r) /\ (Incremental => modified[r] > nightly.since)

\* _where, or _search_all when it is not incremental.
Matches(r) == Exists(r) /\ (Incremental => modified[r] >= nightly.since)

\* Page by offset, in the order of the ids.
Page == LET rank(r) == Cardinality({q \in Records : Matches(q) /\ q <= r})
        IN  {r \in Records : Matches(r) /\ rank(r) > nightly.start
                                       /\ rank(r) <= nightly.start + PageSize}

LastPage == Cardinality(Page) < PageSize

NightlyPage ==
    /\ nightly.step = "fetch"
    /\ nightly' = [nightly EXCEPT
            !.got = [r \in Records |-> IF r \in Page THEN version[r] ELSE @[r]],
            !.start = @ + PageSize,
            !.step = IF LastPage THEN "upsert" ELSE "fetch"]
    /\ UNCHANGED <<now, bullhorn, events, queue, consumer, nights, aurora, watermark, lost,
                   raced, faults>>

NightlyUpsert ==
    /\ nightly.step = "upsert"
    /\ aurora' = Upserted(nightly.got)
    /\ nightly' = [nightly EXCEPT !.step = "record"]
    /\ UNCHANGED <<now, bullhorn, events, queue, consumer, nights, watermark, lost, raced, faults>>

NightlyRecord ==
    /\ nightly.step = "record"
    /\ watermark' = now
    /\ nightly' = Idle
    /\ UNCHANGED <<now, bullhorn, events, queue, consumer, nights, aurora, lost, raced, faults>>

NightlyFails ==
    /\ nightly.step # "idle" /\ Fault("nightly")
    /\ nightly' = Idle
    /\ UNCHANGED <<now, bullhorn, events, queue, consumer, nights, aurora, watermark, lost, raced>>

-----------------------------------------------------------------------------
Poller == Poll \/ Publish \/ Reregister
Consumer == Fetch \/ Upsert \/ RecordSync \/ DeleteMessage
Nightly == NightlyPage \/ NightlyUpsert \/ NightlyRecord

Next ==
    \/ Tick
    \/ \E r \in Records : Edit(r) \/ Delete(r)
    \/ SubscriptionExpires
    \/ Poller \/ PollerFails
    \/ \E M \in SUBSET queue : Receive(M)
    \/ \E m \in queue : DeadLetter(m) \/ Retention(m)
    \/ Consumer \/ FetchFails \/ ConsumerFails
    \/ NightlyBegins \/ Nightly \/ NightlyFails

Spec == Init /\ [][Next]_vars

\* How many events, and so messages, there can be.
MaxEvents == MaxVersion * Cardinality(Often) + Cardinality(Records \ Often)
             + (IF MayDelete THEN Cardinality(Records) ELSE 0)

\* ECS restarts the poller and the consumer, which loop for ever, and SQS offers every
\* message again in the end, or gives it up.
FairSpec ==
    /\ Spec
    /\ WF_vars(Poller) /\ WF_vars(Consumer)
    /\ WF_vars(\E m \in queue : DeadLetter(m))
    /\ \A i \in 1..MaxEvents :
        SF_vars(\E M \in SUBSET queue : Receive(M) /\ \E m \in M : m.id = i)

-----------------------------------------------------------------------------
(* Properties of the event path.                                             *)

\* A change to r has an event that will have r fetched, or was fetched already.
OnItsWay(r) ==
    \/ r \in Changed(pending \cup hand)
    \/ \E m \in queue : r \in Changed(m.events) /\ m.id # consumer.at
    \/ consumer.step = "upsert" /\ consumer.got[r] = version[r]

\* A record that Aurora has not caught up with has an event on its way, unless a fault the
\* code does not mend has dropped it, or the record changed while a nightly job was running:
\* neither a batch that was split or abandoned, nor an edit between fetch and upsert loses
\* one, nor does a job that writes what it read beside the consumer.
Tracked ==
    \A r \in Records :
        (Exists(r) /\ aurora[r] # version[r]) => (OnItsWay(r) \/ r \in lost \cup raced)

\* Aurora catches up, sooner or later, with every change that no such fault drops.
Applied == \A r \in Records : []<>(aurora[r] = version[r] \/ r \in deleted \/ r \in lost)

(* Properties of the nightly job.                                            *)

\* When a nightly job ends, Aurora has every change, however many earlier jobs died at
\* whatever step, except of a record that was last changed while a job was running, or
\* was there when a deletion moved the pages of a running job.
NightlyCovers ==
    [][NightlyRecord => \A r \in Records :
        (Exists(r) /\ r \notin raced) => aurora[r] = version[r]]_vars

-----------------------------------------------------------------------------
(* What the repository says and the code does not do.                        *)

\* bullhorn_poller: after the subscription has expired, "Nightly batch will cover the
\* gap": when a nightly job ends, Aurora has the changes the gap lost.
GapCovered ==
    [][NightlyRecord => \A r \in lost :
        (Exists(r) /\ modified[r] < nightly.began /\ r \notin raced)
            => aurora[r] = version[r]]_vars
=============================================================================
