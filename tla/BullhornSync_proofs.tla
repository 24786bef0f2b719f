------------------------- MODULE BullhornSync_proofs -------------------------
(***************************************************************************)
(* What holds of the copy of Bullhorn for any number of records, messages,   *)
(* jobs and faults: its state is well typed; a change Aurora does not have    *)
(* yet has an event on its way, unless one of the faults that lose events has *)
(* dropped it or it was made while a nightly job was running; and where no    *)
(* events come, such a job leaves nothing out but what changed meanwhile.     *)
(***************************************************************************)
EXTENDS BullhornSync, FiniteSetTheorems, WellFoundedInduction, TLAPS

LEMMA Constants ==
    /\ Records \subseteq Nat /\ IsFiniteSet(Records)
    /\ Subscribed \in BOOLEAN
    /\ MaxReceives \in Nat /\ MaxReceives > 0
    /\ PageSize \in Nat
    /\ MaxFaults \in Nat /\ MaxVersion \in Nat /\ MaxNights \in Nat
    /\ MaxTime \in Nat /\ MaxTime > 0
BY SyncAssumption

\* The tuples of variables that UNCHANGED names.
USE DEF bullhorn, events

-----------------------------------------------------------------------------
(* The ids of the messages.                                                  *)

\* The queue is finite, and its messages have ids of their own.
QueueInv ==
    /\ IsFiniteSet(queue)
    /\ \A m \in queue : m.id > 0
    /\ \A m, n \in queue : m.id = n.id => m = n

\* Among one more ids than there are messages, one is free.
LEMMA FreshIsFresh ==
    ASSUME IsFiniteSet(queue)
    PROVE  Fresh \in Nat /\ Fresh > 0 /\ \A m \in queue : m.id # Fresh
<1> DEFINE n == Cardinality(queue)
           I == 1..(n + 1)
           user == [i \in I |-> CHOOSE m \in queue : m.id = i]
<1>1. n \in Nat  BY FS_CardinalityType
<1>2. IsFiniteSet(I) /\ Cardinality(I) = n + 1  BY <1>1, FS_Interval
<1> HIDE DEF n
<1>3. \E i \in I : \A m \in queue : m.id # i
  <2> SUFFICES ASSUME \A i \in I : \E m \in queue : m.id = i PROVE FALSE
    OBVIOUS
  <2>1. \A i \in I : user[i] \in queue /\ user[i].id = i
    OBVIOUS
  <2>2. user \in [I -> queue]
    BY <2>1
  <2>3. Cardinality(queue) < Cardinality(I)
    BY <1>1, <1>2 DEF n
  <2>4. PICK i \in I, k \in I : i # k /\ user[i] = user[k]
    <3> HIDE DEF user, I
    <3> QED  BY <1>2, <2>2, <2>3, FS_PigeonHole
  <2> QED  BY <2>1, <2>4
<1>4. Fresh \in I /\ \A m \in queue : m.id # Fresh
  BY <1>3 DEF Fresh, n
<1> QED  BY <1>1, <1>4

-----------------------------------------------------------------------------
(* Types.                                                                    *)

LEMMA FaultType ==
    ASSUME TypeOK, NEW kind, Fault(kind)
    PROVE  faults' \in 0..MaxFaults
BY Constants DEF Fault, TypeOK

LEMMA ChangedType ==
    ASSUME NEW E \in SUBSET Event
    PROVE  Changed(E) \subseteq Records
BY DEF Changed, Event

LEMMA UpsertedType ==
    ASSUME TypeOK, NEW got \in Versions
    PROVE  Upserted(got) \in Versions
BY DEF Upserted, TypeOK, Versions

LEMMA NothingType == Nothing \in Versions
BY Constants DEF Nothing, Versions

\* A consumer or a nightly job that has taken a step is again well typed.
ConsumerStates == [batch : SUBSET Nat, at : Nat, got : Versions,
                   step : {"receive", "fetch", "upsert", "record", "delete"}]
NightlyStates == [step : {"idle", "fetch", "upsert", "record"}, began : Nat,
                  since : Nat, start : Nat, got : Versions]

LEMMA RestingType == Receiving \in ConsumerStates /\ Idle \in NightlyStates
BY NothingType DEF Receiving, Idle, ConsumerStates, NightlyStates

LEMMA BullhornType ==
    ASSUME TypeOK, NEW r \in Records, Edit(r) \/ Delete(r)
    PROVE  TypeOK'
<1>1. /\ [record |-> r, type |-> "UPDATED"] \in Event
      /\ [record |-> r, type |-> "DELETED"] \in Event
  BY DEF Event
<1>2. version' \in Versions
  BY Constants DEF Edit, Delete, TypeOK, Versions
<1>3. modified' \in [Records -> 0..now]
  BY Constants DEF Edit, Delete, TypeOK
<1>4. pending' \subseteq Event
  BY <1>1 DEF Edit, Delete, Emit, TypeOK
<1>5. lost' \subseteq Records /\ raced' \subseteq Records
  BY DEF Edit, Delete, TypeOK
<1> QED
  BY <1>2, <1>3, <1>4, <1>5 DEF Edit, Delete, TypeOK

LEMMA PollerType ==
    ASSUME TypeOK, QueueInv, Poll \/ Reregister \/ Publish \/ PollerFails
    PROVE  TypeOK'
<1>1. CASE Poll  BY <1>1 DEF Poll, TypeOK
<1>2. CASE Reregister  BY <1>2 DEF Reregister, TypeOK
<1>3. CASE Publish
  <2>1. PICK E \in SUBSET hand :
          /\ queue' = queue \cup {[id |-> Fresh, events |-> E, received |-> 0]}
          /\ hand' = Rest(E)
    BY <1>3 DEF Publish
  <2>2. [id |-> Fresh, events |-> E, received |-> 0] \in Message
    BY FreshIsFresh, Constants DEF QueueInv, Message, TypeOK
  <2>3. queue' \subseteq Message /\ hand' \subseteq Event
    BY <2>1, <2>2 DEF Rest, TypeOK
  <2> QED  BY <1>3, <2>3 DEF Publish, TypeOK
<1>4. CASE PollerFails
  <2>1. lost' \subseteq Records  BY <1>4, ChangedType DEF PollerFails, TypeOK
  <2> QED  BY <1>4, <2>1, FaultType DEF PollerFails, TypeOK
<1> QED  BY <1>1, <1>2, <1>3, <1>4

LEMMA ReceivedType ==
    ASSUME NEW m \in Message, Receivable(m)
    PROVE  [m EXCEPT !.received = @ + 1] \in Message
<1>1. m.received + 1 \in 0..MaxReceives
  BY Constants DEF Receivable, Message
<1> QED  BY <1>1 DEF Message

LEMMA QueueType ==
    ASSUME TypeOK,
           \/ \E M \in SUBSET queue : Receive(M)
           \/ \E m \in queue : DeadLetter(m) \/ Retention(m)
    PROVE  TypeOK'
<1>1. ASSUME NEW M \in SUBSET queue, Receive(M) PROVE TypeOK'
  <2>1. \A m \in M : [m EXCEPT !.received = @ + 1] \in Message
    BY <1>1, ReceivedType DEF Receive, TypeOK
  <2>2. queue' \subseteq Message  BY <1>1, <2>1 DEF Receive, TypeOK
  <2>3. {m.id : m \in M} \subseteq Nat  BY DEF TypeOK, Message
  <2>4. consumer' \in ConsumerStates
    BY <1>1, <2>3 DEF Receive, TypeOK, ConsumerStates
  <2> QED  BY <1>1, <2>2, <2>4 DEF Receive, TypeOK, ConsumerStates
<1>2. ASSUME NEW m \in queue, DeadLetter(m) \/ Retention(m) PROVE TypeOK'
  <2>1. Changed(m.events) \subseteq Records
    BY ChangedType DEF TypeOK, Message
  <2>2. faults' \in 0..MaxFaults
    BY <1>2, FaultType DEF DeadLetter, Retention, TypeOK
  <2>3. Dropped(m)  BY <1>2 DEF DeadLetter, Retention
  <2> QED  BY <2>1, <2>2, <2>3 DEF Dropped, TypeOK
<1> QED  BY <1>1, <1>2

\* A fetch finds what it looks for, but for the records that a fault loses.
LEMMA Fetching ==
    ASSUME Fetch \/ FetchFails
    PROVE  \E m \in queue : \E F \in SUBSET Changed(m.events) :
              FetchBut(m, F) /\ lost' = lost \cup F
<1>1. CASE Fetch
  <2>1. PICK m \in queue : FetchBut(m, {}) /\ UNCHANGED lost  BY <1>1 DEF Fetch
  <2>2. lost' = lost \cup {}  BY <2>1
  <2> QED  BY <2>1, <2>2
<1>2. CASE FetchFails
  BY <1>2 DEF FetchFails
<1> QED  BY <1>1, <1>2

LEMMA ConsumerType ==
    ASSUME TypeOK, Consumer \/ FetchFails \/ ConsumerFails
    PROVE  TypeOK'
<1>1. consumer \in ConsumerStates  BY DEF TypeOK, ConsumerStates
<1>2. CASE Fetch \/ FetchFails
  <2>1. PICK m \in queue : \E F \in SUBSET Changed(m.events) :
          FetchBut(m, F) /\ lost' = lost \cup F
    BY <1>2, Fetching
  <2>2. PICK F \in SUBSET Changed(m.events) : FetchBut(m, F) /\ lost' = lost \cup F
    BY <2>1
  <2> DEFINE got == Found(m.events, F)
  <2>3. got \in Versions  BY Constants DEF TypeOK, Versions, Found
  <2>4. m.id \in Nat /\ lost' \subseteq Records
    BY <2>2, ChangedType DEF TypeOK, Message
  <2>5. Step(got) \in {"upsert", "delete"}  BY DEF Step
  <2>6. consumer' = [consumer EXCEPT !.at = m.id, !.got = got, !.step = Step(got)]
    BY <2>2 DEF FetchBut
  <2>7. consumer' \in ConsumerStates
    <3> HIDE DEF got
    <3> QED  BY <1>1, <2>3, <2>4, <2>5, <2>6 DEF ConsumerStates
  <2>8. faults' \in 0..MaxFaults
    BY <1>2, FaultType DEF Fetch, FetchFails, TypeOK
  <2> QED  BY <2>2, <2>4, <2>7, <2>8 DEF FetchBut, TypeOK, ConsumerStates
<1>3. CASE Upsert
  <2>1. aurora' \in Versions
    BY <1>1, <1>3, UpsertedType DEF Upsert, ConsumerStates
  <2>2. consumer' \in ConsumerStates
    BY <1>1, <1>3, NothingType DEF Upsert, ConsumerStates
  <2> QED  BY <1>3, <2>1, <2>2 DEF Upsert, TypeOK, ConsumerStates
<1>4. CASE RecordSync
  <2>1. consumer' \in ConsumerStates  BY <1>1, <1>4 DEF RecordSync, ConsumerStates
  <2>2. watermark' \in 0..now  BY <1>4, Constants DEF RecordSync, TypeOK
  <2> QED  BY <1>4, <2>1, <2>2 DEF RecordSync, TypeOK, ConsumerStates
<1>5. CASE DeleteMessage
  <2>1. consumer' \in ConsumerStates
    BY <1>1, <1>5, RestingType DEF DeleteMessage, ConsumerStates
  <2>2. queue' \subseteq Message  BY <1>5 DEF DeleteMessage, TypeOK
  <2> QED  BY <1>5, <2>1, <2>2 DEF DeleteMessage, TypeOK, ConsumerStates
<1>6. CASE ConsumerFails
  <2>1. consumer' \in ConsumerStates  BY <1>6, RestingType DEF ConsumerFails
  <2>2. queue' \subseteq Message  BY <1>6 DEF ConsumerFails, Redelivered, TypeOK
  <2> QED  BY <1>6, <2>1, <2>2, FaultType DEF ConsumerFails, TypeOK, ConsumerStates
<1> QED  BY <1>2, <1>3, <1>4, <1>5, <1>6 DEF Consumer

LEMMA NightlyType ==
    ASSUME TypeOK, NightlyBegins \/ Nightly \/ NightlyFails
    PROVE  TypeOK'
<1>1. nightly \in NightlyStates  BY DEF TypeOK, NightlyStates
<1>2. CASE NightlyBegins
  <2>1. watermark \in Nat /\ now \in Nat  BY Constants DEF TypeOK
  <2>2. nightly' \in NightlyStates
    BY <1>2, <2>1, RestingType DEF NightlyBegins, NightlyStates
  <2>3. nights' \in 0..MaxNights  BY <1>2, Constants DEF NightlyBegins, TypeOK
  <2> QED  BY <1>2, <2>2, <2>3 DEF NightlyBegins, TypeOK, NightlyStates
<1>3. CASE NightlyPage
  <2> DEFINE got == [r \in Records |-> IF r \in Page THEN version[r] ELSE nightly.got[r]]
  <2>1. got \in Versions  BY <1>1 DEF TypeOK, Versions, NightlyStates
  <2>2. nightly.start + PageSize \in Nat  BY <1>1, Constants DEF NightlyStates
  <2>3. nightly' = [nightly EXCEPT !.got = got, !.start = nightly.start + PageSize,
                                   !.step = IF LastPage THEN "upsert" ELSE "fetch"]
    BY <1>1, <1>3 DEF NightlyPage, NightlyStates
  <2>4. nightly' \in NightlyStates
    <3> HIDE DEF got
    <3> QED  BY <1>1, <2>1, <2>2, <2>3 DEF NightlyStates
  <2> QED  BY <1>3, <2>4 DEF NightlyPage, TypeOK, NightlyStates
<1>4. CASE NightlyUpsert
  <2>1. aurora' \in Versions
    BY <1>1, <1>4, UpsertedType DEF NightlyUpsert, NightlyStates
  <2>2. nightly' \in NightlyStates  BY <1>1, <1>4 DEF NightlyUpsert, NightlyStates
  <2> QED  BY <1>4, <2>1, <2>2 DEF NightlyUpsert, TypeOK, NightlyStates
<1>5. CASE NightlyRecord
  <2>1. watermark' \in 0..now  BY <1>5, Constants DEF NightlyRecord, TypeOK
  <2> QED  BY <1>5, <2>1, RestingType DEF NightlyRecord, TypeOK, NightlyStates
<1>6. CASE NightlyFails
  BY <1>6, RestingType, FaultType DEF NightlyFails, TypeOK, NightlyStates
<1> QED  BY <1>2, <1>3, <1>4, <1>5, <1>6 DEF Nightly

-----------------------------------------------------------------------------
\* A batch received again is as large as it was, and keeps its ids.
LEMMA ReceiveQueue ==
    ASSUME TypeOK, QueueInv, NEW M \in SUBSET queue, Receive(M)
    PROVE  QueueInv'
<1> DEFINE again(m) == [m EXCEPT !.received = @ + 1]
           f == [m \in M |-> again(m)]
           Back == {again(m) : m \in M}
<1>1. queue' = (queue \ M) \cup Back  BY DEF Receive
<1>2. IsFiniteSet(Back)
  <2>1. IsFiniteSet(M)  BY FS_Subset DEF QueueInv
  <2>2. f \in Surjection(M, Back)  BY DEF Surjection
  <2> QED
    <3> HIDE DEF f, Back
    <3> QED  BY <2>1, <2>2, FS_Surjection
<1>3. IsFiniteSet(queue')
  <2>1. IsFiniteSet(queue \ M)  BY FS_Subset DEF QueueInv
  <2> HIDE DEF Back
  <2> QED  BY <1>1, <1>2, <2>1, FS_Union
<1>4. \A m \in M : m \in Message /\ again(m).id = m.id
  BY DEF TypeOK, Message
<1>5. \A m \in queue' : \E n \in queue : n.id = m.id /\ (n \in M <=> m \in Back) /\ (m \in Back => m = again(n)) /\ (m \notin Back => m = n)
  BY <1>1, <1>4 DEF QueueInv
<1> QED  BY <1>3, <1>5 DEF QueueInv

LEMMA PublishQueue ==
    ASSUME TypeOK, QueueInv, Publish
    PROVE  QueueInv'
<1>1. PICK E \in SUBSET hand :
        queue' = queue \cup {[id |-> Fresh, events |-> E, received |-> 0]}
  BY DEF Publish
<1>2. IsFiniteSet(queue')  BY <1>1, FS_AddElement DEF QueueInv
<1> QED  BY <1>1, <1>2, FreshIsFresh DEF QueueInv

\* The other steps only remove messages.
LEMMA SmallerQueue ==
    ASSUME QueueInv, queue' \subseteq queue
    PROVE  QueueInv'
BY FS_Subset DEF QueueInv

LEMMA StepType ==
    ASSUME TypeOK, QueueInv, [Next]_vars
    PROVE  TypeOK' /\ QueueInv'
<1>1. CASE Tick  BY <1>1, Constants, SmallerQueue DEF Tick, TypeOK
<1>2. ASSUME NEW r \in Records, Edit(r) \/ Delete(r) PROVE TypeOK' /\ QueueInv'
  BY <1>2, BullhornType, SmallerQueue DEF Edit, Delete
<1>3. CASE SubscriptionExpires
  <2>1. lost' \subseteq Records
    BY <1>3, ChangedType DEF SubscriptionExpires, TypeOK
  <2> QED  BY <1>3, <2>1, FaultType, SmallerQueue DEF SubscriptionExpires, TypeOK
<1>4. CASE Poller \/ PollerFails
  <2>1. QueueInv'
    BY <1>4, SmallerQueue, PublishQueue DEF Poller, Poll, Reregister, PollerFails
  <2> QED  BY <1>4, <2>1, PollerType DEF Poller
<1>5. ASSUME NEW M \in SUBSET queue, Receive(M) PROVE TypeOK' /\ QueueInv'
  BY <1>5, QueueType, ReceiveQueue
<1>6. ASSUME NEW m \in queue, DeadLetter(m) \/ Retention(m) PROVE TypeOK' /\ QueueInv'
  <2>1. queue' \subseteq queue  BY <1>6 DEF DeadLetter, Retention, Dropped
  <2> QED  BY <1>6, <2>1, QueueType, SmallerQueue
<1>7. CASE Consumer \/ FetchFails \/ ConsumerFails
  <2>1. queue' \subseteq queue
    BY <1>7 DEF Consumer, Fetch, FetchBut, Upsert, RecordSync, DeleteMessage, FetchFails,
                ConsumerFails, Redelivered
  <2> QED  BY <1>7, <2>1, ConsumerType, SmallerQueue
<1>8. CASE NightlyBegins \/ Nightly \/ NightlyFails
  <2>1. queue' = queue
    BY <1>8 DEF NightlyBegins, Nightly, NightlyPage, NightlyUpsert, NightlyRecord,
                NightlyFails
  <2> QED  BY <1>8, <2>1, NightlyType, SmallerQueue
<1>9. CASE UNCHANGED vars  BY <1>9, SmallerQueue DEF vars, TypeOK
<1> QED
  BY <1>1, <1>2, <1>3, <1>4, <1>5, <1>6, <1>7, <1>8, <1>9 DEF Next

\* Every reachable state of the pipeline is well typed, whatever fails in it, and no
\* two messages of the queue are confused.
THEOREM TypeCorrect == Spec => [](TypeOK /\ QueueInv)
<1>1. Init => TypeOK /\ QueueInv
  <2> SUFFICES ASSUME Init PROVE TypeOK /\ QueueInv  OBVIOUS
  <2>1. QueueInv  BY FS_EmptySet DEF Init, QueueInv
  <2>2. subscription \in BOOLEAN  BY Constants DEF Init
  <2> QED
    BY <2>1, <2>2, Constants, NothingType, RestingType
       DEF Init, TypeOK, ConsumerStates, NightlyStates, Nothing
<1> QED  BY <1>1, StepType, PTL DEF Spec

-----------------------------------------------------------------------------
(* No change is forgotten.                                                   *)

\* An event that will have r fetched is with Bullhorn, in the poller's hand, or in a
\* message other than the one the consumer is at.
Waiting(r) ==
    \/ r \in Changed(pending \cup hand)
    \/ \E m \in queue : r \in Changed(m.events) /\ m.id # consumer.at

\* The message the consumer is at is in its batch, so that it stays on the queue until
\* it is deleted, and the records fetched are those it names.
AtInv ==
    IF consumer.step \in {"receive", "fetch"}
    THEN consumer.at = 0
    ELSE /\ consumer.at \in consumer.batch
         /\ \E m \in queue :
               /\ m.id = consumer.at
               /\ consumer.step = "upsert" =>
                     \A r \in Records : consumer.got[r] # 0 => r \in Changed(m.events)

\* A record edited since it was fetched, and about to be overwritten by what was
\* fetched, has the event of that edit waiting.
StaleInv ==
    consumer.step = "upsert" =>
        \A r \in Records :
            (Exists(r) /\ consumer.got[r] \notin {0, version[r]}) => (Waiting(r) \/ r \in lost)

\* What a nightly job has fetched is still so, unless it was edited since.
NightGot ==
    /\ nightly.step = "idle" => nightly.got = Nothing
    /\ \A r \in Records : (nightly.got[r] # 0 /\ r \notin raced) => nightly.got[r] = version[r]

TrackedInv == AtInv /\ StaleInv /\ Tracked /\ NightGot

\* A step that leaves the records, Aurora and what was fetched alone, forgets no event
\* that it does not add to lost, and keeps the message the consumer is at.
LEMMA Carried ==
    ASSUME TypeOK, TrackedInv, AtInv', NightGot',
           UNCHANGED <<version, deleted, aurora, raced>>,
           consumer'.step = "upsert" <=> consumer.step = "upsert",
           consumer'.got = consumer.got,
           \A r \in Records : (Waiting(r) \/ r \in lost) => (Waiting(r)' \/ r \in lost')
    PROVE  TrackedInv'
<1>1. StaleInv'  BY DEF TrackedInv, StaleInv, Exists
<1>2. Tracked'
  BY DEF TrackedInv, Tracked, OnItsWay, Waiting, Exists
<1> QED  BY <1>1, <1>2 DEF TrackedInv

LEMMA ChangedOfUnion ==
    ASSUME NEW D, NEW E
    PROVE  Changed(D \cup E) = Changed(D) \cup Changed(E)
BY DEF Changed

\* Staff: an edit has an event of its own, or is counted as lost.
LEMMA BullhornTracked ==
    ASSUME TypeOK, TrackedInv, NEW q \in Records, Edit(q) \/ Delete(q)
    PROVE  TrackedInv'
<1>1. AtInv' /\ NightGot'
  <2>1. AtInv'  BY DEF Edit, Delete, TrackedInv, AtInv
  <2>2. CASE Edit(q)
    <3>1. nightly.step = "idle" => \A r \in Records : nightly.got[r] = 0
      BY DEF TrackedInv, NightGot, Nothing
    <3>2. \A r \in Records \ {q} : version'[r] = version[r] /\ (r \in raced => r \in raced')
      BY <2>2 DEF Edit, TypeOK, Versions
    <3>3. nightly.step # "idle" => q \in raced'  BY <2>2 DEF Edit
    <3>4. nightly' = nightly  BY <2>2 DEF Edit
    <3> QED  BY <2>1, <3>1, <3>2, <3>3, <3>4 DEF TrackedInv, NightGot
  <2>3. CASE Delete(q)
    <3>1. nightly' = nightly /\ version' = version /\ raced \subseteq raced'
      BY <2>3 DEF Delete, TypeOK
    <3> QED  BY <2>1, <3>1 DEF TrackedInv, NightGot
  <2> QED  BY <2>2, <2>3
<1>2. ASSUME NEW r \in Records, Waiting(r) PROVE Waiting(r)'
  BY <1>2 DEF Edit, Delete, Emit, Waiting, Changed
<1>3. CASE Edit(q)
  <2>1. Waiting(q)' \/ q \in lost'
    <3>1. CASE subscription
      <4>1. [record |-> q, type |-> "UPDATED"] \in pending'
        BY <1>3, <3>1 DEF Edit, Emit
      <4> QED  BY <4>1 DEF Waiting, Changed
    <3>2. CASE ~subscription  BY <1>3, <3>2 DEF Edit
    <3> QED  BY <3>1, <3>2
  <2>2. ASSUME NEW r \in Records, r # q
        PROVE  /\ version'[r] = version[r] /\ Exists(r)' = Exists(r)
               /\ r \in lost => r \in lost'
               /\ r \in raced => r \in raced'
    BY <1>3, <2>2 DEF Edit, Exists, TypeOK, Versions
  <2>3. StaleInv'
    BY <1>2, <1>3, <2>1, <2>2 DEF Edit, TrackedInv, StaleInv
  <2>4. Tracked'
    <3> SUFFICES ASSUME NEW r \in Records, Exists(r)', aurora'[r] # version'[r],
                        r \notin lost' \cup raced'
                 PROVE  OnItsWay(r)'
      BY DEF Tracked
    <3>1. CASE r = q  BY <2>1, <3>1 DEF OnItsWay, Waiting
    <3>2. CASE r # q
      <4>1. OnItsWay(r)  BY <1>3, <2>2, <3>2 DEF Edit, TrackedInv, Tracked
      <4> QED  BY <1>2, <1>3, <2>2, <3>2, <4>1 DEF Edit, OnItsWay, Waiting
    <3> QED  BY <3>1, <3>2
  <2> QED  BY <1>1, <2>3, <2>4 DEF TrackedInv
<1>4. CASE Delete(q)
  <2>1. \A r \in Records : Exists(r)' => Exists(r)  BY <1>4 DEF Delete, Exists
  <2>2. StaleInv'  BY <1>2, <1>4, <2>1 DEF Delete, TrackedInv, StaleInv
  <2>3. Tracked'
    BY <1>2, <1>4, <2>1 DEF Delete, TrackedInv, Tracked, OnItsWay, Waiting
  <2> QED  BY <1>1, <2>2, <2>3 DEF TrackedInv
<1> QED  BY <1>3, <1>4

\* The poller: events go from Bullhorn to its hand and from there to the queue, and a
\* fault that drops some adds them to lost.
LEMMA PollerTracked ==
    ASSUME TypeOK, QueueInv, TrackedInv, AtInv', NightGot',
           Poller \/ PollerFails \/ SubscriptionExpires
    PROVE  TrackedInv'
<1>1. ASSUME NEW r \in Records, Waiting(r) \/ r \in lost
      PROVE  Waiting(r)' \/ r \in lost'
  <2>1. CASE Poll
    <3>1. pending \cup hand \subseteq pending' \cup hand'  BY <2>1 DEF Poll
    <3>2. UNCHANGED <<queue, consumer, lost>>  BY <2>1 DEF Poll
    <3> QED  BY <1>1, <3>1, <3>2 DEF Waiting, Changed
  <2>2. CASE Reregister  BY <1>1, <2>2 DEF Reregister, Waiting
  <2>3. CASE Publish
    <3>1. PICK E \in SUBSET hand :
            /\ queue' = queue \cup {[id |-> Fresh, events |-> E, received |-> 0]}
            /\ hand' = hand \ E
      BY <2>3 DEF Publish, Rest
    <3>2. UNCHANGED <<pending, consumer, lost>>  BY <2>3 DEF Publish
    <3>3. Fresh # consumer.at
      BY FreshIsFresh DEF QueueInv, TrackedInv, AtInv
    <3>4. CASE r \in Changed(pending \cup hand)
      <4>1. r \in Changed(pending' \cup hand') \/ r \in Changed(E)
        BY <3>1, <3>2, <3>4 DEF Changed
      <4> DEFINE part == [id |-> Fresh, events |-> E, received |-> 0]
      <4>2. part \in queue'  BY <3>1
      <4>3. part.events = E /\ part.id = Fresh  OBVIOUS
      <4> HIDE DEF part
      <4> QED  BY <3>2, <3>3, <4>1, <4>2, <4>3 DEF Waiting
    <3>5. CASE r \notin Changed(pending \cup hand)
      BY <1>1, <3>1, <3>2, <3>5 DEF Waiting
    <3> QED  BY <3>4, <3>5
  <2>4. CASE PollerFails
    BY <1>1, <2>4, ChangedOfUnion DEF PollerFails, Waiting
  <2>5. CASE SubscriptionExpires
    BY <1>1, <2>5, ChangedOfUnion DEF SubscriptionExpires, Waiting
  <2> QED  BY <2>1, <2>2, <2>3, <2>4, <2>5 DEF Poller
<1>2. UNCHANGED <<version, deleted, aurora, consumer, raced>>
  BY DEF Poller, Poll, Reregister, Publish, PollerFails, SubscriptionExpires
<1> QED  BY <1>1, <1>2, Carried

\* The queue: a message received again names the same records, and one that is dropped
\* is not the one the consumer is at.
LEMMA QueueTracked ==
    ASSUME TypeOK, QueueInv, TrackedInv,
           \/ \E M \in SUBSET queue : Receive(M)
           \/ \E m \in queue : DeadLetter(m) \/ Retention(m)
    PROVE  TrackedInv'
<1>0. NightGot'
  BY DEF Receive, DeadLetter, Retention, Dropped, TrackedInv, NightGot
<1>1. ASSUME NEW M \in SUBSET queue, Receive(M) PROVE TrackedInv'
  <2>1. /\ consumer.step = "receive" /\ consumer.at = 0
        /\ consumer'.step = "fetch" /\ consumer'.at = 0
        /\ consumer'.got = consumer.got
    BY <1>1 DEF Receive, TrackedInv, AtInv, TypeOK
  <2>2. \A m \in queue : \E n \in queue' : n.id = m.id /\ n.events = m.events
    <3> SUFFICES ASSUME NEW m \in queue PROVE \E n \in queue' : n.id = m.id /\ n.events = m.events
      OBVIOUS
    <3>1. CASE m \in M
      <4>1. [m EXCEPT !.received = @ + 1] \in queue'  BY <1>1, <3>1 DEF Receive
      <4>2. m \in Message  BY DEF TypeOK
      <4> QED  BY <4>1, <4>2 DEF Message
    <3>2. CASE m \notin M  BY <1>1, <3>2 DEF Receive
    <3> QED  BY <3>1, <3>2
  <2>3. \A r \in Records : (Waiting(r) \/ r \in lost) => (Waiting(r)' \/ r \in lost')
    BY <1>1, <2>1, <2>2 DEF Receive, Waiting
  <2>4. AtInv'  BY <2>1 DEF AtInv
  <2> QED  BY <1>0, <1>1, <2>1, <2>3, <2>4, Carried DEF Receive
<1>2. ASSUME NEW m \in queue, DeadLetter(m) \/ Retention(m) PROVE TrackedInv'
  <2>0. Dropped(m)  BY <1>2 DEF DeadLetter, Retention
  <2>1. \A n \in queue : n.id = consumer.at /\ consumer.at \in consumer.batch => n \in queue'
    BY <2>0 DEF Dropped
  <2>2. AtInv'  BY <2>0, <2>1 DEF Dropped, TrackedInv, AtInv
  <2>3. \A r \in Records : (Waiting(r) \/ r \in lost) => (Waiting(r)' \/ r \in lost')
    BY <2>0 DEF Dropped, Waiting
  <2> QED  BY <1>0, <2>0, <2>2, <2>3, Carried DEF Dropped
<1> QED  BY <1>1, <1>2

\* The consumer: fetching finds the latest version, upserting writes what was fetched,
\* and a batch that fails keeps the message it was at.
LEMMA FetchTracked ==
    ASSUME TypeOK, QueueInv, TrackedInv, Fetch \/ FetchFails
    PROVE  TrackedInv'
<1>0. PICK m \in queue : \E F \in SUBSET Changed(m.events) :
        FetchBut(m, F) /\ lost' = lost \cup F
  BY Fetching
<1>1. PICK F \in SUBSET Changed(m.events) : FetchBut(m, F) /\ lost' = lost \cup F
  BY <1>0
<1> DEFINE got == Found(m.events, F)
<1>2. /\ m.id > 0 /\ \A n \in queue : n.id = m.id => n = m
      /\ m.id \in consumer.batch
  BY <1>1 DEF QueueInv, FetchBut
<1>3. /\ consumer'.at = m.id /\ consumer'.batch = consumer.batch
      /\ consumer'.got = got /\ consumer'.step = Step(got)
  <2>1. consumer' = [consumer EXCEPT !.at = m.id, !.got = got, !.step = Step(got)]
    BY <1>1 DEF FetchBut
  <2> HIDE DEF got
  <2> QED  BY <2>1 DEF TypeOK
<1>4. UNCHANGED <<version, deleted, aurora, pending, hand, queue, raced>>
  BY <1>1 DEF FetchBut
<1>5. AtInv'
  <2>1. \A r \in Records : got[r] # 0 => r \in Changed(m.events)  BY DEF Found
  <2>2. Step(got) \notin {"receive", "fetch"}  BY DEF Step
  <2> HIDE DEF got
  <2> QED  BY <1>2, <1>3, <1>4, <2>1, <2>2 DEF AtInv
<1>6. StaleInv'
  <2>1. \A r \in Records : got[r] \in {0, version[r]}  BY DEF Found
  <2> HIDE DEF got
  <2> QED  BY <1>3, <1>4, <2>1 DEF StaleInv
<1>7. Tracked'
  <2> SUFFICES ASSUME NEW r \in Records, Exists(r), aurora[r] # version[r], r \notin lost' \cup raced
               PROVE  OnItsWay(r)'
    BY <1>4 DEF Tracked, Exists
  <2>0. r \notin lost \cup F  BY <1>1
  <2>1. Waiting(r)  BY <1>1, <2>0 DEF TrackedInv, Tracked, OnItsWay, Waiting, FetchBut
  <2>2. CASE r \in Changed(m.events)
    <3>1. got[r] = version[r] /\ version[r] # 0
      BY <2>0, <2>2 DEF Exists, TypeOK, Versions, Found
    <3>2. got # Nothing  BY <3>1 DEF Nothing
    <3> HIDE DEF got
    <3> QED  BY <1>3, <1>4, <3>1, <3>2 DEF Step, OnItsWay
  <2>3. CASE r \notin Changed(m.events)
    BY <1>2, <1>3, <1>4, <2>1, <2>3 DEF OnItsWay, Waiting
  <2> QED  BY <2>2, <2>3
<1>8. NightGot'  BY <1>1 DEF FetchBut, TrackedInv, NightGot
<1> QED  BY <1>5, <1>6, <1>7, <1>8 DEF TrackedInv

LEMMA UpsertTracked ==
    ASSUME TypeOK, QueueInv, TrackedInv, Upsert
    PROVE  TrackedInv'
<1>1. /\ consumer'.at = consumer.at /\ consumer'.batch = consumer.batch
      /\ consumer'.step = "record"
  BY DEF Upsert, TypeOK
<1>2. UNCHANGED <<version, deleted, pending, hand, queue, lost, raced>>  BY DEF Upsert
<1>3. AtInv' /\ StaleInv' /\ NightGot'
  BY <1>1, <1>2 DEF Upsert, TrackedInv, AtInv, StaleInv, NightGot
<1>4. Tracked'
  <2> SUFFICES ASSUME NEW r \in Records, Exists(r), aurora'[r] # version[r], r \notin lost \cup raced
               PROVE  Waiting(r)
    BY <1>1, <1>2 DEF Tracked, Exists, OnItsWay, Waiting
  <2>1. aurora'[r] = IF consumer.got[r] = 0 THEN aurora[r] ELSE consumer.got[r]
    BY DEF Upsert, Upserted
  <2>2. CASE consumer.got[r] = 0
    <3>1. OnItsWay(r)  BY <2>1, <2>2 DEF TrackedInv, Tracked
    <3>2. version[r] # 0  BY DEF Exists, TypeOK, Versions
    <3> QED  BY <2>2, <3>1, <3>2 DEF OnItsWay, Waiting
  <2>3. CASE consumer.got[r] # 0
    BY <2>1, <2>3 DEF Upsert, TrackedInv, StaleInv
  <2> QED  BY <2>2, <2>3
<1> QED  BY <1>3, <1>4 DEF TrackedInv

LEMMA ConsumerTracked ==
    ASSUME TypeOK, QueueInv, TrackedInv, Consumer \/ FetchFails \/ ConsumerFails
    PROVE  TrackedInv'
<1>1. CASE Fetch \/ FetchFails  BY <1>1, FetchTracked
<1>2. CASE Upsert  BY <1>2, UpsertTracked
<1>3. CASE RecordSync
  <2>1. /\ consumer'.at = consumer.at /\ consumer'.batch = consumer.batch
        /\ consumer.step = "record" /\ consumer'.step = "delete"
        /\ consumer'.got = consumer.got
    BY <1>3 DEF RecordSync, TypeOK
  <2>2. AtInv' /\ NightGot'
    BY <1>3, <2>1 DEF RecordSync, TrackedInv, AtInv, NightGot
  <2>3. \A r \in Records : Waiting(r)' = Waiting(r)
    BY <1>3, <2>1 DEF RecordSync, Waiting
  <2> QED  BY <1>3, <2>1, <2>2, <2>3, Carried DEF RecordSync
<1>4. CASE DeleteMessage
  <2>1. /\ consumer.step = "delete" /\ consumer'.step \in {"receive", "fetch"}
        /\ consumer'.at = 0
    BY <1>4 DEF DeleteMessage, Receiving
  <2>2. AtInv' /\ StaleInv' /\ NightGot'
    BY <1>4, <2>1 DEF DeleteMessage, TrackedInv, AtInv, StaleInv, NightGot
  <2>3. ASSUME NEW r \in Records, Waiting(r) PROVE Waiting(r)'
    BY <1>4, <2>1, <2>3 DEF DeleteMessage, Waiting, QueueInv
  <2>4. Tracked'
    BY <1>4, <2>1, <2>3 DEF DeleteMessage, TrackedInv, Tracked, OnItsWay, Waiting, Exists
  <2> QED  BY <2>2, <2>4 DEF TrackedInv
<1>5. CASE ConsumerFails
  <2>1. consumer'.step = "receive" /\ consumer'.at = 0
    BY <1>5 DEF ConsumerFails, Receiving
  <2>2. UNCHANGED <<version, deleted, aurora, pending, hand, queue, lost, raced>>
    BY <1>5 DEF ConsumerFails, Redelivered
  <2>3. AtInv' /\ StaleInv' /\ NightGot'
    BY <1>5, <2>1 DEF ConsumerFails, TrackedInv, AtInv, StaleInv, NightGot
  <2>4. ASSUME NEW r \in Records, Waiting(r) PROVE Waiting(r)'
    BY <2>1, <2>2, <2>4 DEF Waiting, QueueInv
  <2>5. Tracked'
    <3> SUFFICES ASSUME NEW r \in Records, Exists(r), aurora[r] # version[r], r \notin lost \cup raced
                 PROVE  OnItsWay(r)'
      BY <2>2 DEF Tracked, Exists
    <3>1. CASE Waiting(r)  BY <2>4, <3>1 DEF OnItsWay, Waiting
    <3>2. CASE consumer.step = "upsert" /\ consumer.got[r] = version[r]
      <4>1. version[r] # 0  BY DEF Exists, TypeOK, Versions
      <4>2. PICK m \in queue : r \in Changed(m.events)
        BY <3>2, <4>1 DEF TrackedInv, AtInv
      <4>3. m \in queue' /\ m.id # consumer'.at
        BY <2>1, <2>2 DEF QueueInv
      <4> QED  BY <4>2, <4>3 DEF OnItsWay
    <3> QED  BY <3>1, <3>2 DEF TrackedInv, Tracked, OnItsWay, Waiting
  <2> QED  BY <2>3, <2>5 DEF TrackedInv
<1> QED  BY <1>1, <1>2, <1>3, <1>4, <1>5 DEF Consumer

\* The nightly job: a page has the latest version, and what a job upserts is the latest
\* version unless the record changed meanwhile.
LEMMA NightlyTracked ==
    ASSUME TypeOK, TrackedInv, NightlyBegins \/ Nightly \/ NightlyFails
    PROVE  TrackedInv'
<1>1. UNCHANGED <<version, deleted, pending, hand, queue, consumer, lost, raced>>
  BY DEF NightlyBegins, Nightly, NightlyPage, NightlyUpsert, NightlyRecord, NightlyFails
<1>2. AtInv' /\ StaleInv'  BY <1>1 DEF TrackedInv, AtInv, StaleInv, Waiting, Exists
<1>3. NightGot'
  <2>1. CASE NightlyBegins \/ NightlyRecord \/ NightlyFails
    <3>1. nightly'.got = Nothing
      <4>1. CASE NightlyBegins  BY <4>1 DEF NightlyBegins, Idle
      <4>2. CASE NightlyRecord \/ NightlyFails
        BY <4>2 DEF NightlyRecord, NightlyFails, Idle
      <4> QED  BY <2>1, <4>1, <4>2
    <3> QED  BY <3>1 DEF NightGot, Nothing
  <2>2. CASE NightlyPage
    <3> DEFINE got == [r \in Records |-> IF r \in Page THEN version[r] ELSE nightly.got[r]]
               step == IF LastPage THEN "upsert" ELSE "fetch"
    <3>1. nightly'.got = got /\ nightly'.step = step
      <4>1. nightly \in NightlyStates  BY DEF TypeOK, NightlyStates
      <4>2. nightly' = [nightly EXCEPT !.got = got, !.start = nightly.start + PageSize,
                                       !.step = step]
        BY <2>2 DEF NightlyPage
      <4> HIDE DEF got, step
      <4> QED  BY <4>1, <4>2 DEF NightlyStates
    <3> QED  BY <1>1, <3>1 DEF TrackedInv, NightGot
  <2>3. CASE NightlyUpsert
    <3>1. nightly'.got = nightly.got /\ nightly'.step = "record"
      BY <2>3 DEF NightlyUpsert, TypeOK
    <3> QED  BY <1>1, <3>1 DEF TrackedInv, NightGot
  <2> QED  BY <2>1, <2>2, <2>3 DEF Nightly
<1>4. Tracked'
  <2>1. CASE aurora' = aurora
    BY <1>1, <2>1 DEF TrackedInv, Tracked, OnItsWay, Exists
  <2>2. CASE NightlyUpsert
    <3> SUFFICES ASSUME NEW r \in Records, Exists(r), aurora'[r] # version[r],
                        r \notin lost \cup raced
                 PROVE  OnItsWay(r)
      BY <1>1 DEF Tracked, Exists, OnItsWay
    <3>1. aurora'[r] = IF nightly.got[r] = 0 THEN aurora[r] ELSE nightly.got[r]
      BY <2>2 DEF NightlyUpsert, Upserted
    <3>2. nightly.got[r] # 0 => nightly.got[r] = version[r]  BY DEF TrackedInv, NightGot
    <3> QED  BY <3>1, <3>2 DEF TrackedInv, Tracked
  <2> QED
    BY <2>1, <2>2 DEF NightlyBegins, Nightly, NightlyPage, NightlyRecord, NightlyFails
<1> QED  BY <1>2, <1>3, <1>4 DEF TrackedInv

\* Every change that Aurora does not have has an event on its way, has been dropped by a
\* fault, or was made while a nightly job was running: for any number of records, messages
\* and jobs.
THEOREM EventsTracked == Spec => []Tracked
<1> DEFINE IInv == TypeOK /\ QueueInv /\ TrackedInv
<1>1. Init => TrackedInv
  BY NothingType DEF Init, TrackedInv, AtInv, StaleInv, Tracked, NightGot, Receiving, Exists,
         Nothing, Idle
<1>2. IInv /\ [Next]_vars => TrackedInv'
  <2> SUFFICES ASSUME TypeOK, QueueInv, TrackedInv, [Next]_vars PROVE TrackedInv'
    OBVIOUS
  <2>1. CASE Tick
    <3>1. AtInv' /\ NightGot'
      BY <2>1 DEF Tick, TrackedInv, AtInv, NightGot
    <3>2. \A r \in Records : Waiting(r)' = Waiting(r)  BY <2>1 DEF Tick, Waiting
    <3> QED  BY <2>1, <3>1, <3>2, Carried DEF Tick
  <2>2. ASSUME NEW r \in Records, Edit(r) \/ Delete(r) PROVE TrackedInv'
    BY <2>2, BullhornTracked
  <2>3. CASE Poller \/ PollerFails \/ SubscriptionExpires
    <3>1. UNCHANGED <<consumer, nightly, version, raced>>
      BY <2>3 DEF Poller, Poll, Reregister, Publish, PollerFails, SubscriptionExpires
    <3>2. queue \subseteq queue'
      BY <2>3 DEF Poller, Poll, Reregister, Publish, PollerFails, SubscriptionExpires
    <3>3. AtInv' /\ NightGot'  BY <3>1, <3>2 DEF TrackedInv, AtInv, NightGot
    <3> QED  BY <2>3, <3>3, PollerTracked
  <2>4. CASE (\E M \in SUBSET queue : Receive(M))
             \/ \E m \in queue : DeadLetter(m) \/ Retention(m)
    BY <2>4, QueueTracked
  <2>5. CASE Consumer \/ FetchFails \/ ConsumerFails  BY <2>5, ConsumerTracked
  <2>6. CASE NightlyBegins \/ Nightly \/ NightlyFails  BY <2>6, NightlyTracked
  <2>7. CASE UNCHANGED vars
    <3>1. AtInv' /\ NightGot'  BY <2>7 DEF vars, TrackedInv, AtInv, NightGot
    <3>2. \A r \in Records : Waiting(r)' = Waiting(r)  BY <2>7 DEF vars, Waiting
    <3> QED  BY <2>7, <3>1, <3>2, Carried DEF vars
  <2> QED  BY <2>1, <2>2, <2>3, <2>4, <2>5, <2>6, <2>7 DEF Next
<1>3. TrackedInv => Tracked  BY DEF TrackedInv
<1> QED  BY <1>1, <1>2, <1>3, TypeCorrect, PTL DEF Spec
-----------------------------------------------------------------------------
(* The pages of the nightly job.                                             *)

LEMMA Smallest ==
    ASSUME NEW T \in SUBSET Nat, T # {}
    PROVE  \E x \in T : \A y \in T : x <= y
<1>1. PICK x \in T : \A y \in T : ~(<<y, x>> \in OpToRel(<, Nat))
  BY NatLessThanWellFounded, WFMin, Zenon
<1>2. \A y \in T : ~(y < x)  BY <1>1 DEF OpToRel
<1> QED  BY <1>2

\* The records of the first pages, up to r.
UpTo(r) == {q \in Records : Matches(q) /\ q <= r}
Rank(r) == Cardinality(UpTo(r))

LEMMA RankType ==
    ASSUME NEW r \in Records
    PROVE  /\ IsFiniteSet(UpTo(r)) /\ Rank(r) \in Nat
           /\ Matches(r) => Rank(r) > 0
<1>1. IsFiniteSet(UpTo(r))  BY Constants, FS_Subset DEF UpTo
<1>2. Rank(r) \in Nat  BY <1>1, FS_CardinalityType DEF Rank
<1>3. Matches(r) => UpTo(r) # {}  BY Constants DEF UpTo
<1> QED  BY <1>1, <1>2, <1>3, FS_EmptySet DEF Rank

\* A later record that matches has a higher rank.
LEMMA RankGrows ==
    ASSUME NEW q \in Records, NEW r \in Records, Matches(r), q < r
    PROVE  Rank(q) < Rank(r)
<1>1. UpTo(q) \in SUBSET UpTo(r) /\ r \in UpTo(r) /\ r \notin UpTo(q)
  <2>1. q \in Nat /\ r \in Nat /\ Records \subseteq Nat  BY Constants
  <2>2. \A p \in Nat : p <= q => p <= r  BY <2>1
  <2>3. ~(r <= q) /\ r <= r  BY <2>1
  <2> HIDE DEF Matches
  <2> QED  BY <2>1, <2>2, <2>3 DEF UpTo
<1>2. Rank(q) <= Rank(r) /\ (Rank(q) = Rank(r) => UpTo(r) = UpTo(q))
  BY <1>1, RankType, FS_Subset DEF Rank
<1> QED  BY <1>1, <1>2, RankType

\* No more than n records have a rank of n or less.
LEMMA FewHaveLowRank ==
    ASSUME NEW n \in Nat
    PROVE  LET low == {r \in Records : Matches(r) /\ Rank(r) <= n}
           IN  IsFiniteSet(low) /\ Cardinality(low) <= n
<1> DEFINE low == {r \in Records : Matches(r) /\ Rank(r) <= n}
           T == {n - Rank(r) : r \in low}
<1>1. IsFiniteSet(low)  BY Constants, FS_Subset
<1>2. CASE low = {}  BY <1>1, <1>2, FS_EmptySet
<1>3. CASE low # {}
  <2>1. T \in SUBSET Nat /\ T # {}  BY <1>3, RankType
  <2>2. PICK x \in T : \A y \in T : x <= y  BY <2>1, Smallest
  <2>3. PICK a \in low : x = n - Rank(a)  OBVIOUS
  <2>4. ASSUME NEW r \in low PROVE r <= a
    <3>1. n - Rank(a) <= n - Rank(r)  BY <2>2, <2>3
    <3>2. Rank(r) <= Rank(a)  BY <3>1, RankType
    <3>3. ~(a < r)  BY <3>2, RankGrows, RankType
    <3> QED  BY <3>3, Constants
  <2>5. low \in SUBSET UpTo(a)  BY <2>4 DEF UpTo
  <2>6. Cardinality(low) <= Rank(a)  BY <2>5, RankType, FS_Subset DEF Rank
  <2> QED  BY <1>1, <2>6, RankType, FS_CardinalityType
<1> QED  BY <1>2, <1>3

LEMMA PageByRank ==
    Page = {r \in Records : /\ Matches(r) /\ Rank(r) > nightly.start
                            /\ Rank(r) <= nightly.start + PageSize}
BY DEF Page, Rank, UpTo

\* Behind a page that is not full there is no other record.
LEMMA LastPageIsLast ==
    ASSUME nightly.start \in Nat, LastPage, NEW r \in Records, Matches(r)
    PROVE  Rank(r) <= nightly.start + PageSize
<1> DEFINE beyond == {q \in Records : Matches(q) /\ Rank(q) > nightly.start + PageSize}
           low == {q \in Records : Matches(q) /\ Rank(q) <= nightly.start}
<1>1. SUFFICES ASSUME r \in beyond PROVE FALSE
  BY Constants, RankType
<1>2. PICK b \in beyond : \A q \in beyond : b <= q  BY <1>1, Constants, Smallest
<1>3. UpTo(b) \subseteq (low \cup Page) \cup {b}
  <2> SUFFICES ASSUME NEW q \in UpTo(b), q \notin low, q \notin Page PROVE q = b
    OBVIOUS
  <2>1. q \in Records /\ Matches(q) /\ q <= b  BY DEF UpTo
  <2>2. q \in beyond  BY <2>1, PageByRank, RankType, Constants
  <2> QED  BY <1>2, <2>1, <2>2, Constants
<1>4. IsFiniteSet(low) /\ Cardinality(low) <= nightly.start /\ Cardinality(low) \in Nat
  BY FewHaveLowRank, FS_CardinalityType
<1>5. IsFiniteSet(Page) /\ Cardinality(Page) < PageSize /\ Cardinality(Page) \in Nat
  <2>1. IsFiniteSet(Page)  BY Constants, FS_Subset DEF Page
  <2> QED  BY <2>1, FS_CardinalityType DEF LastPage
<1>6. IsFiniteSet(low \cup Page) /\ Cardinality(low \cup Page) <= nightly.start + PageSize - 1
      /\ Cardinality(low \cup Page) \in Nat
  <2>1. /\ IsFiniteSet(low \cup Page)
        /\ Cardinality(low \cup Page)
               = Cardinality(low) + Cardinality(Page) - Cardinality(low \cap Page)
    BY <1>4, <1>5, FS_Union
  <2>2. Cardinality(low \cap Page) \in Nat
    BY <1>4, FS_Intersection, FS_CardinalityType
  <2>3. Cardinality(low \cup Page) \in Nat  BY <2>1, FS_CardinalityType
  <2> HIDE DEF low
  <2> QED  BY <1>4, <1>5, <2>1, <2>2, <2>3, Constants
<1> DEFINE all == (low \cup Page) \cup {b}
<1>7. IsFiniteSet(all) /\ Cardinality(all) <= nightly.start + PageSize
  <2> DEFINE pages == low \cup Page
  <2>1. IsFiniteSet(pages) /\ Cardinality(pages) <= nightly.start + PageSize - 1
        /\ Cardinality(pages) \in Nat
    BY <1>6
  <2> HIDE DEF pages, low
  <2>2. /\ IsFiniteSet(pages \cup {b})
        /\ Cardinality(pages \cup {b}) <= Cardinality(pages) + 1
    <3>1. /\ IsFiniteSet(pages \cup {b})
          /\ Cardinality(pages \cup {b})
                 = IF b \in pages THEN Cardinality(pages) ELSE Cardinality(pages) + 1
      BY <2>1, FS_AddElement, Zenon
    <3> QED  BY <2>1, <3>1
  <2>3. Cardinality(pages \cup {b}) \in Nat  BY <2>2, FS_CardinalityType
  <2>4. Cardinality(pages \cup {b}) <= nightly.start + PageSize
    BY <2>1, <2>2, <2>3, Constants
  <2> QED  BY <2>2, <2>4 DEF pages
<1>8. Rank(b) <= Cardinality(all)
  BY <1>3, <1>7, FS_Subset DEF Rank
<1>9. Rank(b) > nightly.start + PageSize /\ Rank(b) \in Nat /\ Cardinality(all) \in Nat
  BY <1>7, RankType, FS_CardinalityType
<1> QED  BY <1>7, <1>8, <1>9, Constants

-----------------------------------------------------------------------------
(* The nightly job alone.                                                    *)

\* Nothing comes by way of events.
Quiet ==
    /\ ~subscription /\ pending = {} /\ hand = {} /\ queue = {}
    /\ consumer.step = "receive"

\* What was last changed before last_synced_at is in Aurora.
Base ==
    \A r \in Records : (Exists(r) /\ r \notin raced /\ modified[r] < watermark)
        => aurora[r] = version[r]

\* A job uses the last_synced_at of now, and what it has fetched is still so.
Fetched ==
    nightly.step # "idle" =>
        /\ nightly.since = watermark
        /\ \A r \in Records : (nightly.got[r] # 0 /\ r \notin raced)
               => nightly.got[r] = version[r]

\* It has the records of the pages before start, and then all that match.
Paged ==
    \A r \in Records : (Matches(r) /\ r \notin raced) =>
        /\ (nightly.step = "fetch" /\ Rank(r) <= nightly.start) => nightly.got[r] = version[r]
        /\ nightly.step = "upsert" => nightly.got[r] = version[r]

\* And then so has Aurora.
CaughtUp ==
    nightly.step = "record" =>
        \A r \in Records : (Exists(r) /\ r \notin raced) => aurora[r] = version[r]

NightInv == Quiet /\ Base /\ Fetched /\ Paged /\ CaughtUp

\* An edit moves no other record to an earlier page.
LEMMA EditKeepsPages ==
    ASSUME TypeOK, nightly.since <= now,
           NEW q \in Records, Edit(q), NEW r \in Records, r # q
    PROVE  /\ Matches(r)' = Matches(r)
           /\ Rank(r) <= Rank(r)' /\ Rank(r) \in Nat /\ Rank(r)' \in Nat
<1>1. ASSUME NEW p \in Records, p # q PROVE Matches(p)' = Matches(p)
  BY <1>1 DEF Edit, Matches, Exists, TypeOK, Versions
<1>2. Matches(q)'
  BY DEF Edit, Matches, Exists, TypeOK, Versions
<1>3. UpTo(r) \subseteq UpTo(r)'
  <2> HIDE DEF Matches
  <2> QED  BY <1>1, <1>2 DEF UpTo
<1>4. UpTo(r)' \in SUBSET Records /\ IsFiniteSet(UpTo(r)')
  <2>1. UpTo(r)' \in SUBSET Records  BY DEF UpTo
  <2> QED  BY <2>1, Constants, FS_Subset
<1>5. Cardinality(UpTo(r)) <= Cardinality(UpTo(r)')
  BY <1>3, <1>4, FS_Subset
<1>6. Rank(r)' = Cardinality(UpTo(r)')  BY DEF Rank
<1>7. Rank(r) \in Nat /\ Rank(r)' \in Nat
  BY <1>4, <1>6, RankType, FS_CardinalityType
<1> QED  BY <1>1, <1>5, <1>6, <1>7 DEF Rank

LEMMA EditNight ==
    ASSUME TypeOK, NightInv, NEW q \in Records, Edit(q)
    PROVE  NightInv'
<1>1. UNCHANGED <<subscription, hand, queue, consumer, nightly, aurora, watermark, deleted, now>>
  BY DEF Edit
<1>2. Quiet'  BY <1>1 DEF Edit, Emit, NightInv, Quiet
<1>3. ASSUME NEW r \in Records, r # q
      PROVE  /\ version'[r] = version[r] /\ modified'[r] = modified[r]
             /\ Exists(r)' = Exists(r) /\ (r \notin raced' => r \notin raced)
  BY <1>1, <1>3 DEF Edit, Exists, TypeOK, Versions
<1>4. modified'[q] = now /\ watermark <= now
  BY DEF Edit, TypeOK
<1>5. nightly.step # "idle" => q \in raced'  BY DEF Edit
<1>6. Base'
  <2> SUFFICES ASSUME NEW r \in Records, Exists(r)', r \notin raced', modified'[r] < watermark'
               PROVE  aurora'[r] = version'[r]
    BY DEF Base
  <2>1. r # q  BY <1>1, <1>4 DEF TypeOK
  <2> QED  BY <1>1, <1>3, <2>1 DEF NightInv, Base
<1>7. Fetched'
  BY <1>1, <1>3, <1>5 DEF NightInv, Fetched
<1>8. Paged'
  <2> SUFFICES ASSUME NEW r \in Records, Matches(r)', r \notin raced', nightly.step # "idle"
               PROVE  /\ (nightly.step = "fetch" /\ Rank(r)' <= nightly.start)
                              => nightly.got[r] = version'[r]
                      /\ nightly.step = "upsert" => nightly.got[r] = version'[r]
    BY <1>1 DEF Paged
  <2>1. r # q  BY <1>5
  <2>2. nightly.since <= now  BY <1>4 DEF NightInv, Fetched
  <2>3. /\ Matches(r) /\ Rank(r) <= Rank(r)' /\ Rank(r) \in Nat /\ Rank(r)' \in Nat
    BY <2>1, <2>2, EditKeepsPages
  <2>4. nightly.start \in Nat  BY DEF TypeOK
  <2> QED  BY <1>3, <2>1, <2>3, <2>4 DEF NightInv, Paged
<1>9. CaughtUp'
  BY <1>1, <1>3, <1>5 DEF NightInv, CaughtUp
<1> QED  BY <1>2, <1>6, <1>7, <1>8, <1>9 DEF NightInv

LEMMA DeleteNight ==
    ASSUME TypeOK, NightInv, NEW q \in Records, Delete(q)
    PROVE  NightInv'
<1>1. UNCHANGED <<subscription, hand, queue, consumer, nightly, aurora, watermark, version,
                  modified>>
  BY DEF Delete
<1>2. Quiet'  BY <1>1 DEF Delete, Emit, NightInv, Quiet
<1>3. \A r \in Records : Exists(r)' => Exists(r)  BY DEF Delete, Exists
<1>4. CASE nightly.step = "idle"
  <2>1. raced' = raced  BY <1>4 DEF Delete
  <2>2. Fetched' /\ Paged' /\ CaughtUp'  BY <1>1, <1>4 DEF Fetched, Paged, CaughtUp
  <2>3. Base'  BY <1>1, <1>3, <2>1 DEF NightInv, Base
  <2> QED  BY <1>2, <2>2, <2>3 DEF NightInv
<1>5. CASE nightly.step # "idle"
  <2>1. raced' = Records  BY <1>5 DEF Delete
  <2>2. nightly.since = watermark  BY <1>5 DEF NightInv, Fetched
  <2> QED
    BY <1>1, <1>2, <2>1, <2>2 DEF NightInv, Base, Fetched, Paged, CaughtUp
<1> QED  BY <1>4, <1>5

LEMMA PageNight ==
    ASSUME TypeOK, NightInv, NightlyPage
    PROVE  NightInv'
<1>1. UNCHANGED <<bullhorn, events, queue, consumer, aurora, watermark, raced>>
  BY DEF NightlyPage
<1> DEFINE step == IF LastPage THEN "upsert" ELSE "fetch"
           got == [r \in Records |-> IF r \in Page THEN version[r] ELSE nightly.got[r]]
<1>2. /\ nightly.step = "fetch" /\ nightly'.step = step
      /\ nightly'.since = nightly.since /\ nightly'.start = nightly.start + PageSize
      /\ nightly'.got = got
  <2>1. nightly \in [step : {"idle", "fetch", "upsert", "record"}, began : Nat,
                     since : Nat, start : Nat, got : Versions]
    BY DEF TypeOK
  <2>2. nightly' = [nightly EXCEPT !.got = got, !.start = nightly.start + PageSize,
                                   !.step = step]
    BY DEF NightlyPage
  <2> HIDE DEF step, got
  <2> QED  BY <2>1, <2>2 DEF NightlyPage
<1>3. \A r \in Records : /\ Matches(r)' = Matches(r) /\ UpTo(r)' = UpTo(r) /\ Rank(r)' = Rank(r)
  <2>1. \A r \in Records : Matches(r)' = Matches(r)  BY <1>1, <1>2 DEF Matches, Exists
  <2>2. \A r \in Records : UpTo(r)' = UpTo(r)  BY <2>1 DEF UpTo
  <2> QED  BY <2>1, <2>2 DEF Rank
<1>4. Quiet' /\ Base'  BY <1>1 DEF NightInv, Quiet, Base, Exists
<1>5. Fetched'
  BY <1>1, <1>2 DEF NightInv, Fetched
<1>6. Paged'
  <2> SUFFICES ASSUME NEW r \in Records, Matches(r), r \notin raced,
                      step = "upsert" \/ Rank(r) <= nightly.start + PageSize
               PROVE  got[r] = version[r]
    <3> HIDE DEF step, got
    <3> QED  BY <1>1, <1>2, <1>3 DEF Paged
  <2>1. nightly.start \in Nat /\ Rank(r) \in Nat /\ PageSize \in Nat
    BY Constants, RankType DEF TypeOK
  <2>2. Rank(r) <= nightly.start + PageSize
    BY <2>1, LastPageIsLast
  <2>3. CASE Rank(r) <= nightly.start
    BY <1>2, <2>3 DEF NightInv, Paged
  <2>4. CASE Rank(r) > nightly.start
    BY <2>2, <2>4, PageByRank
  <2> QED  BY <2>1, <2>3, <2>4
<1>7. CaughtUp'  BY <1>2 DEF CaughtUp
<1> QED  BY <1>4, <1>5, <1>6, <1>7 DEF NightInv

LEMMA UpsertNight ==
    ASSUME TypeOK, NightInv, NightlyUpsert
    PROVE  NightInv'
<1>1. UNCHANGED <<bullhorn, events, queue, consumer, watermark, raced>>
  BY DEF NightlyUpsert
<1>2. /\ nightly.step = "upsert" /\ nightly'.step = "record"
      /\ nightly'.since = nightly.since /\ nightly'.got = nightly.got
  BY DEF NightlyUpsert, TypeOK
<1>3. ASSUME NEW r \in Records, Exists(r), r \notin raced
      PROVE  aurora'[r] = version[r]
  <2>1. aurora'[r] = IF nightly.got[r] = 0 THEN aurora[r] ELSE nightly.got[r]
    BY DEF NightlyUpsert, Upserted
  <2>2. nightly.got[r] # 0 => nightly.got[r] = version[r]
    BY <1>2, <1>3 DEF NightInv, Fetched
  <2>3. CASE Matches(r)
    <3>1. nightly.got[r] = version[r]  BY <1>2, <1>3, <2>3 DEF NightInv, Paged
    <3>2. version[r] # 0  BY <1>3 DEF Exists, TypeOK, Versions
    <3> QED  BY <2>1, <3>1, <3>2
  <2>4. CASE ~Matches(r)
    <3>1. modified[r] < watermark
      BY <1>2, <1>3, <2>4 DEF Matches, NightInv, Fetched, TypeOK
    <3>2. aurora[r] = version[r]  BY <1>3, <3>1 DEF NightInv, Base
    <3> QED  BY <2>1, <2>2, <3>2
  <2> QED  BY <2>3, <2>4
<1>4. Quiet'  BY <1>1 DEF NightInv, Quiet
<1>5. Base' /\ CaughtUp'  BY <1>1, <1>3 DEF Base, CaughtUp, Exists
<1>6. Fetched' /\ Paged'  BY <1>1, <1>2 DEF NightInv, Fetched, Paged
<1> QED  BY <1>4, <1>5, <1>6 DEF NightInv

\* The steps that begin and end a job.
LEMMA BoundsNight ==
    ASSUME TypeOK, NightInv, NightlyBegins \/ NightlyRecord \/ NightlyFails
    PROVE  NightInv'
<1>1. UNCHANGED <<bullhorn, events, queue, consumer, aurora, raced>>
  BY DEF NightlyBegins, NightlyRecord, NightlyFails
<1>2. Quiet'  BY <1>1 DEF NightInv, Quiet
<1>3. CASE NightlyBegins
  <2>1. /\ nightly'.step = "fetch" /\ nightly'.since = watermark
        /\ nightly'.start = 0 /\ nightly'.got = Nothing
    BY <1>3 DEF NightlyBegins, Idle
  <2>2. watermark' = watermark  BY <1>3 DEF NightlyBegins
  <2>3. Base' /\ CaughtUp'  BY <1>1, <2>1, <2>2 DEF NightInv, Base, CaughtUp, Exists
  <2>4. Fetched'  BY <2>1, <2>2 DEF Fetched, Nothing
  <2>5. Paged'
    <3> SUFFICES ASSUME NEW r \in Records, Matches(r)' PROVE ~(Rank(r)' <= 0)
      BY <2>1 DEF Paged
    <3>1. UpTo(r)' \in SUBSET Records /\ r \in UpTo(r)'
      <4>1. r <= r  BY Constants
      <4> HIDE DEF Matches
      <4> QED  BY <4>1 DEF UpTo
    <3>2. IsFiniteSet(UpTo(r)') /\ UpTo(r)' # {}  BY <3>1, Constants, FS_Subset
    <3>3. Cardinality(UpTo(r)') \in Nat /\ Cardinality(UpTo(r)') # 0
      BY <3>2, FS_EmptySet, FS_CardinalityType
    <3>4. Rank(r)' = Cardinality(UpTo(r)')  BY DEF Rank
    <3> QED  BY <3>3, <3>4
  <2> QED  BY <1>2, <2>3, <2>4, <2>5 DEF NightInv
<1>4. CASE NightlyRecord \/ NightlyFails
  <2>1. nightly'.step = "idle"  BY <1>4 DEF NightlyRecord, NightlyFails, Idle
  <2>2. Fetched' /\ Paged' /\ CaughtUp'  BY <2>1 DEF Fetched, Paged, CaughtUp
  <2>3. Base'
    BY <1>1, <1>4 DEF NightlyRecord, NightlyFails, NightInv, Base, CaughtUp, Exists
  <2> QED  BY <1>2, <2>2, <2>3 DEF NightInv
<1> QED  BY <1>3, <1>4

\* A step that is none of these changes nothing of all that.
LEMMA StillNight ==
    ASSUME NightInv,
           UNCHANGED <<bullhorn, events, queue, consumer, nightly, aurora, watermark, raced>>
    PROVE  NightInv'
<1>1. Quiet' /\ Base' /\ Fetched' /\ CaughtUp'
  BY DEF NightInv, Quiet, Base, Fetched, CaughtUp, Exists
<1>2. \A r \in Records : Matches(r)' = Matches(r)  BY DEF Matches, Exists
<1>3. \A r \in Records : UpTo(r)' = UpTo(r)  BY <1>2 DEF UpTo
<1>4. \A r \in Records : Rank(r)' = Rank(r)  BY <1>3 DEF Rank
<1>5. Paged'  BY <1>2, <1>4 DEF NightInv, Paged
<1> QED  BY <1>1, <1>5 DEF NightInv

\* Of a type that is not subscribed to, a nightly job leaves no change out of Aurora, for
\* any number of records and pages, and however many jobs before it died: only those of
\* records that changed while a job was running may be missing.
THEOREM NightlyLeavesNoGap ==
    ASSUME Subscribed = FALSE
    PROVE  Spec => NightlyCovers
<1>1. Init => NightInv
  <2> SUFFICES ASSUME Init PROVE NightInv  OBVIOUS
  <2>1. Quiet  BY DEF Init, Quiet, Receiving
  <2>2. \A r \in Records : ~Exists(r)  BY DEF Init, Nothing, Exists
  <2>3. nightly.step = "idle"  BY DEF Init, Idle
  <2>4. Base /\ Fetched /\ CaughtUp  BY <2>2, <2>3 DEF Base, Fetched, CaughtUp
  <2>5. Paged  BY <2>3 DEF Paged
  <2> QED  BY <2>1, <2>4, <2>5 DEF NightInv
<1>2. TypeOK /\ NightInv /\ [Next]_vars => NightInv'
  <2> SUFFICES ASSUME TypeOK, NightInv, [Next]_vars PROVE NightInv'  OBVIOUS
  <2>1. CASE Tick  BY <2>1, StillNight DEF Tick
  <2>2. ASSUME NEW r \in Records, Edit(r) \/ Delete(r) PROVE NightInv'
    BY <2>2, EditNight, DeleteNight
  <2>3. CASE SubscriptionExpires \/ Poller \/ PollerFails
    <3>1. ~Publish
      <4>1. \A E \in SUBSET {} : Cardinality(E) = 0  BY FS_EmptySet
      <4> QED  BY <4>1 DEF NightInv, Quiet, Publish
    <3> QED
      BY <2>3, <3>1 DEF NightInv, Quiet, SubscriptionExpires, Poller, Poll, Reregister,
                        PollerFails
  <2>4. CASE (\E M \in SUBSET queue : Receive(M))
             \/ \E m \in queue : DeadLetter(m) \/ Retention(m)
    BY <2>4 DEF NightInv, Quiet, Receive
  <2>5. CASE Consumer \/ FetchFails \/ ConsumerFails
    BY <2>5 DEF NightInv, Quiet, Consumer, Fetch, FetchBut, Upsert, RecordSync, DeleteMessage,
                FetchFails, ConsumerFails
  <2>6. CASE NightlyBegins \/ NightlyRecord \/ NightlyFails  BY <2>6, BoundsNight
  <2>7. CASE NightlyPage  BY <2>7, PageNight
  <2>8. CASE NightlyUpsert  BY <2>8, UpsertNight
  <2>9. CASE UNCHANGED vars  BY <2>9, StillNight DEF vars
  <2> QED
    BY <2>1, <2>2, <2>3, <2>4, <2>5, <2>6, <2>7, <2>8, <2>9 DEF Next, Nightly
<1>3. NightInv /\ [Next]_vars =>
        [NightlyRecord => \A r \in Records :
            (Exists(r) /\ r \notin raced) => aurora[r] = version[r]]_vars
  BY DEF NightInv, CaughtUp, NightlyRecord
<1> QED  BY <1>1, <1>2, <1>3, TypeCorrect, PTL DEF Spec, NightlyCovers
=============================================================================
