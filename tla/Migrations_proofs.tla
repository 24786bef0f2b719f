-------------------------- MODULE Migrations_proofs --------------------------
(***************************************************************************)
(* What holds of the schema of a database, for any number of containers and  *)
(* files, whatever each file needs, whichever databases there are at first,  *)
(* and wherever containers die or statements fail: the recorded versions are *)
(* those of files that have run, and have no hole.                           *)
(***************************************************************************)
EXTENDS Migrations, FiniteSetTheorems, WellFoundedInduction, TLAPS

-----------------------------------------------------------------------------
(* The file a runner is at.                                                  *)

\* Where a runner has files to do, and where it holds the lock.
Working == {"lock", "apply", "record", "mark", "app", "app-mark"}
Holding == {"apply", "record", "mark"}

Runner == [step : Steps, todo : SUBSET Files, baseline : BOOLEAN]

LEMMA LeastFile ==
    ASSUME NEW S \in SUBSET Files, S # {}
    PROVE  Min(S) \in S /\ \A f \in S : Min(S) <= f
<1>0. S \subseteq Nat  BY MigrationsAssumption
<1>1. PICK m \in S : \A f \in S : <<f, m>> \notin OpToRel(<, Nat)
  BY <1>0, WFMin, NatLessThanWellFounded, Zenon
<1>2. \A f \in S : ~(f < m)
  BY <1>0, <1>1 DEF OpToRel
<1>3. \A f \in S : m <= f  BY <1>0, <1>2
<1> QED  BY <1>3 DEF Min

\* The files before the one a runner is at are not among those it has still to do.
LEMMA AtTheLeast ==
    ASSUME NEW c \in Containers, runner[c] \in Runner, runner[c].todo # {}
    PROVE  /\ File(c) \in runner[c].todo /\ File(c) \in Files
           /\ \A f \in Files : Version[f] < Version[File(c)] => f \notin runner[c].todo
<1>1. runner[c].todo \in SUBSET Files  BY DEF Runner
<1>2. File(c) \in runner[c].todo /\ \A f \in runner[c].todo : File(c) <= f
  BY <1>1, LeastFile DEF File
<1>3. File(c) \in Files  BY <1>1, <1>2
<1>4. ASSUME NEW f \in Files, Version[f] < Version[File(c)], f \in runner[c].todo PROVE FALSE
  <2>1. Version[File(c)] <= Version[f]
    BY <1>2, <1>3, <1>4, MigrationsAssumption
  <2>2. Version[f] \in Nat /\ Version[File(c)] \in Nat
    BY <1>3, MigrationsAssumption
  <2> QED  BY <1>4, <2>1, <2>2
<1> QED  BY <1>2, <1>3, <1>4

LEMMA PendingFiles == Pending \subseteq Files
BY DEF Pending

-----------------------------------------------------------------------------
(* The inductive invariant.                                                  *)

\* A file that a runner will not come to is recorded, or was gone past.
Passed(f, c) == Known(f) \/ f \in swallowed \/ f \in runner[c].todo

\* A runner that works has a file to do, and comes to all that are not recorded.
ListsFit ==
    \A c \in Containers : runner[c].step \in Working =>
        runner[c].todo # {} /\ \A f \in Files : Passed(f, c)

\* What a runner is about to record has run.
RecordsFit == \A c \in Containers : runner[c].step = "record" => File(c) \in schema

\* A runner of migrate.py that is past the lock holds it, and one does at a time.
LockFits ==
    /\ \A c \in Containers : runner[c].step \in Holding => c \in lock
    /\ \A c, d \in lock : c = d

MigrationsInv == TypeOK /\ ListsFit /\ RecordsFit /\ LockFits /\ RecordTrue /\ NoHole

-----------------------------------------------------------------------------
(* Steps of one container.                                                   *)

\* What a step of container c leaves of the other containers.
OthersRest(c) == \A d \in Containers \ {c} : runner'[d] = runner[d]

\* What a step may do to the database: nothing is taken back.
Grows ==
    /\ schema \subseteq schema' /\ recorded \subseteq recorded' /\ swallowed \subseteq swallowed'

LEMMA KnownStays ==
    ASSUME recorded \subseteq recorded', NEW f, Known(f)
    PROVE  Known(f)'
BY DEF Known

LEMMA OthersFit ==
    ASSUME TypeOK, ListsFit, RecordsFit, NEW c \in Containers, OthersRest(c), Grows,
           NEW d \in Containers, d # c
    PROVE  /\ (runner[d].step \in Working =>
                  runner[d].todo # {} /\ \A f \in Files : Passed(f, d))'
           /\ (runner[d].step = "record" => File(d) \in schema)'
<1>1. runner'[d] = runner[d]  BY DEF OthersRest
<1>2. File(d)' = File(d)  BY <1>1 DEF File
<1>3. ASSUME runner'[d].step \in Working
      PROVE  runner'[d].todo # {} /\ \A f \in Files : Passed(f, d)'
  <2>1. runner[d].todo # {} /\ \A f \in Files : Passed(f, d)
    BY <1>1, <1>3 DEF ListsFit
  <2> QED  BY <1>1, <2>1, KnownStays DEF Passed, Grows
<1>4. ASSUME runner'[d].step = "record" PROVE File(d)' \in schema'
  BY <1>1, <1>2, <1>4 DEF RecordsFit, Grows
<1> QED  BY <1>3, <1>4

LEMMA LockStays ==
    ASSUME LockFits, NEW c \in Containers, OthersRest(c),
           lock' = lock \/ lock' = lock \ {c},
           runner'[c].step \in Holding => lock' = lock /\ runner[c].step \in Holding
    PROVE  LockFits'
<1>1. ASSUME NEW d \in Containers, runner'[d].step \in Holding PROVE d \in lock'
  <2>1. CASE d = c  BY <1>1, <2>1 DEF LockFits
  <2>2. CASE d # c  BY <1>1, <2>2 DEF LockFits, OthersRest
  <2> QED  BY <2>1, <2>2
<1>2. \A x, y \in lock' : x = y  BY DEF LockFits
<1> QED  BY <1>1, <1>2 DEF LockFits

\* The invariant after a step of c, when it holds of c, of the table and of the lock.
LEMMA StepKeeps ==
    ASSUME MigrationsInv, NEW c \in Containers,
           runner' \in [Containers -> Runner], OthersRest(c),
           Grows, {schema', recorded', swallowed', mistaken'} \subseteq SUBSET Files,
           faults' \in 0 .. MaxFaults, lock' \subseteq Containers, LockFits',
           runner'[c].step \in Working =>
               runner'[c].todo # {} /\ \A f \in Files : Passed(f, c)',
           runner'[c].step = "record" => \A f : f = File(c)' => f \in schema',
           RecordTrue', NoHole'
    PROVE  MigrationsInv'
<1>1. ListsFit'
  BY OthersFit DEF MigrationsInv, ListsFit
<1>2. RecordsFit'
  BY OthersFit DEF MigrationsInv, RecordsFit
<1>3. Cardinality(lock') <= 1
  <2>1. CASE lock' = {}  BY <2>1, FS_EmptySet
  <2>2. CASE lock' # {}
    <3>1. PICK d \in lock' : TRUE  BY <2>2
    <3>2. lock' = {d}  BY <3>1 DEF LockFits
    <3> QED  BY <3>2, FS_Singleton
  <2> QED  BY <2>1, <2>2
<1>4. TypeOK'
  BY <1>3 DEF TypeOK, Runner
<1> QED  BY <1>1, <1>2, <1>4 DEF MigrationsInv

\* What leaves the table alone, or gives it a file that no hole comes before.
LEMMA NoHoleStays ==
    ASSUME NoHole, UNCHANGED recorded, swallowed \subseteq swallowed'
    PROVE  NoHole'
BY DEF NoHole, Known

LEMMA NoHoleGrows ==
    ASSUME TypeOK, NoHole, NEW c \in Containers, runner[c] \in Runner, runner[c].todo # {},
           \A f \in Files : Passed(f, c),
           recorded' = recorded \cup {File(c)}, UNCHANGED swallowed
    PROVE  NoHole'
<1>1. /\ File(c) \in Files
      /\ \A f \in Files : Version[f] < Version[File(c)] => f \notin runner[c].todo
  BY AtTheLeast
<1> SUFFICES ASSUME NEW f \in Files, NEW g \in Files, Version[f] < Version[g], Known(g)'
             PROVE  Known(f)' \/ f \in swallowed'
  BY DEF NoHole
<1>2. CASE Known(g)
  <2>1. Known(f) \/ f \in swallowed  BY <1>2 DEF NoHole
  <2> QED  BY <2>1, KnownStays
<1>3. CASE ~Known(g)
  <2>1. Version[File(c)] = Version[g]  BY <1>3 DEF Known
  <2>2. f \notin runner[c].todo  BY <1>1, <2>1
  <2>3. Known(f) \/ f \in swallowed  BY <2>2 DEF Passed
  <2> QED  BY <2>3, KnownStays
<1> QED  BY <1>2, <1>3

\* A runner that changes its step alone, or ends, or goes on to the next file.
LEMMA Going ==
    ASSUME runner \in [Containers -> Runner], NEW c \in Containers, NEW s \in Steps, Go(c, s)
    PROVE  /\ runner' \in [Containers -> Runner] /\ OthersRest(c)
           /\ runner'[c].step = s /\ runner'[c].todo = runner[c].todo
           /\ runner'[c].baseline = runner[c].baseline
           /\ File(c)' = File(c)
<1>1. runner[c] \in Runner  OBVIOUS
<1> DEFINE r == [runner[c] EXCEPT !.step = s]
<1>2. runner' = [runner EXCEPT ![c] = r]  BY DEF Go
<1>3. r \in Runner /\ r.step = s /\ r.todo = runner[c].todo /\ r.baseline = runner[c].baseline
  BY <1>1 DEF Runner
<1> HIDE DEF r
<1>4. runner'[c] = r  BY <1>2
<1>5. runner' \in [Containers -> Runner] /\ OthersRest(c)
  BY <1>2, <1>3 DEF OthersRest
<1> QED  BY <1>3, <1>4, <1>5 DEF File

LEMMA Leaving ==
    ASSUME runner \in [Containers -> Runner], NEW c \in Containers, NEW s \in Steps, Leave(c, s)
    PROVE  /\ runner' \in [Containers -> Runner] /\ OthersRest(c)
           /\ runner'[c].step = s
<1>1. At(s) \in Runner /\ At(s).step = s  BY DEF At, Runner
<1>2. runner' = [runner EXCEPT ![c] = At(s)]  BY DEF Leave
<1>3. runner'[c] = At(s)  BY <1>2
<1> QED  BY <1>1, <1>2, <1>3 DEF OthersRest

LEMMA GoingOn ==
    ASSUME runner \in [Containers -> Runner], NEW c \in Containers, NEW s \in Steps, NEW e \in Steps,
           GoOn(c, s, e), recorded \subseteq recorded', swallowed \subseteq swallowed',
           runner[c].todo # {}, \A f \in Files : Passed(f, c),
           \A f : f = File(c) => Known(f)' \/ f \in swallowed'
    PROVE  /\ runner' \in [Containers -> Runner] /\ OthersRest(c)
           /\ runner[c].todo = {File(c)} => runner'[c].step = e
           /\ runner[c].todo # {File(c)} =>
                  /\ runner'[c].step = s /\ runner'[c].todo # {}
                  /\ \A f \in Files : Passed(f, c)'
<1>1. runner[c] \in Runner /\ runner[c].todo \in SUBSET Files /\ runner[c].baseline \in BOOLEAN
  BY DEF Runner
<1>2. File(c) \in runner[c].todo  BY <1>1, AtTheLeast
<1> DEFINE rest == runner[c].todo \ {File(c)}
           r == [step |-> s, todo |-> rest, baseline |-> runner[c].baseline]
           n == IF runner[c].todo = {File(c)} THEN At(e) ELSE r
<1>3. r \in Runner /\ r.step = s /\ r.todo = rest  BY <1>1 DEF Runner
<1>4. At(e) \in Runner /\ At(e).step = e  BY DEF At, Runner
<1>5. runner' = [runner EXCEPT ![c] = n]  BY DEF GoOn
<1> HIDE DEF r
<1>6. n \in Runner  BY <1>3, <1>4
<1>7. /\ runner[c].todo = {File(c)} => n.step = e
      /\ runner[c].todo # {File(c)} => n.step = s /\ n.todo = rest
  BY <1>3, <1>4
<1> HIDE DEF n
<1>8. runner'[c] = n /\ runner' \in [Containers -> Runner]  BY <1>5, <1>6
<1>9. OthersRest(c)  BY <1>5 DEF OthersRest
<1>10. ASSUME runner[c].todo # {File(c)}, NEW f \in Files PROVE Passed(f, c)'
  <2>1. runner'[c].todo = rest  BY <1>7, <1>8, <1>10
  <2>2. CASE f = File(c)  BY <2>2 DEF Passed
  <2>3. CASE f # File(c)
    <3>1. Known(f) \/ f \in swallowed \/ f \in runner[c].todo  BY DEF Passed
    <3> QED  BY <2>1, <2>3, <3>1, KnownStays DEF Passed
  <2> QED  BY <2>2, <2>3
<1> QED  BY <1>2, <1>7, <1>8, <1>9, <1>10

-----------------------------------------------------------------------------
(* The actions.                                                              *)

LEMMA InitKeeps == Init => MigrationsInv
<1> SUFFICES ASSUME Init PROVE MigrationsInv  OBVIOUS
<1>1. At("boot") \in Runner /\ At("boot").step = "boot"  BY DEF At, Runner, Steps
<1>2. \A c \in Containers : runner[c] = At("boot")  BY DEF Init
<1>3. runner \in [Containers -> Runner]  BY <1>1 DEF Init
<1>4. TypeOK
  BY <1>3, FS_EmptySet, MigrationsAssumption DEF Init, TypeOK, Runner
<1>5. \A c \in Containers : runner[c].step \notin Working \cup Holding \cup {"record"}
  BY <1>1, <1>2 DEF Working, Holding
<1>6. LockFits /\ ListsFit /\ RecordsFit
  BY <1>5 DEF LockFits, ListsFit, RecordsFit, Init
<1>7. RecordTrue /\ NoHole
  BY DEF Init, RecordTrue, NoHole, Known
<1> QED  BY <1>4, <1>6, <1>7 DEF MigrationsInv

\* What the invariant says of the container that takes a step.
LEMMA Facts ==
    ASSUME MigrationsInv, NEW c \in Containers
    PROVE  /\ runner \in [Containers -> Runner] /\ runner[c] \in Runner
           /\ {schema, recorded, swallowed, mistaken} \subseteq SUBSET Files
           /\ faults \in 0 .. MaxFaults /\ lock \subseteq Containers
           /\ runner[c].step \in Working =>
                  /\ runner[c].todo # {} /\ File(c) \in Files
                  /\ \A f \in Files : Passed(f, c)
<1>1. /\ runner \in [Containers -> Runner] /\ runner[c] \in Runner
      /\ {schema, recorded, swallowed, mistaken} \subseteq SUBSET Files
      /\ faults \in 0 .. MaxFaults /\ lock \subseteq Containers
  BY DEF MigrationsInv, TypeOK, Runner
<1>2. ASSUME runner[c].step \in Working
      PROVE  runner[c].todo # {} /\ \A f \in Files : Passed(f, c)
  BY <1>2 DEF MigrationsInv, ListsFit
<1> QED  BY <1>1, <1>2, AtTheLeast

LEMMA FaultType == ASSUME NEW k, Fault(k), faults \in 0 .. MaxFaults PROVE faults' \in 0 .. MaxFaults
BY MigrationsAssumption DEF Fault

\* A step that leaves the database alone, after which c is where it has no files to do.
LEMMA EndKeeps ==
    ASSUME MigrationsInv, NEW c \in Containers, NEW s \in Steps \ Working, Leave(c, s),
           lock' = lock \/ lock' = lock \ {c}, faults' \in 0 .. MaxFaults,
           UNCHANGED <<schema, recorded, mistaken, swallowed>>
    PROVE  MigrationsInv'
<1>1. /\ runner \in [Containers -> Runner] /\ lock \subseteq Containers
      /\ {schema, recorded, swallowed, mistaken} \subseteq SUBSET Files
  BY Facts
<1>2. runner' \in [Containers -> Runner] /\ OthersRest(c) /\ runner'[c].step = s
  BY <1>1, Leaving
<1>3. runner'[c].step \notin Holding /\ runner'[c].step \notin Working /\ runner'[c].step # "record"
  BY <1>2 DEF Holding, Working
<1>4. LockFits'  BY <1>2, <1>3, LockStays DEF MigrationsInv
<1>5. RecordTrue' /\ NoHole'
  BY DEF MigrationsInv, RecordTrue, NoHole, Known
<1> QED  BY <1>1, <1>2, <1>3, <1>4, <1>5, StepKeeps DEF Grows

\* A step that leaves the database alone, after which c has the same files to do.
LEMMA GoKeeps ==
    ASSUME MigrationsInv, NEW c \in Containers, NEW s \in Working \ {"record"}, Go(c, s),
           runner[c].step \in Working, UNCHANGED lock,
           s \in Holding => runner[c].step \in Holding, faults' \in 0 .. MaxFaults,
           UNCHANGED <<schema, recorded, mistaken, swallowed>>
    PROVE  MigrationsInv'
<1>1. /\ runner \in [Containers -> Runner] /\ lock \subseteq Containers
      /\ {schema, recorded, swallowed, mistaken} \subseteq SUBSET Files
      /\ runner[c].todo # {} /\ \A f \in Files : Passed(f, c)
  BY Facts
<1>2. s \in Steps  BY DEF Working, Steps
<1>3. /\ runner' \in [Containers -> Runner] /\ OthersRest(c)
      /\ runner'[c].step = s /\ runner'[c].todo = runner[c].todo
  BY <1>1, <1>2, Going
<1>4. LockFits'  BY <1>3, LockStays DEF MigrationsInv
<1>5. \A f \in Files : Passed(f, c)'
  BY <1>1, <1>3 DEF Passed, Known
<1>6. RecordTrue' /\ NoHole'
  BY DEF MigrationsInv, RecordTrue, NoHole, Known
<1> QED  BY <1>1, <1>3, <1>4, <1>5, <1>6, StepKeeps DEF Grows

\* A file is recorded, or gone past, and c goes on to the next.
LEMMA GoOnKeeps ==
    ASSUME MigrationsInv, NEW c \in Containers, runner[c].step \in Working,
           NEW s \in Working \ {"record"}, NEW e \in Steps \ Working, GoOn(c, s, e),
           lock' = lock \/ (runner[c].todo = {File(c)} /\ lock' = lock \ {c}),
           s \in Holding => runner[c].step \in Holding,
           Grows, {schema', recorded', swallowed', mistaken'} \subseteq SUBSET Files,
           faults' \in 0 .. MaxFaults,
           \A f : f = File(c) => Known(f)' \/ f \in swallowed',
           RecordTrue', NoHole'
    PROVE  MigrationsInv'
<1>1. /\ runner \in [Containers -> Runner] /\ lock \subseteq Containers
      /\ runner[c].todo # {} /\ \A f \in Files : Passed(f, c)
  BY Facts
<1>2. s \in Steps /\ s # "record" /\ e \notin Holding /\ e # "record"
  BY DEF Working, Steps, Holding
<1>3. /\ runner' \in [Containers -> Runner] /\ OthersRest(c)
      /\ runner[c].todo = {File(c)} => runner'[c].step = e
      /\ runner[c].todo # {File(c)} =>
             /\ runner'[c].step = s /\ runner'[c].todo # {}
             /\ \A f \in Files : Passed(f, c)'
  BY <1>1, <1>2, GoingOn DEF Grows
<1>4. LockFits'  BY <1>2, <1>3, LockStays DEF MigrationsInv
<1> QED  BY <1>1, <1>2, <1>3, <1>4, StepKeeps

LEMMA ReadKeeps ==
    ASSUME MigrationsInv, NEW c \in Containers, NEW s \in {"lock", "app"}, NEW done \in {"start", "serve"},
           Read(c, s, done)
    PROVE  MigrationsInv'
<1>0. /\ runner \in [Containers -> Runner] /\ lock \subseteq Containers /\ faults \in 0 .. MaxFaults
      /\ {schema, recorded, swallowed, mistaken} \subseteq SUBSET Files
  BY Facts
<1>1. UNCHANGED <<schema, recorded, lock, mistaken, swallowed, faults>>  BY DEF Read
<1>2. CASE Pending = {}
  <2>1. Leave(c, done)  BY <1>2 DEF Read, Leave
  <2>2. done \in Steps \ Working  BY DEF Steps, Working
  <2> QED  BY <1>0, <1>1, <2>1, <2>2, EndKeeps
<1>3. CASE Pending # {}
  <2> DEFINE b == recorded = {}
             r == [step |-> s, todo |-> Pending, baseline |-> b]
  <2>0. b \in BOOLEAN /\ s \in Steps  BY DEF Steps
  <2> HIDE DEF b
  <2>1. r \in Runner /\ r.step = s /\ r.todo = Pending  BY <2>0, PendingFiles DEF Runner
  <2>2. runner' = [runner EXCEPT ![c] = r]  BY <1>3 DEF Read, b
  <2> HIDE DEF r
  <2>3. runner'[c] = r /\ runner' \in [Containers -> Runner] /\ OthersRest(c)
    BY <1>0, <2>1, <2>2 DEF OthersRest
  <2>4. runner'[c].step \notin Holding /\ runner'[c].step # "record"
    BY <2>1, <2>3 DEF Holding
  <2>5. LockFits'  BY <1>1, <2>3, <2>4, LockStays DEF MigrationsInv
  <2>6. \A f \in Files : Passed(f, c)'
    BY <1>1, <2>1, <2>3 DEF Passed, Known, Pending
  <2>7. RecordTrue' /\ NoHole'
    BY <1>1 DEF MigrationsInv, RecordTrue, NoHole, Known
  <2> QED  BY <1>0, <1>1, <1>3, <2>1, <2>3, <2>4, <2>5, <2>6, <2>7, StepKeeps DEF Grows
<1> QED  BY <1>2, <1>3

LEMMA CliLockKeeps ==
    ASSUME MigrationsInv, NEW c \in Containers, CliLock(c)
    PROVE  MigrationsInv'
<1>0. /\ runner \in [Containers -> Runner] /\ lock \subseteq Containers /\ faults \in 0 .. MaxFaults
      /\ {schema, recorded, swallowed, mistaken} \subseteq SUBSET Files
      /\ UNCHANGED <<schema, recorded, mistaken, swallowed, faults>>
  BY Facts DEF CliLock
<1>1. runner[c].step = "lock" /\ TryLock(c)  BY DEF CliLock
<1>2. CASE lock = {}
  <2>1. lock' = {c} /\ Go(c, "apply")  BY <1>1, <1>2 DEF TryLock
  <2>2. runner[c].todo # {} /\ \A f \in Files : Passed(f, c)
    BY <1>1, Facts DEF Working
  <2>3. /\ runner' \in [Containers -> Runner] /\ OthersRest(c)
        /\ runner'[c].step = "apply" /\ runner'[c].todo = runner[c].todo
    BY <1>0, <2>1, Going DEF Steps
  <2>4. LockFits'
    BY <1>2, <2>1, <2>3 DEF MigrationsInv, LockFits, OthersRest
  <2>5. \A f \in Files : Passed(f, c)'
    BY <1>0, <2>2, <2>3 DEF Passed, Known
  <2>6. RecordTrue' /\ NoHole'
    BY <1>0 DEF MigrationsInv, RecordTrue, NoHole, Known
  <2> QED  BY <1>0, <2>1, <2>2, <2>3, <2>4, <2>5, <2>6, StepKeeps DEF Grows
<1>3. CASE lock # {}
  <2>1. Leave(c, "start") /\ UNCHANGED lock  BY <1>1, <1>3 DEF TryLock
  <2>2. "start" \in Steps \ Working  BY DEF Steps, Working
  <2> QED  BY <1>0, <2>1, <2>2, EndKeeps
<1> QED  BY <1>2, <1>3

\* A run of migrate.py that ends, or an exception in it.
LEMMA CliEndsKeeps ==
    ASSUME MigrationsInv, NEW c \in Containers, CliEnds(c), faults' \in 0 .. MaxFaults,
           UNCHANGED <<schema, recorded, mistaken, swallowed>>
    PROVE  MigrationsInv'
<1>1. "start" \in Steps \ Working  BY DEF Steps, Working
<1> QED  BY <1>1, EndKeeps DEF CliEnds

LEMMA CliCatchesKeeps ==
    ASSUME MigrationsInv, NEW c \in Containers, runner[c].step \in {"apply", "record"},
           CliCatches(c), faults' \in 0 .. MaxFaults,
           UNCHANGED <<schema, recorded, mistaken, swallowed>>
    PROVE  MigrationsInv'
<1>1. CASE runner[c].baseline
  <2>1. "mark" \in Working \ {"record"}  BY DEF Working
  <2>2. runner[c].step \in Working /\ runner[c].step \in Holding  BY DEF Working, Holding
  <2> QED  BY <1>1, <2>1, <2>2, GoKeeps DEF CliCatches
<1>2. CASE ~runner[c].baseline
  BY <1>2, CliEndsKeeps DEF CliCatches
<1> QED  BY <1>1, <1>2

LEMMA CliApplyKeeps ==
    ASSUME MigrationsInv, NEW c \in Containers, CliApply(c)
    PROVE  MigrationsInv'
<1>0. /\ runner \in [Containers -> Runner] /\ lock \subseteq Containers /\ faults \in 0 .. MaxFaults
      /\ {schema, recorded, swallowed, mistaken} \subseteq SUBSET Files
      /\ UNCHANGED <<recorded, mistaken, swallowed, faults>>
  BY Facts DEF CliApply
<1>1. runner[c].step = "apply"  BY DEF CliApply
<1>2. CASE Fails(File(c))
  <2>1. CliCatches(c) /\ UNCHANGED schema  BY <1>2 DEF CliApply
  <2> QED  BY <1>0, <1>1, <2>1, CliCatchesKeeps
<1>3. CASE ~Fails(File(c))
  <2>1. schema' = schema \cup {File(c)} /\ Go(c, "record") /\ UNCHANGED lock
    BY <1>3 DEF CliApply
  <2>2. runner[c].todo # {} /\ File(c) \in Files /\ \A f \in Files : Passed(f, c)
    BY <1>1, Facts DEF Working
  <2>3. /\ runner' \in [Containers -> Runner] /\ OthersRest(c)
        /\ runner'[c].step = "record" /\ runner'[c].todo = runner[c].todo
        /\ File(c)' = File(c)
    BY <1>0, <2>1, Going DEF Steps
  <2>4. LockFits'
    BY <1>1, <2>1, <2>3, LockStays DEF MigrationsInv, Holding
  <2>5. \A f \in Files : Passed(f, c)'
    BY <1>0, <2>2, <2>3 DEF Passed, Known
  <2>6. RecordTrue' /\ NoHole'
    BY <1>0, <2>1 DEF MigrationsInv, RecordTrue, NoHole, Known
  <2> QED  BY <1>0, <2>1, <2>2, <2>3, <2>4, <2>5, <2>6, StepKeeps DEF Grows
<1> QED  BY <1>2, <1>3

\* What is recorded is there: c has run its file, or baselines it.
LEMMA RecordStays ==
    ASSUME RecordTrue, NEW f, recorded' = recorded \cup {f}, schema \subseteq schema',
           mistaken \subseteq mistaken', f \in schema' \cup mistaken'
    PROVE  RecordTrue'
BY DEF RecordTrue

LEMMA CliGoesOnKeeps ==
    ASSUME MigrationsInv, NEW c \in Containers, runner[c].step \in {"record", "mark"},
           CliGoesOn(c), recorded' = recorded \cup {File(c)},
           mistaken \subseteq mistaken', mistaken' \subseteq Files,
           File(c) \in schema \cup mistaken', UNCHANGED <<schema, swallowed, faults>>
    PROVE  MigrationsInv'
<1>0. /\ runner[c] \in Runner /\ runner[c].todo # {} /\ File(c) \in Files
      /\ {schema, recorded, swallowed, mistaken} \subseteq SUBSET Files
      /\ \A f \in Files : Passed(f, c)
      /\ faults \in 0 .. MaxFaults
      /\ runner[c].step \in Working /\ runner[c].step \in Holding
  BY Facts DEF Working, Holding
<1>1. RecordTrue'  BY RecordStays DEF MigrationsInv
<1>2. NoHole'  BY <1>0, NoHoleGrows DEF MigrationsInv
<1>3. \A f : f = File(c) => Known(f)'  BY DEF Known
<1>4. GoOn(c, "apply", "start")
  BY DEF CliGoesOn
<1>5. lock' = lock \/ (runner[c].todo = {File(c)} /\ lock' = lock \ {c})
  BY DEF CliGoesOn
<1>6. "apply" \in Working \ {"record"} /\ "start" \in Steps \ Working  BY DEF Working, Steps
<1>7. Grows /\ {schema', recorded', swallowed', mistaken'} \subseteq SUBSET Files
  BY <1>0 DEF Grows
<1> QED  BY <1>0, <1>1, <1>2, <1>3, <1>4, <1>5, <1>6, <1>7, GoOnKeeps

LEMMA CliRecordKeeps ==
    ASSUME MigrationsInv, NEW c \in Containers, CliRecord(c)
    PROVE  MigrationsInv'
<1>0. /\ faults \in 0 .. MaxFaults /\ runner[c].step = "record"
      /\ mistaken \subseteq Files
      /\ UNCHANGED <<schema, mistaken, swallowed, faults>>
  BY Facts DEF CliRecord
<1>1. CASE Known(File(c))
  <2>1. CliCatches(c) /\ UNCHANGED recorded  BY <1>1 DEF CliRecord
  <2> QED  BY <1>0, <2>1, CliCatchesKeeps
<1>2. CASE ~Known(File(c))
  <2>1. recorded' = recorded \cup {File(c)} /\ CliGoesOn(c)  BY <1>2 DEF CliRecord
  <2>2. File(c) \in schema  BY <1>0 DEF MigrationsInv, RecordsFit
  <2> QED  BY <1>0, <2>1, <2>2, CliGoesOnKeeps
<1> QED  BY <1>1, <1>2

LEMMA CliBaselineKeeps ==
    ASSUME MigrationsInv, NEW c \in Containers, CliBaseline(c)
    PROVE  MigrationsInv'
<1>0. /\ faults \in 0 .. MaxFaults /\ runner[c].step = "mark" /\ File(c) \in Files
      /\ mistaken \subseteq Files
      /\ UNCHANGED <<schema, swallowed, faults>>
  BY Facts DEF CliBaseline, Working
<1>1. CASE Known(File(c))
  <2>1. CliEnds(c) /\ UNCHANGED <<recorded, mistaken>>  BY <1>1 DEF CliBaseline
  <2> QED  BY <1>0, <2>1, CliEndsKeeps
<1>2. CASE ~Known(File(c))
  <2>1. /\ recorded' = recorded \cup {File(c)} /\ CliGoesOn(c)
        /\ mistaken' = mistaken \cup ({File(c)} \ schema)
    BY <1>2 DEF CliBaseline
  <2>2. File(c) \in schema \cup mistaken' /\ mistaken \subseteq mistaken' /\ mistaken' \subseteq Files
    BY <1>0, <2>1
  <2> QED  BY <1>0, <2>1, <2>2, CliGoesOnKeeps
<1> QED  BY <1>1, <1>2

LEMMA CliFaultKeeps ==
    ASSUME MigrationsInv, NEW c \in Containers, CliFault(c)
    PROVE  MigrationsInv'
<1>0. faults \in 0 .. MaxFaults /\ UNCHANGED <<schema, recorded, mistaken, swallowed>>
  BY Facts DEF CliFault
<1>1. CASE runner[c].step = "apply" /\ Fault("sql") /\ CliCatches(c)
  BY <1>0, <1>1, FaultType, CliCatchesKeeps
<1>2. CASE runner[c].step = "record" /\ Fault("insert") /\ CliCatches(c)
  BY <1>0, <1>2, FaultType, CliCatchesKeeps
<1>3. CASE runner[c].step = "mark" /\ Fault("insert") /\ CliEnds(c)
  BY <1>0, <1>3, FaultType, CliEndsKeeps
<1> QED  BY <1>1, <1>2, <1>3 DEF CliFault

LEMMA AppCatchesKeeps ==
    ASSUME MigrationsInv, NEW c \in Containers, runner[c].step = "app", AppCatches(c),
           faults' \in 0 .. MaxFaults, UNCHANGED <<schema, recorded, lock, mistaken, swallowed>>
    PROVE  MigrationsInv'
<1>1. /\ "app-mark" \in Working \ {"record"} /\ "app-mark" \notin Holding /\ "app" \in Working
      /\ "serve" \in Steps \ Working
  BY DEF Working, Holding, Steps
<1>2. CASE runner[c].baseline  BY <1>1, <1>2, GoKeeps DEF AppCatches
<1>3. CASE ~runner[c].baseline  BY <1>1, <1>3, EndKeeps DEF AppCatches
<1> QED  BY <1>2, <1>3

\* The file of c is recorded, passed over because its version is, or gone past.
LEMMA AppGoesOnKeeps ==
    ASSUME MigrationsInv, NEW c \in Containers, runner[c].step \in {"app", "app-mark"},
           AppGoesOn(c), UNCHANGED lock, faults' \in 0 .. MaxFaults,
           Grows, {schema', recorded', swallowed', mistaken'} \subseteq SUBSET Files,
           \A f : f = File(c) => Known(f)' \/ f \in swallowed',
           RecordTrue', NoHole'
    PROVE  MigrationsInv'
<1>1. /\ "app" \in Working \ {"record"} /\ "app" \notin Holding /\ runner[c].step \in Working
      /\ "serve" \in Steps \ Working
  BY DEF Working, Holding, Steps
<1>2. GoOn(c, "app", "serve")  BY DEF AppGoesOn
<1> QED  BY <1>1, <1>2, GoOnKeeps

LEMMA AppApplyKeeps ==
    ASSUME MigrationsInv, NEW c \in Containers, AppApply(c)
    PROVE  MigrationsInv'
<1>0. /\ faults \in 0 .. MaxFaults /\ runner[c].step = "app"
      /\ UNCHANGED <<lock, mistaken, swallowed, faults>>
      /\ {schema, recorded, swallowed, mistaken} \subseteq SUBSET Files
      /\ runner[c] \in Runner /\ runner[c].todo # {} /\ File(c) \in Files
      /\ \A f \in Files : Passed(f, c)
  BY Facts DEF AppApply, Working
<1>1. CASE AppFails(File(c))
  <2>1. AppCatches(c) /\ UNCHANGED <<schema, recorded>>  BY <1>1 DEF AppApply
  <2> QED  BY <1>0, <2>1, AppCatchesKeeps
<1>2. CASE ~AppFails(File(c))
  <2>1. /\ schema' = schema \cup {File(c)} /\ recorded' = recorded \cup {File(c)}
        /\ AppGoesOn(c)
    BY <1>2 DEF AppApply
  <2>2. RecordTrue'  BY <1>0, <2>1, RecordStays DEF MigrationsInv
  <2>3. NoHole'  BY <1>0, <2>1, NoHoleGrows DEF MigrationsInv
  <2>4. \A f : f = File(c) => Known(f)'  BY <2>1 DEF Known
  <2>5. Grows /\ {schema', recorded', swallowed', mistaken'} \subseteq SUBSET Files
    BY <1>0, <2>1 DEF Grows
  <2> QED  BY <1>0, <2>1, <2>2, <2>3, <2>4, <2>5, AppGoesOnKeeps
<1> QED  BY <1>1, <1>2

LEMMA AppBaselineKeeps ==
    ASSUME MigrationsInv, NEW c \in Containers, AppBaseline(c)
    PROVE  MigrationsInv'
<1>0. /\ faults \in 0 .. MaxFaults /\ runner[c].step = "app-mark" /\ AppGoesOn(c)
      /\ UNCHANGED <<schema, lock, swallowed, faults>>
      /\ {schema, recorded, swallowed, mistaken} \subseteq SUBSET Files
      /\ runner[c] \in Runner /\ runner[c].todo # {} /\ File(c) \in Files
      /\ \A f \in Files : Passed(f, c)
  BY Facts DEF AppBaseline, Working
<1>1. CASE Known(File(c))
  <2>1. UNCHANGED <<recorded, mistaken>>  BY <1>1 DEF AppBaseline
  <2>2. RecordTrue' /\ NoHole'
    BY <1>0, <2>1 DEF MigrationsInv, RecordTrue, NoHole, Known
  <2>3. \A f : f = File(c) => Known(f)'  BY <1>1, <2>1 DEF Known
  <2>4. Grows /\ {schema', recorded', swallowed', mistaken'} \subseteq SUBSET Files
    BY <1>0, <2>1 DEF Grows
  <2> QED  BY <1>0, <2>2, <2>3, <2>4, AppGoesOnKeeps
<1>2. CASE ~Known(File(c))
  <2>1. /\ recorded' = recorded \cup {File(c)}
        /\ mistaken' = mistaken \cup ({File(c)} \ schema)
    BY <1>2 DEF AppBaseline
  <2>2. File(c) \in schema \cup mistaken'  BY <2>1
  <2>3. RecordTrue'  BY <1>0, <2>1, <2>2, RecordStays DEF MigrationsInv
  <2>4. NoHole'  BY <1>0, <2>1, NoHoleGrows DEF MigrationsInv
  <2>5. \A f : f = File(c) => Known(f)'  BY <2>1 DEF Known
  <2>6. Grows /\ {schema', recorded', swallowed', mistaken'} \subseteq SUBSET Files
    BY <1>0, <2>1 DEF Grows
  <2> QED  BY <1>0, <2>3, <2>4, <2>5, <2>6, AppGoesOnKeeps
<1> QED  BY <1>1, <1>2

LEMMA AppFaultKeeps ==
    ASSUME MigrationsInv, NEW c \in Containers, AppFault(c)
    PROVE  MigrationsInv'
<1>0. /\ faults \in 0 .. MaxFaults /\ UNCHANGED <<schema, recorded, lock, mistaken>>
      /\ {schema, recorded, swallowed, mistaken} \subseteq SUBSET Files
  BY Facts DEF AppFault
<1>1. CASE /\ runner[c].step = "app" /\ (Fault("sql") \/ Fault("insert"))
           /\ AppCatches(c) /\ UNCHANGED swallowed
  BY <1>0, <1>1, FaultType, AppCatchesKeeps
<1>2. CASE /\ runner[c].step = "app-mark" /\ Fault("insert")
           /\ swallowed' = swallowed \cup (IF Known(File(c)) THEN {} ELSE {File(c)})
           /\ AppGoesOn(c)
  <2>1. File(c) \in Files  BY <1>2, Facts DEF Working
  <2>2. \A f : f = File(c) => Known(f)' \/ f \in swallowed'
    BY <1>0, <1>2 DEF Known
  <2>3. Grows /\ {schema', recorded', swallowed', mistaken'} \subseteq SUBSET Files
    BY <1>0, <1>2, <2>1 DEF Grows
  <2>4. RecordTrue' /\ NoHole'
    BY <1>0, <2>3 DEF MigrationsInv, RecordTrue, NoHole, Known, Grows
  <2> QED  BY <1>0, <1>2, <2>2, <2>3, <2>4, FaultType, AppGoesOnKeeps
<1> QED  BY <1>1, <1>2 DEF AppFault

LEMMA CrashKeeps ==
    ASSUME MigrationsInv, NEW c \in Containers, Crash(c) \/ Replace(c)
    PROVE  MigrationsInv'
<1>1. "boot" \in Steps \ Working  BY DEF Steps, Working
<1>2. faults \in 0 .. MaxFaults  BY Facts
<1>3. CASE Crash(c)  BY <1>1, <1>2, <1>3, FaultType, EndKeeps DEF Crash
<1>4. CASE Replace(c)  BY <1>1, <1>2, <1>4, EndKeeps DEF Replace
<1> QED  BY <1>3, <1>4

LEMMA NextKeeps == MigrationsInv /\ [Next]_vars => MigrationsInv'
<1> SUFFICES ASSUME MigrationsInv, [Next]_vars PROVE MigrationsInv'  OBVIOUS
<1>1. CASE UNCHANGED vars
  BY <1>1 DEF MigrationsInv, vars, TypeOK, ListsFit, RecordsFit, LockFits, RecordTrue, NoHole,
              Passed, Known, File
<1>2. CASE Next
  <2> PICK c \in Containers : Cli(c) \/ CliFault(c) \/ App(c) \/ AppFault(c) \/ Crash(c) \/ Replace(c)
    BY <1>2 DEF Next
  <2>1. CASE CliRead(c)  BY <2>1, ReadKeeps DEF CliRead
  <2>2. CASE CliLock(c)  BY <2>2, CliLockKeeps
  <2>3. CASE CliApply(c)  BY <2>3, CliApplyKeeps
  <2>4. CASE CliRecord(c)  BY <2>4, CliRecordKeeps
  <2>5. CASE CliBaseline(c)  BY <2>5, CliBaselineKeeps
  <2>6. CASE CliFault(c)  BY <2>6, CliFaultKeeps
  <2>7. CASE AppRead(c)  BY <2>7, ReadKeeps DEF AppRead
  <2>8. CASE AppApply(c)  BY <2>8, AppApplyKeeps
  <2>9. CASE AppBaseline(c)  BY <2>9, AppBaselineKeeps
  <2>10. CASE AppFault(c)  BY <2>10, AppFaultKeeps
  <2>11. CASE Crash(c) \/ Replace(c)  BY <2>11, CrashKeeps
  <2> QED
    BY <2>1, <2>2, <2>3, <2>4, <2>5, <2>6, <2>7, <2>8, <2>9, <2>10, <2>11 DEF Cli, App
<1> QED  BY <1>1, <1>2

LEMMA Invariance == Spec => []MigrationsInv
<1> QED  BY InitKeeps, NextKeeps, PTL DEF Spec

-----------------------------------------------------------------------------
(* The results.                                                              *)

\* Every variable keeps its type, and the advisory lock one holder at most.
THEOREM TypeCorrect == Spec => []TypeOK
<1>1. MigrationsInv => TypeOK  BY DEF MigrationsInv
<1> QED  BY <1>1, Invariance, PTL

\* A recorded version is one whose file has run, unless a baselining run recorded it
\* after it had failed: the runner of migrate.py records what it committed before, the
\* start-up runner in the same transaction.
THEOREM RecordsAreTrue == Spec => []RecordTrue
<1>1. MigrationsInv => RecordTrue  BY DEF MigrationsInv
<1> QED  BY <1>1, Invariance, PTL

\* No version is recorded while an earlier one is not, whichever runners work from
\* whichever old lists, unless a start-up runner went past it.
THEOREM RecordsHaveNoHole == Spec => []NoHole
<1>1. MigrationsInv => NoHole  BY DEF MigrationsInv
<1> QED  BY <1>1, Invariance, PTL

\* Two runners of migrate.py never work at a time: the advisory lock of run.
THEOREM OneRunner ==
    Spec => [](\A c, d \in Containers :
                   runner[c].step \in Holding /\ runner[d].step \in Holding => c = d)
<1>1. MigrationsInv =>
          \A c, d \in Containers :
              runner[c].step \in Holding /\ runner[d].step \in Holding => c = d
  BY DEF MigrationsInv, LockFits
<1> QED  BY <1>1, Invariance, PTL
==============================================================================
