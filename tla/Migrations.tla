----------------------------- MODULE Migrations -----------------------------
(***************************************************************************)
(* How a database is brought to the schema of this release.  Every container *)
(* runs deploy/entrypoint.sh: first the migration runner (deploy/db/         *)
(* migrate.py), which holds an advisory lock, then the API, which on start-up *)
(* runs a second runner (_run_migrations_on_startup in main.py), which does   *)
(* not.  Several containers start at a time, and any may die.                *)
(*                                                                          *)
(* The first runner executes a file and inserts its row in schema_migrations *)
(* in two transactions, the second in one.  When the table is empty both are *)
(* in baseline mode, in which a file that fails is recorded all the same:    *)
(* the table tenants, the other condition, comes from db/schema.sql and is   *)
(* always there.                                                            *)
(*                                                                          *)
(* A file is a number, in the order of the names.  Executing it leaves its   *)
(* effect in the schema.                                                    *)
(***************************************************************************)
EXTENDS Naturals, Sequences, FiniteSets, FiniteSetsExt

CONSTANTS
    Containers,
    Files,          \* the files of deploy/db/migrations
    Version,        \* the number each file's name begins with
    Databases,      \* the files whose effect a database may have at first
    Once,           \* files that fail when their effect is there (no IF NOT EXISTS)
    Needs,          \* the files whose effect a file needs
    Text,           \* the lines of each file
    Faults,         \* which of the faults below may happen
    MaxFaults       \* bound

Kinds == {"comment", "code", "end", "open", "close"}
FaultKinds == {"crash", "sql", "insert"}

ASSUME MigrationsAssumption ==
    /\ IsFiniteSet(Files) /\ Files \subseteq Nat
    /\ Version \in [Files -> Nat]
    \* The names are sorted, and begin with three digits.
    /\ \A f, g \in Files : f <= g => Version[f] <= Version[g]
    /\ Databases \subseteq SUBSET Files /\ Once \subseteq Files
    /\ Needs \in [Files -> SUBSET Files]
    /\ Text \in [Files -> Seq(Kinds)]
    /\ Faults \subseteq FaultKinds /\ MaxFaults \in Nat

-----------------------------------------------------------------------------
(* A file is split into statements by lines.  A line is a comment, ends a     *)
(* statement ("end"), holds one $$ mark ("open"), holds one and ends a        *)
(* statement ("close"), or does none of it.  A statement is the sequence of   *)
(* the numbers of its lines.                                                  *)

Marks(kind) == kind \in {"open", "close"}
Ends(kind) == kind \in {"end", "close"}

\* What the line makes of the statement read so far: a line with a mark is appended and
\* quotes what follows.  The next line with a mark takes the quotes off, and then, read
\* as a first mark, puts them on again.
AfterLine(st, kind, i) ==
    CASE st.quoted -> [st EXCEPT !.part = IF Marks(kind) THEN @ \o <<i, i>> ELSE Append(@, i)]
      [] ~st.quoted /\ kind = "comment" -> st
      [] ~st.quoted /\ Marks(kind) -> [st EXCEPT !.part = Append(@, i), !.quoted = TRUE]
      [] ~st.quoted /\ kind = "end" -> [st EXCEPT !.done = Append(@, Append(st.part, i)), !.part = << >>]
      [] ~st.quoted /\ kind = "code" -> [st EXCEPT !.part = Append(@, i)]

\* _split_sql_statements.
Split(text) ==
    LET read[i \in 0..Len(text)] ==
            IF i = 0 THEN [done |-> << >>, part |-> << >>, quoted |-> FALSE]
            ELSE AfterLine(read[i - 1], text[i], i)
        last == read[Len(text)]
    IN  IF last.part = << >> THEN last.done ELSE Append(last.done, last.part)

\* The statements the server sees in the whole text: one ends where an odd number of
\* marks is not behind it.
Statements(text) ==
    LET marks(i) == Cardinality({j \in 1..i : Marks(text[j])})
        body(i) == marks(i) % 2 = 1 \/ Marks(text[i])
        ends == {i \in 1..Len(text) : Ends(text[i]) /\ marks(i) % 2 = 0}
        lines == {i \in 1..Len(text) : text[i] # "comment" \/ body(i)}
        parts == {{i \in lines : i <= e /\ \A d \in ends : d < e => d < i} : e \in ends}
        rest == {i \in lines : \A e \in ends : e < i}
        sorted(S) == [n \in 1..Cardinality(S) |->
                        CHOOSE i \in S : Cardinality({j \in S : j <= i}) = n]
        all == {sorted(S) : S \in (parts \cup {rest}) \ {{}}}
    IN  [n \in 1..Cardinality(all) |->
            CHOOSE s \in all : Cardinality({t \in all : t[1] <= s[1]}) = n]

-----------------------------------------------------------------------------
VARIABLES
    schema,      \* the files whose effect the database has
    recorded,    \* schema_migrations: the files, one for a version
    lock,        \* the containers that hold the advisory lock
    runner,      \* each container's step, the files it has still to do, baseline mode
    mistaken,    \* history: files recorded by baselining without their effect
    swallowed,   \* history: files the start-up runner went past unrecorded
    faults       \* how many faults have happened

vars == <<schema, recorded, lock, runner, mistaken, swallowed, faults>>

Steps == {"boot", "lock", "apply", "record", "mark", "start", "app", "app-mark", "serve"}

TypeOK ==
    /\ schema \subseteq Files
    /\ recorded \subseteq Files
    /\ lock \subseteq Containers /\ Cardinality(lock) <= 1
    /\ runner \in [Containers -> [step : Steps, todo : SUBSET Files, baseline : BOOLEAN]]
    /\ mistaken \subseteq Files
    /\ swallowed \subseteq Files
    /\ faults \in 0..MaxFaults

At(step) == [step |-> step, todo |-> {}, baseline |-> FALSE]

Init ==
    /\ schema \in Databases
    /\ recorded = {} /\ lock = {}
    /\ runner = [c \in Containers |-> At("boot")]
    /\ mistaken = {} /\ swallowed = {}
    /\ faults = 0

Fault(kind) == kind \in Faults /\ faults < MaxFaults /\ faults' = faults + 1

Go(c, step) == runner' = [runner EXCEPT ![c].step = step]
Leave(c, step) == runner' = [runner EXCEPT ![c] = At(step)]
File(c) == Min(runner[c].todo)

\* The version is the key of schema_migrations.
Known(f) == \E g \in recorded : Version[g] = Version[f]

\* Mutant: the files after the last one recorded.
Newer == {f \in Files : \A g \in recorded : Version[g] < Version[f]}

Pending == {f \in Files : ~Known(f)}

\* What a runner reads first: the files to do, and whether to baseline.
Read(c, step, done) ==
    /\ runner' = [runner EXCEPT ![c] =
            IF Pending = {} THEN At(done)
            ELSE [step |-> step, todo |-> Pending, baseline |-> recorded = {}]]
    /\ UNCHANGED <<schema, recorded, lock, mistaken, swallowed, faults>>

Fails(f) == (f \in Once /\ f \in schema) \/ ~(Needs[f] \subseteq schema)

-----------------------------------------------------------------------------
(* The migration runner (migrate.py).                                        *)

\* run reads the recorded versions, and then tries the lock.
CliRead(c) == runner[c].step = "boot" /\ Read(c, "lock", "start")

TryLock(c) == IF lock = {} THEN lock' = {c} /\ Go(c, "apply") ELSE Leave(c, "start") /\ UNCHANGED lock

\* pg_try_advisory_lock: a runner that does not get it leaves with code 0.
CliLock(c) ==
    /\ runner[c].step = "lock"
    /\ TryLock(c)
    /\ UNCHANGED <<schema, recorded, mistaken, swallowed, faults>>

\* run ends, with an error or not: the lock is released, and entrypoint.sh starts the API.
CliEnds(c) == lock' = lock \ {c} /\ Leave(c, "start")

\* The file of c is done with: step is where the next one begins, end where the run is over.
GoOn(c, step, end) ==
    runner' = [runner EXCEPT ![c] =
        IF runner[c].todo = {File(c)} THEN At(end)
        ELSE [step |-> step, todo |-> runner[c].todo \ {File(c)}, baseline |-> runner[c].baseline]]

\* When there is no file left, the run ends as CliEnds does.
CliGoesOn(c) ==
    /\ GoOn(c, "apply", "start")
    /\ lock' = IF runner[c].todo = {File(c)} THEN lock \ {c} ELSE lock

\* Mutant: the exception is logged, and the insert follows.
CliLogs(c) == Go(c, "record") /\ UNCHANGED lock

\* An exception in _apply_migration: the file is baselined, or the run ends.
CliCatches(c) ==
    IF runner[c].baseline THEN Go(c, "mark") /\ UNCHANGED lock ELSE CliEnds(c)

\* The file's SQL, in a transaction of its own.
CliApply(c) ==
    /\ runner[c].step = "apply"
    /\ IF Fails(File(c)) THEN CliCatches(c) /\ UNCHANGED schema
       ELSE schema' = schema \cup {File(c)} /\ Go(c, "record") /\ UNCHANGED lock
    /\ UNCHANGED <<recorded, mistaken, swallowed, faults>>

\* The insert into schema_migrations, whose key is the version.
CliRecord(c) ==
    /\ runner[c].step = "record"
    /\ IF Known(File(c)) THEN CliCatches(c) /\ UNCHANGED recorded
       ELSE recorded' = recorded \cup {File(c)} /\ CliGoesOn(c)
    /\ UNCHANGED <<schema, mistaken, swallowed, faults>>

\* The insert that baselines; its own exception is not caught.
CliBaseline(c) ==
    /\ runner[c].step = "mark"
    /\ IF Known(File(c)) THEN CliEnds(c) /\ UNCHANGED <<recorded, mistaken>>
       ELSE /\ recorded' = recorded \cup {File(c)}
            /\ mistaken' = mistaken \cup ({File(c)} \ schema)
            /\ CliGoesOn(c)
    /\ UNCHANGED <<schema, swallowed, faults>>

\* The server refuses a statement that should have succeeded.
CliFault(c) ==
    /\ \/ runner[c].step = "apply" /\ Fault("sql") /\ CliCatches(c)
       \/ runner[c].step = "record" /\ Fault("insert") /\ CliCatches(c)
       \/ runner[c].step = "mark" /\ Fault("insert") /\ CliEnds(c)
    /\ UNCHANGED <<schema, recorded, mistaken, swallowed>>

-----------------------------------------------------------------------------
(* The runner of the API's start-up (main.py).                               *)

AppRead(c) == runner[c].step = "start" /\ Read(c, "app", "serve")

AppGoesOn(c) == GoOn(c, "app", "serve")

\* Mutant: the runner goes on to the next file.
AppSkips(c) == AppGoesOn(c)

\* An exception: the file is baselined, or the runner returns and the API serves.
AppCatches(c) == IF runner[c].baseline THEN Go(c, "app-mark") ELSE Leave(c, "serve")

AppFails(f) ==
    Fails(f) \/ Split(Text[f]) # Statements(Text[f]) \/ Known(f)

\* The file's statements and its row, in one transaction.
AppApply(c) ==
    /\ runner[c].step = "app"
    /\ IF AppFails(File(c)) THEN AppCatches(c) /\ UNCHANGED <<schema, recorded>>
       ELSE /\ schema' = schema \cup {File(c)}
            /\ recorded' = recorded \cup {File(c)}
            /\ AppGoesOn(c)
    /\ UNCHANGED <<lock, mistaken, swallowed, faults>>

\* The insert that baselines; its exception, the key's included, is passed over.
AppBaseline(c) ==
    /\ runner[c].step = "app-mark"
    /\ IF Known(File(c)) THEN UNCHANGED <<recorded, mistaken>>
       ELSE /\ recorded' = recorded \cup {File(c)}
            /\ mistaken' = mistaken \cup ({File(c)} \ schema)
    /\ AppGoesOn(c)
    /\ UNCHANGED <<schema, lock, swallowed, faults>>

AppFault(c) ==
    /\ \/ /\ runner[c].step = "app" /\ (Fault("sql") \/ Fault("insert"))
          /\ AppCatches(c) /\ UNCHANGED swallowed
       \/ /\ runner[c].step = "app-mark" /\ Fault("insert")
          /\ swallowed' = swallowed \cup (IF Known(File(c)) THEN {} ELSE {File(c)})
          /\ AppGoesOn(c)
    /\ UNCHANGED <<schema, recorded, lock, mistaken>>

-----------------------------------------------------------------------------
\* The container dies, and PostgreSQL drops its session's lock.
Crash(c) ==
    /\ runner[c].step # "serve" /\ Fault("crash")
    /\ lock' = lock \ {c} /\ Leave(c, "boot")
    /\ UNCHANGED <<schema, recorded, mistaken, swallowed>>

\* ECS replaces a container.
Replace(c) ==
    /\ runner[c].step = "serve"
    /\ Leave(c, "boot")
    /\ UNCHANGED <<schema, recorded, lock, mistaken, swallowed, faults>>

Cli(c) == CliRead(c) \/ CliLock(c) \/ CliApply(c) \/ CliRecord(c) \/ CliBaseline(c)
App(c) == AppRead(c) \/ AppApply(c) \/ AppBaseline(c)

Next == \E c \in Containers :
    Cli(c) \/ CliFault(c) \/ App(c) \/ AppFault(c) \/ Crash(c) \/ Replace(c)

Spec == Init /\ [][Next]_vars

\* A container runs until it serves, and is replaced sooner or later.
FairSpec == Spec /\ \A c \in Containers : WF_vars(Cli(c) \/ App(c) \/ Replace(c))

-----------------------------------------------------------------------------
(* Properties.                                                               *)

\* A version is recorded only when its file has run, whoever ran it and wherever a runner
\* died, unless a baselining run passed over the failure of one that had not.
RecordTrue == recorded \subseteq schema \cup mistaken

\* The recorded versions have no hole, so no file runs before an earlier one, although
\* runners work from lists they read before others recorded some of them; a start-up
\* runner that could not record a file may leave one.
NoHole ==
    \A f \in Files, g \in Files :
        (Version[f] < Version[g] /\ Known(g)) => (Known(f) \/ f \in swallowed)

\* Every later run stops at a file that is not recorded: it has run and cannot run again,
\* or it needs one that is recorded and has not run.
Stuck == \E f \in {f \in Files : ~Known(f)} :
    \/ f \in Once \cap schema
    \/ \E g \in Needs[f] \ schema : Known(g)

\* As long as containers are started, every version is recorded in the end, with as many
\* of them as like starting at a time, or the runners are stuck.
Converges == <>[]((\A f \in Files : Known(f)) \/ Stuck)
=============================================================================
