----------------------------- MODULE Migrations -----------------------------
(***************************************************************************)
(* The start of a server and `kindling doctor` bring the database to the   *)
(* newest schema: db/migrations.py over the scripts of migrations/, on a   *)
(* database found at some version, with the rows it had.                   *)
(*                                                                         *)
(* A script is a sequence of units that SQLite commits one by one: its     *)
(* statements, or what stands between BEGIN and COMMIT.  A pass reads the  *)
(* newest recorded version once, runs every later script and records each  *)
(* after its last unit.  A start runs two passes, create_app's and the     *)
(* lifespan's; doctor runs one.  A unit that fails ends the pass and the   *)
(* process with it, and a crash may come between any two units.            *)
(***************************************************************************)
EXTENDS Naturals, Sequences, SequencesExt

CONSTANTS
    Server,      \* processes that serve: they migrate as they start
    Doctor,      \* runs of `kindling doctor`
    Froms,       \* versions the database may be found at
    MaxStarts,   \* bound: how many passes are begun by a process that was off
    MaxCrashes   \* bound: how many of them crash

ASSUME MigrationsAssumption ==
    /\ Server \cap Doctor = {}
    /\ Froms \subseteq 0 .. 14
    /\ MaxStarts \in Nat /\ MaxCrashes \in Nat

VARIABLES
    schema,      \* the tables, columns and indexes there are
    rows,        \* the tables that hold what they held at first
    recorded,    \* schema_version
    proc,        \* where each process is
    from,        \* history: the version the database was found at
    refused,     \* history: the scripts in which a process failed
    torn,        \* history: the scripts a crash left with a unit committed
    overlapped,  \* history: two processes had scripts to run at once
    starts,      \* counts the starts
    crashes      \* counts the crashes

migrateVars ==
    <<schema, rows, recorded, proc, from, refused, torn, overlapped, starts, crashes>>

Process == Server \cup Doctor
Newest == 14

-----------------------------------------------------------------------------
(* Statements.  Each constructor gives a unit of one statement; \o makes a *)
(* transaction of several.  Only columns that some script adds to a table  *)
(* or carries over are told apart.                                         *)

Table(t) == [kind |-> "table", on |-> t, name |-> ""]
Columns(t, cs) == [kind : {"column"}, on : {t}, name : cs]
Index(t, i) == [kind |-> "index", on |-> t, name |-> i]

\* "What a statement needs must be there, what it adds must not."
Statement(op, t, needs, adds) ==
    << [op |-> op, table |-> t, needs |-> needs, adds |-> adds] >>

CreateTable(t, cs) == Statement("add", t, {}, {Table(t)} \cup Columns(t, cs))
AddColumn(t, c) == Statement("add", t, {Table(t)}, Columns(t, {c}))
CreateIndex(t, i, cs) ==
    Statement("add", t, {Table(t)} \cup Columns(t, cs), {Index(t, i)})
Update(t, cs) == Statement("update", t, {Table(t)} \cup Columns(t, cs), {})
\* Mutant: the pragma is given inside a transaction, where OFF has no effect.
ForeignKeysTooLate(to) == Statement(IF to = "off" THEN "none" ELSE to, "", {}, {})
ForeignKeys(to) == Statement(to, "", {}, {})

\* The steps of a rebuild: copy t into t_new, drop t, give t_new its name.
New == [scripts |-> "scripts_new", runs |-> "runs_new"]
CopyRows(t, cs) ==
    Statement("copy", t, {Table(t), Table(New[t])} \cup Columns(t, cs), {})
DropTable(t) == Statement("drop", t, {Table(t)}, {})
RenameNew(t) == Statement("rename", t, {Table(New[t])}, {Table(t)})

RunColumns == <<"attempt", "parent_run_id", "next_attempt_at", "skip_reason">>
ScheduleColumns == <<"timezone", "blackout_dates", "include_days",
                     "overlap_policy", "queue_max", "queue_dropped">>

\* The files of migrations/, by their names.
v001_init ==
    <<CreateTable("scripts", {}), CreateIndex("scripts", "scripts_name", {})>>

v002_scripts_v2 == <<AddColumn("scripts", "description")>>

v003_schedules ==
    <<CreateTable("schedules", {}),
      CreateIndex("schedules", "schedules_script", {})>>

v004_runs ==
    <<CreateTable("runs", {}), CreateIndex("runs", "runs_script", {}),
      CreateIndex("runs", "runs_started", {})>>

v005_logs_v5 == <<CreateTable("logs", {}), CreateIndex("logs", "logs_run", {})>>

v006_retry == <<AddColumn("schedules", "last_error")>>

v007_from_v1 ==
    <<CreateTable("users", {}), CreateTable("invites", {}),
      CreateIndex("invites", "invites_token", {}), CreateTable("script_envs", {}),
      CreateTable("script_deps", {}), CreateTable("audit_log", {})>>

v008_indexes ==
    <<CreateIndex("runs", "runs_script_started", {}),
      CreateIndex("schedules", "schedules_due", {}),
      CreateIndex("runs", "runs_status", {}),
      CreateIndex("audit_log", "audit_user_at", {})>>

\* The index idx_scripts_name_new keeps its name when its table is renamed; it is
\* dropped with the table, in 014.  (Rows whose language is bash are left behind
\* on purpose and are not among the rows that count.)
v009_no_bash ==
    <<ForeignKeys("off"),
      CreateTable("scripts_new", {"description"})
        \o CreateIndex("scripts_new", "scripts_name_new", {})
        \o CopyRows("scripts", {"description"})
        \o DropTable("scripts") \o RenameNew("scripts")
        \o CreateIndex("scripts", "scripts_name", {}),
      ForeignKeys("on")>>

v010_user_id_isolation ==
    <<AddColumn("scripts", "user_id"), Update("scripts", {"user_id"}),
      CreateIndex("scripts", "scripts_user", {"user_id"})>>

\* The indexes of runs go with the table, and three others come.
v011_schedules_runs_v2 ==
    <<AddColumn("users", "timezone")>>
      \o [i \in 1 .. 6 |-> AddColumn("schedules", ScheduleColumns[i])]
      \o [i \in 1 .. 4 |-> AddColumn("runs", RunColumns[i])]
      \o <<CreateTable("runs_new", Range(RunColumns)), CopyRows("runs", {}),
           DropTable("runs"), RenameNew("runs"),
           CreateIndex("runs", "runs_next_attempt", {"next_attempt_at"}),
           CreateIndex("runs", "runs_parent", {"parent_run_id"}),
           CreateIndex("runs", "runs_group", {})>>

v012_runs_timestamps == <<Update("runs", {})>>

v013_entrypoint ==
    <<AddColumn("scripts", "entrypoint"), Update("scripts", {"entrypoint"}),
      Update("scripts", {"entrypoint"}), Update("scripts", {"entrypoint"})>>

v014_bash_language ==
    <<ForeignKeys("off"),
      CreateTable("scripts_new", {"description", "user_id", "entrypoint"})
        \o CopyRows("scripts", {"description", "user_id", "entrypoint"})
        \o DropTable("scripts") \o RenameNew("scripts")
        \o CreateIndex("scripts", "scripts_name", {})
        \o CreateIndex("scripts", "scripts_user", {"user_id"}),
      ForeignKeys("on")>>

\* _migration_files: the scripts, in the order of their numbers.
MigrationFiles ==
    <<v001_init, v002_scripts_v2, v003_schedules, v004_runs, v005_logs_v5, v006_retry,
      v007_from_v1, v008_indexes, v009_no_bash, v010_user_id_isolation,
      v011_schedules_runs_v2, v012_runs_timestamps, v013_entrypoint,
      v014_bash_language>>

-----------------------------------------------------------------------------
(* What SQLite does with a statement.  A connection sees the database and  *)
(* has foreign keys on or off; they start off.                             *)

\* The names of indexes are those of the whole database.
Clashes(o, p) ==
    o.kind = p.kind /\ o.name = p.name /\ (o.kind = "index" \/ o.on = p.on)

\* With foreign keys on, a copy of runs whose script or schedule has been
\* deleted fails.
Works(s, c) ==
    /\ s.needs \subseteq c.schema
    /\ \A o \in s.adds, p \in c.schema : ~ Clashes(o, p)
    /\ ~ (s.op = "copy" /\ s.table = "runs" /\ c.fk /\ "orphans" \in c.rows)

\* The tables whose rows go with those of t: ON DELETE CASCADE.
Dependents(t) == IF t = "scripts" THEN {"schedules", "runs", "logs"} ELSE {"logs"}

Renamed(name, t) == IF name = New[t] THEN t ELSE name

Effect(s, c) ==
    CASE s.op = "add" -> [c EXCEPT !.schema = @ \cup s.adds]
      [] s.op = "copy" ->
            [c EXCEPT !.rows = @ \cup {New[t] : t \in {s.table} \cap @}]
      [] s.op = "drop" ->
            [c EXCEPT !.schema = {o \in @ : o.on # s.table},
                      !.rows = @ \ ({s.table} \cup
                                    IF c.fk THEN Dependents(s.table) ELSE {})]
      [] s.op = "rename" ->
            [c EXCEPT !.schema = {[o EXCEPT !.on = Renamed(@, s.table)] : o \in @},
                      !.rows = {Renamed(t, s.table) : t \in @}]
      [] s.op \in {"on", "off"} -> [c EXCEPT !.fk = (s.op = "on")]
      [] OTHER -> c

\* A statement that fails leaves the rest of the unit undone.
Execute(c, s) ==
    IF c.ok /\ Works(s, c) THEN Effect(s, c) ELSE [c EXCEPT !.ok = FALSE]

\* A unit on a connection.  One that fails is rolled back: the connection is closed.
Run(c, unit) == FoldLeft(Execute, c, unit)

Connection(sch, rs, fk) == [schema |-> sch, rows |-> rs, fk |-> fk, ok |-> TRUE]

\* What the units of a script make of a schema.  (No rows: foreign keys play no part.)
Upgraded(sch, script) ==
    LET made[k \in 0 .. Len(script)] ==
            IF k = 0 THEN sch
            ELSE Run(Connection(made[k - 1], {}, FALSE), script[k]).schema
    IN  made[Len(script)]

\* The schema a database has that was made by the scripts up to v.  (The union has one
\* member: it makes TLC evaluate a schema before the next is made from it.)
SchemaAt[v \in 0 .. Newest] ==
    IF v = 0 THEN {}
    ELSE UNION {Upgraded(sch, MigrationFiles[v]) : sch \in {SchemaAt[v - 1]}}

-----------------------------------------------------------------------------
(* Processes.                                                              *)

Off == [pc |-> "off", next |-> Newest + 1, unit |-> 1, fk |-> FALSE]

Highest(S) == IF S = {} THEN 0 ELSE Max(S)

\* A pass reads schema_version once, on a new connection.
Pass(pc) == [pc |-> pc, next |-> Highest(recorded) + 1, unit |-> 1, fk |-> FALSE]

Migrating(p) == proc[p].pc \in {"create_app", "run_migrations"}
Pending(p) == Migrating(p) /\ proc[p].next <= Newest

\* The tables of the first version that hold rows before any upgrade.
RowsAt(v) ==
    LET sch == SchemaAt[v]
    IN  {t \in {"scripts", "schedules", "runs", "logs"} : Table(t) \in sch}

MigrateInit ==
    /\ from \in Froms
    /\ schema = SchemaAt[from]
    /\ recorded = 1 .. from
    /\ rows \in {RowsAt(from)} \cup
                {RowsAt(from) \cup {"orphans"} : v \in {from} \cap 4 .. Newest}
    /\ proc = [p \in Process |-> Off]
    /\ refused = {} /\ torn = {} /\ overlapped = FALSE
    /\ starts = 0 /\ crashes = 0

\* app.py create_app, or doctor.py run.
Start(p) ==
    /\ proc[p].pc = "off" /\ starts < MaxStarts
    /\ proc' = [proc EXCEPT ![p] =
                   Pass(IF p \in Server THEN "create_app" ELSE "run_migrations")]
    /\ starts' = starts + 1
    /\ UNCHANGED <<schema, rows, recorded, from, refused, torn, overlapped, crashes>>

NoteOverlap(p) ==
    overlapped' = (overlapped \/ \E q \in Process \ {p} : Pending(q))

\* Mutant: a script that fails counts as applied.
StepAsApplied(p) ==
    /\ Pending(p) /\ proc[p].unit <= Len(MigrationFiles[proc[p].next])
    /\ LET c == Run(Connection(schema, rows, proc[p].fk),
                    MigrationFiles[proc[p].next][proc[p].unit])
       IN IF c.ok
          THEN /\ schema' = c.schema /\ rows' = c.rows
               /\ proc' = [proc EXCEPT ![p].unit = @ + 1, ![p].fk = c.fk]
          ELSE /\ proc' = [proc EXCEPT ![p].unit = Len(MigrationFiles[proc[p].next]) + 1]
               /\ UNCHANGED <<schema, rows>>
    /\ NoteOverlap(p)
    /\ UNCHANGED <<recorded, from, refused, torn, starts, crashes>>

\* executescript: the next unit is committed, or it fails and the process ends.
Step(p) ==
    /\ Pending(p) /\ proc[p].unit <= Len(MigrationFiles[proc[p].next])
    /\ LET c == Run(Connection(schema, rows, proc[p].fk),
                    MigrationFiles[proc[p].next][proc[p].unit])
       IN IF c.ok
          THEN /\ schema' = c.schema /\ rows' = c.rows
               /\ proc' = [proc EXCEPT ![p].unit = @ + 1, ![p].fk = c.fk]
               /\ UNCHANGED refused
          ELSE /\ refused' = refused \cup {proc[p].next}
               /\ proc' = [proc EXCEPT ![p] = Off]
               /\ UNCHANGED <<schema, rows>>
    /\ NoteOverlap(p)
    /\ UNCHANGED <<recorded, from, torn, starts, crashes>>

\* Mutant: the commit after the last INSERT is missing.
RecordUncommitted(p) ==
    /\ Pending(p) /\ proc[p].unit > Len(MigrationFiles[proc[p].next])
    /\ proc' = [proc EXCEPT ![p].next = @ + 1, ![p].unit = 1]
    /\ NoteOverlap(p)
    /\ UNCHANGED <<schema, rows, recorded, from, refused, torn, starts, crashes>>

\* INSERT INTO schema_version, whose primary key is the version, and its commit.
Record(p) ==
    /\ Pending(p) /\ proc[p].unit > Len(MigrationFiles[proc[p].next])
    /\ IF proc[p].next \in recorded
       THEN /\ refused' = refused \cup {proc[p].next}
            /\ proc' = [proc EXCEPT ![p] = Off]
            /\ UNCHANGED recorded
       ELSE /\ recorded' = recorded \cup {proc[p].next}
            /\ proc' = [proc EXCEPT ![p].next = @ + 1, ![p].unit = 1]
            /\ UNCHANGED refused
    /\ NoteOverlap(p)
    /\ UNCHANGED <<schema, rows, from, torn, starts, crashes>>

\* create_app's pass is followed by the lifespan's, and that by serving.
PassEnds(p) ==
    /\ Migrating(p) /\ ~ Pending(p)
    /\ \/ /\ proc[p].pc = "create_app"
          /\ proc' = [proc EXCEPT ![p] = Pass("run_migrations")]
       \/ /\ proc[p].pc = "run_migrations" /\ p \in Doctor
          /\ proc' = [proc EXCEPT ![p] = Off]
       \/ /\ proc[p].pc = "run_migrations" /\ p \in Server
          /\ proc' = [proc EXCEPT ![p] = [Off EXCEPT !.pc = "serving"]]
    /\ UNCHANGED <<schema, rows, recorded, from, refused, torn, overlapped,
                   starts, crashes>>

\* The server stops or dies; it has nothing to migrate.
Stop(p) ==
    /\ proc[p].pc = "serving"
    /\ proc' = [proc EXCEPT ![p] = Off]
    /\ UNCHANGED <<schema, rows, recorded, from, refused, torn, overlapped,
                   starts, crashes>>

\* The process dies before its next unit; what is committed stays.
Crash(p) ==
    /\ Pending(p) /\ crashes < MaxCrashes
    /\ proc' = [proc EXCEPT ![p] = Off]
    /\ torn' = torn \cup {v \in {proc[p].next} : proc[p].unit > 1}
    /\ crashes' = crashes + 1
    /\ UNCHANGED <<schema, rows, recorded, from, refused, overlapped, starts>>

MigrateNext == \E p \in Process :
    Start(p) \/ Step(p) \/ Record(p) \/ PassEnds(p) \/ Stop(p) \/ Crash(p)

MigrateSpec == MigrateInit /\ [][MigrateNext]_migrateVars

-----------------------------------------------------------------------------
(* Properties.                                                             *)

\* Whatever crashes between two units of any script and however often it is
\* started again, a server that gets as far as serving has every version
\* recorded and, unless two processes migrated at once, exactly the schema of a
\* new install (db/migrations.py: a script is recorded after its last
\* statement and run again from its first).
ServesNewest ==
    (\E p \in Server : proc[p].pc = "serving") =>
        recorded = 1 .. Newest /\ (overlapped \/ schema = SchemaAt[Newest])

\* No crash and no overlap loses the scripts, schedules and runs the database
\* was found with: they are in their table or in the one that is to replace it
\* (009, 011 and 014 rebuild tables).
RowsKept ==
    \A t \in RowsAt(from) \ {"logs"} :
        t \in rows \/ (t \in DOMAIN New /\ New[t] \in rows)

\* A process fails only in a script that a crash left half done, and never in
\* 012 and 014, which can be run again; or else two of them migrated at once,
\* or runs without their script were in the way of 011 (db/migrations.py,
\* migrations/).
FailsOnlyTorn ==
    refused \subseteq
        IF overlapped THEN 1 .. Newest
        ELSE (torn \ {12, 14}) \cup
             {v \in {11} : "orphans" \in rows /\ from <= 8}
=============================================================================
