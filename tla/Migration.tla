----------------------------- MODULE Migration -----------------------------
(***************************************************************************)
(* Store.Migrate, run by processes that share a database, for the three    *)
(* drivers.  SQLite and Postgres apply a migration and note its version in *)
(* one transaction, during which the table it alters is locked; MySQL does *)
(* it statement by statement.  A call may fail with or without effect, and *)
(* the process may end at any step and start over.                         *)
(***************************************************************************)
EXTENDS Integers, Sequences

CONSTANTS Processes, MaxMigrateFaults

VARIABLES driver,     \* the driver of the database
          schema,     \* the statements in effect, as <<version, position>>
          versions,   \* the schema_migrations table
          migrating,  \* the version each process is at, 0 outside Migrate
          position,   \* its next statement, 0 before the version is looked up
          migrateFaults

migrationVars == <<driver, schema, versions, migrating, position, migrateFaults>>

Drivers == {"sqlite", "postgres", "mysql"}
Latest == 3

\* The statements of the migrations, and whether each may be repeated: one
\* with IF NOT EXISTS may, an added column and MySQL's index may not.
Script(v) ==
  IF v < Latest THEN <<TRUE>> ELSE <<FALSE, driver # "mysql">>

Statements(v) == {<<v, k>> : k \in DOMAIN Script(v)}

MigrationInit ==
  /\ driver \in Drivers
  /\ schema = {} /\ versions = {}
  /\ migrating = [p \in Processes |-> 0] /\ position = migrating
  /\ migrateFaults = 0

At(p, v, k) ==
  /\ migrating' = [migrating EXCEPT ![p] = v]
  /\ position' = [position EXCEPT ![p] = k]

\* Migrate returns an error, Start with it: the process may try again.
GivesUp(p) == At(p, 0, 0)

BeginMigrate(p) ==
  /\ migrating[p] \in {0, Latest + 1}
  /\ At(p, 1, 0)
  /\ UNCHANGED <<driver, schema, versions, migrateFaults>>

LookUpVersion(p) ==
  /\ migrating[p] \in 1..Latest /\ position[p] = 0
  /\ IF migrating[p] \in versions THEN At(p, migrating[p] + 1, 0) ELSE At(p, migrating[p], 1)
  /\ UNCHANGED <<driver, schema, versions, migrateFaults>>

\* The statement would be a second one of its kind.
Clashes(v, k) == <<v, k>> \in schema /\ ~Script(v)[k]

\* Mutant: no transaction is opened for any driver.
NeverTransactional == FALSE

Transactional == driver # "mysql"

Applied(v) == schema' = schema \cup Statements(v) /\ versions' = versions \cup {v}

ApplyInTx(p) ==
  LET v == migrating[p] IN
  /\ Transactional /\ position[p] = 1
  /\ IF v \in versions \/ \E k \in DOMAIN Script(v) : Clashes(v, k)
     THEN GivesUp(p) /\ UNCHANGED <<schema, versions>>
     ELSE Applied(v) /\ At(p, v + 1, 0)
  /\ UNCHANGED <<driver, migrateFaults>>

ApplyStatement(p) ==
  LET v == migrating[p]  k == position[p] IN
  /\ ~Transactional /\ k > 0 /\ k \in DOMAIN Script(v)
  /\ IF Clashes(v, k) THEN GivesUp(p) /\ UNCHANGED schema
     ELSE schema' = schema \cup {<<v, k>>} /\ At(p, v, k + 1)
  /\ UNCHANGED <<driver, versions, migrateFaults>>

\* Mutant: the version is noted before the last statement.
AllAppliedButOne(p) == position[p] = Len(Script(migrating[p])) /\ position[p] > 0

AllApplied(p) == migrating[p] \in 1..Latest /\ position[p] > Len(Script(migrating[p]))

RecordVersion(p) ==
  LET v == migrating[p] IN
  /\ ~Transactional /\ AllApplied(p)
  /\ IF v \in versions THEN GivesUp(p) /\ UNCHANGED versions
     ELSE versions' = versions \cup {v} /\ At(p, v + 1, 0)
  /\ UNCHANGED <<driver, schema, migrateFaults>>

\* A call is reported as failed or the process ends, before or after the call
\* under way took effect.
MigrateFails(p) ==
  LET v == migrating[p]  k == position[p] IN
  /\ v # 0 /\ migrateFaults < MaxMigrateFaults /\ migrateFaults' = migrateFaults + 1
  /\ \/ UNCHANGED <<schema, versions>>
     \/ /\ Transactional /\ k = 1 /\ v \notin versions
        /\ \A n \in DOMAIN Script(v) : ~Clashes(v, n)
        /\ Applied(v)
     \/ /\ ~Transactional /\ k > 0 /\ k \in DOMAIN Script(v) /\ ~Clashes(v, k)
        /\ schema' = schema \cup {<<v, k>>} /\ UNCHANGED versions
     \/ /\ ~Transactional /\ AllApplied(p)
        /\ versions' = versions \cup {v} /\ UNCHANGED schema
  /\ GivesUp(p)
  /\ UNCHANGED driver

MigrationNext == \E p \in Processes :
  \/ BeginMigrate(p) \/ LookUpVersion(p) \/ ApplyInTx(p)
  \/ ApplyStatement(p) \/ RecordVersion(p) \/ MigrateFails(p)

MigrationSpec == MigrationInit /\ [][MigrationNext]_migrationVars

-----------------------------------------------------------------------------
Whole(v) == Statements(v) \subseteq schema

\* A version on record is applied to its last statement and no earlier one is
\* missing; a process that is past a version finds it so, whoever else was
\* migrating or died at it (store.go:25, sqlite.go:86-101, mysql.go:98-105).
VersionsAreWhole ==
  /\ \A v \in versions : \A w \in 1..v : w \in versions /\ Whole(w)
  /\ \A p \in Processes : \A v \in 1..(migrating[p] - 1) : v \in versions /\ Whole(v)

\* With transactions a migration that was cut short is repeated without harm:
\* nothing of a version that is not on record is there to clash with.  MySQL
\* is left out: a process that dies between the ALTER of version 3 and its
\* record leaves a database on which every later Migrate fails (mysql.go:98).
RerunSucceeds ==
  driver # "mysql" =>
    \A v \in (1..Latest) \ versions : \A k \in DOMAIN Script(v) : ~Clashes(v, k)
=============================================================================
