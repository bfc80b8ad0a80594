----------------------------- MODULE Migrations -----------------------------
(* The Alembic revisions and the run of "alembic upgrade" or "downgrade" that *)
(* applies them, by hand and while the application may be running.           *)
EXTENDS Integers

CONSTANTS
  NoMigration,     \* no alembic command is running
  MaxMigrations    \* bound on alembic commands

ASSUME MaxMigrationsAssumption == MaxMigrations \in Nat

VARIABLES
  schema,       \* the committed schema
  revision,     \* alembic_version: how many revisions are applied
  migration,    \* the alembic command that is running
  migrations    \* alembic commands so far

migrationVars == <<schema, revision, migration, migrations>>

Table == {"files", "alerts"}

\* What differs between revisions: whether the tables are there and what the
\* foreign key of alerts does when its file is deleted.
Schema == [tables: BOOLEAN, onDelete: {"none", "restrict", "cascade"}]

Revision == 0..2   \* 1: 0d6439d2e79f, 2: a1b2c3d4e5f6

MigrationsTypeOK ==
  /\ schema \in Schema
  /\ revision \in Revision
  /\ migration \in [schema: Schema, revision: Revision, target: Revision,
                    locks: SUBSET Table] \cup {NoMigration}
  /\ migrations \in 0..MaxMigrations

NoTables == [tables |-> FALSE, onDelete |-> "none"]

\* The schema the entities declare.
ModelSchema == [tables |-> TRUE, onDelete |-> "cascade"]

SchemaAt(r) ==
  IF r = 0 THEN NoTables
  ELSE IF r = 1 THEN [ModelSchema EXCEPT !.onDelete = "restrict"] ELSE ModelSchema

\* Containers start on an empty database or on the volume of an earlier release.
MigrationsInit ==
  /\ revision \in Revision
  /\ schema = SchemaAt(revision)
  /\ migration = NoMigration
  /\ migrations = 0

\* 0d6439d2e79f: both tables, the key without ON DELETE.
CreateTables == [tables |-> TRUE, onDelete |-> "restrict"]
DropTables == NoTables

\* a1b2c3d4e5f6: the key is dropped and created again.
CreateCascade(s) == [s EXCEPT !.onDelete = "cascade"]

\* Seeded bug: the old key is not restored.
DropCascadeOnly(s) == [s EXCEPT !.onDelete = "none"]

DropCascade(s) == [s EXCEPT !.onDelete = "restrict"]

Upgrade(r, s) == IF r = 1 THEN CreateTables ELSE CreateCascade(s)
Downgrade(r, s) == IF r = 1 THEN DropTables ELSE DropCascade(s)

\* "upgrade head", or "downgrade" to an earlier revision, connects and opens its
\* transaction.
BeginMigration(target) ==
  /\ migration = NoMigration
  /\ migrations < MaxMigrations
  /\ target # revision
  /\ target = 2 \/ target < revision
  /\ migration' = [schema |-> schema, revision |-> revision, target |-> target,
                   locks |-> {}]
  /\ migrations' = migrations + 1
  /\ UNCHANGED <<schema, revision>>

\* The tables no other transaction may use.
Locked == IF migration = NoMigration THEN {} ELSE migration.locks

\* ALTER TABLE alerts and DROP TABLE alerts lock alerts, then the table its
\* foreign key refers to.
NextLock == IF "alerts" \in migration.locks THEN "files" ELSE "alerts"

\* A table of the committed schema is locked until the transaction ends.
LockTable ==
  /\ migration # NoMigration
  /\ schema.tables /\ migration.locks # Table
  /\ migration' = [migration EXCEPT !.locks = @ \cup {NextLock}]
  /\ UNCHANGED <<schema, revision, migrations>>

\* The next revision on the way, inside the transaction.
ApplyRevision ==
  /\ migration # NoMigration
  /\ migration.revision # migration.target
  /\ schema.tables => migration.locks = Table
  /\ LET r == migration.revision IN
     IF r < migration.target
     THEN migration' = [migration EXCEPT !.schema = Upgrade(r + 1, @), !.revision = r + 1]
     ELSE migration' = [migration EXCEPT !.schema = Downgrade(r, @), !.revision = r - 1]
  /\ UNCHANGED <<schema, revision, migrations>>

CommitMigration ==
  /\ migration # NoMigration
  /\ migration.revision = migration.target
  /\ schema' = migration.schema
  /\ revision' = migration.revision
  /\ migration' = NoMigration
  /\ UNCHANGED migrations

\* An error or the death of the command: its transaction rolls back.
MigrationFails ==
  /\ migration # NoMigration
  /\ migration' = NoMigration
  /\ UNCHANGED <<schema, revision, migrations>>
=============================================================================
