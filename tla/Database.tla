------------------------------ MODULE Database ------------------------------
(* Sessions of the API and of the workers over one PostgreSQL database while *)
(* it is migrated up and down.                                               *)
EXTENDS UnitOfWork

vars == <<tableVars, sessionVars, poolSize, migrationVars>>

TypeOK == MigrationsTypeOK /\ UnitOfWorkTypeOK

Init == MigrationsInit /\ UnitOfWorkInit

StartMigration ==
  /\ \E target \in Revision : BeginMigration(target)
  /\ UNCHANGED <<tableVars, sessionVars>>

\* The migration waits for every transaction that uses the table.
MigrationStep ==
  \/ /\ LockTable
     /\ \A s \in Open : NextLock \notin sessions[s].tables
     /\ UNCHANGED <<tableVars, sessionVars>>
  \/ ApplyRevision /\ UNCHANGED <<tableVars, sessionVars>>
  \/ /\ CommitMigration
     /\ IF schema'.tables THEN UNCHANGED tableVars
        ELSE /\ rows' = [f \in Files |-> NoRow]
             /\ alerts' = [f \in Files |-> <<>>]
     /\ UNCHANGED sessionVars

\* send_alert and delete() use files and then alerts, a migration locks alerts and
\* then files: each waits for the other.
Deadlocked(s) ==
  /\ migration # NoMigration
  /\ At(s, "flush") \/ At(s, "constraint")
  /\ TableNeeded(s) \in Locked
  /\ NextLock \in sessions[s].tables

\* PostgreSQL finds the circle after deadlock_timeout and fails one of the two.
BreakDeadlock ==
  \E s \in Sessions :
    /\ Deadlocked(s)
    /\ \/ StatementFails(s) /\ UNCHANGED migrationVars
       \/ MigrationFails /\ UNCHANGED <<tableVars, sessionVars>>

\* The size of the pool is the same for every engine the API makes.
Next ==
  /\ UNCHANGED poolSize
  /\ \/ \E s \in Sessions :
          /\ \/ \E job \in ApiJobs \cup TaskJobs, f \in Files : Enter(s, job, f)
             \/ SessionStep(s)
             \/ SessionFault(s)
          /\ UNCHANGED migrationVars
     \/ ApiRestart /\ UNCHANGED migrationVars
     \/ StartMigration
     \/ MigrationStep
     \/ MigrationFails /\ UNCHANGED <<tableVars, sessionVars>>
     \/ BreakDeadlock

Spec == Init /\ [][Next]_vars

-----------------------------------------------------------------------------

\* Every connection of the API's pool is either to be had or held by exactly one
\* open session; none is lost, whichever statement fails, times out or commits
\* and wherever a unit of work is left.
ConnectionsAccounted == free + Cardinality(Connected \cap ApiSessions) = poolSize

\* Sessions wait for the pool, for each other's row locks, for the second connection
\* a refresh takes and for a migration's table locks, and a migration waits for
\* sessions.  Always somebody can go on, without help of the pool's timeout, but
\* for one circle: a migration and send_alert or delete() that lock the two tables
\* in opposite orders.  PostgreSQL's detector has no other to break.
OnlyMigrationsDeadlock ==
  Open # {} \/ migration # NoMigration =>
    \/ ENABLED (\E s \in Sessions : SessionStep(s))
    \/ ENABLED MigrationStep
    \/ \E s \in Open : Deadlocked(s)

\* "The entities are the source of truth of the schema" and "every revision has
\* a working downgrade" (METHODOLOGY DATA-5, DATA-6): however commands follow
\* each other and fail halfway, the schema at the head revision is the
\* entities', and at the base nothing is left.
SchemaMatchesRevision == schema = SchemaAt(revision)

Transactions == INSTANCE Tables WITH
  Level <- {Alert}, Writes <- {{"title"}, {"status"}}

\* Units of work that overlap, load stale rows, wait for each other's locks and
\* fail change the tables as if each ran alone at its COMMIT: no update is lost
\* or revives a row, no alert is without its file, at any revision.
RefinesTables == Transactions!Spec
=============================================================================
