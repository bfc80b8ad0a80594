---------------------------- MODULE DatabaseProofs ----------------------------
(* Theorems about sessions, pool and migrations, for any sets of sessions,   *)
(* files and values, any pool and any number of alembic commands.            *)
EXTENDS Database, FiniteSetTheorems, TLAPS

-----------------------------------------------------------------------------
(* The inductive invariants                                                  *)

\* What a migration has done inside its transaction is right for the revision it
\* has reached.
MigrationMatchesRevision == migration # NoMigration => migration.schema = SchemaAt(migration.revision)

\* A migration that has changed anything has locked every table there is.
MigrationHoldsLocks ==
  migration # NoMigration =>
    /\ migration.target # revision
    /\ schema.tables /\ migration.revision # revision => migration.locks = Table

\* COMMIT is pending in s, which writes what kind of row.
Committing(s) == sessions[s].pc = "commit"

\* So is it, or what a flush does for the foreign key is.
Locking(s) == sessions[s].pc \in {"constraint", "commit"}

\* Two row locks on the same file that are held at once.
LocksShared ==
  \A s, t \in Sessions :
    s # t /\ Locking(s) /\ Locking(t) /\ sessions[s].file = sessions[t].file
      => Compatible(Lock(s), Lock(t))

\* What a session is about to commit fits the committed row, its lock kept others
\* from changing that since the flush.
Fits(session, row) ==
  /\ session.job # "read"
  /\ session.job = "alert" => session.written = Untouched /\ row # NoRow
  /\ session.job = "delete" => session.written \in {NoRow, Untouched}
  /\ session.job = "create" => session.written \in Row /\ row = NoRow
  /\ session.job \in {"rename", "process"} /\ session.written # Untouched =>
       /\ session.written \in Row /\ row \in Row
       /\ IF session.job = "rename" THEN session.written.status = row.status
          ELSE session.written.title = row.title

VersionsFit ==
  \A s \in Sessions : Committing(s) => Fits(sessions[s], rows[sessions[s].file])

\* Only alerts and deletions have a foreign key to see to.
KeysPending ==
  \A s \in Sessions : sessions[s].pc = "constraint" =>
    \/ sessions[s].job = "alert" /\ sessions[s].written = Untouched
    \/ sessions[s].job = "delete" /\ sessions[s].written = NoRow

\* An upload whose row is not committed is the only one of its id.
Creating(s, f) ==
  sessions[s].pc \in {"flush", "commit"} /\ sessions[s].job = "create" /\ sessions[s].file = f

CreatesAlone ==
  \A s \in Sessions, f \in Files : Creating(s, f) =>
    /\ f \in issued /\ rows[f] = NoRow
    /\ \A t \in Sessions : Creating(t, f) => t = s

\* create() selects nothing before its INSERT, a reader writes nothing.
Sequenced ==
  \A s \in Sessions :
    /\ sessions[s].pc = "select" => sessions[s].job # "create"
    /\ sessions[s].pc = "flush" => sessions[s].job # "read"

RowsIssued == \A f \in Files : rows[f] # NoRow => f \in issued

\* A transaction uses tables that are there and that no migration has locked, and
\* table files from its first statement on.
TablesUsed(session) ==
  session.pc # "closed" =>
    /\ session.tables \cap Locked = {}
    /\ session.tables # {} => schema.tables
    /\ \/ session.pc = "flush" /\ session.job # "create"
       \/ session.pc \in {"constraint", "commit"}
       => "files" \in session.tables

TablesHeld == \A s \in Sessions : TablesUsed(sessions[s])

Isolation ==
  /\ LocksShared
  /\ VersionsFit
  /\ KeysPending
  /\ CreatesAlone
  /\ Sequenced
  /\ RowsIssued
  /\ TablesHeld

-----------------------------------------------------------------------------
(* Migrations                                                                *)

\* upgrade() and downgrade() of each revision lead from one schema to the next.
LEMMA RevisionsMatch ==
  /\ \A r \in {0, 1} : Upgrade(r + 1, SchemaAt(r)) = SchemaAt(r + 1)
  /\ \A r \in {1, 2} : Downgrade(r, SchemaAt(r)) = SchemaAt(r - 1)
  /\ \A r \in Revision : SchemaAt(r) \in Schema
<1>1. /\ SchemaAt(0) = NoTables
      /\ SchemaAt(1) = [ModelSchema EXCEPT !.onDelete = "restrict"]
      /\ SchemaAt(2) = ModelSchema
  BY DEF SchemaAt
<1>2. \A tables, a, b : [[tables |-> tables, onDelete |-> a] EXCEPT !.onDelete = b]
                         = [tables |-> tables, onDelete |-> b]
  OBVIOUS
<1>3. SchemaAt(1) = [tables |-> TRUE, onDelete |-> "restrict"]
  BY <1>1, <1>2 DEF ModelSchema
<1>4. Upgrade(1, SchemaAt(0)) = SchemaAt(1)
  BY <1>3 DEF Upgrade, CreateTables
<1>5. Upgrade(2, SchemaAt(1)) = SchemaAt(2)
  <2>1. Upgrade(2, SchemaAt(1)) = [SchemaAt(1) EXCEPT !.onDelete = "cascade"]
    BY DEF Upgrade, CreateCascade
  <2> QED BY <2>1, <1>1, <1>2, <1>3 DEF ModelSchema
<1>6. Downgrade(2, SchemaAt(2)) = SchemaAt(1)
  <2>1. Downgrade(2, SchemaAt(2)) = [SchemaAt(2) EXCEPT !.onDelete = "restrict"]
    BY DEF Downgrade, DropCascade
  <2> QED BY <2>1, <1>1
<1>7. Downgrade(1, SchemaAt(1)) = SchemaAt(0)
  BY <1>1 DEF Downgrade, DropTables
<1>8. \A r \in Revision : SchemaAt(r) \in Schema
  <2>a. \A tables \in BOOLEAN, onDelete \in {"none", "restrict", "cascade"} :
          [tables |-> tables, onDelete |-> onDelete] \in Schema
    BY DEF Schema
  <2>1. SchemaAt(0) \in Schema
    BY <1>1, <2>a DEF NoTables
  <2>2. SchemaAt(1) \in Schema
    BY <1>3, <2>a
  <2>3. SchemaAt(2) \in Schema
    BY <1>1, <2>a DEF ModelSchema
  <2>4. Revision = {0, 1, 2}
    BY DEF Revision
  <2> QED BY <2>1, <2>2, <2>3, <2>4
<1> QED BY <1>4, <1>5, <1>6, <1>7, <1>8

SchemaRight ==
  MigrationsTypeOK /\ SchemaMatchesRevision /\ MigrationMatchesRevision /\ MigrationHoldsLocks

\* An alembic command moves through its revisions inside its transaction.
LEMMA ApplyRevisionRight ==
  ASSUME SchemaRight, ApplyRevision
  PROVE  SchemaRight'
<1> DEFINE r == migration.revision
           m == [schema: Schema, revision: Revision, target: Revision, locks: SUBSET Table]
<1>1. /\ migration \in m /\ r # migration.target
      /\ migration.schema = SchemaAt(r)
      /\ migration.target # revision
      /\ schema.tables => migration.locks = Table
      /\ UNCHANGED <<schema, revision, migrations>>
  BY DEF SchemaRight, MigrationsTypeOK, ApplyRevision, MigrationMatchesRevision,
         MigrationHoldsLocks
<1>2. r \in 0..2 /\ migration.target \in 0..2
  BY <1>1 DEF Revision
<1>3. PICK s, n : /\ migration' = [migration EXCEPT !.schema = s, !.revision = n]
                  /\ n \in Revision /\ s = SchemaAt(n)
  <2>1. CASE r < migration.target
    <3>1. migration' = [migration EXCEPT !.schema = Upgrade(r + 1, migration.schema),
                                         !.revision = r + 1]
      BY <2>1, <1>1 DEF ApplyRevision
    <3>2. r \in {0, 1} /\ r + 1 \in Revision
      BY <2>1, <1>2 DEF Revision
    <3> QED BY <3>1, <3>2, <1>1, RevisionsMatch
  <2>2. CASE ~(r < migration.target)
    <3>1. migration' = [migration EXCEPT !.schema = Downgrade(r, migration.schema),
                                         !.revision = r - 1]
      BY <2>2, <1>1 DEF ApplyRevision
    <3>2. r \in {1, 2} /\ r - 1 \in Revision
      BY <2>2, <1>1, <1>2 DEF Revision
    <3> QED BY <3>1, <3>2, <1>1, RevisionsMatch
  <2> QED BY <2>1, <2>2
<1>4. /\ migration' \in m /\ migration'.schema = s /\ migration'.revision = n
      /\ migration'.target = migration.target /\ migration'.locks = migration.locks
  BY <1>1, <1>3, RevisionsMatch
<1> QED BY <1>1, <1>3, <1>4
        DEF SchemaRight, MigrationsTypeOK, SchemaMatchesRevision, MigrationMatchesRevision,
            MigrationHoldsLocks

LEMMA SchemaInvariant == Spec => []SchemaRight
<1>1. Init => SchemaRight
  BY RevisionsMatch, MaxMigrationsAssumption
     DEF Init, MigrationsInit, SchemaRight, MigrationsTypeOK, SchemaMatchesRevision,
         MigrationMatchesRevision, MigrationHoldsLocks
<1>2. SchemaRight /\ [Next]_vars => SchemaRight'
  <2> SUFFICES ASSUME SchemaRight, [Next]_vars PROVE SchemaRight'
    OBVIOUS
  <2>1. CASE UNCHANGED migrationVars
    BY <2>1 DEF SchemaRight, MigrationsTypeOK, SchemaMatchesRevision, MigrationMatchesRevision,
                MigrationHoldsLocks, migrationVars
  <2>2. ASSUME NEW target \in Revision, BeginMigration(target) PROVE SchemaRight'
    <3>1. /\ migration' = [schema |-> schema, revision |-> revision, target |-> target,
                            locks |-> {}]
          /\ target # revision
          /\ migrations < MaxMigrations /\ migrations' = migrations + 1
          /\ UNCHANGED <<schema, revision>>
      BY <2>2 DEF BeginMigration
    <3>2. migrations' \in 0..MaxMigrations
      BY <3>1, MaxMigrationsAssumption DEF SchemaRight, MigrationsTypeOK
    <3> QED BY <3>1, <3>2 DEF SchemaRight, MigrationsTypeOK, SchemaMatchesRevision,
                              MigrationMatchesRevision, MigrationHoldsLocks
  <2>3. CASE ApplyRevision
    BY <2>3, ApplyRevisionRight
  <2>4. CASE CommitMigration
    <3>1. migration \in [schema: Schema, revision: Revision, target: Revision,
                         locks: SUBSET Table]
      BY <2>4 DEF CommitMigration, SchemaRight, MigrationsTypeOK
    <3> QED BY <3>1, <2>4 DEF CommitMigration, SchemaRight, MigrationsTypeOK,
                              SchemaMatchesRevision, MigrationMatchesRevision, MigrationHoldsLocks
  <2>5. CASE MigrationFails
    BY <2>5 DEF MigrationFails, SchemaRight, MigrationsTypeOK, SchemaMatchesRevision,
                MigrationMatchesRevision, MigrationHoldsLocks
  <2>6. CASE LockTable
    <3>1. /\ migration \in [schema: Schema, revision: Revision, target: Revision,
                            locks: SUBSET Table]
          /\ migration' = [migration EXCEPT !.locks = @ \cup {NextLock}]
          /\ NextLock \in Table /\ migration.locks # Table
          /\ UNCHANGED <<schema, revision, migrations>> /\ migration # NoMigration
      BY <2>6 DEF LockTable, NextLock, Table, SchemaRight, MigrationsTypeOK
    <3>2. /\ migration' \in [schema: Schema, revision: Revision, target: Revision,
                             locks: SUBSET Table]
          /\ migration'.schema = migration.schema /\ migration'.revision = migration.revision
          /\ migration'.target = migration.target
          /\ migration.locks \cup {NextLock} \subseteq Table
          /\ migration'.locks = migration.locks \cup {NextLock}
      BY <3>1
    <3> QED BY <3>1, <3>2, <2>6 DEF LockTable, SchemaRight, MigrationsTypeOK, SchemaMatchesRevision,
                                    MigrationMatchesRevision, MigrationHoldsLocks
  <2> QED BY <2>1, <2>2, <2>3, <2>4, <2>5, <2>6
          DEF Next, StartMigration, MigrationStep, BreakDeadlock, vars
<1> QED BY <1>1, <1>2, PTL DEF Spec

\* Whatever commands follow each other and wherever they fail, the schema is the
\* one of the revision alembic_version names: the entities' at the head, nothing
\* at the base.
THEOREM SchemaAlwaysMatches == Spec => []SchemaMatchesRevision
<1>1. SchemaRight => SchemaMatchesRevision
  BY DEF SchemaRight
<1> QED BY <1>1, SchemaInvariant, PTL

-----------------------------------------------------------------------------
(* Sessions                                                                  *)

Work ==
  [pc: {"select", "flush", "constraint", "commit", "refresh"},
   job: ApiJobs \cup TaskJobs,
   file: Files,
   connected: BOOLEAN,
   tables: SUBSET Table,
   value: Values \cup {Untouched},
   written: Row \cup {NoRow, Untouched}]

\* A session in __aexit__.
Leaving == [pc: {"exit"}, connected: BOOLEAN, tables: SUBSET Table]

Holds(s) == s \in Connected \cap ApiSessions

\* A session works on a file, waits for its end, or is closed.
LEMMA SessionKinds ==
  ASSUME UnitOfWorkTypeOK, NEW s \in Sessions
  PROVE  /\ s \in Open <=> sessions[s].pc # "closed"
         /\ s \in Open => sessions[s].connected \in BOOLEAN /\ sessions[s].tables \subseteq Table
         /\ s \in Connected <=> s \in Open /\ sessions[s].connected
         /\ s \in Open /\ sessions[s].pc # "exit" => sessions[s] \in Work
<1>1. sessions[s] \in Work \cup Leaving \cup {Closed}
  BY DEF UnitOfWorkTypeOK, Session, Work, Leaving
<1>2. CASE sessions[s] \in Work
  <2>1. /\ sessions[s].pc # "closed" /\ sessions[s].connected \in BOOLEAN
        /\ sessions[s].tables \subseteq Table
    BY <1>2 DEF Work
  <2> QED BY <2>1, <1>2 DEF Open, Connected, Closed
<1>3. CASE sessions[s] \in Leaving
  <2>1. /\ sessions[s].pc = "exit" /\ sessions[s].connected \in BOOLEAN
        /\ sessions[s].tables \subseteq Table
    BY <1>3 DEF Leaving
  <2> QED BY <2>1 DEF Open, Connected, Closed
<1>4. CASE sessions[s] = Closed
  <2>1. sessions[s].pc = "closed" /\ s \notin Open
    BY <1>4 DEF Closed, Open
  <2> QED BY <2>1 DEF Connected
<1> QED BY <1>1, <1>2, <1>3, <1>4

\* A step of a session changes no other.
LEMMA ContinueType ==
  ASSUME UnitOfWorkTypeOK, NEW s \in Sessions, NEW session \in Session \cup {Closed},
         Continue(s, session)
  PROVE  /\ sessions' \in [Sessions -> Session \cup {Closed}]
         /\ sessions'[s] = session
         /\ \A t \in Sessions : t # s => sessions'[t] = sessions[t]
BY DEF UnitOfWorkTypeOK, Continue

LEMMA LeaveType ==
  ASSUME UnitOfWorkTypeOK, NEW s \in Open, NEW tables \in SUBSET Table, Leave(s, tables)
  PROVE  /\ sessions' \in [Sessions -> Session \cup {Closed}]
         /\ sessions'[s] = [pc |-> "exit", connected |-> sessions[s].connected,
                            tables |-> tables]
         /\ \A t \in Sessions : t # s => sessions'[t] = sessions[t]
<1>1. s \in Sessions /\ sessions[s].connected \in BOOLEAN
  BY SessionKinds DEF Open
<1>2. [pc |-> "exit", connected |-> sessions[s].connected, tables |-> tables] \in Session
  BY <1>1 DEF Session
<1> QED BY <1>1, <1>2, ContinueType DEF Leave

\* What a flush may leave is a row, or none, or nothing.
LEMMA VersionsType ==
  ASSUME UnitOfWorkTypeOK, NEW s \in Sessions, sessions[s] \in Work,
         At(s, "flush"), Clean(s) \/ ~Refused(s), NEW version \in Versions(s)
  PROVE  /\ version \in Row \cup {NoRow, Untouched}
         /\ \A session : session.job = sessions[s].job /\ session.written = version
              => \/ Fits(session, rows[sessions[s].file])
                 \/ sessions[s].job \in {"create", "alert", "read"}
         /\ sessions[s].job = "create" => version \in Row
         /\ version = Untouched => Clean(s) \/ sessions[s].job \in {"alert", "delete", "read"}
         /\ sessions[s].job = "alert" => version = Untouched
         /\ version = NoRow => sessions[s].job = "delete"
<1> DEFINE row == rows[sessions[s].file]
           job == sessions[s].job
<1>0. /\ job \in {"create", "rename", "delete", "read", "process", "alert"}
      /\ row \in Row \cup {NoRow} /\ sessions[s].value \in Values \cup {Untouched}
  BY DEF UnitOfWorkTypeOK, Work, ApiJobs, TaskJobs
<1>1. NewRow \in Row
  <2>1. PICK value \in Values : TRUE
    BY ValuesAssumption
  <2>2. [title |-> value, status |-> value] \in Row
    BY <2>1 DEF Row
  <2> QED BY <2>2 DEF NewRow
<1>2. CASE Clean(s)
  <2>1. version = Untouched /\ job \in {"rename", "process"}
    BY <1>2 DEF Versions, Clean
  <2>2. version # NoRow
    BY <2>1, RowAssumption
  <2> QED BY <2>1, <2>2, <1>0, <1>2 DEF Fits
<1>3. CASE ~Clean(s) /\ job = "create"
  <2>1. version = NewRow
    BY <1>3 DEF Versions
  <2> QED BY <2>1, <1>1, <1>3, RowAssumption
<1>4. CASE ~Clean(s) /\ job \in {"rename", "process"}
  <2>1. version = [row EXCEPT ![Column(s)] = sessions[s].value]
    BY <1>4 DEF Versions
  <2>2. row \in Row /\ sessions[s].value \in Values
    BY <1>0, <1>4 DEF Refused, Clean
  <2>3. /\ version \in Row
        /\ job = "rename" => version.status = row.status
        /\ job = "process" => version.title = row.title
    BY <2>1, <2>2, <1>4 DEF Column, Row
  <2>4. version # Untouched /\ version # NoRow
    BY <2>3, RowAssumption
  <2> QED BY <2>2, <2>3, <2>4, <1>0, <1>4 DEF Fits
<1>5. CASE ~Clean(s) /\ job \in {"delete", "alert", "read"}
  <2>1. /\ version \in {NoRow, Untouched}
        /\ job \in {"alert", "read"} => version = Untouched
    BY <1>5 DEF Versions
  <2> QED BY <2>1, <1>0, <1>5, RowAssumption DEF Fits
<1> QED BY <1>0, <1>2, <1>3, <1>4, <1>5

\* A SELECT ends the block, or is followed by the commit.
LEMMA SelectCases ==
  ASSUME NEW s \in Sessions, Select(s)
  PROVE  /\ s \in Open /\ sessions[s].pc = "select"
         /\ UNCHANGED <<tableVars, issued, free>>
         /\ \E table \in Table :
              /\ Executable(s, table)
              /\ \/ Leave(s, {table})
                 \/ /\ sessions[s].job # "read" /\ table = "files"
                    /\ \E value \in Assignable(s, rows[sessions[s].file]) :
                         Continue(s, [sessions[s] EXCEPT
                           !.pc = "flush", !.value = value, !.tables = {table}])
BY DEF Select, At, Table

\* What a flush makes of its session.
Flushed(s, version, next) ==
  /\ next \in Work /\ sessions[s] \in Work
  /\ next.pc = IF sessions[s].job = "alert" \/ version = NoRow THEN "constraint" ELSE "commit"
  /\ next.job = sessions[s].job /\ next.file = sessions[s].file
  /\ next.connected = sessions[s].connected
  /\ next.written = version
  /\ next.tables = sessions[s].tables \cup {TableNeeded(s)}

LEMMA FlushNext ==
  ASSUME UnitOfWorkTypeOK, NEW s \in Sessions, Flush(s)
  PROVE  \E version \in Versions(s), next \in Work : Continue(s, next) /\ Flushed(s, version, next)
<1>1. s \in Open /\ sessions[s].pc = "flush" /\ (Clean(s) \/ ~Refused(s)) /\ At(s, "flush")
  BY DEF Flush, At
<1>2. sessions[s] \in Work
  BY <1>1, SessionKinds
<1>3. PICK version \in Versions(s) :
        Continue(s, [sessions[s] EXCEPT
          !.pc = IF sessions[s].job = "alert" \/ version = NoRow THEN "constraint" ELSE "commit",
          !.written = version, !.value = Untouched, !.tables = @ \cup {TableNeeded(s)}])
  BY DEF Flush
<1>4. version \in Row \cup {NoRow, Untouched}
  BY <1>1, <1>2, VersionsType
<1>5. TableNeeded(s) \in Table
  BY DEF TableNeeded, Table
<1> DEFINE pc == IF sessions[s].job = "alert" \/ version = NoRow THEN "constraint" ELSE "commit"
           tables == sessions[s].tables \cup {TableNeeded(s)}
           next == [sessions[s] EXCEPT
                      !.pc = pc, !.written = version, !.value = Untouched, !.tables = tables]
<1>6. pc \in {"constraint", "commit"} /\ tables \in SUBSET Table
  BY <1>2, <1>5 DEF Work
<1>7. Continue(s, next)
  BY <1>3
<1> HIDE DEF pc, tables
<1>8. /\ next \in Work /\ next.pc = pc /\ next.job = sessions[s].job
      /\ next.file = sessions[s].file /\ next.connected = sessions[s].connected
      /\ next.written = version /\ next.tables = tables
  BY <1>2, <1>4, <1>6 DEF Work
<1> HIDE DEF next
<1>9. Flushed(s, version, next)
  BY <1>2, <1>8 DEF Flushed, pc, tables
<1> QED BY <1>7, <1>8, <1>9

\* And the check of the foreign key.
Checked(s, next) ==
  /\ next \in Work /\ sessions[s] \in Work
  /\ next.pc = "commit"
  /\ next.job = sessions[s].job /\ next.file = sessions[s].file
  /\ next.connected = sessions[s].connected
  /\ next.written = sessions[s].written
  /\ next.tables = sessions[s].tables \cup {TableNeeded(s)}

LEMMA CheckNext ==
  ASSUME UnitOfWorkTypeOK, NEW s \in Sessions, CheckForeignKey(s)
  PROVE  \E next \in Work : Continue(s, next) /\ Checked(s, next)
<1>1. s \in Open /\ sessions[s].pc = "constraint"
  BY DEF CheckForeignKey, At
<1>2. sessions[s] \in Work
  BY <1>1, SessionKinds
<1> DEFINE tables == sessions[s].tables \cup {TableNeeded(s)}
           next == [sessions[s] EXCEPT !.pc = "commit", !.tables = tables]
<1>3. Continue(s, next)
  BY DEF CheckForeignKey
<1>4. tables \in SUBSET Table
  BY <1>2 DEF Work, TableNeeded, Table
<1> HIDE DEF tables
<1>5. /\ next \in Work /\ next.pc = "commit" /\ next.job = sessions[s].job
      /\ next.file = sessions[s].file /\ next.connected = sessions[s].connected
      /\ next.written = sessions[s].written /\ next.tables = tables
  BY <1>2, <1>4 DEF Work
<1> HIDE DEF next
<1> QED BY <1>2, <1>3, <1>5 DEF Checked, tables

\* Only a session that holds a pooled connection gives one back, and a session
\* gets one only out of the pool.
Accounted(s) ==
  \/ free' = free /\ (Holds(s)' <=> Holds(s))
  \/ free > 0 /\ free' = free - 1 /\ ~Holds(s) /\ Holds(s)'
  \/ free' = free + 1 /\ Holds(s) /\ ~Holds(s)'

\* The step of a session, well or ill, is its own: it moves no other session and
\* takes or returns at most its own connection.
LEMMA SessionMoves ==
  ASSUME UnitOfWorkTypeOK, NEW s \in Sessions, SessionStep(s) \/ SessionFault(s)
  PROVE  /\ sessions' \in [Sessions -> Session \cup {Closed}]
         /\ \A t \in Sessions : t # s => sessions'[t] = sessions[t]
         /\ issued' = issued
         /\ Accounted(s)
<1> DEFINE OneMoves == /\ sessions' \in [Sessions -> Session \cup {Closed}]
                       /\ \A t \in Sessions : t # s => sessions'[t] = sessions[t]
<1>0. /\ Holds(s) <=> s \in ApiSessions /\ sessions[s].pc # "closed" /\ sessions[s].connected
      /\ s \in TaskSessions => s \notin ApiSessions
      /\ free \in Nat
  BY SessionKinds, SessionsAssumption, PoolAssumption DEF Holds, UnitOfWorkTypeOK
<1>1. ASSUME NEW session \in Session \cup {Closed}, Continue(s, session)
      PROVE  /\ OneMoves
             /\ Holds(s)' <=> s \in ApiSessions /\ session # Closed /\ session.connected
  <2>1. OneMoves /\ sessions'[s] = session
    BY <1>1, ContinueType
  <2> QED BY <2>1 DEF Holds, Connected, Open
<1>2. ASSUME s \in Open, NEW tables \in SUBSET Table, Leave(s, tables)
      PROVE  OneMoves /\ (Holds(s)' <=> Holds(s))
  <2>1. OneMoves /\ sessions'[s] = [pc |-> "exit", connected |-> sessions[s].connected,
                                    tables |-> tables]
    BY <1>2, LeaveType
  <2>2. sessions'[s] # Closed /\ sessions'[s].connected = sessions[s].connected
    BY <2>1 DEF Closed
  <2> QED BY <2>1, <2>2, <1>2 DEF Holds, Connected, Open
<1>3. ASSUME NEW session \in Work, Continue(s, session)
      PROVE  OneMoves /\ (Holds(s)' <=> s \in ApiSessions /\ session.connected)
  <2>1. session \in Session
    BY DEF Work, Session
  <2>2. session # Closed
    BY DEF Work, Closed
  <2> QED BY <2>1, <2>2, <1>1, <1>3
<1>4. CASE Connect(s)
  <2>1. s \in Open /\ s \notin Connected /\ sessions[s].pc # "exit"
    BY <1>4 DEF Connect, First
  <2>2. sessions[s] \in Work
    BY <2>1, SessionKinds
  <2>3. /\ [sessions[s] EXCEPT !.connected = TRUE] \in Work
        /\ [sessions[s] EXCEPT !.connected = TRUE].connected
    BY <2>2 DEF Work
  <2>4. OneMoves /\ (Holds(s)' <=> s \in ApiSessions) /\ ~Holds(s) /\ issued' = issued
    BY <1>4, <1>3, <2>1, <2>3 DEF Connect, Holds
  <2>5. IF s \in ApiSessions THEN free > 0 /\ free' = free - 1 ELSE free' = free
    BY <1>4 DEF Connect
  <2> QED BY <2>4, <2>5 DEF Accounted
<1>5. CASE \/ PoolTimeout(s) \/ NoSuchTable(s) \/ FlushRefused(s) \/ Refresh(s)
           \/ CommitUnconfirmed(s) \/ StatementFails(s)
  <2>1. /\ s \in Open /\ issued' = issued /\ free' = free
        /\ Leave(s, {}) \/ Leave(s, {"files"})
    BY <1>5 DEF PoolTimeout, NoSuchTable, FlushRefused, Refresh, CommitUnconfirmed,
       StatementFails, At, Connected
  <2> QED BY <2>1, <1>2 DEF Accounted, Table
<1>6. CASE Select(s)
  <2>1. s \in Open /\ sessions[s].pc = "select" /\ issued' = issued /\ free' = free
    BY <1>6 DEF Select, At
  <2>2. sessions[s] \in Work
    BY <2>1, SessionKinds
  <2>3. ASSUME NEW table \in Table, Leave(s, {table}) PROVE OneMoves /\ Accounted(s)
    BY <2>1, <2>3, <1>2 DEF Accounted
  <2>4. ASSUME NEW table \in Table, NEW value \in Assignable(s, rows[sessions[s].file]),
               Continue(s, [sessions[s] EXCEPT
                 !.pc = "flush", !.value = value, !.tables = {table}])
        PROVE  OneMoves /\ Accounted(s)
    <3> DEFINE next == [sessions[s] EXCEPT !.pc = "flush", !.value = value, !.tables = {table}]
    <3>1. value \in Values \cup {Untouched}
      BY <2>4 DEF Assignable
    <3>2. next \in Work /\ next.connected = sessions[s].connected
      BY <3>1, <2>2 DEF Work
    <3> QED BY <3>2, <2>1, <2>4, <1>0, <1>3 DEF Accounted
  <2> QED BY <2>1, <2>3, <2>4, <1>6, SelectCases
<1>7. CASE Flush(s) \/ CheckForeignKey(s)
  <2>1. /\ s \in Open /\ sessions[s].pc \in {"flush", "constraint"}
        /\ issued' = issued /\ free' = free
    BY <1>7 DEF Flush, CheckForeignKey, At
  <2>2. ASSUME NEW next \in Work, Continue(s, next), next.connected = sessions[s].connected
        PROVE  OneMoves /\ Accounted(s)
    BY <2>1, <2>2, <1>0, <1>3 DEF Accounted
  <2>3. CASE Flush(s)
    <3>1. \E version \in Versions(s), next \in Work :
            Continue(s, next) /\ Flushed(s, version, next)
      BY <2>3, FlushNext
    <3>2. PICK next \in Work : Continue(s, next) /\ next.connected = sessions[s].connected
      BY <3>1 DEF Flushed
    <3> QED BY <3>2, <2>1, <2>2
  <2>4. CASE CheckForeignKey(s)
    <3>1. PICK next \in Work : Continue(s, next) /\ next.connected = sessions[s].connected
      BY <2>4, CheckNext DEF Checked
    <3> QED BY <3>1, <2>1, <2>2
  <2> QED BY <2>3, <2>4, <1>7
<1>8. CASE Commit(s)
  <2>1. /\ s \in Open /\ sessions[s].pc = "commit" /\ issued' = issued
        /\ free' = Returned(s) /\ Continue(s, AfterCommit(s))
    BY <1>8 DEF Commit, At
  <2>2. sessions[s] \in Work
    BY <2>1, SessionKinds
  <2>3. AfterCommit(s) \in Session /\ AfterCommit(s).connected = FALSE
    <3>1. CASE sessions[s].job \in {"create", "rename"}
      <4>1. AfterCommit(s) = [sessions[s] EXCEPT
                                !.pc = "refresh", !.connected = FALSE, !.tables = {},
                                !.written = Untouched]
        BY <3>1 DEF AfterCommit
      <4>2. AfterCommit(s) \in Work /\ AfterCommit(s).connected = FALSE
        BY <4>1, <2>2 DEF Work
      <4> QED BY <4>2 DEF Work, Session
    <3>2. CASE sessions[s].job \notin {"create", "rename"}
      BY <3>2 DEF AfterCommit, Session
    <3> QED BY <3>1, <3>2
  <2>4. OneMoves /\ ~Holds(s)'
    BY <2>1, <2>3, <1>1
  <2> QED BY <2>1, <2>4 DEF Accounted, Returned, Holds
<1>9. CASE Exit(s) \/ TaskDies(s)
  <2>1. /\ s \in Open /\ issued' = issued /\ Continue(s, Closed)
        /\ free' = Returned(s) \/ (s \in TaskSessions /\ free' = free)
    BY <1>9 DEF Exit, TaskDies, At
  <2>2. OneMoves /\ ~Holds(s)'
    BY <2>1, <1>1
  <2> QED BY <2>1, <2>2, <1>0 DEF Accounted, Returned, Holds
<1> QED BY <1>4, <1>5, <1>6, <1>7, <1>8, <1>9 DEF SessionStep, SessionFault

-----------------------------------------------------------------------------
(* The pool                                                                  *)

Held == Connected \cap ApiSessions

LEMMA HeldFinite ==
  /\ IsFiniteSet(Held) /\ Cardinality(Held) \in Nat
  /\ ConnectionsAccounted <=> free + Cardinality(Held) = poolSize
<1>1. IsFiniteSet(ApiSessions)
  BY PoolAssumption
<1>2. IsFiniteSet(Held)
  BY <1>1, FS_Intersection DEF Held
<1> QED BY <1>2, FS_CardinalityType DEF ConnectionsAccounted, Held

\* A session that accounts for its connection keeps the pool in balance.
LEMMA PoolBalanced ==
  ASSUME UnitOfWorkTypeOK, ConnectionsAccounted, NEW s \in Sessions,
         \A t \in Sessions : t # s => sessions'[t] = sessions[t],
         Accounted(s), poolSize' = poolSize
  PROVE  free' \in 0..poolSize' /\ ConnectionsAccounted'
<1>0. /\ IsFiniteSet(Held) /\ Cardinality(Held) \in Nat
      /\ free + Cardinality(Held) = poolSize
      /\ free \in Nat /\ poolSize \in Nat
  BY HeldFinite, PoolAssumption DEF UnitOfWorkTypeOK
<1>1. \A t \in Sessions : t # s => (t \in Held' <=> t \in Held)
  BY DEF Held, Connected, Open
<1>2. /\ Held \subseteq Sessions /\ Held' \subseteq Sessions
      /\ Holds(s) <=> s \in Held
      /\ Holds(s)' <=> s \in Held'
  BY DEF Held, Holds, Sessions
<1>3. free' + Cardinality(Held') = poolSize' /\ free' \in Nat /\ Cardinality(Held') \in Nat
  <2>1. CASE free' = free /\ (Holds(s)' <=> Holds(s))
    <3>1. Held' = Held
      BY <2>1, <1>1, <1>2
    <3> QED BY <3>1, <2>1, <1>0
  <2>2. CASE free > 0 /\ free' = free - 1 /\ ~Holds(s) /\ Holds(s)'
    <3>1. Held' = Held \cup {s} /\ s \notin Held
      BY <2>2, <1>1, <1>2
    <3>2. Cardinality(Held') = Cardinality(Held) + 1
      BY <3>1, <1>0, FS_AddElement
    <3> QED BY <3>2, <2>2, <1>0
  <2>3. CASE free' = free + 1 /\ Holds(s) /\ ~Holds(s)'
    <3>1. Held' = Held \ {s} /\ s \in Held
      BY <2>3, <1>1, <1>2
    <3>2. Cardinality(Held') = Cardinality(Held) - 1 /\ Cardinality(Held') \in Nat
      BY <3>1, <1>0, FS_RemoveElement, FS_CardinalityType
    <3> QED BY <3>2, <2>3, <1>0
  <2> QED BY <2>1, <2>2, <2>3 DEF Accounted
<1>4. ConnectionsAccounted'
  BY <1>3 DEF ConnectionsAccounted, Held
<1>5. free' \in 0..poolSize'
  BY <1>3, <1>0
<1> QED BY <1>4, <1>5

\* COMMIT leaves well-formed tables.
LEMMA InstallType ==
  ASSUME UnitOfWorkTypeOK, NEW s \in Sessions, sessions[s] \in Work, Install(s)
  PROVE  /\ rows' \in [Files -> Row \cup {NoRow}]
         /\ alerts' \in [Files -> Seq({Alert})]
<1> DEFINE f == sessions[s].file
           written == sessions[s].written
<1>0. /\ rows \in [Files -> Row \cup {NoRow}] /\ alerts \in [Files -> Seq({Alert})]
      /\ f \in Files /\ written \in Row \cup {NoRow, Untouched}
  BY DEF UnitOfWorkTypeOK, Work
<1>1. \/ alerts' = [alerts EXCEPT ![f] = Append(@, Alert)]
      \/ alerts' = [alerts EXCEPT ![f] = <<>>]
      \/ alerts' = alerts
  BY DEF Install
<1>2. rows' = IF written = Untouched THEN rows ELSE [rows EXCEPT ![f] = written]
  BY DEF Install
<1>3. alerts[f] \in Seq({Alert}) /\ Append(alerts[f], Alert) \in Seq({Alert})
  BY <1>0
<1> HIDE DEF f, written
<1>4. rows' \in [Files -> Row \cup {NoRow}]
  BY <1>0, <1>2
<1>5. \E level \in Seq({Alert}) : alerts' = [alerts EXCEPT ![f] = level]
  <2>1. alerts = [alerts EXCEPT ![f] = alerts[f]] /\ <<>> \in Seq({Alert})
    BY <1>0
  <2> QED BY <2>1, <1>1, <1>3
<1>6. alerts' \in [Files -> Seq({Alert})]
  BY <1>0, <1>5
<1> QED BY <1>4, <1>6

\* A session at a statement of its work leaves the tables alone; COMMIT installs.
LEMMA SessionTables ==
  ASSUME UnitOfWorkTypeOK, NEW s \in Sessions, SessionStep(s) \/ SessionFault(s)
  PROVE  \/ UNCHANGED tableVars
         \/ Committing(s) /\ sessions[s] \in Work /\ Install(s)
<1>1. CASE Commit(s) \/ CommitUnconfirmed(s)
  <2>1. s \in Open /\ sessions[s].pc = "commit" /\ Install(s)
    BY <1>1 DEF Commit, CommitUnconfirmed, At
  <2> QED BY <2>1, SessionKinds DEF Committing
<1>2. CASE ~Commit(s) /\ ~CommitUnconfirmed(s)
  BY <1>2 DEF SessionStep, SessionFault, Connect, NoSuchTable, Select, Flush, CheckForeignKey,
     FlushRefused, Refresh, Exit, PoolTimeout, StatementFails, TaskDies
<1> QED BY <1>1, <1>2

\* The detector of deadlocks fails a statement or a migration like any other fault.
LEMMA NextCases ==
  ASSUME [Next]_vars
  PROVE  \/ /\ poolSize' = poolSize
            /\ \/ \E s \in Sessions :
                     (SessionStep(s) \/ SessionFault(s)) /\ UNCHANGED migrationVars
               \/ \E s \in Sessions : \E job \in ApiJobs \cup TaskJobs, f \in Files :
                     Enter(s, job, f) /\ UNCHANGED migrationVars
               \/ ApiRestart /\ UNCHANGED migrationVars
               \/ StartMigration
               \/ MigrationStep
               \/ MigrationFails /\ UNCHANGED <<tableVars, sessionVars>>
         \/ UNCHANGED vars
BY DEF Next, BreakDeadlock, SessionFault

Accounts == UnitOfWorkTypeOK /\ ConnectionsAccounted

\* A use case opens its session without a connection.
LEMMA EnterAccounts ==
  ASSUME Accounts, NEW s \in Sessions, NEW job \in ApiJobs \cup TaskJobs, NEW f \in Files,
         Enter(s, job, f), poolSize' = poolSize
  PROVE  Accounts'
<1> USE DEF Accounts
<1> DEFINE session == [pc |-> IF job = "create" THEN "flush" ELSE "select",
                       job |-> job, file |-> f, connected |-> FALSE, tables |-> {},
                       value |-> Untouched, written |-> Untouched]
<1>1. /\ s \notin Open /\ Continue(s, session) /\ UNCHANGED <<tableVars, free>>
      /\ issued' \in {issued, issued \cup {f}}
  BY DEF Enter
<1>2. session \in Session /\ session.connected = FALSE
  BY DEF Session
<1> HIDE DEF session
<1>3. /\ sessions' \in [Sessions -> Session \cup {Closed}] /\ sessions'[s] = session
      /\ \A t \in Sessions : t # s => sessions'[t] = sessions[t]
  BY <1>1, <1>2, ContinueType
<1>4. ~Holds(s) /\ ~Holds(s)'
  BY <1>1, <1>2, <1>3 DEF Holds, Connected, Open
<1>5. Accounted(s)
  BY <1>1, <1>4 DEF Accounted
<1>6. free' \in 0..poolSize' /\ ConnectionsAccounted'
  BY <1>3, <1>5, PoolBalanced
<1> QED BY <1>1, <1>3, <1>6 DEF UnitOfWorkTypeOK, tableVars

LEMMA AccountsInvariant == Spec => []Accounts
<1>1. Init => Accounts
  <2> SUFFICES ASSUME Init PROVE UnitOfWorkTypeOK /\ ConnectionsAccounted
    BY DEF Accounts
  <2>1. sessions = [s \in Sessions |-> Closed] /\ free = poolSize /\ poolSize \in Nat
    BY PoolAssumption DEF Init, UnitOfWorkInit
  <2>2. Held = {}
    BY <2>1 DEF Held, Connected, Open
  <2>3. ConnectionsAccounted
    BY <2>1, <2>2, FS_EmptySet, HeldFinite
  <2> QED BY <2>1, <2>3 DEF Init, UnitOfWorkInit, UnitOfWorkTypeOK
<1>2. Accounts /\ [Next]_vars => Accounts'
  <2> SUFFICES ASSUME Accounts, [Next]_vars PROVE Accounts'
    OBVIOUS
  <2> USE DEF Accounts
  <2>1. ASSUME NEW s \in Sessions, SessionStep(s) \/ SessionFault(s), poolSize' = poolSize
        PROVE  Accounts'
    <3>1. /\ sessions' \in [Sessions -> Session \cup {Closed}] /\ issued' = issued
          /\ free' \in 0..poolSize' /\ ConnectionsAccounted'
      BY <2>1, SessionMoves, PoolBalanced
    <3>2. /\ rows' \in [Files -> Row \cup {NoRow}]
          /\ alerts' \in [Files -> Seq({Alert})]
      BY <2>1, SessionTables, InstallType DEF UnitOfWorkTypeOK, tableVars
    <3> QED BY <3>1, <3>2, <2>1 DEF UnitOfWorkTypeOK
  <2>2. CASE ApiRestart /\ poolSize' = poolSize
    <3>1. /\ sessions' = [s \in Sessions |-> IF s \in ApiSessions THEN Closed ELSE sessions[s]]
          /\ free' = poolSize' /\ UNCHANGED <<tableVars, issued>> /\ poolSize \in Nat
      BY <2>2, PoolAssumption DEF ApiRestart, UnitOfWorkTypeOK
    <3>2. Held' = {}
      BY <3>1 DEF Held, Connected, Open, Sessions
    <3>3. free' + Cardinality(Held') = poolSize'
      BY <3>1, <3>2, <2>2, FS_EmptySet
    <3>4. ConnectionsAccounted'
      BY <3>3 DEF ConnectionsAccounted, Held
    <3> QED BY <3>1, <3>4, <2>2 DEF UnitOfWorkTypeOK, tableVars
  <2>3. CASE UNCHANGED <<issued, sessions, free, poolSize>> /\ UNCHANGED tableVars
    BY <2>3 DEF UnitOfWorkTypeOK, ConnectionsAccounted, Connected, Open, tableVars
  <2>4. CASE /\ rows' = [f \in Files |-> NoRow] /\ alerts' = [f \in Files |-> <<>>]
             /\ UNCHANGED <<issued, sessions, free, poolSize>>
    BY <2>4 DEF UnitOfWorkTypeOK, ConnectionsAccounted, Connected, Open
  <2>5. CASE /\ poolSize' = poolSize
             /\ \/ StartMigration \/ MigrationStep
                \/ MigrationFails /\ UNCHANGED <<tableVars, sessionVars>>
    <3>1. UNCHANGED sessionVars
      BY <2>5 DEF StartMigration, MigrationStep
    <3>2. \/ UNCHANGED tableVars
          \/ rows' = [f \in Files |-> NoRow] /\ alerts' = [f \in Files |-> <<>>]
      BY <2>5 DEF StartMigration, MigrationStep
    <3> QED BY <3>1, <3>2, <2>5, <2>3, <2>4 DEF sessionVars
  <2>6. CASE UNCHANGED vars
    BY <2>6, <2>3 DEF vars, sessionVars
  <2> QED BY <2>1, <2>2, <2>5, <2>6, EnterAccounts, NextCases
<1> QED BY <1>1, <1>2, PTL DEF Spec

\* Every connection of the pool can be had or is held by one open session, for a
\* pool and a number of sessions of any size: none is lost or returned twice,
\* whatever fails and wherever a unit of work is left.
THEOREM ConnectionsAlwaysAccounted == Spec => []ConnectionsAccounted
<1>1. Accounts => ConnectionsAccounted
  BY DEF Accounts
<1> QED BY <1>1, AccountsInvariant, PTL

\* The variables of sessions, pool, tables and migrations have their types.
THEOREM TypeCorrect == Spec => []TypeOK
<1>1. Accounts /\ SchemaRight => TypeOK
  BY DEF Accounts, SchemaRight, TypeOK
<1> QED BY <1>1, AccountsInvariant, SchemaInvariant, PTL

-----------------------------------------------------------------------------
(* Transactions are isolated                                                 *)

\* Where no transaction comes nearer to its COMMIT, none is disturbed.
LEMMA StaysIsolated ==
  ASSUME Isolation,
         \A t \in Sessions : Locking(t)' => Locking(t) /\ sessions'[t] = sessions[t],
         \A t \in Sessions, f \in Files : Creating(t, f)' => Creating(t, f),
         Sequenced', TablesHeld', issued \subseteq issued',
         \/ rows' = rows
         \/ rows' = [f \in Files |-> NoRow] /\ \A t \in Sessions : ~Committing(t)
  PROVE  Isolation'
<1> USE DEF Isolation
<1>1. LocksShared'
  <2>1. \A t \in Sessions : Locking(t)' => Lock(t)' = Lock(t)
    BY DEF Lock
  <2> QED BY <2>1 DEF LocksShared
<1>2. \A t \in Sessions : Committing(t)' => Committing(t) /\ sessions'[t] = sessions[t]
  BY DEF Committing, Locking
<1>3. VersionsFit'
  BY <1>2 DEF VersionsFit
<1>4. KeysPending'
  BY DEF KeysPending, Locking
<1>5. CreatesAlone'
  BY DEF CreatesAlone
<1>6. RowsIssued'
  BY DEF RowsIssued
<1> QED BY <1>1, <1>3, <1>4, <1>5, <1>6

\* Neither its locks nor what they are for get lost when a session goes on.
LEMMA SessionHolds ==
  ASSUME UnitOfWorkTypeOK, TablesHeld, NEW s \in Sessions, SessionStep(s) \/ SessionFault(s),
         UNCHANGED <<migration, schema>>
  PROVE  TablesHeld'
<1>1. Locked' = Locked /\ schema' = schema /\ \A t \in Sessions : t # s => sessions'[t] = sessions[t]
  BY SessionMoves DEF Locked
<1>2. ASSUME TablesUsed(sessions'[s]) PROVE TablesHeld'
  BY <1>1, <1>2 DEF TablesHeld, TablesUsed
<1>3. ASSUME NEW session \in Session \cup {Closed}, Continue(s, session), TablesUsed(session)
      PROVE  TablesHeld'
  <2>1. sessions'[s] = session
    BY <1>3, ContinueType
  <2> QED BY <2>1, <1>2, <1>3
<1>4. ASSUME s \in Open, NEW tables \in SUBSET Table, Leave(s, tables),
             tables = {} \/ \E table \in Table : tables = {table} /\ Executable(s, table)
      PROVE  TablesHeld'
  <2>1. sessions'[s] = [pc |-> "exit", connected |-> sessions[s].connected, tables |-> tables]
    BY <1>4, LeaveType
  <2>2. tables \cap Locked = {} /\ (tables # {} => schema.tables)
    BY <1>4 DEF Executable
  <2> QED BY <2>1, <2>2, <1>2 DEF TablesUsed
<1>5. ASSUME NEW next \in Work, Continue(s, next), TablesUsed(next) PROVE TablesHeld'
  BY <1>3, <1>5 DEF Work, Session
<1>6. CASE Connect(s)
  <2>1. /\ s \in Open /\ sessions[s].pc # "exit"
        /\ Continue(s, [sessions[s] EXCEPT !.connected = TRUE])
    BY <1>6 DEF Connect, First
  <2>2. sessions[s] \in Work /\ TablesUsed(sessions[s])
    BY <2>1, SessionKinds DEF TablesHeld
  <2> DEFINE next == [sessions[s] EXCEPT !.connected = TRUE]
  <2>3. next \in Work /\ next.pc = sessions[s].pc /\ next.job = sessions[s].job
        /\ next.tables = sessions[s].tables
    BY <2>2 DEF Work
  <2>4. TablesUsed(next)
    BY <2>2, <2>3 DEF TablesUsed
  <2> QED BY <2>1, <2>3, <2>4, <1>5
<1>7. CASE PoolTimeout(s) \/ NoSuchTable(s) \/ FlushRefused(s) \/ CommitUnconfirmed(s)
           \/ StatementFails(s)
  <2>1. s \in Open /\ Leave(s, {})
    BY <1>7 DEF PoolTimeout, NoSuchTable, FlushRefused, CommitUnconfirmed, StatementFails, At,
       Connected
  <2> QED BY <2>1, <1>4
<1>8. CASE Refresh(s)
  <2>1. s \in Open /\ Leave(s, {"files"}) /\ Executable(s, "files") /\ "files" \in Table
    BY <1>8 DEF Refresh, At, Table
  <2> QED BY <2>1, <1>4
<1>9. CASE Select(s)
  <2>1. s \in Open /\ sessions[s] \in Work
    BY <1>9, SelectCases, SessionKinds
  <2>2. PICK table \in Table :
          /\ Executable(s, table)
          /\ \/ Leave(s, {table})
             \/ /\ sessions[s].job # "read" /\ table = "files"
                /\ \E value \in Assignable(s, rows[sessions[s].file]) :
                     Continue(s, [sessions[s] EXCEPT
                       !.pc = "flush", !.value = value, !.tables = {table}])
    BY <1>9, SelectCases
  <2>3. CASE Leave(s, {table})
    BY <2>1, <2>2, <2>3, <1>4
  <2>4. ASSUME table = "files", NEW value \in Assignable(s, rows[sessions[s].file]),
               Continue(s, [sessions[s] EXCEPT
                 !.pc = "flush", !.value = value, !.tables = {table}])
        PROVE  TablesHeld'
    <3> DEFINE next == [sessions[s] EXCEPT !.pc = "flush", !.value = value, !.tables = {table}]
    <3>1. value \in Values \cup {Untouched}
      BY <2>4 DEF Assignable
    <3>2. next \in Work /\ next.pc = "flush" /\ next.tables = {table}
      BY <2>1, <3>1 DEF Work
    <3>3. TablesUsed(next)
      BY <2>2, <2>4, <3>2 DEF TablesUsed, Executable
    <3> QED BY <2>4, <3>2, <3>3, <1>5
  <2> QED BY <2>2, <2>3, <2>4
<1>10. CASE Flush(s)
  <2>1. /\ s \in Open /\ sessions[s].pc = "flush" /\ At(s, "flush")
        /\ Clean(s) \/ Executable(s, TableNeeded(s))
    BY <1>10 DEF Flush, At, Granted
  <2>2. PICK version \in Versions(s), next \in Work : Continue(s, next) /\ Flushed(s, version, next)
    BY <1>10, FlushNext
  <2>3. TablesUsed(sessions[s])
    BY DEF TablesHeld
  <2>4. TableNeeded(s) = IF sessions[s].job = "alert" THEN "alerts" ELSE "files"
    BY <2>1 DEF TableNeeded
  <2>5. /\ next.tables = sessions[s].tables \cup {TableNeeded(s)}
        /\ next.pc \in {"constraint", "commit"}
    BY <2>2 DEF Flushed
  <2>6. Clean(s) => TableNeeded(s) \in sessions[s].tables
    BY <2>1, <2>3, <2>4 DEF Clean, TablesUsed
  <2>7. TableNeeded(s) \notin Locked /\ schema.tables
    BY <2>1, <2>3, <2>6 DEF Executable, TablesUsed
  <2>8. "files" \in next.tables
    BY <2>1, <2>3, <2>4, <2>5 DEF TablesUsed
  <2>9. TablesUsed(next)
    BY <2>1, <2>3, <2>5, <2>7, <2>8 DEF TablesUsed
  <2> QED BY <2>2, <2>9, <1>5
<1>11. CASE CheckForeignKey(s)
  <2>1. sessions[s].pc = "constraint" /\ Executable(s, TableNeeded(s))
    BY <1>11 DEF CheckForeignKey, At, Granted
  <2>2. PICK next \in Work : Continue(s, next) /\ Checked(s, next)
    BY <1>11, CheckNext
  <2>3. TablesUsed(sessions[s])
    BY DEF TablesHeld
  <2>4. next.tables = sessions[s].tables \cup {TableNeeded(s)} /\ next.pc = "commit"
    BY <2>2 DEF Checked
  <2>5. TablesUsed(next)
    BY <2>1, <2>3, <2>4 DEF TablesUsed, Executable
  <2> QED BY <2>2, <2>5, <1>5
<1>12. CASE Commit(s)
  <2>1. s \in Open /\ sessions[s].pc = "commit" /\ Continue(s, AfterCommit(s))
    BY <1>12 DEF Commit, At
  <2>2. sessions[s] \in Work
    BY <2>1, SessionKinds
  <2>3. CASE sessions[s].job \in {"create", "rename"}
    <3>1. /\ AfterCommit(s) \in Work /\ AfterCommit(s).tables = {}
          /\ AfterCommit(s).pc = "refresh"
      BY <2>2, <2>3 DEF AfterCommit, Work
    <3>2. TablesUsed(AfterCommit(s))
      BY <3>1 DEF TablesUsed
    <3> QED BY <2>1, <3>1, <3>2, <1>5
  <2>4. CASE sessions[s].job \notin {"create", "rename"}
    <3>1. AfterCommit(s) = [pc |-> "exit", connected |-> FALSE, tables |-> {}]
      BY <2>4 DEF AfterCommit
    <3>2. AfterCommit(s) \in Session /\ TablesUsed(AfterCommit(s))
      BY <3>1 DEF Session, TablesUsed
    <3> QED BY <2>1, <3>2, <1>3
  <2> QED BY <2>3, <2>4
<1>13. CASE Exit(s) \/ TaskDies(s)
  <2>1. Continue(s, Closed) /\ TablesUsed(Closed)
    BY <1>13 DEF Exit, TaskDies, Closed, TablesUsed
  <2> QED BY <2>1, <1>3
<1> QED BY <1>6, <1>7, <1>8, <1>9, <1>10, <1>11, <1>12, <1>13 DEF SessionStep, SessionFault

\* What a session's step before or after its COMMIT leaves of it.
LEMMA SessionQuiet ==
  ASSUME UnitOfWorkTypeOK, Sequenced, NEW s \in Sessions, SessionStep(s) \/ SessionFault(s),
         ~Flush(s), ~CheckForeignKey(s)
  PROVE  /\ sessions'[s].pc \notin {"constraint", "commit"}
         /\ sessions'[s].pc = "flush" => sessions[s].pc \in {"select", "flush"}
         /\ \A f \in Files : Creating(s, f)' => Creating(s, f)
         /\ Sequenced'
<1>1. \A t \in Sessions : t # s => sessions'[t] = sessions[t]
  BY SessionMoves
<1>2. ASSUME sessions'[s].pc \in {"exit", "closed", "refresh"}
      PROVE  /\ sessions'[s].pc \notin {"constraint", "commit", "flush"}
             /\ \A f \in Files : Creating(s, f)' => Creating(s, f)
             /\ Sequenced'
  BY <1>1, <1>2 DEF Creating, Sequenced
<1>3. ASSUME s \in Open, NEW tables \in SUBSET Table, Leave(s, tables)
      PROVE  sessions'[s].pc = "exit"
  <2>1. sessions'[s] = [pc |-> "exit", connected |-> sessions[s].connected, tables |-> tables]
    BY <1>3, LeaveType
  <2> QED BY <2>1
<1>4. CASE Connect(s)
  <2>1. /\ s \in Open /\ sessions[s].pc # "exit"
        /\ Continue(s, [sessions[s] EXCEPT !.connected = TRUE]) /\ First(s)
    BY <1>4 DEF Connect, First
  <2>2. sessions[s] \in Work
    BY <2>1, SessionKinds
  <2> DEFINE next == [sessions[s] EXCEPT !.connected = TRUE]
  <2>3. next \in Session /\ next.pc = sessions[s].pc /\ next.job = sessions[s].job
        /\ next.file = sessions[s].file /\ next.pc \notin {"constraint", "commit"}
    BY <2>1, <2>2 DEF Work, Session, First
  <2> HIDE DEF next
  <2>4. sessions'[s] = next
    BY <2>1, <2>3, ContinueType DEF next
  <2> QED BY <2>3, <2>4, <1>1 DEF Creating, Sequenced
<1>5. CASE Select(s)
  <2>1. s \in Open /\ sessions[s].pc = "select"
    BY <1>5, SelectCases
  <2>2. sessions[s] \in Work /\ sessions[s].job # "create"
    BY <2>1, SessionKinds DEF Sequenced
  <2>3. ASSUME NEW table \in Table, Leave(s, {table})
        PROVE  /\ sessions'[s].pc = "exit"
               /\ \A f \in Files : Creating(s, f)' => Creating(s, f)
               /\ Sequenced'
    BY <2>1, <2>3, <1>2, <1>3
  <2>4. ASSUME sessions[s].job # "read", NEW table \in Table,
               NEW value \in Assignable(s, rows[sessions[s].file]),
               Continue(s, [sessions[s] EXCEPT
                 !.pc = "flush", !.value = value, !.tables = {table}])
        PROVE  /\ sessions'[s].pc = "flush"
               /\ \A f \in Files : Creating(s, f)' => Creating(s, f)
               /\ Sequenced'
    <3> DEFINE next == [sessions[s] EXCEPT !.pc = "flush", !.value = value, !.tables = {table}]
    <3>1. value \in Values \cup {Untouched}
      BY <2>4 DEF Assignable
    <3>2. next \in Session /\ next.pc = "flush" /\ next.job = sessions[s].job
      BY <3>1, <2>2 DEF Work, Session
    <3> HIDE DEF next
    <3>3. sessions'[s] = next
      BY <2>4, <3>2, ContinueType DEF next
    <3> QED BY <3>2, <3>3, <2>2, <2>4, <1>1 DEF Creating, Sequenced
  <2> QED BY <2>1, <2>3, <2>4, <1>5, SelectCases
<1>6. CASE \/ PoolTimeout(s) \/ NoSuchTable(s) \/ FlushRefused(s) \/ Refresh(s)
           \/ CommitUnconfirmed(s) \/ StatementFails(s)
  <2>1. s \in Open /\ (Leave(s, {}) \/ Leave(s, {"files"}))
    BY <1>6 DEF PoolTimeout, NoSuchTable, FlushRefused, Refresh, CommitUnconfirmed,
       StatementFails, At, Connected
  <2> QED BY <2>1, <1>2, <1>3 DEF Table
<1>7. CASE Commit(s)
  <2>1. s \in Open /\ sessions[s].pc = "commit" /\ Continue(s, AfterCommit(s))
    BY <1>7 DEF Commit, At
  <2>2. sessions[s] \in Work /\ sessions' = [sessions EXCEPT ![s] = AfterCommit(s)]
    BY <2>1, SessionKinds DEF Continue
  <2>3. AfterCommit(s).pc \in {"exit", "refresh"}
    BY <2>2 DEF AfterCommit, Work
  <2>4. sessions'[s] = AfterCommit(s)
    BY <2>2 DEF UnitOfWorkTypeOK
  <2> QED BY <2>3, <2>4, <1>2
<1>8. CASE Exit(s) \/ TaskDies(s)
  <2>1. sessions'[s] = Closed
    BY <1>8, ContinueType DEF Exit, TaskDies
  <2>2. sessions'[s].pc = "closed"
    BY <2>1 DEF Closed
  <2> QED BY <2>2, <1>2
<1> QED BY <1>4, <1>5, <1>6, <1>7, <1>8 DEF SessionStep, SessionFault

\* Whoever has got its locks gets on with what the others hold.
LEMMA UnlockedCompatible ==
  ASSUME UnitOfWorkTypeOK, NEW s \in Sessions, Unlocked(s),
         NEW t \in Sessions, t # s, Locking(t), sessions[t].file = sessions[s].file
  PROVE  Compatible(Lock(t), LockNeeded(s)) /\ Compatible(LockNeeded(s), Lock(t))
<1>1. t \in Open \ {s}
  BY SessionKinds DEF Locking
<1>2. Compatible(Lock(t), LockNeeded(s))
  BY <1>1 DEF Unlocked, Compatible
<1>3. {Lock(t), LockNeeded(s)} = {LockNeeded(s), Lock(t)}
  OBVIOUS
<1> QED BY <1>2, <1>3 DEF Compatible

\* The row locks stay compatible when one session gets a lock that is.
LEMMA LocksStayShared ==
  ASSUME LocksShared, NEW s \in Sessions, sessions'[s].file = sessions[s].file,
         \A t \in Sessions : t # s => sessions'[t] = sessions[t],
         \A t \in Sessions : t # s /\ Locking(t) /\ sessions[t].file = sessions[s].file =>
           Compatible(Lock(t), Lock(s)') /\ Compatible(Lock(s)', Lock(t))
  PROVE  LocksShared'
<1>1. \A t \in Sessions : t # s => Lock(t)' = Lock(t) /\ (Locking(t)' <=> Locking(t))
  BY DEF Lock, Locking
<1> QED BY <1>1 DEF LocksShared

\* A flush waits until no lock that excludes its own is held, and writes the
\* columns of its operation on the newest committed row.
LEMMA FlushIsolated ==
  ASSUME UnitOfWorkTypeOK, Isolation, NEW s \in Sessions, Flush(s),
         UNCHANGED <<migration, schema>>
  PROVE  Isolation'
<1> USE DEF Isolation
<1>1. /\ s \in Open /\ sessions[s].pc = "flush" /\ At(s, "flush")
      /\ UNCHANGED <<tableVars, issued>>
      /\ Clean(s) \/ (Unlocked(s) /\ ~Refused(s))
  BY DEF Flush, At, Granted
<1>2. sessions[s] \in Work /\ sessions[s].job # "read"
  BY <1>1, SessionKinds DEF Sequenced
<1>3. PICK version \in Versions(s), next \in Work : Continue(s, next) /\ Flushed(s, version, next)
  BY FlushNext
<1>4. /\ version \in Row \cup {NoRow, Untouched}
      /\ next.job = "create" => version \in Row
      /\ next.job = "alert" => version = Untouched
      /\ version = NoRow => next.job = "delete"
      /\ \/ Fits(next, rows[sessions[s].file])
         \/ next.job \in {"create", "alert", "read"}
  BY <1>1, <1>2, <1>3, VersionsType DEF Flushed
<1> DEFINE f == sessions[s].file
<1>5. /\ next.pc = IF next.job = "alert" \/ version = NoRow THEN "constraint" ELSE "commit"
      /\ next.job = sessions[s].job /\ next.file = sessions[s].file /\ next.written = version
  BY <1>3 DEF Flushed
<1>6. f \in Files /\ next \in Session
  BY <1>2 DEF Work, Session
<1>7. sessions'[s] = next /\ \A t \in Sessions : t # s => sessions'[t] = sessions[t]
  BY <1>3, <1>6, ContinueType
<1>8. \A t \in Sessions, g \in Files : Creating(t, g)' <=> Creating(t, g)
  BY <1>1, <1>4, <1>5, <1>7, RowAssumption DEF Creating
<1>9. VersionsFit'
  <2>1. ASSUME next.pc = "commit" PROVE Fits(next, rows[f])
    <3>1. CASE next.job = "create"
      <4>1. rows[f] = NoRow
        BY <3>1, <1>1, <1>5, <1>6 DEF CreatesAlone, Creating
      <4> QED BY <3>1, <4>1, <1>4, <1>5 DEF Fits
    <3>2. CASE next.job # "create"
      BY <2>1, <3>2, <1>2, <1>4, <1>5
    <3> QED BY <3>1, <3>2
  <2> QED BY <2>1, <1>1, <1>5, <1>7 DEF VersionsFit, Committing, tableVars
<1>10. KeysPending'
  BY <1>4, <1>5, <1>7 DEF KeysPending
<1>11. LocksShared'
  <2> DEFINE lock == Lock(s)'
  <2>1. lock \in {"none", LockNeeded(s)}
    <3>1. next.job = "alert" => lock = "none"
      BY <1>5, <1>7 DEF Lock
    <3>2. next.job # "alert" => lock = IF version = Untouched THEN "none"
                                       ELSE IF next.job = "delete" THEN "delete" ELSE "update"
      BY <1>5, <1>7 DEF Lock
    <3>3. next.job # "alert" => LockNeeded(s) = IF next.job = "delete" THEN "delete" ELSE "update"
      BY <1>5 DEF LockNeeded
    <3> QED BY <3>1, <3>2, <3>3
  <2>2. Clean(s) => lock = "none"
    <3>1. Clean(s) => version = Untouched /\ next.job \in {"rename", "process"}
      BY <1>5 DEF Versions, Clean
    <3> QED BY <3>1, <1>5, <1>7 DEF Lock
  <2>3. ASSUME NEW t \in Sessions, t # s, Locking(t), sessions[t].file = f
        PROVE  Compatible(Lock(t), lock) /\ Compatible(lock, Lock(t))
    <3>1. CASE lock = "none"
      BY <3>1 DEF Compatible
    <3>2. CASE lock # "none"
      BY <3>2, <2>1, <2>2, <2>3, <1>1, UnlockedCompatible
    <3> QED BY <3>1, <3>2
  <2> HIDE DEF lock
  <2>4. sessions'[s].file = sessions[s].file
    BY <1>5, <1>7
  <2> QED BY <2>3, <2>4, <1>7, LocksStayShared DEF lock
<1>12. CreatesAlone' /\ RowsIssued'
  BY <1>1, <1>8 DEF CreatesAlone, RowsIssued, tableVars
<1>13. Sequenced'
  BY <1>5, <1>7 DEF Sequenced
<1>14. TablesHeld'
  BY SessionHolds DEF SessionStep
<1> QED BY <1>9, <1>10, <1>11, <1>12, <1>13, <1>14

\* The foreign key is checked on the committed row, under a lock that keeps it
\* there.
LEMMA CheckIsolated ==
  ASSUME UnitOfWorkTypeOK, Isolation, NEW s \in Sessions, CheckForeignKey(s),
         UNCHANGED <<migration, schema>>
  PROVE  Isolation'
<1> USE DEF Isolation
<1>1. /\ s \in Open /\ sessions[s].pc = "constraint" /\ At(s, "constraint")
      /\ UNCHANGED <<tableVars, issued>>
      /\ Unlocked(s) /\ ~Refused(s)
  BY DEF CheckForeignKey, At, Granted
<1>2. PICK next \in Work : Continue(s, next) /\ Checked(s, next)
  BY CheckNext
<1> DEFINE f == sessions[s].file
<1>3. /\ sessions[s] \in Work /\ next.pc = "commit" /\ next.job = sessions[s].job
      /\ next.file = f /\ next.written = sessions[s].written
  BY <1>2 DEF Checked
<1>4. f \in Files /\ next \in Session
  BY <1>3 DEF Work, Session
<1>5. sessions'[s] = next /\ \A t \in Sessions : t # s => sessions'[t] = sessions[t]
  BY <1>2, <1>4, ContinueType
<1>6. \/ next.job = "alert" /\ next.written = Untouched /\ rows[f] # NoRow
      \/ next.job = "delete" /\ next.written = NoRow
  <2>1. \/ next.job = "alert" /\ next.written = Untouched
        \/ next.job = "delete" /\ next.written = NoRow
    BY <1>1, <1>3 DEF KeysPending
  <2>2. next.job = "alert" => rows[f] # NoRow
    BY <1>1, <1>3 DEF Refused
  <2> QED BY <2>1, <2>2
<1>7. Fits(next, rows[f])
  BY <1>6 DEF Fits
<1>8. \A t \in Sessions, g \in Files : Creating(t, g)' => Creating(t, g)
  BY <1>3, <1>5, <1>6 DEF Creating
<1>9. VersionsFit'
  BY <1>1, <1>3, <1>5, <1>7 DEF VersionsFit, Committing, tableVars
<1>10. KeysPending'
  BY <1>3, <1>5 DEF KeysPending
<1>11. LocksShared'
  <2> DEFINE lock == Lock(s)'
  <2>1. CASE next.job = "alert"
    <3>1. lock = "share" /\ LockNeeded(s) = "share"
      BY <2>1, <1>1, <1>3, <1>5 DEF Lock, LockNeeded, At
    <3>2. ASSUME NEW t \in Sessions, t # s, Locking(t), sessions[t].file = f
          PROVE  Compatible(Lock(t), lock) /\ Compatible(lock, Lock(t))
      BY <3>1, <3>2, <1>1, UnlockedCompatible
    <3> HIDE DEF lock
    <3> QED BY <3>2, <1>3, <1>5, LocksStayShared DEF lock
  <2>2. CASE next.job = "delete"
    <3>1. lock = "delete" /\ Lock(s) = "delete" /\ Locking(s)
      BY <2>2, <1>1, <1>3, <1>5, <1>6, RowAssumption DEF Lock, Locking
    <3>2. ASSUME NEW t \in Sessions, t # s, Locking(t), sessions[t].file = f
          PROVE  Compatible(Lock(t), lock) /\ Compatible(lock, Lock(t))
      BY <3>1, <3>2 DEF LocksShared
    <3> HIDE DEF lock
    <3> QED BY <3>2, <1>3, <1>5, LocksStayShared DEF lock
  <2> QED BY <2>1, <2>2, <1>6
<1>12. CreatesAlone' /\ RowsIssued'
  BY <1>1, <1>8 DEF CreatesAlone, RowsIssued, tableVars
<1>13. Sequenced'
  BY <1>3, <1>5 DEF Sequenced
<1>14. TablesHeld'
  BY SessionHolds DEF SessionStep
<1> QED BY <1>9, <1>10, <1>11, <1>12, <1>13, <1>14

\* COMMIT installs a row only where no other transaction that is about to commit
\* counts on the one before.
LEMMA CommitIsolated ==
  ASSUME UnitOfWorkTypeOK, Isolation, NEW s \in Sessions, SessionStep(s) \/ SessionFault(s),
         Committing(s), sessions[s] \in Work, Install(s),
         UNCHANGED <<migration, schema>>
  PROVE  Isolation'
<1> USE DEF Isolation
<1> DEFINE f == sessions[s].file
           written == sessions[s].written
           job == sessions[s].job
<1>0. ~Flush(s) /\ ~CheckForeignKey(s)
  BY DEF Committing, Flush, CheckForeignKey, At
<1>1. /\ \A t \in Sessions : t # s => sessions'[t] = sessions[t]
      /\ issued' = issued
      /\ sessions'[s].pc \notin {"constraint", "commit", "flush"}
      /\ Sequenced' /\ TablesHeld'
  BY <1>0, SessionMoves, SessionQuiet, SessionHolds DEF Committing
<1>2. /\ Fits(sessions[s], rows[f]) /\ f \in Files
      /\ job \in {"create", "rename", "delete", "read", "process", "alert"}
      /\ written \in Row \cup {NoRow, Untouched}
  BY DEF VersionsFit, Work, ApiJobs, TaskJobs
<1>3. rows' = IF written = Untouched THEN rows ELSE [rows EXCEPT ![f] = written]
  BY DEF Install
<1>4. \A g \in Files : rows'[g] = IF g = f /\ written # Untouched THEN written ELSE rows[g]
  BY <1>3 DEF UnitOfWorkTypeOK
<1>5. written \in Row => /\ job \in {"create", "rename", "process"}
                         /\ job # "create" => rows[f] # NoRow
  BY <1>2, RowAssumption DEF Fits
<1>6. /\ \A t \in Sessions : Locking(t)' => t # s /\ Locking(t)
      /\ \A t \in Sessions : Committing(t)' => t # s /\ Committing(t)
      /\ \A t \in Sessions, g \in Files : Creating(t, g)' => t # s /\ Creating(t, g)
  BY <1>1 DEF Committing, Locking, Creating
<1>7. LocksShared'
  <2>1. \A t \in Sessions : Locking(t)' => Lock(t)' = Lock(t) /\ sessions'[t] = sessions[t]
    BY <1>1, <1>6 DEF Lock
  <2> QED BY <2>1, <1>6 DEF LocksShared
<1>8. VersionsFit'
  <2> SUFFICES ASSUME NEW t \in Sessions, Committing(t)'
               PROVE  Fits(sessions'[t], rows'[sessions'[t].file])
    BY DEF VersionsFit
  <2>1. /\ t # s /\ Committing(t) /\ sessions'[t] = sessions[t]
        /\ Fits(sessions[t], rows[sessions[t].file])
    BY <1>1, <1>6 DEF VersionsFit
  <2>2. sessions[t].file \in Files
    <3>1. t \in Open /\ sessions[t].pc # "exit"
      BY <2>1, SessionKinds DEF Committing
    <3> QED BY <3>1, SessionKinds DEF Work
  <2>3. CASE sessions[t].file # f \/ written = Untouched
    BY <2>1, <2>2, <2>3, <1>4
  <2>4. CASE sessions[t].file = f /\ written # Untouched
    <3>1. Compatible(Lock(s), Lock(t)) /\ rows'[f] = written
      BY <2>1, <2>4, <1>2, <1>4 DEF LocksShared, Committing, Locking
    <3>2. job # "alert" /\ Lock(s) = IF job = "delete" THEN "delete" ELSE "update"
      BY <2>4, <1>2 DEF Fits, Lock, Committing
    <3>3. Lock(t) = "none" \/ (Lock(t) = "share" /\ job # "delete")
      BY <3>1, <3>2 DEF Compatible
    <3>4. CASE Lock(t) = "none"
      <4>1. sessions[t].written = Untouched /\ sessions[t].job # "alert"
        BY <3>4, <2>1 DEF Lock, Committing
      <4> QED BY <4>1, <2>1, RowAssumption DEF Fits
    <3>5. CASE Lock(t) = "share" /\ job # "delete"
      <4>1. sessions[t].job = "alert"
        BY <3>5, <2>1 DEF Lock, Committing
      <4>2. written # NoRow
        BY <3>2, <3>5, <2>4, <1>2, RowAssumption DEF Fits
      <4> QED BY <4>1, <4>2, <2>1, <2>4, <3>1 DEF Fits
    <3> QED BY <3>3, <3>4, <3>5
  <2> QED BY <2>3, <2>4
<1>9. CreatesAlone'
  <2> SUFFICES ASSUME NEW t \in Sessions, NEW g \in Files, Creating(t, g)'
               PROVE  /\ g \in issued' /\ rows'[g] = NoRow
                      /\ \A u \in Sessions : Creating(u, g)' => u = t
    BY DEF CreatesAlone
  <2>1. /\ t # s /\ Creating(t, g) /\ g \in issued /\ rows[g] = NoRow
        /\ \A u \in Sessions : Creating(u, g) => u = t
    BY <1>6 DEF CreatesAlone
  <2>2. ~(g = f /\ written \in Row)
    <3> SUFFICES ASSUME g = f, written \in Row PROVE FALSE
      OBVIOUS
    <3>1. job = "create"
      BY <1>5, <2>1
    <3>2. Creating(s, f)
      BY <3>1 DEF Creating, Committing
    <3> QED BY <3>2, <2>1
  <2>3. rows'[g] = NoRow
    BY <2>1, <2>2, <1>2, <1>4
  <2> QED BY <2>1, <2>3, <1>1, <1>6
<1>10. RowsIssued'
  <2>1. written \in Row => f \in issued
    BY <1>2, <1>5 DEF RowsIssued, CreatesAlone, Creating, Committing
  <2> QED BY <2>1, <1>1, <1>2, <1>4 DEF RowsIssued
<1>11. KeysPending'
  BY <1>1, <1>6 DEF KeysPending, Locking
<1> QED BY <1>1, <1>7, <1>8, <1>9, <1>10, <1>11

\* A use case that opens its session draws a new id, or works on an old one.
LEMMA EnterIsolated ==
  ASSUME UnitOfWorkTypeOK, Isolation, NEW s \in Sessions, NEW job \in ApiJobs \cup TaskJobs,
         NEW f \in Files, Enter(s, job, f), UNCHANGED <<migration, schema>>
  PROVE  Isolation'
<1> USE DEF Isolation
<1> DEFINE session == [pc |-> IF job = "create" THEN "flush" ELSE "select",
                       job |-> job, file |-> f, connected |-> FALSE, tables |-> {},
                       value |-> Untouched, written |-> Untouched]
<1>1. /\ Continue(s, session) /\ UNCHANGED <<tableVars, free>>
      /\ IF job = "create" THEN f \notin issued /\ issued' = issued \cup {f}
         ELSE f \in issued /\ issued' = issued
  BY DEF Enter
<1>2. /\ session \in Session /\ session.pc = (IF job = "create" THEN "flush" ELSE "select")
      /\ session.job = job /\ session.file = f /\ session.tables = {}
  BY DEF Session
<1> HIDE DEF session
<1>3. sessions'[s] = session /\ \A t \in Sessions : t # s => sessions'[t] = sessions[t]
  BY <1>1, <1>2, ContinueType
<1>4. rows' = rows
  BY <1>1 DEF tableVars
<1>5. /\ \A t \in Sessions : Locking(t)' => t # s /\ Locking(t) /\ sessions'[t] = sessions[t]
      /\ \A t \in Sessions : Committing(t)' => Locking(t)'
      /\ \A t \in Sessions : Committing(t)' => Committing(t)
  BY <1>2, <1>3 DEF Locking, Committing
<1>6. Sequenced' /\ TablesHeld'
  <2>1. Locked' = Locked /\ schema' = schema
    BY DEF Locked
  <2>2. TablesUsed(session)'
    BY <1>2 DEF TablesUsed
  <2>3. TablesHeld'
    BY <2>1, <2>2, <1>3 DEF TablesHeld, TablesUsed
  <2> QED BY <2>3, <1>2, <1>3 DEF Sequenced
<1>7. CASE job # "create"
  <2>1. \A t \in Sessions, g \in Files : Creating(t, g)' => Creating(t, g)
    BY <1>2, <1>3, <1>7 DEF Creating
  <2> QED BY <2>1, <1>1, <1>4, <1>5, <1>6, <1>7, StaysIsolated
<1>8. CASE job = "create"
  <2>1. /\ f \notin issued /\ issued' = issued \cup {f} /\ rows[f] = NoRow
    BY <1>1, <1>8 DEF RowsIssued
  <2>2. \A t \in Sessions : ~Creating(t, f)
    BY <2>1 DEF CreatesAlone
  <2>3. \A t \in Sessions, g \in Files :
          Creating(t, g)' => (Creating(t, g) /\ t # s) \/ (t = s /\ g = f)
    BY <1>2, <1>3 DEF Creating
  <2>4. CreatesAlone'
    <3> SUFFICES ASSUME NEW t \in Sessions, NEW g \in Files, Creating(t, g)'
                 PROVE  /\ g \in issued' /\ rows'[g] = NoRow
                        /\ \A u \in Sessions : Creating(u, g)' => u = t
      BY DEF CreatesAlone
    <3>1. CASE g = f
      BY <3>1, <2>1, <2>2, <2>3, <1>4
    <3>2. CASE g # f
      BY <3>2, <2>1, <2>3, <1>4 DEF CreatesAlone
    <3> QED BY <3>1, <3>2
  <2>5. LocksShared'
    BY <1>5 DEF LocksShared, Lock
  <2>6. VersionsFit'
    BY <1>4, <1>5 DEF VersionsFit
  <2>7. RowsIssued'
    BY <2>1, <1>4 DEF RowsIssued
  <2>8. KeysPending'
    BY <1>5 DEF KeysPending, Locking
  <2> QED BY <2>4, <2>5, <2>6, <2>7, <2>8, <1>6
<1> QED BY <1>7, <1>8

\* A session that is about to commit is seen to by every migration that changes the
\* tables.
LEMMA NoneCommitting ==
  ASSUME UnitOfWorkTypeOK, TablesHeld, SchemaRight, CommitMigration, NEW t \in Sessions
  PROVE  ~Committing(t) /\ (sessions[t].pc # "closed" => sessions[t].tables = {})
<1>1. migration # NoMigration /\ migration.revision # revision
  BY DEF CommitMigration, SchemaRight, MigrationHoldsLocks
<1>2. schema.tables => Locked = Table
  BY <1>1 DEF Locked, SchemaRight, MigrationHoldsLocks
<1>3. TablesUsed(sessions[t])
  BY DEF TablesHeld
<1>4. sessions[t].pc # "closed" => sessions[t].tables \subseteq Table
  BY SessionKinds
<1>5. sessions[t].pc # "closed" => sessions[t].tables = {}
  BY <1>2, <1>3, <1>4 DEF TablesUsed
<1> QED BY <1>3, <1>5 DEF TablesUsed, Committing

\* A migration leaves the tables alone, or has locked them.
LEMMA MigrationIsolated ==
  ASSUME UnitOfWorkTypeOK, Isolation, SchemaRight,
         StartMigration \/ MigrationStep \/ (MigrationFails /\ UNCHANGED <<tableVars, sessionVars>>)
  PROVE  Isolation'
<1>0. UNCHANGED <<issued, sessions>>
  BY DEF StartMigration, MigrationStep, sessionVars
<1>1. ASSUME TablesHeld',
             \/ rows' = rows
             \/ rows' = [f \in Files |-> NoRow] /\ \A t \in Sessions : ~Committing(t)
      PROVE  Isolation'
  <2>1. Sequenced' /\ \A t \in Sessions : Locking(t)' => Locking(t)
    BY <1>0 DEF Isolation, Sequenced, Locking
  <2>2. \A t \in Sessions, f \in Files : Creating(t, f)' => Creating(t, f)
    BY <1>0 DEF Creating
  <2> QED BY <1>0, <1>1, <2>1, <2>2, StaysIsolated
<1>2. ASSUME Locked' \subseteq Locked, schema' = schema, rows' = rows PROVE Isolation'
  <2>1. TablesHeld'
    BY <1>0, <1>2 DEF Isolation, TablesHeld, TablesUsed
  <2> QED BY <2>1, <1>1, <1>2
<1>3. CASE StartMigration
  <2>1. /\ Locked' = {} /\ schema' = schema /\ rows' = rows
    BY <1>3 DEF StartMigration, BeginMigration, Locked, tableVars
  <2> QED BY <2>1, <1>2
<1>4. CASE MigrationStep /\ LockTable /\ \A s \in Open : NextLock \notin sessions[s].tables
  <2>1. /\ migration # NoMigration /\ schema' = schema /\ rows' = rows
        /\ migration' = [migration EXCEPT !.locks = @ \cup {NextLock}]
    BY <1>4 DEF MigrationStep, LockTable, CommitMigration, tableVars
  <2>2. migration \in [schema: Schema, revision: Revision, target: Revision, locks: SUBSET Table]
    BY <2>1 DEF SchemaRight, MigrationsTypeOK
  <2>3. Locked' \subseteq Locked \cup {NextLock}
    BY <2>1, <2>2 DEF Locked
  <2>4. \A t \in Sessions : sessions[t].pc # "closed" => NextLock \notin sessions[t].tables
    BY <1>4, SessionKinds
  <2>5. TablesHeld'
    BY <1>0, <2>1, <2>3, <2>4 DEF Isolation, TablesHeld, TablesUsed
  <2> QED BY <2>1, <2>5, <1>1
<1>5. CASE MigrationStep /\ ApplyRevision /\ UNCHANGED tableVars
  <2>1. /\ migration # NoMigration /\ schema' = schema /\ rows' = rows
        /\ \E s, r : migration' = [migration EXCEPT !.schema = s, !.revision = r]
    BY <1>5 DEF ApplyRevision, tableVars
  <2>2. migration \in [schema: Schema, revision: Revision, target: Revision, locks: SUBSET Table]
    BY <2>1 DEF SchemaRight, MigrationsTypeOK
  <2>3. Locked' \subseteq Locked
    BY <2>1, <2>2 DEF Locked
  <2> QED BY <2>1, <2>3, <1>2
<1>6. CASE MigrationStep /\ CommitMigration
  <2>1. /\ migration' = NoMigration
        /\ \/ rows' = rows \/ rows' = [f \in Files |-> NoRow]
    BY <1>6 DEF MigrationStep, CommitMigration, ApplyRevision, LockTable, tableVars
  <2>2. \A t \in Sessions :
          ~Committing(t) /\ (sessions[t].pc # "closed" => sessions[t].tables = {})
    BY <1>6, NoneCommitting DEF Isolation
  <2>3. Locked' = {}
    BY <2>1 DEF Locked
  <2>4. TablesHeld'
    BY <1>0, <2>2, <2>3 DEF Isolation, TablesHeld, TablesUsed
  <2> QED BY <2>1, <2>2, <2>4, <1>1
<1>7. CASE MigrationFails /\ UNCHANGED <<tableVars, sessionVars>>
  <2>1. Locked' = {} /\ schema' = schema /\ rows' = rows
    BY <1>7 DEF MigrationFails, Locked, tableVars
  <2> QED BY <2>1, <1>2
<1> QED BY <1>3, <1>4, <1>5, <1>6, <1>7 DEF MigrationStep

LEMMA IsolationInvariant == Spec => [](Isolation /\ UnitOfWorkTypeOK)
<1>1. Init => Isolation
  <2> SUFFICES ASSUME Init PROVE Isolation
    OBVIOUS
  <2>1. /\ \A s \in Sessions : sessions[s].pc = "closed"
        /\ \A f \in Files : rows[f] = NoRow
    BY DEF Init, UnitOfWorkInit, Closed
  <2> QED BY <2>1 DEF Isolation, LocksShared, VersionsFit, KeysPending, CreatesAlone, Sequenced,
                      RowsIssued, TablesHeld, TablesUsed, Committing, Locking, Creating
<1>2. Isolation /\ UnitOfWorkTypeOK /\ SchemaRight /\ [Next]_vars => Isolation'
  <2> SUFFICES ASSUME Isolation, UnitOfWorkTypeOK, SchemaRight, [Next]_vars PROVE Isolation'
    OBVIOUS
  <2> USE DEF Isolation
  <2>1. ASSUME NEW s \in Sessions, SessionStep(s) \/ SessionFault(s), UNCHANGED migrationVars
        PROVE  Isolation'
    <3>0. UNCHANGED <<migration, schema>>
      BY <2>1 DEF migrationVars
    <3>1. CASE Flush(s) \/ CheckForeignKey(s)
      BY <3>0, <3>1, FlushIsolated, CheckIsolated
    <3>2. CASE Committing(s) /\ sessions[s] \in Work /\ Install(s)
      BY <3>0, <3>2, <2>1, CommitIsolated
    <3>3. CASE ~Flush(s) /\ ~CheckForeignKey(s) /\ UNCHANGED tableVars
      <4>1. /\ sessions'[s].pc \notin {"constraint", "commit"} /\ issued' = issued
            /\ \A f \in Files : Creating(s, f)' => Creating(s, f)
            /\ Sequenced' /\ \A t \in Sessions : t # s => sessions'[t] = sessions[t]
        BY <3>3, <2>1, SessionMoves, SessionQuiet
      <4>2. \A t \in Sessions : Locking(t)' => Locking(t) /\ sessions'[t] = sessions[t]
        BY <4>1 DEF Locking
      <4>3. \A t \in Sessions, f \in Files : Creating(t, f)' => Creating(t, f)
        BY <4>1 DEF Creating
      <4>4. TablesHeld'
        BY <2>1, <3>0, SessionHolds
      <4> QED BY <3>3, <4>1, <4>2, <4>3, <4>4, StaysIsolated DEF tableVars
    <3> QED BY <3>1, <3>2, <3>3, <2>1, SessionTables
  <2>2. CASE ApiRestart /\ UNCHANGED migrationVars
    <3>1. /\ sessions' = [s \in Sessions |-> IF s \in ApiSessions THEN Closed ELSE sessions[s]]
          /\ UNCHANGED <<rows, issued, migration, schema>>
      BY <2>2 DEF ApiRestart, tableVars, migrationVars
    <3>2. \A t \in Sessions : sessions'[t] = sessions[t] \/ sessions'[t].pc = "closed"
      BY <3>1 DEF Closed
    <3>3. \A t \in Sessions : Locking(t)' => Locking(t) /\ sessions'[t] = sessions[t]
      BY <3>2 DEF Locking
    <3>4. \A t \in Sessions, f \in Files : Creating(t, f)' => Creating(t, f)
      BY <3>2 DEF Creating
    <3>5. Sequenced'
      BY <3>2 DEF Sequenced
    <3>6. TablesHeld'
      BY <3>1, <3>2 DEF TablesHeld, TablesUsed, Locked
    <3> QED BY <3>1, <3>3, <3>4, <3>5, <3>6, StaysIsolated
  <2>3. CASE StartMigration \/ MigrationStep
             \/ (MigrationFails /\ UNCHANGED <<tableVars, sessionVars>>)
    BY <2>3, MigrationIsolated
  <2>4. CASE UNCHANGED vars
    <3>1. UNCHANGED <<issued, sessions, rows, migration, schema>>
      BY <2>4 DEF vars, tableVars, sessionVars, migrationVars
    <3>2. Sequenced' /\ \A t \in Sessions : Locking(t)' => Locking(t)
      BY <3>1 DEF Sequenced, Locking
    <3>3. \A t \in Sessions, f \in Files : Creating(t, f)' => Creating(t, f)
      BY <3>1 DEF Creating
    <3>4. TablesHeld'
      BY <3>1 DEF TablesHeld, TablesUsed, Locked
    <3> QED BY <3>1, <3>2, <3>3, <3>4, StaysIsolated
  <2>5. ASSUME NEW s \in Sessions, NEW job \in ApiJobs \cup TaskJobs, NEW f \in Files,
               Enter(s, job, f), UNCHANGED migrationVars
        PROVE  Isolation'
    BY <2>5, EnterIsolated DEF migrationVars
  <2> QED BY <2>1, <2>2, <2>3, <2>4, <2>5, NextCases
<1> QED BY <1>1, <1>2, AccountsInvariant, SchemaInvariant, PTL DEF Spec, Accounts

-----------------------------------------------------------------------------
(* The refinement                                                            *)

\* COMMIT is one transaction of module Tables, or none.
LEMMA CommitTransacts ==
  ASSUME UnitOfWorkTypeOK, NEW s \in Sessions, sessions[s] \in Work, Install(s),
         Fits(sessions[s], rows[sessions[s].file])
  PROVE  UNCHANGED <<rows, alerts>> \/ Transactions!Next
<1> DEFINE f == sessions[s].file
           written == sessions[s].written
           job == sessions[s].job
<1>1. /\ f \in Files /\ written \in Row \cup {NoRow, Untouched}
      /\ job \in {"create", "rename", "delete", "read", "process", "alert"}
      /\ Fits(sessions[s], rows[f]) /\ job # "read"
      /\ rows' = IF written = Untouched THEN rows ELSE [rows EXCEPT ![f] = written]
      /\ alerts' = CASE job = "alert" -> [alerts EXCEPT ![f] = Append(@, Alert)]
                     [] written = NoRow -> [alerts EXCEPT ![f] = <<>>]
                     [] OTHER -> alerts
  BY DEF Work, ApiJobs, TaskJobs, Install, Fits
<1>2. CASE job = "alert"
  <2>1. written = Untouched /\ rows[f] # NoRow
    BY <1>1, <1>2 DEF Fits
  <2>2. rows' = rows /\ alerts' = [alerts EXCEPT ![f] = Append(@, Alert)]
    BY <1>1, <1>2, <2>1, RowAssumption
  <2>3. Transactions!Report(f)
    BY <2>1, <2>2 DEF Transactions!Report
  <2> QED BY <2>3, <1>1 DEF Transactions!Next
<1>3. CASE job # "alert" /\ written = Untouched
  BY <1>1, <1>3, RowAssumption
<1>4. CASE job # "alert" /\ written = NoRow
  <2>1. Transactions!Remove(f)
    BY <1>1, <1>4, RowAssumption DEF Transactions!Remove
  <2> QED BY <2>1, <1>1 DEF Transactions!Next
<1>5. CASE job # "alert" /\ written \in Row
  <2>1. rows' = [rows EXCEPT ![f] = written] /\ alerts' = alerts
    BY <1>1, <1>5, RowAssumption
  <2>2. CASE job = "create"
    <3>1. Transactions!Insert(f)
      BY <2>1, <2>2, <1>1, <1>5 DEF Fits, Transactions!Insert
    <3> QED BY <3>1, <1>1 DEF Transactions!Next
  <2>3. CASE job \in {"rename", "process"}
    <3>1. /\ rows[f] \in Row
          /\ job = "rename" => written.status = rows[f].status
          /\ job = "process" => written.title = rows[f].title
      BY <2>3, <1>1, <1>5, RowAssumption DEF Fits
    <3>2. rows[f] # NoRow /\ DOMAIN written = {"title", "status"}
      BY <3>1, <1>5, RowAssumption DEF Row
    <3>3. \E columns \in {{"title"}, {"status"}} :
            \A c \in DOMAIN written \ columns : written[c] = rows[f][c]
      BY <3>1, <3>2, <2>3
    <3>4. Transactions!Update(f)
      BY <3>2, <3>3, <2>1, <1>5 DEF Transactions!Update
    <3> QED BY <3>4, <1>1 DEF Transactions!Next
  <2> QED BY <2>2, <2>3, <1>1, <1>5, RowAssumption DEF Fits
<1> QED BY <1>1, <1>2, <1>3, <1>4, <1>5

\* Sessions that overlap, act on rows they loaded earlier, wait for each other's
\* locks, fail and are migrated under change the tables as if each ran alone at
\* its COMMIT.
THEOREM ImplementsTables == Spec => RefinesTables
<1>1. Init => Transactions!Init
  BY DEF Init, UnitOfWorkInit, Transactions!Init
<1>2. Isolation /\ UnitOfWorkTypeOK /\ [Next]_vars => [Transactions!Next]_<<rows, alerts>>
  <2> SUFFICES ASSUME Isolation, UnitOfWorkTypeOK, [Next]_vars
               PROVE  UNCHANGED <<rows, alerts>> \/ Transactions!Next
    OBVIOUS
  <2>1. ASSUME NEW s \in Sessions, SessionStep(s) \/ SessionFault(s)
        PROVE  UNCHANGED <<rows, alerts>> \/ Transactions!Next
    <3>1. CASE UNCHANGED tableVars
      BY <3>1 DEF tableVars
    <3>2. CASE Committing(s) /\ sessions[s] \in Work /\ Install(s)
      BY <3>2, CommitTransacts DEF Isolation, VersionsFit
    <3> QED BY <3>1, <3>2, <2>1, SessionTables
  <2>2. CASE MigrationStep
    <3>1. CASE rows' = [f \in Files |-> NoRow] /\ alerts' = [f \in Files |-> <<>>]
      BY <3>1 DEF Transactions!Next, Transactions!DropTables
    <3> QED BY <3>1, <2>2 DEF MigrationStep, tableVars
  <2>3. CASE UNCHANGED tableVars
    BY <2>3 DEF tableVars
  <2>4. CASE ApiRestart \/ StartMigration \/ (MigrationFails /\ UNCHANGED <<tableVars, sessionVars>>)
             \/ UNCHANGED vars
             \/ \E s \in Sessions : \E job \in ApiJobs \cup TaskJobs, f \in Files : Enter(s, job, f)
    <3>1. UNCHANGED tableVars
      BY <2>4 DEF ApiRestart, StartMigration, Enter, vars
    <3> QED BY <3>1, <2>3
  <2> QED BY <2>1, <2>2, <2>4, NextCases
<1> QED BY <1>1, <1>2, IsolationInvariant, PTL
        DEF Spec, RefinesTables, Transactions!Spec, Transactions!vars
=============================================================================
