----------------------------- MODULE UnitOfWork -----------------------------
(* SqlAlchemyUnitOfWork statement by statement: sessions that take a pooled  *)
(* connection when they first need one, load, flush under PostgreSQL's row   *)
(* locks, commit and return the connection.  The use cases of the services   *)
(* are the jobs.                                                             *)
EXTENDS Migrations, Sequences, FiniteSets

CONSTANTS
  Files,
  ApiSessions,    \* sessions of the API process, on its QueuePool
  TaskSessions,   \* sessions of workers and inline threads, on a NullPool
  PoolSizes,      \* numbers of connections the API's pool may be given
  Values,         \* values of a column
  NoRow,          \* "no such row"
  Untouched,      \* "this transaction wrote no row"
  MaxAlerts       \* bound on the alerts a file has when another is started

ASSUME SessionsAssumption == ApiSessions \cap TaskSessions = {}
ASSUME PoolAssumption == PoolSizes \subseteq Nat \ {0} /\ IsFiniteSet(ApiSessions)
ASSUME MaxAlertsAssumption == MaxAlerts \in Nat

\* The column a rename writes and one that stands for those of the pipeline.
Row == [title: Values, status: Values]

ASSUME ValuesAssumption == Values # {}
ASSUME RowAssumption == {NoRow, Untouched} \cap Row = {} /\ NoRow # Untouched

VARIABLES
  rows, alerts,   \* the committed tables
  issued,         \* ids drawn so far
  sessions,       \* what each session is doing
  free,           \* connections the API's pool can still give out
  poolSize        \* pool_size + max_overflow of the API's engine

tableVars == <<rows, alerts>>
sessionVars == <<issued, sessions, free>>

Sessions == ApiSessions \cup TaskSessions

\* list_files, list_alerts, get and get_download only read.
ApiJobs == {"create", "rename", "delete", "read"}
\* scan, extract_metadata and mark_failed process; send_alert alerts.
TaskJobs == {"process", "alert"}

\* Level and message of an alert are left out.
Alert == "alert"

\* select, flush, commit, refresh: that statement is pending; constraint: what the
\* flush does for the foreign key is; exit: __aexit__ is.
Closed == [pc |-> "closed"]
Session ==
  [pc: {"select", "flush", "constraint", "commit", "refresh"},
   job: ApiJobs \cup TaskJobs,
   file: Files,
   connected: BOOLEAN,
   tables: SUBSET Table,                  \* those its transaction has used and locks
   value: Values \cup {Untouched},         \* what a flush would write
   written: Row \cup {NoRow, Untouched}]   \* row version, not yet committed
  \cup [pc: {"exit"}, connected: BOOLEAN, tables: SUBSET Table]

UnitOfWorkTypeOK ==
  /\ rows \in [Files -> Row \cup {NoRow}]
  /\ alerts \in [Files -> Seq({Alert})]
  /\ issued \subseteq Files
  /\ sessions \in [Sessions -> Session \cup {Closed}]
  /\ poolSize \in PoolSizes
  /\ free \in 0..poolSize

UnitOfWorkInit ==
  /\ rows = [f \in Files |-> NoRow]
  /\ alerts = [f \in Files |-> <<>>]
  /\ issued = {}
  /\ sessions = [s \in Sessions |-> Closed]
  /\ poolSize \in PoolSizes
  /\ free = poolSize

Open == {s \in Sessions : sessions[s] # Closed}
Connected == {s \in Open : sessions[s].connected}
At(s, pc) == s \in Open /\ sessions[s].pc = pc

\* The statement of s that is pending is the first of its transaction.
First(s) ==
  \/ sessions[s].pc \in {"select", "refresh"}
  \/ sessions[s].pc = "flush" /\ sessions[s].job = "create"

\* The pending statement uses this table, which no migration has locked.
Executable(s, table) == s \in Connected /\ schema.tables /\ table \notin Locked

Continue(s, session) == sessions' = [sessions EXCEPT ![s] = session]

\* The block ends; its transaction goes on if it still locks tables.
Leave(s, tables) ==
  Continue(s, [pc |-> "exit", connected |-> sessions[s].connected, tables |-> tables])

\* Seeded bug: a connection is given back that was given back already.
ReturnedTwice(s) == IF s \in ApiSessions THEN free + 1 ELSE free

\* The pool after s gave its connection back; a NullPool closes it.
Returned(s) == IF s \in ApiSessions /\ s \in Connected THEN free + 1 ELSE free

-----------------------------------------------------------------------------
(* Opening a session and getting a connection                                *)

\* __aenter__ makes a session and its repositories; no connection is taken yet.
Enter(s, job, f) ==
  /\ s \notin Open
  /\ job \in IF s \in ApiSessions THEN ApiJobs ELSE TaskJobs
  /\ IF job = "create"
     THEN f \notin issued /\ issued' = issued \cup {f}
     ELSE f \in issued /\ issued' = issued
  /\ job = "alert" => Len(alerts[f]) < MaxAlerts
  /\ Continue(s, [pc |-> IF job = "create" THEN "flush" ELSE "select",
                  job |-> job, file |-> f, connected |-> FALSE, tables |-> {},
                  value |-> Untouched, written |-> Untouched])
  /\ UNCHANGED <<tableVars, free>>

\* The first statement checks a connection out.
Connect(s) ==
  /\ s \in Open \ Connected
  /\ First(s)
  /\ IF s \in ApiSessions THEN free > 0 /\ free' = free - 1 ELSE free' = free
  /\ Continue(s, [sessions[s] EXCEPT !.connected = TRUE])
  /\ UNCHANGED <<tableVars, issued>>

\* QueuePool gives up after its timeout.
PoolTimeout(s) ==
  /\ s \in (Open \ Connected) \cap ApiSessions
  /\ First(s)
  /\ free = 0
  /\ Leave(s, {})
  /\ UNCHANGED <<tableVars, issued, free>>

-----------------------------------------------------------------------------
(* Statements                                                                *)

Column(s) == IF sessions[s].job = "rename" THEN "title" ELSE "status"

\* What the service may assign to the row it loaded; the value that is there
\* already changes nothing.
Assignable(s, row) ==
  IF sessions[s].job \in {"rename", "process"}
  THEN (Values \ {row[Column(s)]}) \cup {Untouched}
  ELSE {Untouched}

\* The application runs before the first "alembic upgrade".
NoSuchTable(s) ==
  /\ s \in Connected /\ First(s) /\ ~schema.tables
  /\ Leave(s, {})
  /\ UNCHANGED <<tableVars, issued, free>>

\* session.get, or a SELECT of the newest rows, of either table.
Select(s) ==
  LET session == sessions[s]
      row == rows[session.file]
  IN
  /\ At(s, "select")
  /\ \E table \in IF session.job = "read" THEN Table ELSE {"files"} :
       /\ Executable(s, table)
       /\ IF row = NoRow \/ session.job = "read" THEN Leave(s, {table})
          ELSE \E value \in Assignable(s, row) :
                 Continue(s, [session EXCEPT
                   !.pc = "flush", !.value = value, !.tables = {table}])
  /\ UNCHANGED <<tableVars, issued, free>>

\* The row lock a transaction holds on its file once its flush has got through.
Lock(s) ==
  IF sessions[s].pc \notin {"constraint", "commit"} THEN "none"
  ELSE IF sessions[s].job = "alert"
       THEN IF sessions[s].pc = "commit" THEN "share" ELSE "none"
  ELSE IF sessions[s].written = Untouched THEN "none"
  ELSE IF sessions[s].job = "delete" THEN "delete"
  ELSE "update"

\* The table the pending flush uses, or what it does for the foreign key.  The
\* INSERT of an alert goes on to the file it refers to, the DELETE of a file to
\* the alerts that refer to it.
TableNeeded(s) ==
  IF At(s, "flush") THEN IF sessions[s].job = "alert" THEN "alerts" ELSE "files"
  ELSE IF sessions[s].job = "alert" THEN "files" ELSE "alerts"

\* And the row lock: FOR KEY SHARE on the file an alert refers to, FOR NO KEY
\* UPDATE, FOR UPDATE.
LockNeeded(s) ==
  CASE sessions[s].job = "alert" -> IF At(s, "flush") THEN "none" ELSE "share"
    [] sessions[s].job = "delete" -> "delete"
    [] OTHER -> "update"

Compatible(a, b) == "none" \in {a, b} \/ {a, b} \in {{"share"}, {"share", "update"}}

Unlocked(s) ==
  \A t \in Open \ {s} :
    Lock(t) # "none" /\ sessions[t].file = sessions[s].file => Compatible(Lock(t), LockNeeded(s))

\* Nothing to write: commit() flushes nothing.
Clean(s) == sessions[s].job \in {"rename", "process"} /\ sessions[s].value = Untouched

\* The row create() inserts, its status by default; any title will do.
NewRow == CHOOSE row \in Row : TRUE

\* The row versions a flush may leave; an UPDATE sets the columns that changed
\* on the newest committed version.
Versions(s) ==
  LET row == rows[sessions[s].file]
  IN CASE sessions[s].job = "create" -> {NewRow}
       [] sessions[s].job \in {"rename", "process"} /\ ~Clean(s) ->
            {[row EXCEPT ![Column(s)] = sessions[s].value]}
       [] sessions[s].job = "delete" /\ row # NoRow -> {NoRow}
       [] OTHER -> {Untouched}

\* An UPDATE of a deleted row (StaleDataError), an alert for one (foreign key), a
\* DELETE of a file that has alerts while the key does not cascade.
Refused(s) ==
  LET f == sessions[s].file IN
  \/ At(s, "flush") /\ sessions[s].job \in {"rename", "process"} /\ rows[f] = NoRow
  \/ At(s, "constraint") /\ sessions[s].job = "alert" /\ rows[f] = NoRow
  \/ /\ At(s, "constraint") /\ sessions[s].job = "delete"
     /\ schema.onDelete = "restrict" /\ alerts[f] # <<>>

\* The statement waits for the locks of its table and of its row.
Granted(s) == Executable(s, TableNeeded(s)) /\ Unlocked(s)

\* commit() flushes: once the locks are granted the statement succeeds, but for
\* what the foreign key has still to see to.
Flush(s) ==
  /\ At(s, "flush") /\ s \in Connected
  /\ Clean(s) \/ (Granted(s) /\ ~Refused(s))
  /\ \E version \in Versions(s) :
       Continue(s, [sessions[s] EXCEPT
         !.pc = IF sessions[s].job = "alert" \/ version = NoRow THEN "constraint" ELSE "commit",
         !.written = version, !.value = Untouched, !.tables = @ \cup {TableNeeded(s)}])
  /\ UNCHANGED <<tableVars, issued, free>>

\* The end of the same statement: the check that the file is there and stays, or
\* the cascade and the check that no alert is left.
CheckForeignKey(s) ==
  /\ At(s, "constraint")
  /\ Granted(s) /\ ~Refused(s)
  /\ Continue(s, [sessions[s] EXCEPT !.pc = "commit", !.tables = @ \cup {TableNeeded(s)}])
  /\ UNCHANGED <<tableVars, issued, free>>

\* The transaction is aborted and its locks are gone.
FlushRefused(s) ==
  /\ At(s, "flush") \/ At(s, "constraint")
  /\ ~Clean(s) /\ Granted(s) /\ Refused(s)
  /\ Leave(s, {})
  /\ UNCHANGED <<tableVars, issued, free>>

\* Seeded bug: the alerts of a deleted file stay.
InstallWithoutCascade(s) ==
  LET session == sessions[s]
      f == session.file
  IN
  /\ rows' = IF session.written = Untouched THEN rows
             ELSE [rows EXCEPT ![f] = session.written]
  /\ alerts' = CASE session.job = "alert" -> [alerts EXCEPT ![f] = Append(@, Alert)]
                 [] OTHER -> alerts

\* What COMMIT makes visible.
Install(s) ==
  LET session == sessions[s]
      f == session.file
  IN
  /\ rows' = IF session.written = Untouched THEN rows
             ELSE [rows EXCEPT ![f] = session.written]
  /\ alerts' = CASE session.job = "alert" -> [alerts EXCEPT ![f] = Append(@, Alert)]
                 [] session.written = NoRow -> [alerts EXCEPT ![f] = <<>>]
                 [] OTHER -> alerts

\* create and update_title go on to refresh, without a connection.
AfterCommit(s) ==
  IF sessions[s].job \in {"create", "rename"}
  THEN [sessions[s] EXCEPT !.pc = "refresh", !.connected = FALSE, !.tables = {},
                                !.written = Untouched]
  ELSE [pc |-> "exit", connected |-> FALSE, tables |-> {}]

\* Seeded bug: the connection is not given back before the next checkout.
CommitKeepingConnection(s) ==
  /\ At(s, "commit")
  /\ Install(s)
  /\ Continue(s, AfterCommit(s))
  /\ UNCHANGED <<issued, free>>

\* COMMIT; the session gives its connection back, so a refresh needs another.
Commit(s) ==
  /\ At(s, "commit")
  /\ Install(s)
  /\ free' = Returned(s)
  /\ Continue(s, AfterCommit(s))
  /\ UNCHANGED issued

\* COMMIT takes effect and its answer is lost.
CommitUnconfirmed(s) ==
  /\ At(s, "commit")
  /\ Install(s)
  /\ Leave(s, {})
  /\ UNCHANGED <<issued, free>>

\* refresh() reads the row again and raises when it is gone; either way the
\* block ends.
Refresh(s) ==
  /\ At(s, "refresh") /\ Executable(s, "files")
  /\ Leave(s, {"files"})
  /\ UNCHANGED <<tableVars, issued, free>>

\* A statement or COMMIT fails with no effect: connection lost, PostgreSQL down.
StatementFails(s) ==
  /\ s \in Connected
  /\ ~At(s, "exit")
  /\ Leave(s, {})
  /\ UNCHANGED <<tableVars, issued, free>>

-----------------------------------------------------------------------------
(* Leaving                                                                   *)

\* Seeded bug: the session is dropped and not closed.
ExitWithoutClose(s) ==
  /\ At(s, "exit")
  /\ Continue(s, Closed)
  /\ UNCHANGED <<tableVars, issued, free>>

\* __aexit__: roll back if the block raised, close; close() rolls back whatever
\* is open and returns the connection.  A rollback that raises skips close(), and
\* the pool takes the connection back when the session is finalized.
Exit(s) ==
  /\ At(s, "exit")
  /\ free' = Returned(s)
  /\ Continue(s, Closed)
  /\ UNCHANGED <<tableVars, issued>>

\* The worker or thread dies with its engine; PostgreSQL rolls back.
TaskDies(s) ==
  /\ s \in TaskSessions \cap Open
  /\ Continue(s, Closed)
  /\ UNCHANGED <<tableVars, issued, free>>

\* The API process ends and starts again, its lifespan making a new engine.
ApiRestart ==
  /\ sessions' = [s \in Sessions |-> IF s \in ApiSessions THEN Closed ELSE sessions[s]]
  /\ free' = poolSize
  /\ UNCHANGED <<tableVars, issued>>

\* What a session does when nothing goes wrong around it.
SessionStep(s) ==
  \/ Connect(s)
  \/ NoSuchTable(s)
  \/ Select(s)
  \/ Flush(s)
  \/ CheckForeignKey(s)
  \/ FlushRefused(s)
  \/ Commit(s)
  \/ Refresh(s)
  \/ Exit(s)

SessionFault(s) ==
  \/ PoolTimeout(s)
  \/ CommitUnconfirmed(s)
  \/ StatementFails(s)
  \/ TaskDies(s)
=============================================================================
