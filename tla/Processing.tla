----------------------------- MODULE Processing -----------------------------
(* The pipeline scan -> extract metadata -> send alert.  An executor is a    *)
(* Celery worker slot, which runs one phase per message and publishes the    *)
(* next, or the daemon thread the API process starts for a file when it      *)
(* cannot publish, which runs all phases in one go (run_all).  A step ends   *)
(* at every await or external call another process may slip in before.       *)
EXTENDS Infrastructure

CONSTANT Workers   \* Celery worker slots

ASSUME WorkersAssumption == Workers \cap Files = {}

\* The inline thread of a file is named by the file: there is at most one,
\* because only the request that created the file calls enqueue_scan.
Executors == Workers \cup Files

VARIABLE runs   \* what each executor is doing

\* get: session.get pending; read, parse: file access pending; commit: COMMIT
\* pending; mark, save: the two halves of mark_failed; publish: .delay pending.
Idle == [pc |-> "idle"]
RunRecord ==
  [pc: {"get", "read", "parse", "commit", "mark", "save", "publish"},
   phase: Phase,
   file: Files,
   item: Row \cup {NoRow},            \* the loaded object, while it is needed
   changes: Changes,                 \* what the pending COMMIT will write
   level: AlertLevel \cup {"none"}]   \* of the alert it will insert

Run == {r \in RunRecord :
          /\ r.pc \in {"read", "parse"} => r.item # NoRow /\ r.phase # "alert"
          /\ r.pc = "commit" /\ r.phase = "alert" => r.level # "none"}

ProcessingTypeOK == runs \in [Executors -> Run \cup {Idle}]

ProcessingInit == runs = [e \in Executors |-> Idle]

RunAt(pc, phase, f) ==
  [pc |-> pc, phase |-> phase, file |-> f,
   item |-> NoRow, changes |-> NoChange, level |-> "none"]

\* The object was assigned to; its UPDATE is flushed by the COMMIT to come.
Assigned(r, pc, loaded, item) ==
  [RunAt(pc, r.phase, r.file) EXCEPT !.changes = Dirty(loaded, item)]

\* Seeded bug: the inline pipeline stops after its first phase.
OnwardInWorkersOnly(e, phase, f) ==
  IF e \in Workers THEN RunAt("publish", phase, f) ELSE Idle

\* Seeded bug: the metadata task forgets to schedule the alert.
OnwardWithoutAlert(e, phase, f) ==
  IF phase = "alert" THEN Idle
  ELSE RunAt(IF e \in Workers THEN "publish" ELSE "get", phase, f)

\* After a phase: a worker publishes the next one, run_all goes straight on.
Onward(e, phase, f) ==
  RunAt(IF e \in Workers THEN "publish" ELSE "get", phase, f)

\* Seeded bug: no task catches anything.
Uncaught(e) == Idle

\* An exception in a phase: the alert task lets it escape, everything else ends
\* in _mark_failed.
Raised(e) ==
  IF e \in Workers /\ runs[e].phase = "alert" THEN Idle
  ELSE RunAt("mark", runs[e].phase, runs[e].file)

\* Seeded bug: the failed file is marked and nobody is told.
MarkedSilently(e) == Idle

\* After _mark_failed, which swallows its own failure: a worker publishes the
\* alert task, the inline thread is done.
Marked(e) ==
  IF e \in Workers THEN RunAt("publish", "alert", runs[e].file) ELSE Idle

Step(e, run) == runs' = [runs EXCEPT ![e] = run]

-----------------------------------------------------------------------------
(* Starting                                                                  *)

\* Seeded bug: the message stays in the queue while it is worked on.
ReceiveWithoutAck(w, m) ==
  /\ runs[w] = Idle
  /\ queue[m] > 0
  /\ Step(w, RunAt("get", m.task, m.file))
  /\ UNCHANGED <<dbVars, fsVars, brokerVars>>

\* A free worker takes a message; acknowledged at once (acks_late is off).
ReceiveTask(w, m) ==
  /\ runs[w] = Idle
  /\ queue[m] > 0
  /\ queue' = [queue EXCEPT ![m] = @ - 1]
  /\ Step(w, RunAt("get", m.task, m.file))
  /\ UNCHANGED <<dbVars, fsVars, redelivered>>

-----------------------------------------------------------------------------
(* scan, extract_metadata, send_alert                                        *)

\* session.get finds the row.  send_alert needs no file: it chooses the level and
\* its INSERT comes next.
GetItem(e) ==
  LET r == runs[e]
      row == rows[r.file]
  IN
  /\ r.pc = "get"
  /\ row # NoRow
  /\ Step(e, IF r.phase = "alert"
             THEN [r EXCEPT !.pc = "commit", !.level = LevelFor(row)]
             ELSE [r EXCEPT !.pc = "read", !.item = row])
  /\ UNCHANGED <<dbVars, fsVars, brokerVars>>

\* session.get finds nothing: return False, nothing follows.
GetNothing(e) ==
  /\ runs[e].pc = "get"
  /\ rows[runs[e].file] = NoRow
  /\ Step(e, Idle)
  /\ UNCHANGED <<dbVars, fsVars, brokerVars>>

\* scan: read_header in a thread, then the verdict on the loaded object.
ReadHeader(e) ==
  LET r == runs[e] IN
  /\ r.pc = "read"
  /\ r.phase = "scan"
  /\ Step(e, Assigned(r, "commit", r.item, Scanned(r.item, r.file \in disk)))
  /\ UNCHANGED <<dbVars, fsVars, brokerVars>>

\* extract_metadata: the stored path exists; text and PDF files are then read.
PathExists(e) ==
  LET r == runs[e] IN
  /\ r.pc = "read"
  /\ r.phase = "extract"
  /\ r.file \in disk
  /\ Step(e, IF r.item.kind.mime \in {"text", "pdf"}
             THEN [r EXCEPT !.pc = "parse"]
             ELSE Assigned(r, "commit", r.item, Extracted(r.item)))
  /\ UNCHANGED <<dbVars, fsVars, brokerVars>>

\* extract_metadata: the stored path is missing.
PathMissing(e) ==
  LET r == runs[e] IN
  /\ r.pc = "read"
  /\ r.phase = "extract"
  /\ r.file \notin disk
  /\ Step(e, Assigned(r, "commit", r.item, Failed(r.item)))
  /\ UNCHANGED <<dbVars, fsVars, brokerVars>>

\* extract_text_metadata or extract_pdf_metadata.
ExtractCounters(e) ==
  LET r == runs[e] IN
  /\ r.pc = "parse"
  /\ r.file \in disk
  /\ Step(e, Assigned(r, "commit", r.item, Extracted(r.item)))
  /\ UNCHANGED <<dbVars, fsVars, brokerVars>>

\* The bytes were removed after exists() answered: open() raises.
OpenFails(e) ==
  /\ runs[e].pc = "parse"
  /\ runs[e].file \notin disk
  /\ Step(e, Raised(e))
  /\ UNCHANGED <<dbVars, fsVars, brokerVars>>

\* scan and extract_metadata: the UPDATE is committed.
CommitItem(e) ==
  LET r == runs[e] IN
  /\ r.pc = "commit"
  /\ r.phase # "alert"
  /\ Accepts(r.file, r.changes)
  /\ rows' = RowsAfter(r.file, r.changes)
  /\ Step(e, Onward(e, IF r.phase = "scan" THEN "extract" ELSE "alert", r.file))
  /\ UNCHANGED <<alerts, fsVars, brokerVars>>

\* Seeded bug: send_alert is tried again although it succeeded.
AddAlertAgain(e) ==
  LET r == runs[e] IN
  /\ r.pc = "commit"
  /\ r.phase = "alert"
  /\ rows[r.file] # NoRow
  /\ alerts' = [alerts EXCEPT ![r.file] = Append(@, r.level)]
  /\ Step(e, RunAt("get", "alert", r.file))
  /\ UNCHANGED <<rows, fsVars, brokerVars>>

\* send_alert: the INSERT of the alert chosen from the loaded row is committed.
AddAlert(e) ==
  LET r == runs[e] IN
  /\ r.pc = "commit"
  /\ r.phase = "alert"
  /\ rows[r.file] # NoRow
  /\ alerts' = [alerts EXCEPT ![r.file] = Append(@, r.level)]
  /\ Step(e, Idle)
  /\ UNCHANGED <<rows, fsVars, brokerVars>>

\* The row was deleted since it was loaded: StaleDataError, or for an alert a
\* foreign-key violation.  When no modelled column changed, scan_details alone
\* decides whether there is an UPDATE to refuse.
CommitRefused(e) ==
  /\ runs[e].pc = "commit"
  /\ rows[runs[e].file] = NoRow
  /\ Step(e, Raised(e))
  /\ UNCHANGED <<dbVars, fsVars, brokerVars>>

\* A failing database or file access, with no effect of its own.
PhaseFails(e) ==
  /\ \/ runs[e].pc \in {"get", "commit"} /\ "db" \in Faults
     \/ runs[e].pc \in {"read", "parse"} /\ "fs" \in Faults
  /\ Step(e, Raised(e))
  /\ UNCHANGED <<dbVars, fsVars, brokerVars>>

\* The transaction commits, its acknowledgement is lost.
CommitUnconfirmed(e) ==
  LET r == runs[e] IN
  /\ "late" \in Faults
  /\ r.pc = "commit"
  /\ rows[r.file] # NoRow
  /\ IF r.phase = "alert"
     THEN /\ alerts' = [alerts EXCEPT ![r.file] = Append(@, r.level)]
          /\ UNCHANGED rows
     ELSE /\ rows' = RowsAfter(r.file, r.changes)
          /\ UNCHANGED alerts
  /\ Step(e, Raised(e))
  /\ UNCHANGED <<fsVars, brokerVars>>

-----------------------------------------------------------------------------
(* _mark_failed and the .delay() at the end of a task                        *)

\* mark_failed loads the row and assigns the failure to it.
MarkFailed(e) ==
  LET f == runs[e].file IN
  /\ runs[e].pc = "mark"
  /\ rows[f] # NoRow
  /\ Step(e, Assigned(runs[e], "save", rows[f], Failed(rows[f])))
  /\ UNCHANGED <<dbVars, fsVars, brokerVars>>

\* mark_failed commits.
SaveFailed(e) ==
  LET r == runs[e] IN
  /\ r.pc = "save"
  /\ Accepts(r.file, r.changes)
  /\ rows' = RowsAfter(r.file, r.changes)
  /\ Step(e, Marked(e))
  /\ UNCHANGED <<alerts, fsVars, brokerVars>>

\* mark_failed finds no row, or raises and is swallowed; the task goes on.
MarkIneffective(e) ==
  LET r == runs[e] IN
  /\ \/ r.pc = "mark" /\ rows[r.file] = NoRow
     \/ r.pc = "save" /\ ~Accepts(r.file, r.changes)
     \/ r.pc \in {"mark", "save"} /\ "db" \in Faults
  /\ Step(e, Marked(e))
  /\ UNCHANGED <<dbVars, fsVars, brokerVars>>

\* The task's last call: .delay() of the next task.
Publish(w) ==
  LET r == runs[w] IN
  /\ r.pc = "publish"
  /\ queue' = Sent([task |-> r.phase, file |-> r.file])
  /\ Step(w, Idle)
  /\ UNCHANGED <<dbVars, fsVars, redelivered>>

\* .delay() raises; it stands outside the try, so the task ends here.
PublishFails(w) ==
  /\ "publish_worker" \in Faults
  /\ runs[w].pc = "publish"
  /\ Step(w, Idle)
  /\ UNCHANGED <<dbVars, fsVars, brokerVars>>

\* The worker process dies: its message was acknowledged, its session rolls back.
WorkerCrash(w) ==
  /\ "worker_crash" \in Faults
  /\ runs[w] # Idle
  /\ Step(w, Idle)
  /\ UNCHANGED <<dbVars, fsVars, brokerVars>>

\* One step of the phase or task an executor is in.
RunStep(e) ==
  \/ GetItem(e)
  \/ GetNothing(e)
  \/ ReadHeader(e)
  \/ PathExists(e)
  \/ PathMissing(e)
  \/ ExtractCounters(e)
  \/ OpenFails(e)
  \/ CommitItem(e)
  \/ AddAlert(e)
  \/ CommitRefused(e)
  \/ PhaseFails(e)
  \/ CommitUnconfirmed(e)
  \/ MarkFailed(e)
  \/ SaveFailed(e)
  \/ MarkIneffective(e)
  \/ Publish(e)
  \/ PublishFails(e)
=============================================================================
