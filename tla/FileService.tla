----------------------------- MODULE FileService ----------------------------
(* The API requests that change state: upload (create, then enqueue_scan),   *)
(* rename and delete.  Requests are coroutines of one event loop, so a step  *)
(* runs from one await to the next.                                          *)
EXTENDS Processing

CONSTANT Requests   \* slots for requests in flight

VARIABLES
  reqs,     \* what each request is doing
  issued    \* uuids drawn so far

\* create: write (the temp file is being filled), insert (bytes committed, row
\* not), refresh, cleanup (the except branch), enqueue;
\* update_title: rename; delete: delete (row loaded), unlink (row committed gone).
RequestRecord ==
  [pc: {"write", "insert", "refresh", "cleanup", "enqueue",
        "rename", "delete", "unlink"},
   file: Files,
   item: Row \cup {NoRow},   \* create: the object to insert
   changes: Changes]        \* update_title: what the COMMIT will write

Request == {r \in RequestRecord : r.pc \in {"write", "insert"} => r.item # NoRow}

FileServiceTypeOK ==
  /\ reqs \in [Requests -> Request \cup {Idle}]
  /\ issued \subseteq Files

FileServiceInit ==
  /\ reqs = [c \in Requests |-> Idle]
  /\ issued = {}

RequestAt(pc, f) ==
  [pc |-> pc, file |-> f, item |-> NoRow, changes |-> NoChange]

Begin(c, request) == reqs' = [reqs EXCEPT ![c] = request]
Proceed(c, pc) == reqs' = [reqs EXCEPT ![c] = RequestAt(pc, reqs[c].file)]
Finish(c) == reqs' = [reqs EXCEPT ![c] = Idle]

-----------------------------------------------------------------------------
(* create                                                                    *)

\* A valid upload: draw an id, open the temporary file.
BeginCreate(c, f, kind, title) ==
  /\ reqs[c] = Idle
  /\ f \notin issued
  /\ issued' = issued \cup {f}
  /\ parts' = parts \cup {f}
  /\ Begin(c, [RequestAt("write", f) EXCEPT !.item = StoredFile(kind, title)])
  /\ UNCHANGED <<dbVars, disk, brokerVars, runs>>

\* Seeded bug: a failing upload leaves its temporary file.
WriteFailsLeaky(c) ==
  /\ reqs[c].pc = "write"
  /\ Finish(c)
  /\ UNCHANGED <<dbVars, fsVars, brokerVars, runs, issued>>

\* write_temp raises (empty, too large, client gone, I/O error) and unlinks.
WriteFails(c) ==
  LET f == reqs[c].file IN
  /\ reqs[c].pc = "write"
  /\ \/ parts' = parts \ {f}
     \/ "fs" \in Faults /\ parts' = parts
  /\ Finish(c)
  /\ UNCHANGED <<dbVars, disk, brokerVars, runs, issued>>

\* write_temp is done and storage.commit renames the file; no await between.
StoreBytes(c) ==
  LET f == reqs[c].file IN
  /\ reqs[c].pc = "write"
  /\ ~reqs[c].item.kind.long
  /\ parts' = parts \ {f}
  /\ disk' = disk \cup {f}
  /\ Begin(c, [reqs[c] EXCEPT !.pc = "insert"])
  /\ UNCHANGED <<dbVars, brokerVars, runs, issued>>

\* The rename raises; nobody discards the temporary file.
ReplaceFails(c) ==
  /\ reqs[c].pc = "write"
  /\ reqs[c].item.kind.long \/ "fs" \in Faults
  /\ Finish(c)
  /\ UNCHANGED <<dbVars, fsVars, brokerVars, runs, issued>>

\* The INSERT is committed.
InsertRow(c) ==
  /\ reqs[c].pc = "insert"
  /\ rows' = [rows EXCEPT ![reqs[c].file] = reqs[c].item]
  /\ Proceed(c, "refresh")
  /\ UNCHANGED <<alerts, fsVars, brokerVars, runs, issued>>

\* Seeded bug: no compensation after a failing INSERT.
InsertFailsWithoutCleanup(c) ==
  /\ reqs[c].pc = "insert"
  /\ "db" \in Faults
  /\ Finish(c)
  /\ UNCHANGED <<dbVars, fsVars, brokerVars, runs, issued>>

\* The INSERT or its COMMIT raises; with a late failure the row is there.
InsertFails(c) ==
  /\ reqs[c].pc = "insert"
  /\ \/ "db" \in Faults /\ rows' = rows
     \/ "late" \in Faults /\ rows' = [rows EXCEPT ![reqs[c].file] = reqs[c].item]
  /\ Proceed(c, "cleanup")
  /\ UNCHANGED <<alerts, fsVars, brokerVars, runs, issued>>

\* refresh(item) reads the row back.
RefreshItem(c) ==
  /\ reqs[c].pc = "refresh"
  /\ rows[reqs[c].file] # NoRow
  /\ Proceed(c, "enqueue")
  /\ UNCHANGED <<dbVars, fsVars, brokerVars, runs, issued>>

\* refresh(item) finds the row deleted by another request, or fails.
RefreshFails(c) ==
  /\ reqs[c].pc = "refresh"
  /\ rows[reqs[c].file] = NoRow \/ "late" \in Faults
  /\ Proceed(c, "cleanup")
  /\ UNCHANGED <<dbVars, fsVars, brokerVars, runs, issued>>

\* except BaseException: the stored bytes are deleted, the error re-raised.
Cleanup(c) ==
  /\ reqs[c].pc = "cleanup"
  /\ disk' = disk \ {reqs[c].file}
  /\ Finish(c)
  /\ UNCHANGED <<dbVars, parts, brokerVars, runs, issued>>

CleanupFails(c) ==
  /\ "fs" \in Faults
  /\ reqs[c].pc = "cleanup"
  /\ Finish(c)
  /\ UNCHANGED <<dbVars, fsVars, brokerVars, runs, issued>>

-----------------------------------------------------------------------------
(* enqueue_scan                                                              *)

ScanMessage(f) == [task |-> "scan", file |-> f]

EnqueueScan(c) ==
  /\ reqs[c].pc = "enqueue"
  /\ queue' = Sent(ScanMessage(reqs[c].file))
  /\ Finish(c)
  /\ UNCHANGED <<dbVars, fsVars, redelivered, runs, issued>>

\* .delay() raises: a daemon thread runs the pipeline inline.  The message may
\* have reached the broker all the same.
EnqueueFails(c) ==
  LET f == reqs[c].file IN
  /\ reqs[c].pc = "enqueue"
  /\ \/ "publish_api" \in Faults /\ queue' = queue
     \/ "publish_unsure" \in Faults /\ queue' = Sent(ScanMessage(f))
  /\ Step(f, RunAt("get", "scan", f))
  /\ Finish(c)
  /\ UNCHANGED <<dbVars, fsVars, redelivered, issued>>

-----------------------------------------------------------------------------
(* update_title                                                              *)

\* The row is loaded and the title assigned; no row is a 404.
BeginRename(c, f, title) ==
  /\ reqs[c] = Idle
  /\ rows[f] # NoRow
  /\ Begin(c, [RequestAt("rename", f) EXCEPT
                 !.changes = Dirty(rows[f], [rows[f] EXCEPT !.title = title])])
  /\ UNCHANGED <<dbVars, fsVars, brokerVars, runs, issued>>

\* COMMIT; the refresh after it changes only the response.
SaveTitle(c) ==
  LET r == reqs[c] IN
  /\ r.pc = "rename"
  /\ Accepts(r.file, r.changes)
  /\ rows' = RowsAfter(r.file, r.changes)
  /\ Finish(c)
  /\ UNCHANGED <<alerts, fsVars, brokerVars, runs, issued>>

\* The row was deleted meanwhile, or the database fails.
RenameFails(c) ==
  LET r == reqs[c] IN
  /\ r.pc = "rename"
  /\ ~Accepts(r.file, r.changes) \/ "db" \in Faults
  /\ Finish(c)
  /\ UNCHANGED <<dbVars, fsVars, brokerVars, runs, issued>>

-----------------------------------------------------------------------------
(* delete                                                                    *)

\* Seeded bug: the bytes are removed before the row.
BytesFirst(c, f) ==
  /\ reqs[c] = Idle
  /\ rows[f] # NoRow
  /\ disk' = disk \ {f}
  /\ Begin(c, RequestAt("delete", f))
  /\ UNCHANGED <<dbVars, parts, brokerVars, runs, issued>>

\* The row is loaded; no row is a 404.
BeginDelete(c, f) ==
  /\ reqs[c] = Idle
  /\ rows[f] # NoRow
  /\ Begin(c, RequestAt("delete", f))
  /\ UNCHANGED <<dbVars, fsVars, brokerVars, runs, issued>>

\* The DELETE is committed, the alerts go with the row.
DeleteRow(c) ==
  /\ reqs[c].pc = "delete"
  /\ DeleteWithAlerts(reqs[c].file)
  /\ Proceed(c, "unlink")
  /\ UNCHANGED <<fsVars, brokerVars, runs, issued>>

\* The DELETE or its COMMIT raises and the bytes are not touched.
DeleteFails(c) ==
  /\ reqs[c].pc = "delete"
  /\ \/ "db" \in Faults /\ UNCHANGED dbVars
     \/ "late" \in Faults /\ DeleteWithAlerts(reqs[c].file)
  /\ Finish(c)
  /\ UNCHANGED <<fsVars, brokerVars, runs, issued>>

\* storage.delete after the row is gone; missing bytes are fine.
Unlink(c) ==
  /\ reqs[c].pc = "unlink"
  /\ disk' = disk \ {reqs[c].file}
  /\ Finish(c)
  /\ UNCHANGED <<dbVars, parts, brokerVars, runs, issued>>

\* storage.delete raises and the error is logged.
UnlinkFails(c) ==
  /\ "fs" \in Faults
  /\ reqs[c].pc = "unlink"
  /\ Finish(c)
  /\ UNCHANGED <<dbVars, fsVars, brokerVars, runs, issued>>

-----------------------------------------------------------------------------

\* A client starts a request.
BeginRequest(c) ==
  \E f \in Files :
    \/ \E kind \in Kinds, title \in Titles : BeginCreate(c, f, kind, title)
    \/ \E title \in Titles : BeginRename(c, f, title)
    \/ BeginDelete(c, f)

\* A request in flight takes its next step.
RequestStep(c) ==
  \/ WriteFails(c)
  \/ StoreBytes(c)
  \/ ReplaceFails(c)
  \/ InsertRow(c)
  \/ InsertFails(c)
  \/ RefreshItem(c)
  \/ RefreshFails(c)
  \/ Cleanup(c)
  \/ CleanupFails(c)
  \/ EnqueueScan(c)
  \/ EnqueueFails(c)
  \/ SaveTitle(c)
  \/ RenameFails(c)
  \/ DeleteRow(c)
  \/ DeleteFails(c)
  \/ Unlink(c)
  \/ UnlinkFails(c)
=============================================================================
