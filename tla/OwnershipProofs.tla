-------------------------- MODULE OwnershipProofs ---------------------------
(* Theorems about rows, alerts and bytes.  They rest on who may work on a    *)
(* file: until its upload has inserted the row, only that upload does.       *)
EXTENDS FileSharingProofs

-----------------------------------------------------------------------------
(* The inductive invariants                                                  *)

\* Rows and requests use only ids that were drawn.
RowsIssued == \A f \in Files : rows[f] # NoRow => f \in issued
RequestsIssued == \A c \in Requests : reqs[c].pc # "idle" => reqs[c].file \in issued

\* An upload whose row is not in is alone on its file.
UploadsAlone ==
  \A c \in Requests : reqs[c].pc \in {"write", "insert"} =>
    /\ rows[reqs[c].file] = NoRow
    /\ \A d \in Requests : d # c /\ reqs[d].pc # "idle" => reqs[d].file # reqs[c].file

Ownership == RowsIssued /\ RequestsIssued /\ UploadsAlone

\* The bytes are stored before the row is inserted, and removed after it went.
BytesBeforeRow ==
  \A c \in Requests : reqs[c].pc = "insert" => reqs[c].file \in disk
RemovalAfterRow ==
  \A c \in Requests : reqs[c].pc \in {"cleanup", "unlink"} => rows[reqs[c].file] = NoRow

BytesSafe == BytesBeforeRow /\ RemovalAfterRow /\ RowsHaveBytes

-----------------------------------------------------------------------------
(* What the steps outside the requests do                                    *)

Background ==
  \/ \E w \in Workers, m \in Message : ReceiveTask(w, m) /\ UNCHANGED requestVars
  \/ \E e \in Executors : RunStep(e) /\ UNCHANGED requestVars
  \/ \E w \in Workers : WorkerCrash(w) /\ UNCHANGED requestVars
  \/ \E m \in Message : Redeliver(m) /\ UNCHANGED <<runs, requestVars>>
  \/ ApiCrash
  \/ UNCHANGED vars

\* A step is a request's or a background step.
LEMMA NextSplit ==
  ASSUME [Next]_vars
  PROVE  \/ \E c \in Requests : BeginRequest(c) \/ RequestStep(c)
         \/ Background
BY DEF Next, Background

\* A pipeline step updates at most the row it loaded, or adds one alert to a
\* row that is there, and never touches the storage directory.
LEMMA RunStepEffect ==
  ASSUME NEW e \in Executors, RunStep(e)
  PROVE  /\ UNCHANGED fsVars
         /\ \/ UNCHANGED dbVars
            \/ /\ runs[e].pc \in {"commit", "save"}
               /\ rows' = RowsAfter(runs[e].file, runs[e].changes)
               /\ UNCHANGED alerts
            \/ /\ runs[e].pc = "commit" /\ runs[e].phase = "alert"
               /\ UNCHANGED rows
               /\ rows[runs[e].file] # NoRow
               /\ alerts' = [alerts EXCEPT ![runs[e].file] = Append(@, runs[e].level)]
<1>1. CASE GetItem(e) \/ GetNothing(e) \/ ReadHeader(e) \/ PathExists(e) \/ PathMissing(e)
  BY <1>1 DEF GetItem, GetNothing, ReadHeader, PathExists, PathMissing
<1>2. CASE ExtractCounters(e) \/ OpenFails(e) \/ CommitRefused(e) \/ PhaseFails(e)
  BY <1>2 DEF ExtractCounters, OpenFails, CommitRefused, PhaseFails
<1>3. CASE CommitItem(e) \/ SaveFailed(e)
  BY <1>3 DEF CommitItem, SaveFailed
<1>4. CASE AddAlert(e)
  BY <1>4 DEF AddAlert
<1>5. CASE CommitUnconfirmed(e)
  BY <1>5 DEF CommitUnconfirmed
<1>6. CASE MarkFailed(e) \/ MarkIneffective(e) \/ Publish(e) \/ PublishFails(e)
  BY <1>6 DEF MarkFailed, MarkIneffective, Publish, PublishFails
<1> QED BY <1>1, <1>2, <1>3, <1>4, <1>5, <1>6 DEF RunStep

\* Outside the requests no row appears or goes, no byte is stored or removed,
\* and no request goes on: it stays, or is lost with the API process.
LEMMA BackgroundEffect ==
  ASSUME TypeOK, Background
  PROVE  /\ \A f \in Files : rows'[f] = NoRow <=> rows[f] = NoRow
         /\ \A f \in Files : alerts'[f] # <<>> => alerts[f] # <<>> \/ rows[f] # NoRow
         /\ UNCHANGED <<disk, parts, issued>>
         /\ \A c \in Requests : reqs'[c] = reqs[c] \/ reqs'[c] = Idle
<1>0. /\ rows \in [Files -> Row \cup {NoRow}]
      /\ alerts \in [Files -> Seq(AlertLevel)]
      /\ reqs \in [Requests -> Request \cup {Idle}]
  BY DEF TypeOK, InfrastructureTypeOK, FileServiceTypeOK
<1>1. ASSUME NEW e \in Executors, RunStep(e), UNCHANGED requestVars
      PROVE  /\ \A f \in Files : rows'[f] = NoRow <=> rows[f] = NoRow
             /\ \A f \in Files : alerts'[f] # <<>> => alerts[f] # <<>> \/ rows[f] # NoRow
             /\ UNCHANGED <<disk, parts, issued, reqs>>
  <2>1. CASE UNCHANGED dbVars
    BY <2>1, <1>1, RunStepEffect DEF dbVars, fsVars, requestVars
  <2>2. CASE /\ runs[e].pc \in {"commit", "save"}
             /\ rows' = RowsAfter(runs[e].file, runs[e].changes)
             /\ UNCHANGED alerts
    <3>1. runs[e].file \in Files /\ runs[e].changes \in Changes
      BY <2>2, BusyRun DEF TypeOK, Run, RunRecord
    <3> QED BY <3>1, <2>2, <1>0, <1>1, RunStepEffect, RowsAfterType DEF fsVars, requestVars
  <2>3. CASE /\ runs[e].pc = "commit"
             /\ UNCHANGED rows
             /\ rows[runs[e].file] # NoRow
             /\ alerts' = [alerts EXCEPT ![runs[e].file] = Append(@, runs[e].level)]
    BY <2>3, <1>0, <1>1, RunStepEffect DEF fsVars, requestVars
  <2> QED BY <2>1, <2>2, <2>3, <1>1, RunStepEffect
<1>2. CASE ApiCrash
  BY <1>2, <1>0 DEF ApiCrash, dbVars, fsVars
<1>3. CASE \E w \in Workers, m \in Message : ReceiveTask(w, m) /\ UNCHANGED requestVars
  BY <1>3, <1>0 DEF ReceiveTask, dbVars, fsVars, requestVars
<1>4. CASE \E w \in Workers : WorkerCrash(w) /\ UNCHANGED requestVars
  BY <1>4, <1>0 DEF WorkerCrash, dbVars, fsVars, requestVars
<1>5. CASE \E m \in Message : Redeliver(m) /\ UNCHANGED <<runs, requestVars>>
  BY <1>5, <1>0 DEF Redeliver, dbVars, fsVars, requestVars
<1>6. CASE UNCHANGED vars
  BY <1>6, <1>0 DEF vars, dbVars, fsVars
<1> QED BY <1>1, <1>2, <1>3, <1>4, <1>5, <1>6 DEF Background

-----------------------------------------------------------------------------
(* Ownership                                                                 *)

\* Rows appear only by the INSERT of request c.
NewRowsBy(c) ==
  \A f \in Files : rows'[f] # NoRow =>
    rows[f] # NoRow \/ (f = reqs[c].file /\ reqs[c].pc = "insert")

\* A request makes no other row appear, not even by committing a rename of a
\* row that was deleted meanwhile.
LEMMA RequestMakesRows ==
  ASSUME TypeOK, NEW c \in Requests, RequestStep(c)
  PROVE  NewRowsBy(c)
<1> DEFINE file == reqs[c].file
<1>0. /\ rows \in [Files -> Row \cup {NoRow}]
      /\ reqs[c].pc # "idle" => file \in Files /\ reqs[c].changes \in Changes
  BY SlotType DEF TypeOK, InfrastructureTypeOK, Request, RequestRecord
<1>1. CASE rows' = rows
  BY <1>1 DEF NewRowsBy
<1>2. CASE InsertRow(c) \/ InsertFails(c)
  <2>1. /\ reqs[c].pc = "insert"
        /\ rows' = rows \/ rows' = [rows EXCEPT ![file] = reqs[c].item]
    BY <1>2 DEF InsertRow, InsertFails
  <2> QED BY <2>1, <1>0 DEF NewRowsBy
<1>3. CASE SaveTitle(c)
  <2>1. reqs[c].pc = "rename" /\ rows' = RowsAfter(file, reqs[c].changes)
    BY <1>3 DEF SaveTitle
  <2> QED BY <2>1, <1>0, RowsAfterType DEF NewRowsBy
<1>4. CASE DeleteRow(c) \/ DeleteFails(c)
  <2>1. rows' = rows \/ rows' = [rows EXCEPT ![file] = NoRow]
    BY <1>4 DEF DeleteRow, DeleteFails, DeleteWithAlerts, dbVars
  <2> QED BY <2>1, <1>0 DEF NewRowsBy
<1>5. CASE \/ WriteFails(c) \/ StoreBytes(c) \/ ReplaceFails(c) \/ RefreshItem(c)
           \/ RefreshFails(c) \/ Cleanup(c) \/ CleanupFails(c) \/ EnqueueScan(c)
           \/ EnqueueFails(c) \/ RenameFails(c) \/ Unlink(c) \/ UnlinkFails(c)
  <2>1. rows' = rows
    BY <1>5 DEF WriteFails, StoreBytes, ReplaceFails, RefreshItem, RefreshFails, Cleanup,
                CleanupFails, EnqueueScan, EnqueueFails, RenameFails, Unlink, UnlinkFails, dbVars
  <2> QED BY <2>1, <1>1
<1> QED BY <1>2, <1>3, <1>4, <1>5 DEF RequestStep

\* What keeps the invariant when one request moves: it goes idle or stays on its
\* file without going back to its upload, and only an upload about to insert
\* makes a row appear.
LEMMA OwnershipKept ==
  ASSUME TypeOK, Ownership, NEW c \in Requests, NEW r,
         reqs[c].pc # "idle",
         reqs' = [reqs EXCEPT ![c] = r],
         r = Idle \/ r.file = reqs[c].file,
         r.pc \in {"write", "insert"} =>
           reqs[c].pc \in {"write", "insert"} /\ rows'[reqs[c].file] = NoRow,
         NewRowsBy(c),
         issued' = issued
  PROVE  Ownership'
<1>0. /\ reqs \in [Requests -> Request \cup {Idle}]
      /\ \A d \in Requests : reqs[d].pc # "idle" => reqs[d].file \in Files
  BY SlotType DEF TypeOK, FileServiceTypeOK
<1>1. RowsIssued' /\ RequestsIssued'
  BY <1>0 DEF Ownership, RowsIssued, RequestsIssued, Idle, NewRowsBy
<1>2. UploadsAlone'
  <2> SUFFICES ASSUME NEW u \in Requests, reqs'[u].pc \in {"write", "insert"}
               PROVE  /\ rows'[reqs'[u].file] = NoRow
                      /\ \A d \in Requests : d # u /\ reqs'[d].pc # "idle"
                           => reqs'[d].file # reqs'[u].file
    BY DEF UploadsAlone
  <2>1. reqs[u].pc \in {"write", "insert"} /\ reqs'[u].file = reqs[u].file
    BY <1>0 DEF Idle
  <2>2. \A d \in Requests : reqs'[d].pc # "idle"
          => reqs[d].pc # "idle" /\ reqs'[d].file = reqs[d].file
    BY <1>0 DEF Idle
  <2>3. rows'[reqs'[u].file] = NoRow
    BY <1>0, <2>1 DEF Ownership, UploadsAlone, NewRowsBy
  <2> QED BY <2>1, <2>2, <2>3 DEF Ownership, UploadsAlone
<1> QED BY <1>1, <1>2 DEF Ownership

\* Request c ends, or stays on its file past its INSERT.
Continues(c) ==
  \/ Finish(c)
  \/ Proceed(c, "refresh")
  \/ Proceed(c, "cleanup")
  \/ Proceed(c, "enqueue")
  \/ Proceed(c, "unlink")

\* A request in flight keeps ownership.
LEMMA RequestStepOwnership ==
  ASSUME TypeOK, Ownership, NEW c \in Requests, RequestStep(c)
  PROVE  Ownership'
<1> DEFINE f == reqs[c].file
<1>0. NewRowsBy(c)
  BY RequestMakesRows
<1>a. ASSUME reqs[c].pc # "idle", Continues(c), issued' = issued
      PROVE  Ownership'
  <2>1. CASE Finish(c)
    BY <2>1, <1>0, <1>a, OwnershipKept DEF Finish, Idle
  <2>2. ASSUME NEW pc \in {"refresh", "cleanup", "enqueue", "unlink"}, Proceed(c, pc)
        PROVE  Ownership'
    <3>1. RequestAt(pc, f).file = f /\ RequestAt(pc, f).pc \notin {"write", "insert"}
      BY DEF RequestAt
    <3> QED BY <3>1, <2>2, <1>0, <1>a, OwnershipKept DEF Proceed
  <2> QED BY <2>1, <2>2, <1>a DEF Continues
<1>1. CASE StoreBytes(c)
  <2> DEFINE r == [reqs[c] EXCEPT !.pc = "insert"]
  <2>1. /\ reqs[c].pc = "write" /\ reqs' = [reqs EXCEPT ![c] = r]
        /\ rows' = rows /\ issued' = issued
    BY <1>1 DEF StoreBytes, Begin, dbVars
  <2>2. rows'[f] = NoRow
    BY <2>1 DEF Ownership, UploadsAlone
  <2>3. r.file = f
    BY <2>1, SlotType DEF TypeOK, Request, RequestRecord
  <2> HIDE DEF r
  <2> QED BY <2>1, <2>2, <2>3, <1>0, OwnershipKept
<1>2. CASE \/ WriteFails(c) \/ ReplaceFails(c) \/ InsertRow(c) \/ InsertFails(c)
           \/ RefreshItem(c) \/ RefreshFails(c) \/ Cleanup(c) \/ CleanupFails(c)
           \/ EnqueueScan(c) \/ EnqueueFails(c)
  <2>1. reqs[c].pc # "idle" /\ Continues(c) /\ issued' = issued
    BY <1>2 DEF WriteFails, ReplaceFails, InsertRow, InsertFails, RefreshItem, RefreshFails,
                Cleanup, CleanupFails, EnqueueScan, EnqueueFails, Continues
  <2> QED BY <2>1, <1>a
<1>3. CASE \/ SaveTitle(c) \/ RenameFails(c) \/ DeleteRow(c) \/ DeleteFails(c)
           \/ Unlink(c) \/ UnlinkFails(c)
  <2>1. reqs[c].pc # "idle" /\ Continues(c) /\ issued' = issued
    BY <1>3 DEF SaveTitle, RenameFails, DeleteRow, DeleteFails, Unlink, UnlinkFails, Continues
  <2> QED BY <2>1, <1>a
<1> QED BY <1>1, <1>2, <1>3 DEF RequestStep

\* A request that starts takes a fresh id, or a row whose upload is past its INSERT.
LEMMA BeginRequestOwnership ==
  ASSUME TypeOK, Ownership, NEW c \in Requests, BeginRequest(c)
  PROVE  Ownership'
<1>0. /\ reqs \in [Requests -> Request \cup {Idle}]
      /\ rows \in [Files -> Row \cup {NoRow}]
  BY DEF TypeOK, FileServiceTypeOK, InfrastructureTypeOK
<1>1. ASSUME NEW f \in Files, NEW kind \in Kinds, NEW title \in Titles,
             BeginCreate(c, f, kind, title)
      PROVE  Ownership'
  <2> DEFINE r == [RequestAt("write", f) EXCEPT !.item = StoredFile(kind, title)]
  <2>1. /\ reqs[c] = Idle /\ f \notin issued /\ issued' = issued \cup {f}
        /\ reqs' = [reqs EXCEPT ![c] = r] /\ rows' = rows
    BY <1>1 DEF BeginCreate, Begin, dbVars
  <2>2. r.pc = "write" /\ r.file = f
    BY DEF RequestAt
  <2> HIDE DEF r
  <2>3. rows[f] = NoRow
    BY <2>1 DEF Ownership, RowsIssued
  <2>4. \A d \in Requests : d # c => reqs'[d] = reqs[d]
    BY <2>1, <1>0
  <2>5. reqs'[c] = r
    BY <2>1, <1>0
  <2>6. RowsIssued' /\ RequestsIssued'
    BY <2>1, <2>2, <2>4, <2>5 DEF Ownership, RowsIssued, RequestsIssued
  <2>7. UploadsAlone'
    BY <2>1, <2>2, <2>3, <2>4, <2>5 DEF Ownership, RequestsIssued, UploadsAlone
  <2> QED BY <2>6, <2>7 DEF Ownership
<1>2. ASSUME NEW f \in Files, rows[f] # NoRow, NEW r, r.file = f,
             r.pc \notin {"write", "insert"},
             reqs[c] = Idle, Begin(c, r), UNCHANGED <<rows, issued>>
      PROVE  Ownership'
  <2>1. f \in issued
    BY <1>2 DEF Ownership, RowsIssued
  <2>2. \A d \in Requests : d # c => reqs'[d] = reqs[d]
    BY <1>2, <1>0 DEF Begin
  <2>3. reqs'[c] = r
    BY <1>2, <1>0 DEF Begin
  <2>4. RowsIssued' /\ RequestsIssued'
    BY <2>1, <2>2, <2>3, <1>2 DEF Ownership, RowsIssued, RequestsIssued
  <2>5. UploadsAlone'
    BY <2>2, <2>3, <1>2 DEF Ownership, UploadsAlone
  <2> QED BY <2>4, <2>5 DEF Ownership
<1>3. ASSUME NEW f \in Files, NEW title \in Titles, BeginRename(c, f, title)
      PROVE  Ownership'
  <2> DEFINE r == [RequestAt("rename", f) EXCEPT
                     !.changes = Dirty(rows[f], [rows[f] EXCEPT !.title = title])]
  <2>1. r.file = f /\ r.pc = "rename"
    BY DEF RequestAt
  <2>2. rows[f] # NoRow /\ reqs[c] = Idle /\ Begin(c, r) /\ UNCHANGED <<rows, issued>>
    BY <1>3 DEF BeginRename, dbVars
  <2> HIDE DEF r
  <2> QED BY <2>1, <2>2, <1>2
<1>4. ASSUME NEW f \in Files, BeginDelete(c, f)
      PROVE  Ownership'
  <2>1. RequestAt("delete", f).file = f /\ RequestAt("delete", f).pc = "delete"
    BY DEF RequestAt
  <2> QED BY <2>1, <1>2, <1>4 DEF BeginDelete, dbVars
<1> QED BY <1>1, <1>3, <1>4 DEF BeginRequest

\* Ownership is an invariant, whatever the faults.
LEMMA OwnershipInvariant == Spec => [](TypeOK /\ Ownership)
<1>1. Init => TypeOK /\ Ownership
  <2> SUFFICES ASSUME Init PROVE Ownership
    BY InitType
  <2> QED BY DEF Init, InfrastructureInit, FileServiceInit, Ownership,
                 RowsIssued, RequestsIssued, UploadsAlone, Idle
<1>2. TypeOK /\ Ownership /\ [Next]_vars => (TypeOK /\ Ownership)'
  <2> SUFFICES ASSUME TypeOK, Ownership, [Next]_vars PROVE Ownership'
    BY NextType
  <2>1. CASE Background
    <3>0. \A d \in Requests : reqs[d].pc # "idle" => reqs[d].file \in Files
      BY SlotType DEF TypeOK
    <3>1. /\ \A f \in Files : rows'[f] = NoRow <=> rows[f] = NoRow
          /\ \A c \in Requests : reqs'[c] = reqs[c] \/ reqs'[c] = Idle
          /\ issued' = issued
      BY <2>1, BackgroundEffect
    <3> QED BY <3>0, <3>1 DEF Ownership, RowsIssued, RequestsIssued, UploadsAlone, Idle
  <2> QED BY <2>1, NextSplit, RequestStepOwnership, BeginRequestOwnership
<1> QED BY <1>1, <1>2, PTL DEF Spec

-----------------------------------------------------------------------------
(* Alerts and rows                                                           *)

\* A request adds no alert; if it removes a row, the alerts go with it.
LEMMA RequestKeepsAlerts ==
  ASSUME TypeOK, Ownership, AlertsHaveRow, NEW c \in Requests,
         BeginRequest(c) \/ RequestStep(c)
  PROVE  AlertsHaveRow'
<1> DEFINE file == reqs[c].file
<1>0. /\ rows \in [Files -> Row \cup {NoRow}]
      /\ alerts \in [Files -> Seq(AlertLevel)]
      /\ reqs[c].pc # "idle" => /\ file \in Files
                                /\ reqs[c].changes \in Changes
                                /\ reqs[c] \in Request
  BY SlotType DEF TypeOK, InfrastructureTypeOK, Request, RequestRecord
<1>1. CASE UNCHANGED dbVars
  BY <1>1 DEF dbVars, AlertsHaveRow
<1>2. CASE InsertRow(c) \/ InsertFails(c)
  <2>1. /\ reqs[c].pc = "insert" /\ alerts' = alerts
        /\ rows' = rows \/ rows' = [rows EXCEPT ![file] = reqs[c].item]
    BY <1>2 DEF InsertRow, InsertFails
  <2>2. reqs[c].item # NoRow
    BY <2>1, <1>0 DEF Request
  <2> QED BY <2>1, <2>2, <1>0 DEF AlertsHaveRow
<1>3. CASE SaveTitle(c)
  <2>1. /\ reqs[c].pc = "rename" /\ alerts' = alerts
        /\ rows' = RowsAfter(file, reqs[c].changes)
    BY <1>3 DEF SaveTitle
  <2> QED BY <2>1, <1>0, RowsAfterType DEF AlertsHaveRow
<1>4. CASE DeleteRow(c) \/ DeleteFails(c)
  <2>1. reqs[c].pc = "delete" /\ (UNCHANGED dbVars \/ DeleteWithAlerts(file))
    BY <1>4 DEF DeleteRow, DeleteFails
  <2> QED BY <2>1, <1>0, <1>1 DEF DeleteWithAlerts, AlertsHaveRow
<1>5. CASE BeginRequest(c)
  <2>1. UNCHANGED dbVars
    BY <1>5 DEF BeginRequest, BeginCreate, BeginRename, BeginDelete
  <2> QED BY <2>1, <1>1
<1>6. CASE \/ WriteFails(c) \/ StoreBytes(c) \/ ReplaceFails(c) \/ RefreshItem(c)
           \/ RefreshFails(c) \/ Cleanup(c) \/ CleanupFails(c) \/ EnqueueScan(c)
           \/ EnqueueFails(c) \/ RenameFails(c) \/ Unlink(c) \/ UnlinkFails(c)
  <2>1. UNCHANGED dbVars
    BY <1>6 DEF WriteFails, StoreBytes, ReplaceFails, RefreshItem, RefreshFails, Cleanup,
                CleanupFails, EnqueueScan, EnqueueFails, RenameFails, Unlink, UnlinkFails
  <2> QED BY <2>1, <1>1
<1> QED BY <1>2, <1>3, <1>4, <1>5, <1>6 DEF RequestStep

\* However sends and deletes of alerts interleave, and whatever fails, an alert
\* never outlives its file's row.
THEOREM AlertsAlwaysHaveRow == Spec => []AlertsHaveRow
<1>1. Init => AlertsHaveRow
  BY DEF Init, InfrastructureInit, AlertsHaveRow
<1>2. TypeOK /\ Ownership /\ AlertsHaveRow /\ [Next]_vars => AlertsHaveRow'
  <2> SUFFICES ASSUME TypeOK, Ownership, AlertsHaveRow, [Next]_vars
               PROVE  AlertsHaveRow'
    OBVIOUS
  <2>1. CASE Background
    BY <2>1, BackgroundEffect DEF AlertsHaveRow
  <2> QED BY <2>1, NextSplit, RequestKeepsAlerts
<1> QED BY <1>1, <1>2, OwnershipInvariant, PTL DEF Spec

-----------------------------------------------------------------------------
(* Rows and bytes                                                            *)

\* A step of request c on its own file: what must be left behind for the row and
\* the bytes to stay together.
LEMMA BytesSafeKept ==
  ASSUME TypeOK, Ownership, BytesSafe, NEW c \in Requests, NEW r,
         reqs[c].pc # "idle",
         reqs' = [reqs EXCEPT ![c] = r],
         r = Idle \/ r.file = reqs[c].file,
         r.pc = "insert" => reqs[c].file \in disk',
         r.pc \in {"cleanup", "unlink"} => rows'[reqs[c].file] = NoRow,
         NewRowsBy(c),
         disk' = disk
           \/ (reqs[c].pc = "write" /\ disk' = disk \cup {reqs[c].file})
           \/ (reqs[c].pc \in {"cleanup", "unlink"} /\ disk' = disk \ {reqs[c].file}
               /\ rows' = rows)
  PROVE  BytesSafe'
<1>0. /\ reqs \in [Requests -> Request \cup {Idle}]
      /\ \A d \in Requests : reqs[d].pc # "idle" => reqs[d].file \in Files
  BY SlotType DEF TypeOK, FileServiceTypeOK
<1>1. \A d \in Requests : reqs'[d].pc # "idle"
        => reqs[d].pc # "idle" /\ reqs'[d].file = reqs[d].file
  BY <1>0 DEF Idle
<1>2. \A d \in Requests : d # c => reqs'[d] = reqs[d]
  BY <1>0
<1>3. BytesBeforeRow'
  <2> SUFFICES ASSUME NEW d \in Requests, reqs'[d].pc = "insert"
               PROVE  reqs'[d].file \in disk'
    BY DEF BytesBeforeRow
  <2>1. CASE d = c
    BY <2>1, <1>0, <1>1
  <2>2. CASE d # c
    <3>1. reqs[d].pc = "insert" /\ reqs'[d] = reqs[d] /\ reqs[d].file \in disk
      BY <2>2, <1>2 DEF BytesSafe, BytesBeforeRow
    <3>2. reqs[c].file # reqs[d].file
      BY <2>2, <3>1 DEF Ownership, UploadsAlone
    <3> QED BY <3>1, <3>2
  <2> QED BY <2>1, <2>2
<1>4. RemovalAfterRow'
  <2> SUFFICES ASSUME NEW d \in Requests, reqs'[d].pc \in {"cleanup", "unlink"}
               PROVE  rows'[reqs'[d].file] = NoRow
    BY DEF RemovalAfterRow
  <2>1. CASE d = c
    BY <2>1, <1>0, <1>1
  <2>2. CASE d # c
    <3>1. reqs'[d] = reqs[d] /\ reqs[d].pc # "idle" /\ rows[reqs[d].file] = NoRow
      BY <2>2, <1>2 DEF BytesSafe, RemovalAfterRow
    <3>2. reqs[c].pc = "insert" => reqs[c].file # reqs[d].file
      BY <2>2, <3>1 DEF Ownership, UploadsAlone
    <3> QED BY <3>1, <3>2, <1>0 DEF NewRowsBy
  <2> QED BY <2>1, <2>2
<1>5. RowsHaveBytes'
  <2> SUFFICES ASSUME NEW f \in Files, rows'[f] # NoRow PROVE f \in disk'
    BY DEF RowsHaveBytes
  <2>1. f \in disk
    BY DEF NewRowsBy, BytesSafe, BytesBeforeRow, RowsHaveBytes
  <2>2. CASE reqs[c].pc \in {"cleanup", "unlink"} /\ rows' = rows
    BY <2>1, <2>2 DEF BytesSafe, RemovalAfterRow
  <2> QED BY <2>1, <2>2
<1> QED BY <1>3, <1>4, <1>5 DEF BytesSafe

\* Unless a failure is seen only after the COMMIT, requests keep rows and bytes together.
LEMMA RequestKeepsBytes ==
  ASSUME "late" \notin Faults, TypeOK, Ownership, BytesSafe, NEW c \in Requests,
         RequestStep(c)
  PROVE  BytesSafe'
<1> DEFINE f == reqs[c].file
<1>0. NewRowsBy(c)
  BY RequestMakesRows
<1>a. ASSUME reqs[c].pc # "idle",
             \/ Finish(c)
             \/ Proceed(c, "refresh")
             \/ Proceed(c, "enqueue")
             \/ (Proceed(c, "cleanup") \/ Proceed(c, "unlink")) /\ rows'[f] = NoRow,
             disk' = disk
               \/ (reqs[c].pc \in {"cleanup", "unlink"} /\ disk' = disk \ {f} /\ rows' = rows)
      PROVE  BytesSafe'
  <2>1. CASE Finish(c)
    BY <2>1, <1>0, <1>a, BytesSafeKept DEF Finish, Idle
  <2>2. ASSUME NEW pc \in {"refresh", "enqueue", "cleanup", "unlink"}, Proceed(c, pc),
               pc \in {"cleanup", "unlink"} => rows'[f] = NoRow
        PROVE  BytesSafe'
    <3>1. RequestAt(pc, f).file = f /\ RequestAt(pc, f).pc = pc
      BY DEF RequestAt
    <3> QED BY <3>1, <2>2, <1>0, <1>a, BytesSafeKept DEF Proceed
  <2> QED BY <2>1, <2>2, <1>a
<1>1. CASE \/ WriteFails(c) \/ ReplaceFails(c) \/ CleanupFails(c) \/ EnqueueScan(c)
           \/ EnqueueFails(c) \/ SaveTitle(c) \/ RenameFails(c) \/ DeleteFails(c)
           \/ UnlinkFails(c)
  <2>1. reqs[c].pc # "idle" /\ Finish(c) /\ disk' = disk
    BY <1>1 DEF WriteFails, ReplaceFails, CleanupFails, EnqueueScan, EnqueueFails, SaveTitle,
                RenameFails, DeleteFails, UnlinkFails, fsVars
  <2> QED BY <2>1, <1>a
<1>2. CASE StoreBytes(c)
  <2> DEFINE r == [reqs[c] EXCEPT !.pc = "insert"]
  <2>1. /\ reqs[c].pc = "write" /\ reqs' = [reqs EXCEPT ![c] = r]
        /\ rows' = rows /\ disk' = disk \cup {f}
    BY <1>2 DEF StoreBytes, Begin, dbVars
  <2>2. r.file = f /\ r.pc = "insert"
    BY <2>1, SlotType DEF TypeOK, Request, RequestRecord
  <2> HIDE DEF r
  <2> QED BY <2>1, <2>2, <1>0, BytesSafeKept
<1>3. CASE InsertRow(c) \/ RefreshItem(c)
  <2>1. /\ reqs[c].pc # "idle" /\ disk' = disk
        /\ Proceed(c, "refresh") \/ Proceed(c, "enqueue")
    BY <1>3 DEF InsertRow, RefreshItem, fsVars
  <2> QED BY <2>1, <1>a
<1>4. CASE InsertFails(c)
  <2>1. reqs[c].pc = "insert" /\ Proceed(c, "cleanup") /\ disk' = disk /\ rows' = rows
    BY <1>4 DEF InsertFails, fsVars
  <2>2. rows'[f] = NoRow
    BY <2>1 DEF Ownership, UploadsAlone
  <2> QED BY <2>1, <2>2, <1>a
<1>5. CASE RefreshFails(c)
  <2>1. /\ reqs[c].pc = "refresh" /\ Proceed(c, "cleanup") /\ disk' = disk
        /\ rows' = rows /\ rows[f] = NoRow
    BY <1>5 DEF RefreshFails, fsVars, dbVars
  <2> QED BY <2>1, <1>a
<1>6. CASE Cleanup(c) \/ Unlink(c)
  <2>1. /\ reqs[c].pc \in {"cleanup", "unlink"} /\ Finish(c)
        /\ disk' = disk \ {f} /\ rows' = rows
    BY <1>6 DEF Cleanup, Unlink, dbVars
  <2> QED BY <2>1, <1>a
<1>7. CASE DeleteRow(c)
  <2>1. /\ reqs[c].pc = "delete" /\ Proceed(c, "unlink") /\ disk' = disk
        /\ rows' = [rows EXCEPT ![f] = NoRow]
    BY <1>7 DEF DeleteRow, DeleteWithAlerts, fsVars
  <2>2. f \in Files /\ rows \in [Files -> Row \cup {NoRow}]
    BY <2>1, SlotType DEF TypeOK, InfrastructureTypeOK
  <2> QED BY <2>1, <2>2, <1>a
<1> QED BY <1>1, <1>2, <1>3, <1>4, <1>5, <1>6, <1>7 DEF RequestStep

\* A request that starts touches neither rows nor bytes.
LEMMA BeginRequestKeepsBytes ==
  ASSUME TypeOK, BytesSafe, NEW c \in Requests, BeginRequest(c)
  PROVE  BytesSafe'
<1>0. reqs \in [Requests -> Request \cup {Idle}]
  BY DEF TypeOK, FileServiceTypeOK
<1>1. rows' = rows /\ disk' = disk
  BY DEF BeginRequest, BeginCreate, BeginRename, BeginDelete, dbVars, fsVars
<1>2. \E r : reqs' = [reqs EXCEPT ![c] = r] /\ r.pc \in {"write", "rename", "delete"}
  <2>1. ASSUME NEW f \in Files, NEW kind \in Kinds, NEW title \in Titles,
               BeginCreate(c, f, kind, title)
        PROVE  \E r : reqs' = [reqs EXCEPT ![c] = r] /\ r.pc \in {"write", "rename", "delete"}
    <3>1. [RequestAt("write", f) EXCEPT !.item = StoredFile(kind, title)].pc = "write"
      BY DEF RequestAt
    <3> QED BY <3>1, <2>1 DEF BeginCreate, Begin
  <2>2. ASSUME NEW f \in Files, NEW title \in Titles, BeginRename(c, f, title)
        PROVE  \E r : reqs' = [reqs EXCEPT ![c] = r] /\ r.pc \in {"write", "rename", "delete"}
    <3>1. [RequestAt("rename", f) EXCEPT
             !.changes = Dirty(rows[f], [rows[f] EXCEPT !.title = title])].pc = "rename"
      BY DEF RequestAt
    <3> QED BY <3>1, <2>2 DEF BeginRename, Begin
  <2>3. ASSUME NEW f \in Files, BeginDelete(c, f)
        PROVE  \E r : reqs' = [reqs EXCEPT ![c] = r] /\ r.pc \in {"write", "rename", "delete"}
    <3>1. RequestAt("delete", f).pc = "delete"
      BY DEF RequestAt
    <3> QED BY <3>1, <2>3 DEF BeginDelete, Begin
  <2> QED BY <2>1, <2>2, <2>3 DEF BeginRequest
<1> QED BY <1>0, <1>1, <1>2
        DEF BytesSafe, BytesBeforeRow, RemovalAfterRow, RowsHaveBytes

\* Nor does any other step part them.
LEMMA NextKeepsBytes ==
  ASSUME "late" \notin Faults, TypeOK, Ownership, BytesSafe, [Next]_vars
  PROVE  BytesSafe'
<1>1. CASE Background
  <2>1. \A d \in Requests : reqs[d].pc # "idle" => reqs[d].file \in Files
    BY SlotType DEF TypeOK
  <2> QED BY <1>1, <2>1, BackgroundEffect
          DEF BytesSafe, BytesBeforeRow, RemovalAfterRow, RowsHaveBytes, Idle
<1> QED BY <1>1, NextSplit, RequestKeepsBytes, BeginRequestKeepsBytes

\* Every row has its bytes, for any interleaving and any fault but one: a failure
\* that create() sees after its COMMIT took effect, be it the answer of the COMMIT
\* that is lost or the refresh that fails.
THEOREM RowsAlwaysHaveBytes ==
  ASSUME "late" \notin Faults
  PROVE  Spec => []RowsHaveBytes
<1>1. Init => BytesSafe
  BY DEF Init, InfrastructureInit, FileServiceInit, BytesSafe, BytesBeforeRow,
         RemovalAfterRow, RowsHaveBytes, Idle
<1>2. TypeOK /\ Ownership /\ BytesSafe /\ [Next]_vars => BytesSafe'
  BY NextKeepsBytes
<1>3. BytesSafe => RowsHaveBytes
  BY DEF BytesSafe
<1> QED BY <1>1, <1>2, <1>3, OwnershipInvariant, PTL DEF Spec

-----------------------------------------------------------------------------
(* Deleted rows                                                              *)

\* Whatever fails and whoever still holds the row it loaded, a row appears only
\* by the INSERT of its upload: a deleted file does not come back.
THEOREM DeletedRowsStayDeleted == Spec => NoResurrection
<1>1. TypeOK /\ [Next]_vars =>
        [\A f \in Files : rows[f] = NoRow /\ rows'[f] # NoRow
           => \E c \in Requests : Doing(c, f, {"insert"})]_vars
  <2> SUFFICES ASSUME TypeOK, [Next]_vars, NEW f \in Files,
                      rows[f] = NoRow, rows'[f] # NoRow
               PROVE  \E c \in Requests : Doing(c, f, {"insert"})
    OBVIOUS
  <2>1. CASE Background
    BY <2>1, BackgroundEffect
  <2>2. ASSUME NEW c \in Requests, RequestStep(c)
        PROVE  Doing(c, f, {"insert"})
    BY <2>2, RequestMakesRows DEF NewRowsBy, Doing
  <2>3. ASSUME NEW c \in Requests, BeginRequest(c)
        PROVE  FALSE
    BY <2>3 DEF BeginRequest, BeginCreate, BeginRename, BeginDelete, dbVars
  <2> QED BY <2>1, <2>2, <2>3, NextSplit
<1> QED BY <1>1, OwnershipInvariant, PTL DEF Spec, NoResurrection

-----------------------------------------------------------------------------
(* Bytes without a row                                                       *)

Owners == {"insert", "cleanup", "unlink"}

\* Where request c leaves bytes without a row, it is the one to see to them.
Accounts(c, r) ==
  /\ reqs' = [reqs EXCEPT ![c] = r]
  /\ \A f \in disk' :
       \/ rows'[f] # NoRow
       \/ f \in disk /\ rows[f] = NoRow /\ ~(reqs[c].file = f /\ reqs[c].pc \in Owners)
       \/ r.pc \in Owners /\ r.file = f

LEMMA AccountsKept ==
  ASSUME TypeOK, BytesHaveRow, NEW c \in Requests, NEW r, Accounts(c, r)
  PROVE  BytesHaveRow'
<1>0. reqs \in [Requests -> Request \cup {Idle}]
  BY DEF TypeOK, FileServiceTypeOK
<1> SUFFICES ASSUME NEW f \in disk', rows'[f] = NoRow
             PROVE  \E d \in Requests : reqs'[d].pc \in Owners /\ reqs'[d].file = f
  BY DEF BytesHaveRow, Doing, Owners
<1>1. CASE r.pc \in Owners /\ r.file = f
  BY <1>0, <1>1 DEF Accounts
<1>2. CASE f \in disk /\ rows[f] = NoRow /\ ~(reqs[c].file = f /\ reqs[c].pc \in Owners)
  <2>1. PICK d \in Requests : reqs[d].pc \in Owners /\ reqs[d].file = f
    BY <1>2 DEF BytesHaveRow, Doing, Owners
  <2>2. reqs'[d] = reqs[d]
    BY <2>1, <1>2, <1>0 DEF Accounts
  <2> QED BY <2>1, <2>2
<1> QED BY <1>1, <1>2 DEF Accounts

\* Without file-system failures and lost acknowledgements every request accounts
\* for the bytes.
LEMMA RequestAccounts ==
  ASSUME "fs" \notin Faults, "late" \notin Faults, TypeOK, Ownership,
         NEW c \in Requests, RequestStep(c)
  PROVE  \E r : Accounts(c, r)
<1> DEFINE file == reqs[c].file
<1>0. /\ rows \in [Files -> Row \cup {NoRow}]
      /\ disk \subseteq Files
      /\ reqs[c].pc # "idle" => file \in Files /\ reqs[c].changes \in Changes
                                /\ reqs[c] \in Request
  BY SlotType DEF TypeOK, InfrastructureTypeOK, Request, RequestRecord
<1>1. CASE \/ WriteFails(c) \/ ReplaceFails(c) \/ EnqueueScan(c) \/ EnqueueFails(c)
           \/ RenameFails(c) \/ DeleteFails(c)
  <2>1. /\ reqs[c].pc \in {"write", "enqueue", "rename", "delete"}
        /\ reqs' = [reqs EXCEPT ![c] = Idle] /\ rows' = rows /\ disk' = disk
    BY <1>1 DEF WriteFails, ReplaceFails, EnqueueScan, EnqueueFails, RenameFails, DeleteFails,
                Finish, dbVars, fsVars
  <2> QED BY <2>1 DEF Accounts, Owners
<1>2. CASE StoreBytes(c)
  <2> DEFINE r == [reqs[c] EXCEPT !.pc = "insert"]
  <2>1. /\ reqs[c].pc = "write" /\ reqs' = [reqs EXCEPT ![c] = r]
        /\ rows' = rows /\ disk' = disk \cup {file}
    BY <1>2 DEF StoreBytes, Begin, dbVars
  <2>2. r.pc = "insert" /\ r.file = file
    BY <2>1, <1>0 DEF Request, RequestRecord
  <2> HIDE DEF r
  <2>3. Accounts(c, r)
    BY <2>1, <2>2 DEF Accounts, Owners
  <2> QED BY <2>3
<1>3. CASE InsertRow(c)
  <2> DEFINE r == RequestAt("refresh", file)
  <2>1. /\ reqs[c].pc = "insert" /\ reqs' = [reqs EXCEPT ![c] = r]
        /\ rows' = [rows EXCEPT ![file] = reqs[c].item] /\ disk' = disk
        /\ reqs[c].item # NoRow
    BY <1>3, <1>0 DEF InsertRow, Proceed, fsVars, Request
  <2> HIDE DEF r
  <2>2. Accounts(c, r)
    BY <2>1, <1>0 DEF Accounts
  <2> QED BY <2>2
<1>4. CASE InsertFails(c) \/ RefreshFails(c)
  <2> DEFINE r == RequestAt("cleanup", file)
  <2>1. /\ reqs' = [reqs EXCEPT ![c] = r] /\ rows' = rows /\ disk' = disk
        /\ r.pc = "cleanup" /\ r.file = file
    BY <1>4 DEF InsertFails, RefreshFails, Proceed, RequestAt, fsVars, dbVars
  <2> HIDE DEF r
  <2>2. Accounts(c, r)
    BY <2>1 DEF Accounts, Owners
  <2> QED BY <2>2
<1>5. CASE RefreshItem(c)
  <2> DEFINE r == RequestAt("enqueue", file)
  <2>1. /\ reqs[c].pc = "refresh" /\ reqs' = [reqs EXCEPT ![c] = r]
        /\ rows' = rows /\ disk' = disk
    BY <1>5 DEF RefreshItem, Proceed, fsVars, dbVars
  <2> HIDE DEF r
  <2>2. Accounts(c, r)
    BY <2>1 DEF Accounts, Owners
  <2> QED BY <2>2
<1>6. CASE Cleanup(c) \/ Unlink(c)
  <2>1. reqs' = [reqs EXCEPT ![c] = Idle] /\ rows' = rows /\ disk' = disk \ {file}
    BY <1>6 DEF Cleanup, Unlink, Finish, dbVars
  <2>2. Accounts(c, Idle)
    BY <2>1 DEF Accounts
  <2> QED BY <2>2
<1>7. CASE SaveTitle(c)
  <2>1. /\ reqs[c].pc = "rename" /\ reqs' = [reqs EXCEPT ![c] = Idle] /\ disk' = disk
        /\ rows' = RowsAfter(file, reqs[c].changes)
    BY <1>7 DEF SaveTitle, Finish, fsVars
  <2>2. Accounts(c, Idle)
    BY <2>1, <1>0, RowsAfterType DEF Accounts, Owners
  <2> QED BY <2>2
<1>8. CASE DeleteRow(c)
  <2> DEFINE r == RequestAt("unlink", file)
  <2>1. /\ reqs[c].pc = "delete" /\ reqs' = [reqs EXCEPT ![c] = r] /\ disk' = disk
        /\ rows' = [rows EXCEPT ![file] = NoRow]
        /\ r.pc = "unlink" /\ r.file = file
    BY <1>8 DEF DeleteRow, DeleteWithAlerts, Proceed, RequestAt, fsVars
  <2> HIDE DEF r
  <2>2. Accounts(c, r)
    BY <2>1, <1>0 DEF Accounts, Owners
  <2> QED BY <2>2
<1>9. CASE CleanupFails(c) \/ UnlinkFails(c)
  BY <1>9 DEF CleanupFails, UnlinkFails
<1> QED BY <1>1, <1>2, <1>3, <1>4, <1>5, <1>6, <1>7, <1>8, <1>9 DEF RequestStep

\* A request that starts was idle and owned nothing.
LEMMA BeginRequestAccounts ==
  ASSUME NEW c \in Requests, BeginRequest(c)
  PROVE  \E r : Accounts(c, r)
<1>1. reqs[c] = Idle /\ rows' = rows /\ disk' = disk
  BY DEF BeginRequest, BeginCreate, BeginRename, BeginDelete, dbVars, fsVars
<1>2. PICK r : reqs' = [reqs EXCEPT ![c] = r]
  BY DEF BeginRequest, BeginCreate, BeginRename, BeginDelete, Begin
<1>3. reqs[c].pc \notin Owners
  BY <1>1 DEF Owners, Idle
<1>4. Accounts(c, r)
  BY <1>1, <1>2, <1>3 DEF Accounts
<1> QED BY <1>4

\* "No row in the database, no file": apart from failing file operations, a
\* dying API process and lost acknowledgements, bytes without a row are always
\* about to get one or to be removed.
THEOREM BytesAlwaysHaveRow ==
  ASSUME "fs" \notin Faults, "late" \notin Faults, "api_crash" \notin Faults
  PROVE  Spec => []BytesHaveRow
<1>1. Init => BytesHaveRow
  BY DEF Init, InfrastructureInit, BytesHaveRow
<1>2. TypeOK /\ Ownership /\ BytesHaveRow /\ [Next]_vars => BytesHaveRow'
  <2> SUFFICES ASSUME TypeOK, Ownership, BytesHaveRow, [Next]_vars
               PROVE  BytesHaveRow'
    OBVIOUS
  <2>1. CASE Background
    <3>1. reqs' = reqs
      BY <2>1 DEF Background, Redeliver, ApiCrash, requestVars, vars
    <3>2. disk \subseteq Files /\ disk' = disk
      BY <2>1, BackgroundEffect DEF TypeOK, InfrastructureTypeOK
    <3> QED BY <2>1, <3>1, <3>2, BackgroundEffect DEF BytesHaveRow, Doing
  <2>2. ASSUME NEW c \in Requests, RequestStep(c) \/ BeginRequest(c)
        PROVE  BytesHaveRow'
    BY <2>2, RequestAccounts, BeginRequestAccounts, AccountsKept
  <2> QED BY <2>1, <2>2, NextSplit
<1> QED BY <1>1, <1>2, OwnershipInvariant, PTL DEF Spec
=============================================================================
