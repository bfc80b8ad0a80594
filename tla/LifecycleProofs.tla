--------------------------- MODULE LifecycleProofs ---------------------------
(* One file, one alert, and the life FileLifecycle promises it: the right to *)
(* process a file passes from its upload to one message or thread and from   *)
(* phase to phase, and only its holder moves the file on.                    *)
EXTENDS VerdictProofs

-----------------------------------------------------------------------------
(* The inductive invariants                                                  *)

Uploading == {"write", "insert", "refresh", "enqueue"}
Busy(e, f) == runs[e].pc # "idle" /\ runs[e].file = f
Pending(m, f) == queue[m] > 0 /\ m.file = f

\* An inline thread at mark_failed has given up: it publishes nothing any more.
Spent(e) == e \in Files /\ runs[e].pc \in {"mark", "save"}

\* Nobody but an upload is to process f, and nobody has reported it.
Untouched(f) ==
  /\ \A m \in Message : ~Pending(m, f)
  /\ \A e \in Executors : ~Busy(e, f)
  /\ alerts[f] = <<>>

\* An upload that may still enqueue its file is the only one to process it.
UploadHolds ==
  \A c \in Requests : reqs[c].pc \in Uploading =>
    /\ Untouched(reqs[c].file)
    /\ \A d \in Requests : Doing(d, reqs[c].file, Uploading) => d = c

\* A message about a file is the only one and no run works on that file.
MessageHolds ==
  \A m \in Message : queue[m] > 0 =>
    /\ queue[m] = 1
    /\ \A n \in Message : Pending(n, m.file) => n = m
    /\ \A e \in Executors : ~Busy(e, m.file)
    /\ alerts[m.file] = <<>>

\* One run per file, and none that can still report it once it is reported.
RunHolds ==
  \A e \in Executors : runs[e].pc # "idle" =>
    /\ \A d \in Executors : Busy(d, runs[e].file) => d = e
    /\ Spent(e) \/ alerts[runs[e].file] = <<>>

OneHolder == UploadHolds /\ MessageHolds /\ RunHolds /\ AtMostOneAlert

\* Where a file stands when a phase is about to run on it.
StatusBefore(phase) ==
  IF phase = "scan" THEN {"uploaded"}
  ELSE IF phase = "extract" THEN {"processing"} ELSE {"processed", "failed"}

\* What a run holds and is about to write takes its row one stage on.
RunAgrees(r, row) ==
  /\ r.pc \in {"get", "read", "parse", "commit", "publish"} =>
       row.processing_status \in StatusBefore(r.phase)
  /\ r.pc \in {"mark", "save"} => row.processing_status \in {"uploaded", "processing"}
  /\ r.pc \in {"read", "parse"} => r.item.processing_status = row.processing_status
  /\ r.pc = "parse" => r.phase = "extract"
  /\ r.pc = "commit" /\ r.phase = "scan" => r.changes.processing_status = "processing"
  /\ r.pc = "commit" /\ r.phase = "extract" =>
       /\ r.changes.processing_status \in {"processed", "failed"}
       /\ r.changes.requires_attention = Kept
  /\ r.pc = "commit" /\ r.phase = "alert" => r.level = LevelFor(row)
  /\ r.pc = "save" =>
       /\ r.changes.processing_status = "failed"
       /\ r.changes.requires_attention = Kept

\* The row an upload inserts, or has just inserted, is as create() made it.
UploadsFresh ==
  \A c \in Requests :
    /\ reqs[c].pc \in {"write", "insert"} =>
         /\ reqs[c].item.processing_status = "uploaded"
         /\ reqs[c].item.requires_attention = FALSE
    /\ reqs[c].pc \in {"refresh", "enqueue"} /\ rows[reqs[c].file] # NoRow =>
         rows[reqs[c].file].processing_status = "uploaded"

MessagesAgree ==
  \A m \in Message : queue[m] > 0 /\ rows[m.file] # NoRow =>
    rows[m.file].processing_status \in StatusBefore(m.task)

RunsAgree ==
  \A e \in Executors : runs[e].pc # "idle" /\ rows[runs[e].file] # NoRow =>
    RunAgrees(runs[e], rows[runs[e].file])

\* An alert is the one its row calls for.
AlertsAgree ==
  \A f \in Files : alerts[f] # <<>> =>
    /\ rows[f] # NoRow
    /\ rows[f].processing_status \in {"processed", "failed"}
    /\ alerts[f][1] = LevelFor(rows[f])

Progress == UploadsFresh /\ MessagesAgree /\ RunsAgree /\ AlertsAgree

-----------------------------------------------------------------------------
(* How holders move                                                          *)

\* Short of enqueueing, a request in flight adds no holder and no alert.
LEMMA RequestAddsNoHolder ==
  ASSUME TypeOK, NEW c \in Requests, RequestStep(c)
  PROVE  /\ reqs'[c].pc \in Uploading =>
              reqs[c].pc \in Uploading /\ reqs'[c].file = reqs[c].file
         /\ \A f \in Files : alerts'[f] \in {alerts[f], <<>>}
         /\ EnqueueScan(c) \/ EnqueueFails(c) \/ UNCHANGED <<queue, runs>>
<1>0. /\ reqs \in [Requests -> Request \cup {Idle}]
      /\ alerts \in [Files -> Seq(AlertLevel)]
  BY DEF TypeOK, FileServiceTypeOK, InfrastructureTypeOK
<1>1. reqs'[c].pc \in Uploading => reqs[c].pc \in Uploading /\ reqs'[c].file = reqs[c].file
  <2>1. CASE StoreBytes(c)
    <3>1. reqs[c].pc = "write"
      BY <2>1 DEF StoreBytes
    <3> QED BY <2>1, <3>1, RequestMoves, RequestStepType DEF Uploading, Idle
  <2>2. ASSUME NEW pc \in {"refresh", "enqueue", "cleanup", "unlink"}, Proceed(c, pc)
        PROVE  reqs'[c].pc = pc /\ reqs'[c].file = reqs[c].file
    BY <1>0, <2>2 DEF Proceed, RequestAt
  <2>3. CASE InsertRow(c) \/ RefreshItem(c)
    <3>1. reqs[c].pc \in {"insert", "refresh"} /\ (Proceed(c, "refresh") \/ Proceed(c, "enqueue"))
      BY <2>3 DEF InsertRow, RefreshItem
    <3> QED BY <2>2, <3>1 DEF Uploading
  <2>4. CASE InsertFails(c) \/ RefreshFails(c) \/ DeleteRow(c)
    <3>1. Proceed(c, "cleanup") \/ Proceed(c, "unlink")
      BY <2>4 DEF InsertFails, RefreshFails, DeleteRow
    <3> QED BY <2>2, <3>1 DEF Uploading
  <2>5. CASE Finish(c)
    <3>1. reqs'[c] = Idle
      BY <2>5, <1>0 DEF Finish
    <3> QED BY <3>1 DEF Uploading, Idle
  <2>6. \/ StoreBytes(c) \/ InsertRow(c) \/ RefreshItem(c) \/ InsertFails(c) \/ RefreshFails(c)
        \/ DeleteRow(c) \/ Finish(c)
    BY DEF RequestStep, WriteFails, ReplaceFails, Cleanup, CleanupFails, EnqueueScan,
       EnqueueFails, SaveTitle, RenameFails, DeleteFails, Unlink, UnlinkFails
  <2> QED BY <2>1, <2>3, <2>4, <2>5, <2>6
<1>2. \A f \in Files : alerts'[f] \in {alerts[f], <<>>}
  <2>1. alerts' = alerts \/ (reqs[c].pc = "delete" /\ alerts' = [alerts EXCEPT ![reqs[c].file] = <<>>])
    BY DEF RequestStep, WriteFails, StoreBytes, ReplaceFails, InsertRow, InsertFails, RefreshItem,
       RefreshFails, Cleanup, CleanupFails, EnqueueScan, EnqueueFails, SaveTitle, RenameFails,
       DeleteRow, DeleteFails, DeleteWithAlerts, Unlink, UnlinkFails, dbVars
  <2> QED BY <2>1, <1>0
<1>3. EnqueueScan(c) \/ EnqueueFails(c) \/ UNCHANGED <<queue, runs>>
  BY DEF RequestStep, WriteFails, StoreBytes, ReplaceFails, InsertRow, InsertFails, RefreshItem,
     RefreshFails, Cleanup, CleanupFails, SaveTitle, RenameFails, DeleteRow, DeleteFails, Unlink,
     UnlinkFails, brokerVars
<1> QED BY <1>1, <1>2, <1>3

\* A run publishes as its last act; one that has given up ends without a word;
\* after an alert nothing follows but giving up.
LEMMA RunMovesOn ==
  ASSUME TypeOK, NEW e \in Executors, RunStep(e)
  PROVE  /\ \/ queue' = queue
            \/ runs'[e] = Idle /\ ~Spent(e)
         /\ Spent(e) => runs'[e].pc = "idle" \/ Spent(e)'
         /\ \/ alerts' = alerts
            \/ /\ runs[e].pc = "commit"
               /\ runs'[e].pc = "idle" \/ Spent(e)'
               /\ UNCHANGED queue
               /\ alerts' = [alerts EXCEPT ![runs[e].file] = Append(@, runs[e].level)]
<1>0. runs \in [Executors -> Run \cup {Idle}]
  BY DEF TypeOK, ProcessingTypeOK
<1>1. ASSUME NEW run, Step(e, run) PROVE runs'[e] = run
  BY <1>0, <1>1 DEF Step
<1>2. e \in Files => e \notin Workers
  BY WorkersAssumption
<1>3. Idle.pc = "idle" /\ (\A pc, phase, f : RunAt(pc, phase, f).pc = pc)
  BY DEF Idle, RunAt
<1>4. CASE Publish(e)
  <2>1. runs[e].pc = "publish" /\ Step(e, Idle) /\ alerts' = alerts
    BY <1>4 DEF Publish, dbVars
  <2> QED BY <2>1, <1>1 DEF Spent
<1>5. CASE AddAlert(e) \/ CommitUnconfirmed(e)
  <2>1. /\ runs[e].pc = "commit" /\ queue' = queue
        /\ Step(e, Idle) \/ Step(e, Raised(e))
        /\ \/ alerts' = alerts
           \/ /\ runs[e].phase = "alert"
              /\ alerts' = [alerts EXCEPT ![runs[e].file] = Append(@, runs[e].level)]
    BY <1>5 DEF AddAlert, CommitUnconfirmed, brokerVars
  <2>2. runs[e].phase = "alert" => Raised(e) = Idle \/ (e \in Files /\ Raised(e).pc = "mark")
    BY <1>3 DEF Raised, Executors
  <2> QED BY <2>1, <2>2, <1>1, <1>3 DEF Spent
<1>6. CASE MarkFailed(e)
  <2>1. PICK loaded, item : Step(e, Assigned(runs[e], "save", loaded, item))
    BY <1>6 DEF MarkFailed
  <2>2. Assigned(runs[e], "save", loaded, item).pc = "save"
    BY DEF Assigned, RunAt
  <2>3. queue' = queue /\ alerts' = alerts
    BY <1>6 DEF MarkFailed, brokerVars, dbVars
  <2> QED BY <2>1, <2>2, <2>3, <1>1 DEF Spent
<1>7. CASE SaveFailed(e) \/ MarkIneffective(e)
  <2>1. queue' = queue /\ alerts' = alerts /\ Step(e, Marked(e))
    BY <1>7 DEF SaveFailed, MarkIneffective, brokerVars, dbVars
  <2>2. e \in Files => Marked(e) = Idle
    BY <1>2 DEF Marked
  <2> QED BY <2>1, <2>2, <1>1, <1>3 DEF Spent
<1>8. CASE \/ GetItem(e) \/ GetNothing(e) \/ ReadHeader(e) \/ PathExists(e) \/ PathMissing(e)
           \/ ExtractCounters(e) \/ OpenFails(e) \/ CommitItem(e) \/ CommitRefused(e)
           \/ PhaseFails(e) \/ PublishFails(e)
  <2>1. queue' = queue /\ alerts' = alerts /\ runs[e].pc \notin {"mark", "save"}
    BY <1>8 DEF GetItem, GetNothing, ReadHeader, PathExists, PathMissing, ExtractCounters,
       OpenFails, CommitItem, CommitRefused, PhaseFails, PublishFails, brokerVars, dbVars
  <2> QED BY <2>1 DEF Spent
<1> QED BY <1>4, <1>5, <1>6, <1>7, <1>8 DEF RunStep

\* Where no holder and no alert is added, there is one holder at most.
LEMMA FewerHolders ==
  ASSUME TypeOK, OneHolder,
         \A c \in Requests : reqs'[c].pc \in Uploading =>
           reqs[c].pc \in Uploading /\ reqs'[c].file = reqs[c].file,
         queue' = queue,
         \A e \in Executors : runs'[e].pc # "idle" =>
           runs[e].pc # "idle" /\ runs'[e].file = runs[e].file /\ (Spent(e) => Spent(e)'),
         \A f \in Files : alerts'[f] \in {alerts[f], <<>>}
  PROVE  OneHolder'
<1> USE DEF OneHolder
<1>0. /\ \A c \in Requests : reqs[c].pc # "idle" => reqs[c].file \in Files
      /\ \A e \in Executors : runs[e].pc # "idle" => runs[e].file \in Files
      /\ \A m \in Message : m.file \in Files
      /\ alerts \in [Files -> Seq(AlertLevel)]
  BY SlotType, BusyRun DEF TypeOK, InfrastructureTypeOK, Run, RunRecord, Message
<1>1. \A f \in Files : Untouched(f) => Untouched(f)'
  BY DEF Untouched, Pending, Busy
<1>2. UploadHolds'
  BY <1>0, <1>1 DEF UploadHolds, Doing, Uploading
<1>3. MessageHolds'
  BY <1>0 DEF MessageHolds, Pending, Busy
<1>4. RunHolds'
  BY <1>0 DEF RunHolds, Busy
<1>5. AtMostOneAlert'
  BY <1>0 DEF AtMostOneAlert
<1> QED BY <1>2, <1>3, <1>4, <1>5

-----------------------------------------------------------------------------
(* One holder                                                                *)

\* create() draws an id nobody works on.
LEMMA BeginRequestHolders ==
  ASSUME TypeOK, Ownership, AlertsHaveRow, PipelineAfterInsert, OneHolder,
         NEW c \in Requests, BeginRequest(c)
  PROVE  OneHolder'
<1> USE DEF OneHolder
<1>0. reqs \in [Requests -> Request \cup {Idle}]
  BY DEF TypeOK, FileServiceTypeOK
<1>1. UNCHANGED <<queue, runs, alerts>>
  BY DEF BeginRequest, BeginCreate, BeginRename, BeginDelete, dbVars, brokerVars
<1>2. ASSUME NEW f \in Files, NEW kind \in Kinds, NEW title \in Titles,
             BeginCreate(c, f, kind, title)
      PROVE  OneHolder'
  <2>1. /\ f \notin issued
        /\ reqs'[c].pc = "write" /\ reqs'[c].file = f
        /\ \A d \in Requests : d # c => reqs'[d] = reqs[d]
    BY <1>0, <1>2 DEF BeginCreate, Begin, RequestAt
  <2>2. Untouched(f)
    BY <2>1 DEF Untouched, Pending, Busy, PipelineAfterInsert, PastInsert, Ownership,
                RowsIssued, AlertsHaveRow
  <2>3. \A d \in Requests : reqs[d].pc # "idle" => reqs[d].file # f
    BY <2>1 DEF Ownership, RequestsIssued
  <2>4. UploadHolds'
    <3> SUFFICES ASSUME NEW d \in Requests, reqs'[d].pc \in Uploading
                 PROVE  /\ Untouched(reqs[d].file)'
                        /\ \A b \in Requests : Doing(b, reqs[d].file, Uploading)' => b = d
      BY DEF UploadHolds, Doing
    <3>1. Untouched(reqs'[d].file)
      BY <2>1, <2>2 DEF UploadHolds
    <3>2. Untouched(reqs[d].file)'
      BY <3>1, <1>1 DEF Untouched, Pending, Busy
    <3>3. \A b \in Requests : Doing(b, reqs[d].file, Uploading)' => b = d
      BY <2>1, <2>3 DEF UploadHolds, Doing, Uploading
    <3> QED BY <3>2, <3>3
  <2> QED BY <2>4, <1>1 DEF MessageHolds, RunHolds, AtMostOneAlert, Pending, Busy, Spent
<1>3. ASSUME NEW r, Begin(c, r), r.pc \in {"rename", "delete"}
      PROVE  OneHolder'
  <2>1. \A d \in Requests : reqs'[d] = IF d = c THEN r ELSE reqs[d]
    BY <1>0, <1>3 DEF Begin
  <2>2. \A d \in Requests : reqs'[d].pc \in Uploading =>
          reqs[d].pc \in Uploading /\ reqs'[d].file = reqs[d].file
    BY <2>1, <1>3 DEF Uploading
  <2>3. \A e \in Executors : Spent(e) => Spent(e)'
    BY <1>1 DEF Spent
  <2> QED BY <2>2, <2>3, <1>1, FewerHolders
<1>4. ASSUME NEW f \in Files, NEW title \in Titles, BeginRename(c, f, title)
      PROVE  OneHolder'
  <2>1. [RequestAt("rename", f) EXCEPT
           !.changes = Dirty(rows[f], [rows[f] EXCEPT !.title = title])].pc = "rename"
    BY DEF RequestAt
  <2> QED BY <2>1, <1>3, <1>4 DEF BeginRename
<1>5. ASSUME NEW f \in Files, BeginDelete(c, f)
      PROVE  OneHolder'
  <2>1. RequestAt("delete", f).pc = "delete"
    BY DEF RequestAt
  <2> QED BY <2>1, <1>3, <1>5 DEF BeginDelete
<1> QED BY <1>2, <1>4, <1>5 DEF BeginRequest

\* The upload hands its file to one message or to one thread.
LEMMA RequestStepHolders ==
  ASSUME "publish_unsure" \notin Faults, TypeOK, OneHolder, NEW c \in Requests, RequestStep(c)
  PROVE  OneHolder'
<1> DEFINE f == reqs[c].file
           m == ScanMessage(f)
<1> USE DEF OneHolder
<1>0. /\ reqs \in [Requests -> Request \cup {Idle}]
      /\ runs \in [Executors -> Run \cup {Idle}]
      /\ queue \in [Message -> Nat]
  BY DEF TypeOK, FileServiceTypeOK, ProcessingTypeOK, InfrastructureTypeOK
<1>1. ASSUME reqs[c].pc = "enqueue", Finish(c)
      PROVE  /\ f \in Files /\ m \in Message /\ m.file = f /\ Untouched(f)
             /\ \A d \in Requests : reqs'[d].pc \in Uploading =>
                  d # c /\ reqs'[d] = reqs[d] /\ reqs[d].file # f
  <2>1. f \in Files /\ m \in Message /\ m.file = f
    BY <1>1, SlotType DEF TypeOK, ScanMessage, Message, Phase
  <2>2. Untouched(f) /\ \A d \in Requests : Doing(d, f, Uploading) => d = c
    BY <1>1 DEF UploadHolds, Uploading
  <2>3. \A d \in Requests : reqs'[d] = IF d = c THEN Idle ELSE reqs[d]
    BY <1>0, <1>1 DEF Finish
  <2> HIDE DEF f, m
  <2> QED BY <2>1, <2>2, <2>3 DEF Doing, Idle, Uploading
<1>2. CASE EnqueueScan(c)
  <2>1. /\ reqs[c].pc = "enqueue" /\ Finish(c)
        /\ queue' = Sent(m) /\ runs' = runs /\ alerts' = alerts
    BY <1>2 DEF EnqueueScan, dbVars
  <2>2. queue[m] = 0
    BY <2>1, <1>0, <1>1 DEF Untouched, Pending
  <2>3. \A n \in Message : queue'[n] = IF n = m THEN 1 ELSE queue[n]
    BY <2>1, <2>2, <1>0, <1>1 DEF Sent
  <2> HIDE DEF f, m
  <2>4. UploadHolds'
    BY <2>1, <2>3, <1>1 DEF UploadHolds, Untouched, Pending, Busy, Doing
  <2>5. MessageHolds'
    BY <2>1, <2>3, <1>1 DEF MessageHolds, Untouched, Pending, Busy
  <2> QED BY <2>1, <2>4, <2>5 DEF RunHolds, AtMostOneAlert, Busy, Spent
<1>3. CASE EnqueueFails(c)
  <2>1. /\ reqs[c].pc = "enqueue" /\ Finish(c)
        /\ Step(f, RunAt("get", "scan", f)) /\ queue' = queue /\ alerts' = alerts
    BY <1>3 DEF EnqueueFails, dbVars
  <2>2. RunAt("get", "scan", f).pc = "get" /\ RunAt("get", "scan", f).file = f
    BY DEF RunAt
  <2>3. \A e \in Executors : runs'[e] = IF e = f THEN RunAt("get", "scan", f) ELSE runs[e]
    BY <2>1, <1>0 DEF Step
  <2> HIDE DEF f, m
  <2>4. UploadHolds'
    BY <2>1, <2>2, <2>3, <1>1 DEF UploadHolds, Untouched, Pending, Busy, Doing
  <2>5. MessageHolds'
    BY <2>1, <2>2, <2>3, <1>1 DEF MessageHolds, Untouched, Pending, Busy
  <2>6. RunHolds'
    BY <2>1, <2>2, <2>3, <1>1 DEF RunHolds, Untouched, Busy, Spent
  <2> QED BY <2>1, <2>4, <2>5, <2>6 DEF AtMostOneAlert
<1>4. CASE UNCHANGED <<queue, runs>>
  <2>1. \A d \in Requests : reqs'[d].pc \in Uploading =>
          reqs[d].pc \in Uploading /\ reqs'[d].file = reqs[d].file
    BY RequestMoves, RequestAddsNoHolder
  <2>2. \A e \in Executors : Spent(e) => Spent(e)'
    BY <1>4 DEF Spent
  <2> QED BY <2>1, <2>2, <1>4, FewerHolders, RequestAddsNoHolder
<1> QED BY <1>2, <1>3, <1>4, RequestAddsNoHolder

\* A run hands its file on by its last message, and reports it only once.
LEMMA RunStepHolders ==
  ASSUME TypeOK, OneHolder, NEW e \in Executors, RunStep(e), UNCHANGED requestVars
  PROVE  OneHolder'
<1> DEFINE f == runs[e].file
<1> USE DEF OneHolder
<1>0. /\ runs \in [Executors -> Run \cup {Idle}]
      /\ queue \in [Message -> Nat]
      /\ alerts \in [Files -> Seq(AlertLevel)]
      /\ reqs' = reqs
  BY DEF TypeOK, ProcessingTypeOK, InfrastructureTypeOK, requestVars
<1>1. /\ runs[e].pc # "idle" /\ f \in Files
      /\ \A d \in Executors : d # e => runs'[d] = runs[d]
      /\ runs'[e].pc # "idle" => runs'[e].file = f
  BY RunMoves, BusyRun DEF TypeOK, Run, RunRecord
<1>2. /\ \A d \in Executors : Busy(d, f) => d = e
      /\ \A m \in Message : ~Pending(m, f)
      /\ \A c \in Requests : ~Doing(c, f, Uploading)
  BY <1>1 DEF RunHolds, MessageHolds, UploadHolds, Untouched, Pending, Busy, Doing
<1>3. CASE queue' = queue /\ alerts' = alerts
  <2>1. \A d \in Executors : runs'[d].pc # "idle" =>
          runs[d].pc # "idle" /\ runs'[d].file = runs[d].file /\ (Spent(d) => Spent(d)')
    BY <1>1, RunMovesOn DEF Spent
  <2> QED BY <2>1, <1>0, <1>3, FewerHolders
<1>4. CASE queue' # queue
  <2>1. PICK t \in Phase : queue' = Sent([task |-> t, file |-> f])
    BY <1>4, RunMoves
  <2> DEFINE m == [task |-> t, file |-> f]
  <2>2. m \in Message /\ m.file = f
    BY <1>1 DEF Message
  <2>3. /\ runs'[e] = Idle /\ ~Spent(e) /\ alerts' = alerts
    BY <1>4, RunMovesOn
  <2> HIDE DEF f, m
  <2>4. queue[m] = 0
    BY <2>2, <1>0, <1>2 DEF Pending
  <2>5. \A n \in Message : queue'[n] = IF n = m THEN 1 ELSE queue[n]
    BY <2>1, <2>2, <2>4, <1>0 DEF Sent, m
  <2>6. runs'[e].pc = "idle"
    BY <2>3 DEF Idle
  <2>7. alerts[f] = <<>>
    BY <2>3, <1>1 DEF RunHolds, f
  <2>8. UploadHolds'
    <3> SUFFICES ASSUME NEW c \in Requests, reqs[c].pc \in Uploading
                 PROVE  /\ Untouched(reqs[c].file)'
                        /\ \A d \in Requests : Doing(d, reqs[c].file, Uploading)' => d = c
      BY <1>0 DEF UploadHolds
    <3>1. Untouched(reqs[c].file) /\ reqs[c].file # f
      BY <1>2 DEF UploadHolds, Doing
    <3>2. Untouched(reqs[c].file)'
      BY <3>1, <2>2, <2>3, <2>5, <2>6, <1>0, <1>1 DEF Untouched, Pending, Busy
    <3>3. \A d \in Requests : Doing(d, reqs[c].file, Uploading)' => d = c
      BY <1>0 DEF UploadHolds, Doing
    <3> QED BY <3>2, <3>3
  <2>9. MessageHolds'
    BY <2>2, <2>3, <2>5, <2>6, <2>7, <1>1, <1>2 DEF MessageHolds, Pending, Busy
  <2>10. RunHolds'
    BY <2>3, <2>6, <1>1 DEF RunHolds, Busy, Spent
  <2> QED BY <2>3, <2>8, <2>9, <2>10 DEF AtMostOneAlert
<1>5. CASE alerts' # alerts
  <2>1. /\ runs[e].pc = "commit"
        /\ runs'[e].pc = "idle" \/ Spent(e)'
        /\ queue' = queue
        /\ alerts' = [alerts EXCEPT ![f] = Append(@, runs[e].level)]
    BY <1>5, RunMovesOn
  <2>2. alerts[f] = <<>>
    BY <2>1, <1>1 DEF RunHolds, Spent
  <2>3. \A g \in Files : IF g = f THEN Len(alerts'[g]) = 1 ELSE alerts'[g] = alerts[g]
    <3>1. runs[e].level \in AlertLevel \cup {"none"}
      BY <1>1, BusyRun DEF TypeOK, Run, RunRecord
    <3> QED BY <2>1, <2>2, <3>1, <1>0, <1>1
  <2>a. \A g \in Files : g # f => alerts'[g] = alerts[g]
    BY <2>3
  <2> HIDE DEF f
  <2>b. /\ \A d \in Executors : runs[d].pc # "idle" => runs[d].file \in Files
        /\ \A c \in Requests : reqs[c].pc # "idle" => reqs[c].file \in Files
        /\ \A m \in Message : m.file \in Files
    BY SlotType, BusyRun DEF TypeOK, Run, RunRecord, Message
  <2>4. UploadHolds'
    BY <2>1, <2>a, <2>b, <1>0, <1>1, <1>2
       DEF UploadHolds, Untouched, Pending, Busy, Doing, Uploading
  <2>5. MessageHolds'
    BY <2>1, <2>a, <2>b, <1>1, <1>2 DEF MessageHolds, Pending, Busy
  <2>6. RunHolds'
    BY <2>1, <2>a, <2>b, <1>1, <1>2 DEF RunHolds, Busy, Spent
  <2>7. AtMostOneAlert'
    <3> SUFFICES ASSUME NEW g \in Files PROVE Len(alerts'[g]) <= 1
      BY DEF AtMostOneAlert
    <3>1. CASE g = f
      <4>1. Len(alerts'[g]) = 1
        BY <2>3, <3>1
      <4> QED BY <4>1
    <3>2. CASE g # f
      BY <2>a, <3>2 DEF AtMostOneAlert
    <3> QED BY <3>1, <3>2
  <2> QED BY <2>4, <2>5, <2>6, <2>7
<1> QED BY <1>3, <1>4, <1>5

\* A worker takes over from the message it receives.
LEMMA ReceiveHolders ==
  ASSUME TypeOK, OneHolder, NEW w \in Workers, NEW m \in Message, ReceiveTask(w, m),
         UNCHANGED requestVars
  PROVE  OneHolder'
<1> USE DEF OneHolder
<1>0. /\ queue \in [Message -> Nat] /\ runs \in [Executors -> Run \cup {Idle}]
      /\ w \in Executors
  BY DEF TypeOK, InfrastructureTypeOK, ProcessingTypeOK, Executors
<1>1. /\ queue[m] > 0 /\ queue' = [queue EXCEPT ![m] = @ - 1]
      /\ Step(w, RunAt("get", m.task, m.file))
      /\ alerts' = alerts /\ reqs' = reqs
  BY DEF ReceiveTask, dbVars, requestVars
<1>2. /\ queue[m] = 1 /\ alerts[m.file] = <<>>
      /\ \A n \in Message : Pending(n, m.file) => n = m
      /\ \A e \in Executors : ~Busy(e, m.file)
  BY <1>1 DEF MessageHolds
<1>3. \A n \in Message : queue'[n] = IF n = m THEN 0 ELSE queue[n]
  BY <1>0, <1>1, <1>2
<1>4. RunAt("get", m.task, m.file).file = m.file
  BY DEF RunAt
<1>5. \A e \in Executors : runs'[e] = IF e = w THEN RunAt("get", m.task, m.file) ELSE runs[e]
  BY <1>0, <1>1 DEF Step
<1>6. UploadHolds'
  <2> SUFFICES ASSUME NEW c \in Requests, reqs[c].pc \in Uploading
               PROVE  /\ Untouched(reqs[c].file)'
                      /\ \A d \in Requests : Doing(d, reqs[c].file, Uploading)' => d = c
    BY <1>1 DEF UploadHolds
  <2>1. Untouched(reqs[c].file) /\ reqs[c].file # m.file
    BY <1>1 DEF UploadHolds, Untouched, Pending
  <2>2. Untouched(reqs[c].file)'
    BY <2>1, <1>1, <1>3, <1>4, <1>5 DEF Untouched, Pending, Busy
  <2>3. \A d \in Requests : Doing(d, reqs[c].file, Uploading)' => d = c
    BY <1>1 DEF UploadHolds, Doing
  <2> QED BY <2>2, <2>3
<1>7. MessageHolds'
  <2> SUFFICES ASSUME NEW n \in Message, queue'[n] > 0
               PROVE  /\ queue'[n] = 1
                      /\ \A k \in Message : Pending(k, n.file)' => k = n
                      /\ \A e \in Executors : ~Busy(e, n.file)'
                      /\ alerts'[n.file] = <<>>
    BY DEF MessageHolds, Pending, Busy
  <2>1. n # m /\ queue'[n] = queue[n] /\ queue[n] > 0 /\ n.file # m.file
    BY <1>2, <1>3 DEF Pending
  <2> QED BY <2>1, <1>1, <1>3, <1>4, <1>5 DEF MessageHolds, Pending, Busy
<1>8. RunHolds'
  BY <1>1, <1>2, <1>4, <1>5 DEF RunHolds, Busy, Spent
<1> QED BY <1>1, <1>6, <1>7, <1>8 DEF AtMostOneAlert

LEMMA NextHolders ==
  ASSUME "publish_unsure" \notin Faults, "redeliver" \notin Faults,
         TypeOK, Ownership, AlertsHaveRow, PipelineAfterInsert, OneHolder, [Next]_vars
  PROVE  OneHolder'
<1>1. ASSUME NEW w \in Workers, WorkerCrash(w), UNCHANGED requestVars
      PROVE  OneHolder'
  <2>1. \A e \in Executors : runs'[e] = IF e = w THEN Idle ELSE runs[e]
    BY <1>1 DEF WorkerCrash, Step, TypeOK, ProcessingTypeOK
  <2>2. \A e \in Executors : runs'[e].pc # "idle" =>
          runs[e].pc # "idle" /\ runs'[e].file = runs[e].file /\ (Spent(e) => Spent(e)')
    BY <2>1 DEF Idle, Spent
  <2>3. UNCHANGED <<queue, alerts, reqs>>
    BY <1>1 DEF WorkerCrash, brokerVars, dbVars, requestVars
  <2> QED BY <2>2, <2>3, FewerHolders
<1>2. CASE ApiCrash
  <2>1. /\ \A c \in Requests : reqs'[c] = Idle
        /\ \A e \in Executors : runs'[e] = Idle \/ runs'[e] = runs[e]
        /\ UNCHANGED <<queue, alerts>>
    BY <1>2 DEF ApiCrash, brokerVars, dbVars
  <2>2. \A c \in Requests : reqs'[c].pc \notin Uploading
    BY <2>1 DEF Idle, Uploading
  <2>3. \A e \in Executors : runs'[e].pc # "idle" =>
          runs[e].pc # "idle" /\ runs'[e].file = runs[e].file /\ (Spent(e) => Spent(e)')
    BY <2>1 DEF Idle, Spent
  <2> QED BY <2>1, <2>2, <2>3, FewerHolders
<1>3. CASE UNCHANGED vars
  <2>1. UNCHANGED <<queue, alerts, reqs, runs>>
    BY <1>3 DEF vars, brokerVars, dbVars
  <2>2. \A e \in Executors : Spent(e) => Spent(e)'
    BY <2>1 DEF Spent
  <2> QED BY <2>1, <2>2, FewerHolders
<1> QED BY <1>1, <1>2, <1>3, BeginRequestHolders, RequestStepHolders, RunStepHolders,
           ReceiveHolders DEF Next, Redeliver

LEMMA InitHolders == Init => OneHolder
BY DEF Init, InfrastructureInit, ProcessingInit, FileServiceInit, Idle, OneHolder, UploadHolds,
   MessageHolds, RunHolds, AtMostOneAlert, Uploading

\* The pipeline runs in order: no phase before the INSERT of its upload.
LEMMA PipelineOrder == Spec => []PipelineAfterInsert
<1>1. Init => PipelineAfterInsert
  BY DEF Init, InfrastructureInit, ProcessingInit, Idle, PipelineAfterInsert
<1>2. TypeOK /\ TypeOK' /\ Ownership /\ PipelineAfterInsert /\ [Next]_vars => PipelineAfterInsert'
  BY PipelineStaysAfterInsert
<1> QED BY <1>1, <1>2, OwnershipInvariant, PTL DEF Spec

\* One upload, one alert: whatever else fails and whoever runs the phases, as
\* long as no message is in the queue twice, neither by a second delivery nor by
\* a .delay() that raised although it had sent.
THEOREM FilesReportedOnce ==
  ASSUME "publish_unsure" \notin Faults, "redeliver" \notin Faults
  PROVE  Spec => []AtMostOneAlert
<1>1. TypeOK /\ Ownership /\ AlertsHaveRow /\ PipelineAfterInsert /\ OneHolder /\ [Next]_vars
        => OneHolder'
  BY NextHolders
<1>2. OneHolder => AtMostOneAlert
  BY DEF OneHolder
<1> QED BY <1>1, <1>2, InitHolders, PipelineOrder, AlertsAlwaysHaveRow, OwnershipInvariant, PTL
        DEF Spec

-----------------------------------------------------------------------------
(* How a run takes its row on                                                *)

\* What the phases assign is dirty: it differs from the stage they start at.
LEMMA AssignedStage ==
  ASSUME NEW item \in Row, NEW present
  PROVE  /\ item.processing_status = "uploaded" =>
              Dirty(item, Scanned(item, present)).processing_status = "processing"
         /\ item.processing_status = "processing" =>
              Dirty(item, Extracted(item)).processing_status = "processed"
         /\ item.processing_status # "failed" =>
              Dirty(item, Failed(item)).processing_status = "failed"
         /\ Dirty(item, Extracted(item)).requires_attention = Kept
         /\ Dirty(item, Failed(item)).requires_attention = Kept
<1>1. Scanned(item, present).processing_status = "processing"
  <2> DEFINE reasons == EvaluateThreats(item.kind, HeaderIsPdf(item.kind, present))
  <2>1. Scanned(item, present) =
          [item EXCEPT !.processing_status = "processing",
                       !.scan_status = IF reasons = {} THEN "clean" ELSE "suspicious",
                       !.requires_attention = reasons # {}]
    BY DEF Scanned
  <2> HIDE DEF reasons
  <2> QED BY <2>1 DEF Row
<1>2. /\ Extracted(item).processing_status = "processed"
      /\ Extracted(item).requires_attention = item.requires_attention
  BY DEF Extracted, Row
<1>3. /\ Failed(item).processing_status = "failed"
      /\ Failed(item).requires_attention = item.requires_attention
  BY DEF Failed, Row
<1> QED BY <1>1, <1>2, <1>3 DEF Dirty, Change

\* What makes a run's plans fit a row, and an alert its level.
SameStage(row, later) ==
  /\ later.processing_status = row.processing_status
  /\ later.requires_attention = row.requires_attention

LEMMA AgreesLater ==
  ASSUME NEW r, NEW row, NEW later, RunAgrees(r, row), SameStage(row, later)
  PROVE  RunAgrees(r, later) /\ LevelFor(later) = LevelFor(row)
<1>1. LevelFor(later) = LevelFor(row)
  BY DEF SameStage, LevelFor
<1> QED BY <1>1 DEF RunAgrees, SameStage

\* The steps of FileLifecycle that a run may make: the scan, or the end of the
\* pipeline, which leaves the scan's verdict as it is.
Advances(row, later) ==
  \/ row.processing_status = "uploaded" /\ later.processing_status = "processing"
  \/ /\ row.processing_status = "processing" /\ later.processing_status = "processed"
     /\ later.requires_attention = row.requires_attention
  \/ /\ row.processing_status \in {"uploaded", "processing"}
     /\ later.processing_status = "failed"
     /\ later.requires_attention = row.requires_attention

LEMMA CommitAdvances ==
  ASSUME NEW r \in Run, NEW row \in Row, RunAgrees(r, row),
         (r.pc = "commit" /\ r.phase # "alert") \/ r.pc = "save"
  PROVE  LET later == Flushed(row, r.changes) IN
         /\ Advances(row, later)
         /\ r.pc = "commit" /\ r.phase = "scan" => later.processing_status = "processing"
         /\ r.pc = "commit" /\ r.phase = "extract" =>
              later.processing_status \in {"processed", "failed"}
         /\ r.pc = "save" => later.processing_status = "failed"
<1> DEFINE later == Flushed(row, r.changes)
<1>1. /\ later.processing_status = IF r.changes.processing_status = Kept
                                   THEN row.processing_status ELSE r.changes.processing_status
      /\ r.changes.requires_attention = Kept => later.requires_attention = row.requires_attention
  BY DEF Flushed, Column
<1>2. Kept \notin {"processing", "processed", "failed"}
  BY KeptAssumption DEF ProcessingStatus
<1>3. r.phase \in {"scan", "extract", "alert"}
  BY DEF Run, RunRecord, Phase
<1> HIDE DEF later
<1>4. CASE r.pc = "commit" /\ r.phase = "scan"
  BY <1>1, <1>2, <1>4 DEF RunAgrees, StatusBefore, Advances, later
<1>5. CASE r.pc = "commit" /\ r.phase = "extract"
  BY <1>1, <1>2, <1>5 DEF RunAgrees, StatusBefore, Advances, later
<1>6. CASE r.pc = "save"
  BY <1>1, <1>2, <1>6 DEF RunAgrees, Advances, later
<1> QED BY <1>3, <1>4, <1>5, <1>6

\* The failures under which the pipeline still keeps FileLifecycle's promise.
Orderly == {"db", "late", "publish_unsure", "redeliver"} \cap Faults = {}

\* A run on a row that is there writes the next stage, holds what fits the row it
\* leaves, publishes the phase that row is ready for and reports what it says.
LEMMA RunStepAgrees ==
  ASSUME Orderly, TypeOK, RunsAgree, NEW e \in Executors, RunStep(e),
         rows[runs[e].file] # NoRow
  PROVE  LET r == runs[e]
             row == rows[r.file]
             later == rows'[r.file]
         IN
         /\ later # NoRow
         /\ runs'[e].pc # "idle" => RunAgrees(runs'[e], later)
         /\ queue' = queue \/ (later = row /\ row.processing_status \in StatusBefore(r.phase)
                               /\ queue' = Sent([task |-> r.phase, file |-> r.file]))
         /\ alerts' = alerts
              \/ (later = row /\ row.processing_status \in {"processed", "failed"}
                  /\ r.level = LevelFor(row))
         /\ later = row \/ (alerts' = alerts /\ Advances(row, later))
<1> DEFINE r == runs[e]
           row == rows[r.file]
           later == rows'[r.file]
           Goal == /\ later # NoRow
                   /\ runs'[e].pc # "idle" => RunAgrees(runs'[e], later)
                   /\ queue' = queue \/ (later = row /\ row.processing_status \in StatusBefore(r.phase)
                                         /\ queue' = Sent([task |-> r.phase, file |-> r.file]))
                   /\ alerts' = alerts
                        \/ (later = row /\ row.processing_status \in {"processed", "failed"}
                            /\ r.level = LevelFor(row))
                   /\ later = row \/ (alerts' = alerts /\ Advances(row, later))
<1>0. /\ r.pc # "idle" /\ r \in Run /\ RunAgrees(r, row)
      /\ r.file \in Files /\ r.phase \in Phase /\ r.changes \in Changes
      /\ row \in Row
      /\ runs \in [Executors -> Run \cup {Idle}]
      /\ rows \in [Files -> Row \cup {NoRow}]
  BY RunMoves, BusyRun
     DEF TypeOK, InfrastructureTypeOK, ProcessingTypeOK, RunsAgree, Run, RunRecord
<1>1. ASSUME NEW run, Step(e, run) PROVE runs'[e] = run
  BY <1>0, <1>1 DEF Step
<1>2. /\ \A pc, phase, f : RunAt(pc, phase, f).pc = pc /\ RunAt(pc, phase, f).phase = phase
      /\ Idle.pc = "idle"
  BY DEF RunAt, Idle
<1>3. ASSUME NEW run, Step(e, run), UNCHANGED <<dbVars, brokerVars>>,
             run.pc # "idle" => RunAgrees(run, row)
      PROVE  Goal
  BY <1>0, <1>1, <1>3 DEF dbVars, brokerVars
<1>4. ASSUME NEW pc, NEW item, NEW assigned
      PROVE  LET run == Assigned(r, pc, item, assigned)
             IN  run.pc = pc /\ run.phase = r.phase /\ run.changes = Dirty(item, assigned)
  BY DEF Assigned, RunAt
<1>5. ASSUME NEW phase, row.processing_status \in StatusBefore(phase), NEW pc \in {"get", "publish"}
      PROVE  RunAgrees(RunAt(pc, phase, r.file), row)
  BY <1>2, <1>5 DEF RunAgrees
<1>6. ASSUME row.processing_status \in {"uploaded", "processing"}, NEW phase
      PROVE  RunAgrees(RunAt("mark", phase, r.file), row)
  BY <1>2, <1>6 DEF RunAgrees
<1>7. r.pc \in {"read", "parse"} =>
        /\ r.phase \in {"scan", "extract"} /\ r.item \in Row
        /\ r.item.processing_status = row.processing_status
        /\ row.processing_status \in StatusBefore(r.phase)
  BY <1>0 DEF Run, RunRecord, Phase, RunAgrees
<1>8. r.pc \in {"read", "parse"} => row.processing_status \in {"uploaded", "processing"}
  BY <1>7 DEF StatusBefore
<1>9. ASSUME NEW item \in Row, NEW pc, NEW assigned, Step(e, Assigned(r, pc, item, assigned)),
             UNCHANGED <<dbVars, brokerVars>>,
             \/ /\ pc = "commit" /\ r.phase = "scan" /\ row.processing_status = "uploaded"
                /\ Dirty(item, assigned).processing_status = "processing"
             \/ /\ pc = "commit" /\ r.phase = "extract" /\ row.processing_status = "processing"
                /\ Dirty(item, assigned).processing_status \in {"processed", "failed"}
                /\ Dirty(item, assigned).requires_attention = Kept
             \/ /\ pc = "save" /\ row.processing_status \in {"uploaded", "processing"}
                /\ Dirty(item, assigned).processing_status = "failed"
                /\ Dirty(item, assigned).requires_attention = Kept
      PROVE  Goal
  <2>1. RunAgrees(Assigned(r, pc, item, assigned), row)
    BY <1>4, <1>9 DEF RunAgrees, StatusBefore
  <2> QED BY <2>1, <1>3, <1>9
<1>10. CASE GetItem(e)
  <2> DEFINE run == IF r.phase = "alert"
                    THEN [r EXCEPT !.pc = "commit", !.level = LevelFor(row)]
                    ELSE [r EXCEPT !.pc = "read", !.item = row]
  <2>1. r.pc = "get" /\ Step(e, run) /\ UNCHANGED <<dbVars, brokerVars>>
    BY <1>10 DEF GetItem
  <2>2. row.processing_status \in StatusBefore(r.phase)
    BY <2>1, <1>0 DEF RunAgrees
  <2>3. /\ run.phase = r.phase
        /\ r.phase = "alert" => run.pc = "commit" /\ run.level = LevelFor(row)
        /\ r.phase # "alert" => run.pc = "read" /\ run.item = row
    BY <1>0 DEF Run, RunRecord
  <2> HIDE DEF run
  <2>4. RunAgrees(run, row)
    BY <2>2, <2>3 DEF RunAgrees
  <2> QED BY <2>1, <2>4, <1>3
<1>11. CASE ReadHeader(e)
  <2>1. /\ r.pc = "read" /\ r.phase = "scan" /\ UNCHANGED <<dbVars, brokerVars>>
        /\ Step(e, Assigned(r, "commit", r.item, Scanned(r.item, r.file \in disk)))
    BY <1>11 DEF ReadHeader
  <2>2. row.processing_status = "uploaded"
    BY <2>1, <1>7 DEF StatusBefore
  <2>3. Dirty(r.item, Scanned(r.item, r.file \in disk)).processing_status = "processing"
    BY <2>1, <2>2, <1>7, AssignedStage
  <2> QED BY <2>1, <2>2, <2>3, <1>7, <1>9
<1>12. CASE PathExists(e) \/ PathMissing(e) \/ ExtractCounters(e)
  <2>1. /\ r.pc \in {"read", "parse"} /\ r.phase = "extract" /\ UNCHANGED <<dbVars, brokerVars>>
        /\ \/ Step(e, Assigned(r, "commit", r.item, Extracted(r.item)))
           \/ Step(e, Assigned(r, "commit", r.item, Failed(r.item)))
           \/ Step(e, [r EXCEPT !.pc = "parse"])
    BY <1>12, <1>0 DEF PathExists, PathMissing, ExtractCounters, RunAgrees
  <2>2. row.processing_status = "processing" /\ r.item.processing_status = "processing"
    BY <2>1, <1>7 DEF StatusBefore
  <2>3. CASE Step(e, [r EXCEPT !.pc = "parse"])
    <3> DEFINE run == [r EXCEPT !.pc = "parse"]
    <3>1. run.pc = "parse" /\ run.phase = "extract" /\ run.item = r.item
      BY <2>1, <1>0 DEF Run, RunRecord
    <3> HIDE DEF run
    <3>2. RunAgrees(run, row)
      BY <3>1, <2>2 DEF RunAgrees, StatusBefore
    <3> QED BY <3>2, <2>1, <2>3, <1>3 DEF run
  <2>4. CASE Step(e, Assigned(r, "commit", r.item, Extracted(r.item)))
    BY <2>1, <2>2, <2>4, <1>7, <1>9, AssignedStage
  <2>5. CASE Step(e, Assigned(r, "commit", r.item, Failed(r.item)))
    BY <2>1, <2>2, <2>5, <1>7, <1>9, AssignedStage
  <2> QED BY <2>1, <2>3, <2>4, <2>5
<1>13. CASE OpenFails(e) \/ PhaseFails(e)
  <2>1. r.pc \in {"read", "parse"} /\ Step(e, Raised(e)) /\ UNCHANGED <<dbVars, brokerVars>>
    BY <1>13 DEF OpenFails, PhaseFails, Orderly
  <2>2. Raised(e) = RunAt("mark", r.phase, r.file)
    BY <2>1, <1>7 DEF Raised
  <2> QED BY <2>1, <2>2, <1>3, <1>6, <1>8
<1>14. CASE CommitItem(e) \/ SaveFailed(e)
  <2> DEFINE flushed == Flushed(row, r.changes)
  <2>1. /\ (r.pc = "commit" /\ r.phase # "alert") \/ r.pc = "save"
        /\ rows' = RowsAfter(r.file, r.changes) /\ UNCHANGED <<alerts, brokerVars>>
    BY <1>14 DEF CommitItem, SaveFailed
  <2>2. later = flushed
    BY <2>1, <1>0 DEF RowsAfter
  <2>3. /\ Advances(row, flushed)
        /\ r.pc = "commit" /\ r.phase = "scan" => flushed.processing_status = "processing"
        /\ r.pc = "commit" /\ r.phase = "extract" =>
             flushed.processing_status \in {"processed", "failed"}
        /\ r.pc = "save" => flushed.processing_status = "failed"
    BY <2>1, <1>0, CommitAdvances
  <2>4. flushed \in Row
    BY <1>0, FlushedType
  <2> HIDE DEF flushed
  <2>5. runs'[e].pc # "idle" => RunAgrees(runs'[e], flushed)
    <3>1. CASE CommitItem(e)
      <4> DEFINE next == IF r.phase = "scan" THEN "extract" ELSE "alert"
      <4>1. r.pc = "commit" /\ runs'[e] = Onward(e, next, r.file)
        BY <3>1, <1>1 DEF CommitItem
      <4>2. flushed.processing_status \in StatusBefore(next)
        BY <4>1, <2>1, <2>3, <1>0 DEF StatusBefore, Phase
      <4> HIDE DEF next
      <4> QED BY <4>1, <4>2, <1>2 DEF Onward, RunAgrees
    <3>2. CASE SaveFailed(e)
      <4>1. r.pc = "save" /\ runs'[e] = Marked(e)
        BY <3>2, <1>1 DEF SaveFailed
      <4>2. flushed.processing_status \in StatusBefore("alert")
        BY <4>1, <2>3 DEF StatusBefore
      <4> QED BY <4>1, <4>2, <1>2 DEF Marked, RunAgrees
    <3> QED BY <3>1, <3>2, <1>14
  <2> QED BY <2>1, <2>2, <2>3, <2>4, <2>5, NoRowAssumption DEF brokerVars
<1>15. CASE AddAlert(e)
  <2>1. r.pc = "commit" /\ r.phase = "alert" /\ Step(e, Idle) /\ UNCHANGED <<rows, brokerVars>>
    BY <1>15 DEF AddAlert
  <2>2. row.processing_status \in {"processed", "failed"} /\ r.level = LevelFor(row)
    BY <2>1, <1>0 DEF RunAgrees, StatusBefore
  <2> QED BY <2>1, <2>2, <1>0, <1>1, <1>2 DEF brokerVars
<1>16. CASE MarkFailed(e)
  <2>1. /\ r.pc = "mark" /\ Step(e, Assigned(r, "save", row, Failed(row)))
        /\ UNCHANGED <<dbVars, brokerVars>>
    BY <1>16 DEF MarkFailed
  <2>2. row.processing_status \in {"uploaded", "processing"}
    BY <2>1, <1>0 DEF RunAgrees
  <2> QED BY <2>1, <2>2, <1>0, <1>9, AssignedStage
<1>17. CASE Publish(e)
  <2>1. /\ r.pc = "publish" /\ Step(e, Idle) /\ UNCHANGED dbVars
        /\ queue' = Sent([task |-> r.phase, file |-> r.file])
    BY <1>17 DEF Publish
  <2>2. row.processing_status \in StatusBefore(r.phase)
    BY <2>1, <1>0 DEF RunAgrees
  <2> QED BY <2>1, <2>2, <1>0, <1>1, <1>2 DEF dbVars
<1>18. CASE PublishFails(e)
  BY <1>18, <1>2, <1>3 DEF PublishFails
<1>19. CASE GetNothing(e) \/ CommitRefused(e) \/ MarkIneffective(e) \/ CommitUnconfirmed(e)
  BY <1>19 DEF GetNothing, CommitRefused, MarkIneffective, CommitUnconfirmed, Accepts, Orderly
<1> QED BY <1>10, <1>11, <1>12, <1>13, <1>14, <1>15, <1>16, <1>17, <1>18, <1>19 DEF RunStep

-----------------------------------------------------------------------------
(* Rows, messages, runs and alerts keep in step                              *)

\* Requests insert rows and change titles, and leave the stage to the pipeline.
LEMMA RequestMovesRows ==
  ASSUME TypeOK, Ownership, RenameChangesTitle, NEW c \in Requests, RequestStep(c),
         NEW f \in Files, rows'[f] # NoRow
  PROVE  \/ rows[f] # NoRow /\ SameStage(rows[f], rows'[f])
         \/ /\ Doing(c, f, {"insert"}) /\ rows[f] = NoRow /\ rows'[f] = reqs[c].item
<1> DEFINE file == reqs[c].file
<1>0. /\ rows \in [Files -> Row \cup {NoRow}]
      /\ reqs[c].pc # "idle" => file \in Files /\ reqs[c].changes \in Changes
  BY SlotType DEF TypeOK, InfrastructureTypeOK, Request, RequestRecord
<1>1. CASE rows' = rows
  BY <1>1 DEF SameStage
<1>2. CASE InsertRow(c) \/ InsertFails(c)
  <2>1. /\ reqs[c].pc = "insert"
        /\ rows' = rows \/ rows' = [rows EXCEPT ![file] = reqs[c].item]
    BY <1>2 DEF InsertRow, InsertFails
  <2>2. rows[file] = NoRow
    BY <2>1 DEF Ownership, UploadsAlone
  <2> QED BY <2>1, <2>2, <1>0 DEF SameStage, Doing
<1>3. CASE SaveTitle(c)
  <2>1. reqs[c].pc = "rename" /\ rows' = RowsAfter(file, reqs[c].changes)
    BY <1>3 DEF SaveTitle
  <2>2. CASE rows[file] = NoRow
    BY <2>1, <2>2 DEF RowsAfter, SameStage
  <2>3. CASE rows[file] # NoRow
    <3> DEFINE row == rows[file]
               later == Flushed(row, reqs[c].changes)
    <3>1. row \in Row /\ reqs[c].changes \in Changes
          /\ reqs[c].changes = [NoChange EXCEPT !.title = reqs[c].changes.title]
      BY <2>1, <2>3, <1>0 DEF RenameChangesTitle
    <3>2. later = [row EXCEPT !.title = later.title]
      BY <3>1, FlushedTitle
    <3>3. rows' = [rows EXCEPT ![file] = later]
      BY <2>1, <2>3 DEF RowsAfter
    <3> HIDE DEF later
    <3>4. SameStage(row, later)
      BY <3>1, <3>2 DEF SameStage, Row
    <3> QED BY <3>3, <3>4, <2>1, <2>3, <1>0 DEF SameStage
  <2> QED BY <2>2, <2>3
<1>4. CASE DeleteRow(c) \/ DeleteFails(c)
  <2>1. rows' = rows \/ (reqs[c].pc = "delete" /\ rows' = [rows EXCEPT ![file] = NoRow])
    BY <1>4 DEF DeleteRow, DeleteFails, DeleteWithAlerts, dbVars
  <2> QED BY <2>1, <1>0 DEF SameStage
<1>5. \/ rows' = rows \/ InsertRow(c) \/ InsertFails(c) \/ SaveTitle(c) \/ DeleteRow(c)
      \/ DeleteFails(c)
  BY DEF RequestStep, WriteFails, StoreBytes, ReplaceFails, RefreshItem, RefreshFails, Cleanup,
     CleanupFails, EnqueueScan, EnqueueFails, RenameFails, Unlink, UnlinkFails, dbVars
<1> QED BY <1>1, <1>2, <1>3, <1>4, <1>5

\* A run touches the row and the alerts of its own file only.
LEMMA RunStepOwn ==
  ASSUME TypeOK, OneHolder, NEW e \in Executors, RunStep(e)
  PROVE  LET f == runs[e].file IN
         /\ f \in Files /\ Busy(e, f)
         /\ \A g \in Files : g # f => rows'[g] = rows[g] /\ alerts'[g] = alerts[g]
         /\ rows'[f] = NoRow <=> rows[f] = NoRow
         /\ \/ alerts' = alerts
            \/ rows' = rows /\ alerts[f] = <<>> /\ alerts'[f] = <<runs[e].level>>
<1> DEFINE f == runs[e].file
<1>0. /\ runs[e].pc # "idle" /\ f \in Files /\ runs[e].changes \in Changes
      /\ rows \in [Files -> Row \cup {NoRow}] /\ alerts \in [Files -> Seq(AlertLevel)]
  BY RunMoves, BusyRun DEF TypeOK, InfrastructureTypeOK, Run, RunRecord
<1>1. CASE UNCHANGED dbVars
  BY <1>0, <1>1 DEF dbVars, Busy
<1>2. CASE rows' = RowsAfter(f, runs[e].changes) /\ UNCHANGED alerts
  <2>1. \A g \in Files : rows'[g] = NoRow <=> rows[g] = NoRow
    BY <1>0, <1>2, RowsAfterType
  <2> QED BY <2>1, <1>0, <1>2 DEF RowsAfter, Busy
<1>3. CASE /\ runs[e].pc = "commit" /\ UNCHANGED rows
           /\ alerts' = [alerts EXCEPT ![f] = Append(@, runs[e].level)]
  <2>1. alerts[f] = <<>>
    BY <1>0, <1>3 DEF OneHolder, RunHolds, Spent
  <2>2. alerts'[f] = <<runs[e].level>>
    BY <2>1, <1>0, <1>3
  <2> QED BY <2>1, <2>2, <1>0, <1>3 DEF Busy
<1> QED BY <1>1, <1>2, <1>3, RunStepEffect

\* A row changes its stage only under the hands of the run that works on it.
LEMMA UploadsStayFresh ==
  ASSUME Orderly, TypeOK, Ownership, RenameChangesTitle, OneHolder, UploadsFresh, [Next]_vars
  PROVE  UploadsFresh'
<1>0. /\ reqs \in [Requests -> Request \cup {Idle}]
      /\ \A c \in Requests : reqs[c].pc # "idle" => reqs[c].file \in Files
  BY SlotType DEF TypeOK, FileServiceTypeOK
<1>1. ASSUME NEW c \in Requests, RequestStep(c)
      PROVE  UploadsFresh'
  <2> SUFFICES ASSUME NEW d \in Requests
               PROVE  /\ reqs'[d].pc \in {"write", "insert"} =>
                           /\ reqs'[d].item.processing_status = "uploaded"
                           /\ reqs'[d].item.requires_attention = FALSE
                      /\ reqs'[d].pc \in {"refresh", "enqueue"} /\ rows'[reqs'[d].file] # NoRow =>
                           rows'[reqs'[d].file].processing_status = "uploaded"
    BY DEF UploadsFresh
  <2>1. CASE d # c
    <3>1. reqs'[d] = reqs[d]
      BY <1>1, <2>1, RequestMoves
    <3>2. reqs[d].pc # "idle" => ~Doing(c, reqs[d].file, {"insert"})
      BY <2>1 DEF Ownership, UploadsAlone, Doing
    <3>3. reqs[d].pc \in {"refresh", "enqueue"} /\ rows'[reqs[d].file] # NoRow =>
            rows'[reqs[d].file].processing_status = "uploaded"
      BY <3>2, <1>0, <1>1, RequestMovesRows DEF UploadsFresh, SameStage
    <3> QED BY <3>1, <3>3 DEF UploadsFresh
  <2>2. CASE d = c
    <3>1. reqs'[c].pc \in {"write", "insert"} =>
            reqs[c].pc = "write" /\ reqs'[c].item = reqs[c].item
      BY <1>1, RequestMoves DEF Idle
    <3>2. ASSUME reqs'[c].pc \in {"refresh", "enqueue"}, rows'[reqs'[c].file] # NoRow
          PROVE  rows'[reqs'[c].file].processing_status = "uploaded"
      <4>1. reqs[c].pc \in Uploading /\ reqs'[c].file = reqs[c].file /\ reqs[c].file \in Files
        BY <3>2, <1>0, <1>1, RequestAddsNoHolder DEF Uploading
      <4>2. CASE reqs[c].pc \in {"write", "insert"}
        <5>1. rows[reqs[c].file] = NoRow
          BY <4>2 DEF Ownership, UploadsAlone
        <5>2. rows'[reqs[c].file] = reqs[c].item
          BY <5>1, <4>1, <3>2, <1>1, RequestMovesRows
        <5> QED BY <5>2, <4>1, <4>2 DEF UploadsFresh
      <4>3. CASE reqs[c].pc \in {"refresh", "enqueue"}
        BY <4>1, <4>3, <3>2, <1>1, RequestMovesRows DEF UploadsFresh, SameStage, Doing
      <4> QED BY <4>1, <4>2, <4>3 DEF Uploading
    <3> QED BY <2>2, <3>1, <3>2 DEF UploadsFresh
  <2> QED BY <2>1, <2>2
<1>2. ASSUME NEW c \in Requests, BeginRequest(c)
      PROVE  UploadsFresh'
  <2>1. \A kind \in Kinds, title \in Titles :
          /\ StoredFile(kind, title).processing_status = "uploaded"
          /\ StoredFile(kind, title).requires_attention = FALSE
    BY DEF StoredFile
  <2>2. rows' = rows
    BY <1>2 DEF BeginRequest, BeginCreate, BeginRename, BeginDelete, dbVars
  <2> QED BY <2>1, <2>2, <1>2, RequestStarts DEF UploadsFresh
<1>3. ASSUME NEW e \in Executors, RunStep(e), UNCHANGED requestVars
      PROVE  UploadsFresh'
  <2>1. \A c \in Requests : reqs[c].pc \in {"refresh", "enqueue"} => reqs[c].file # runs[e].file
    BY <1>3, RunStepOwn DEF OneHolder, UploadHolds, Untouched, Uploading
  <2> QED BY <2>1, <1>0, <1>3, RunStepOwn DEF UploadsFresh, requestVars
<1>4. CASE Background /\ rows' = rows
  BY <1>4, BackgroundEffect DEF UploadsFresh, Idle
<1>5. Background => rows' = rows \/ \E e \in Executors : RunStep(e) /\ UNCHANGED requestVars
  BY DEF Background, ReceiveTask, WorkerCrash, Redeliver, ApiCrash, vars, dbVars
<1> QED BY <1>1, <1>2, <1>3, <1>4, <1>5, NextSplit

\* Outside requests and pipeline steps nothing happens to rows or alerts, no
\* message is sent, and runs start only from messages.
LEMMA OtherSteps ==
  ASSUME Orderly, TypeOK, [Next]_vars,
         \A c \in Requests : ~RequestStep(c),
         \A e \in Executors : ~RunStep(e)
  PROVE  /\ UNCHANGED dbVars
         /\ \A m \in Message : queue'[m] > 0 => queue[m] > 0
         /\ \A e \in Executors :
              \/ runs'[e].pc = "idle"
              \/ runs'[e] = runs[e]
              \/ \E m \in Message : queue[m] > 0 /\ runs'[e] = RunAt("get", m.task, m.file)
<1>0. queue \in [Message -> Nat] /\ runs \in [Executors -> Run \cup {Idle}]
  BY DEF TypeOK, InfrastructureTypeOK, ProcessingTypeOK
<1>1. ASSUME NEW w \in Workers, NEW m \in Message, ReceiveTask(w, m)
      PROVE  /\ UNCHANGED dbVars
             /\ \A n \in Message : queue'[n] > 0 => queue[n] > 0
             /\ \A e \in Executors :
                  runs'[e] = runs[e] \/ (queue[m] > 0 /\ runs'[e] = RunAt("get", m.task, m.file))
  BY <1>0, <1>1 DEF ReceiveTask, Step
<1>2. CASE UNCHANGED <<dbVars, queue, runs>>
  BY <1>2
<1>3. CASE UNCHANGED <<dbVars, queue>> /\ \A e \in Executors : runs'[e] = Idle \/ runs'[e] = runs[e]
  BY <1>3 DEF Idle
<1>4. ASSUME NEW w \in Workers, WorkerCrash(w)
      PROVE  UNCHANGED <<dbVars, queue>> /\ \A e \in Executors : runs'[e] = Idle \/ runs'[e] = runs[e]
  BY <1>0, <1>4 DEF WorkerCrash, Step, brokerVars
<1>5. CASE ApiCrash
  BY <1>0, <1>5, <1>3 DEF ApiCrash, brokerVars
<1>6. ASSUME NEW c \in Requests, BeginRequest(c)
      PROVE  UNCHANGED <<dbVars, queue, runs>>
  BY <1>6 DEF BeginRequest, BeginCreate, BeginRename, BeginDelete, brokerVars
<1>7. CASE UNCHANGED vars
  BY <1>7, <1>2 DEF vars, brokerVars
<1> QED BY <1>1, <1>2, <1>3, <1>4, <1>5, <1>6, <1>7 DEF Next, Redeliver, Orderly

\* A message is sent for the phase its file is ready for, and nobody else moves
\* the file while the message waits.
LEMMA MessagesStayAgreed ==
  ASSUME Orderly, TypeOK, Ownership, RenameChangesTitle, PipelineAfterInsert, OneHolder,
         Progress, [Next]_vars
  PROVE  MessagesAgree'
<1> USE DEF Progress
<1>0. queue \in [Message -> Nat] /\ (\A m \in Message : m.file \in Files)
  BY DEF TypeOK, InfrastructureTypeOK, Message
<1> SUFFICES ASSUME NEW m \in Message, queue'[m] > 0, rows'[m.file] # NoRow
             PROVE  rows'[m.file].processing_status \in StatusBefore(m.task)
  BY DEF MessagesAgree
<1>1. ASSUME NEW c \in Requests, RequestStep(c)
      PROVE  rows'[m.file].processing_status \in StatusBefore(m.task)
  <2>1. CASE queue[m] > 0
    <3>1. ~Doing(c, m.file, {"insert"})
      BY <2>1 DEF PipelineAfterInsert, PastInsert, Doing
    <3>2. rows[m.file] # NoRow /\ SameStage(rows[m.file], rows'[m.file])
      BY <3>1, <1>0, <1>1, RequestMovesRows
    <3> QED BY <2>1, <3>2 DEF MessagesAgree, SameStage
  <2>2. CASE queue[m] = 0
    <3>1. /\ reqs[c].pc = "enqueue" /\ queue' = Sent(ScanMessage(reqs[c].file)) /\ rows' = rows
      <4>1. EnqueueScan(c) \/ EnqueueFails(c)
        BY <2>2, <1>1, RequestAddsNoHolder
      <4>2. queue' # queue
        BY <2>2
      <4> QED BY <4>1, <4>2 DEF EnqueueScan, EnqueueFails, Orderly, dbVars
    <3>2. m = ScanMessage(reqs[c].file)
      BY <2>2, <3>1, <1>0 DEF Sent
    <3>3. m.file = reqs[c].file /\ m.task = "scan"
      BY <3>2 DEF ScanMessage
    <3> QED BY <3>1, <3>3 DEF UploadsFresh, StatusBefore
  <2> QED BY <2>1, <2>2, <1>0
<1>2. ASSUME NEW e \in Executors, RunStep(e)
      PROVE  rows'[m.file].processing_status \in StatusBefore(m.task)
  <2> DEFINE f == runs[e].file
  <2>1. CASE m.file # f
    <3>1. rows'[m.file] = rows[m.file] /\ f \in Files
      BY <2>1, <1>0, <1>2, RunStepOwn
    <3>2. queue[m] > 0
      <4>1. CASE queue' = queue
        BY <4>1
      <4>2. ASSUME NEW t \in Phase, queue' = Sent([task |-> t, file |-> f])
            PROVE  queue[m] > 0
        <5>1. m # [task |-> t, file |-> f]
          BY <2>1
        <5> QED BY <4>2, <5>1, <1>0 DEF Sent
      <4> QED BY <4>1, <4>2, <1>2, RunMoves
    <3> QED BY <3>1, <3>2 DEF MessagesAgree
  <2>2. CASE m.file = f
    <3>1. queue[m] = 0
      BY <2>2, <1>0, <1>2, RunStepOwn DEF OneHolder, MessageHolds
    <3>2. rows[f] # NoRow
      BY <2>2, <1>2, RunStepOwn
    <3>3. /\ rows'[f] = rows[f] /\ rows[f].processing_status \in StatusBefore(runs[e].phase)
          /\ queue' = Sent([task |-> runs[e].phase, file |-> f])
      BY <3>1, <3>2, <1>2, RunStepAgrees
    <3>4. m = [task |-> runs[e].phase, file |-> f]
      BY <3>1, <3>3, <1>0 DEF Sent
    <3>5. m.task = runs[e].phase
      BY <3>4
    <3> QED BY <2>2, <3>3, <3>5
  <2> QED BY <2>1, <2>2
<1>3. CASE (\A c \in Requests : ~RequestStep(c)) /\ (\A e \in Executors : ~RunStep(e))
  <2>1. rows' = rows /\ queue[m] > 0
    BY <1>3, OtherSteps DEF dbVars
  <2> QED BY <2>1 DEF MessagesAgree
<1> QED BY <1>1, <1>2, <1>3

\* A run starts on a file that is ready for its phase, and nobody else moves the
\* file until the run ends.
LEMMA RunsStayAgreed ==
  ASSUME Orderly, TypeOK, Ownership, RenameChangesTitle, PipelineAfterInsert, OneHolder,
         Progress, [Next]_vars
  PROVE  RunsAgree'
<1> USE DEF Progress
<1>0. /\ runs \in [Executors -> Run \cup {Idle}]
      /\ \A e \in Executors : runs[e].pc # "idle" => runs[e].file \in Files
      /\ \A m \in Message : m.file \in Files
  BY BusyRun DEF TypeOK, ProcessingTypeOK, Run, RunRecord, Message
<1>a. ASSUME NEW phase, NEW f, rows[f].processing_status \in StatusBefore(phase)
      PROVE  RunAgrees(RunAt("get", phase, f), rows[f]) /\ RunAt("get", phase, f).file = f
  BY <1>a DEF RunAt, RunAgrees
<1> SUFFICES ASSUME NEW d \in Executors, runs'[d].pc # "idle", rows'[runs'[d].file] # NoRow
             PROVE  RunAgrees(runs'[d], rows'[runs'[d].file])
  BY DEF RunsAgree
<1>1. ASSUME NEW c \in Requests, RequestStep(c)
      PROVE  RunAgrees(runs'[d], rows'[runs'[d].file])
  <2>1. CASE runs'[d] = runs[d]
    <3> DEFINE f == runs[d].file
    <3>1. ~Doing(c, f, {"insert"}) /\ f \in Files
      BY <2>1, <1>0 DEF PipelineAfterInsert, PastInsert, Doing
    <3>2. rows[f] # NoRow /\ SameStage(rows[f], rows'[f])
      BY <2>1, <3>1, <1>1, RequestMovesRows
    <3> QED BY <2>1, <3>2, AgreesLater DEF RunsAgree
  <2>2. CASE runs'[d] # runs[d]
    <3> DEFINE f == reqs[c].file
    <3>1. /\ reqs[c].pc = "enqueue" /\ Step(f, RunAt("get", "scan", f)) /\ rows' = rows
      <4>1. EnqueueScan(c) \/ EnqueueFails(c) \/ runs' = runs
        BY <1>1, RequestAddsNoHolder
      <4>2. EnqueueFails(c)
        BY <4>1, <2>2 DEF EnqueueScan
      <4> QED BY <4>2 DEF EnqueueFails, dbVars
    <3>2. runs'[d] = RunAt("get", "scan", f)
      BY <2>2, <3>1, <1>0 DEF Step
    <3>3. RunAt("get", "scan", f).file = f
      BY DEF RunAt
    <3>4. rows[f].processing_status \in StatusBefore("scan")
      BY <3>1, <3>2, <3>3 DEF UploadsFresh, StatusBefore
    <3> QED BY <3>1, <3>2, <3>3, <3>4, <1>a
  <2> QED BY <2>1, <2>2
<1>2. ASSUME NEW e \in Executors, RunStep(e)
      PROVE  RunAgrees(runs'[d], rows'[runs'[d].file])
  <2>1. CASE d # e
    <3>1. runs'[d] = runs[d] /\ runs[d].file # runs[e].file
      BY <2>1, <1>2, RunMoves, RunStepOwn DEF OneHolder, RunHolds, Busy
    <3>2. rows'[runs[d].file] = rows[runs[d].file]
      BY <3>1, <1>0, <1>2, RunStepOwn
    <3> QED BY <3>1, <3>2 DEF RunsAgree
  <2>2. CASE d = e
    <3>1. runs'[e].file = runs[e].file
      BY <2>2, <1>2, RunMoves
    <3>2. rows[runs[e].file] # NoRow
      BY <2>2, <3>1, <1>2, RunStepOwn
    <3> QED BY <2>2, <3>1, <3>2, <1>2, RunStepAgrees
  <2> QED BY <2>1, <2>2
<1>3. CASE (\A c \in Requests : ~RequestStep(c)) /\ (\A e \in Executors : ~RunStep(e))
  <2>1. rows' = rows
    BY <1>3, OtherSteps DEF dbVars
  <2>2. CASE runs'[d] = runs[d]
    BY <2>1, <2>2 DEF RunsAgree
  <2>3. ASSUME NEW m \in Message, queue[m] > 0, runs'[d] = RunAt("get", m.task, m.file)
        PROVE  RunAgrees(runs'[d], rows'[runs'[d].file])
    <3>1. runs'[d].file = m.file
      BY <2>3 DEF RunAt
    <3> QED BY <2>1, <2>3, <3>1, <1>a DEF MessagesAgree
  <2> QED BY <2>2, <2>3, <1>3, OtherSteps
<1> QED BY <1>1, <1>2, <1>3

\* An alert is what its row called for, and after it nobody moves the file.
LEMMA AlertsStayAgreed ==
  ASSUME Orderly, TypeOK, Ownership, RenameChangesTitle, AlertsHaveRow, AlertsHaveRow',
         OneHolder, Progress, [Next]_vars
  PROVE  AlertsAgree'
<1> USE DEF Progress
<1> SUFFICES ASSUME NEW f \in Files, alerts'[f] # <<>>
             PROVE  /\ rows'[f] # NoRow
                    /\ rows'[f].processing_status \in {"processed", "failed"}
                    /\ alerts'[f][1] = LevelFor(rows'[f])
  BY DEF AlertsAgree
<1>0. rows'[f] # NoRow
  BY DEF AlertsHaveRow
<1>1. ASSUME alerts'[f] = alerts[f], SameStage(rows[f], rows'[f])
      PROVE  /\ rows'[f].processing_status \in {"processed", "failed"}
             /\ alerts'[f][1] = LevelFor(rows'[f])
  BY <1>1 DEF AlertsAgree, SameStage, LevelFor
<1>2. ASSUME NEW c \in Requests, RequestStep(c)
      PROVE  /\ rows'[f].processing_status \in {"processed", "failed"}
             /\ alerts'[f][1] = LevelFor(rows'[f])
  <2>1. alerts'[f] = alerts[f]
    BY <1>2, RequestAddsNoHolder
  <2>2. rows[f] # NoRow
    BY <2>1 DEF AlertsHaveRow
  <2> QED BY <2>1, <2>2, <1>0, <1>1, <1>2, RequestMovesRows
<1>3. ASSUME NEW e \in Executors, RunStep(e)
      PROVE  /\ rows'[f].processing_status \in {"processed", "failed"}
             /\ alerts'[f][1] = LevelFor(rows'[f])
  <2>1. CASE f # runs[e].file
    BY <2>1, <1>1, <1>3, RunStepOwn DEF SameStage
  <2>2. CASE f = runs[e].file
    <3>1. rows[f] # NoRow
      BY <2>2, <1>0, <1>3, RunStepOwn
    <3>2. /\ \/ alerts' = alerts
             \/ /\ rows'[f] = rows[f] /\ rows[f].processing_status \in {"processed", "failed"}
                /\ runs[e].level = LevelFor(rows[f])
          /\ rows'[f] = rows[f] \/ (alerts' = alerts /\ Advances(rows[f], rows'[f]))
      BY <2>2, <3>1, <1>3, RunStepAgrees
    <3>3. CASE alerts' = alerts
      <4>1. rows[f].processing_status \in {"processed", "failed"}
        BY <3>3 DEF AlertsAgree
      <4>2. rows'[f] = rows[f]
        BY <4>1, <3>2 DEF Advances
      <4> QED BY <4>2, <3>3, <1>1 DEF SameStage
    <3>4. CASE alerts' # alerts
      <4>1. alerts'[f] = <<runs[e].level>>
        BY <2>2, <3>4, <1>3, RunStepOwn
      <4>2. alerts'[f][1] = runs[e].level
        BY <4>1
      <4> QED BY <3>2, <3>4, <4>2
    <3> QED BY <3>3, <3>4
  <2> QED BY <2>1, <2>2
<1>4. CASE (\A c \in Requests : ~RequestStep(c)) /\ (\A e \in Executors : ~RunStep(e))
  BY <1>0, <1>1, <1>4, OtherSteps DEF dbVars, SameStage
<1> QED BY <1>0, <1>2, <1>3, <1>4

-----------------------------------------------------------------------------
(* The alert and its row                                                     *)

Orders ==
  /\ TypeOK /\ Ownership /\ RenameChangesTitle /\ AlertsHaveRow
  /\ PipelineAfterInsert /\ OneHolder /\ Progress

\* In an orderly system one holder at a time takes each file on, stage by stage.
LEMMA OrdersInvariant ==
  ASSUME Orderly
  PROVE  Spec => []Orders
<1>1. Init => RenameChangesTitle /\ OneHolder /\ Progress
  BY InitHolders
     DEF Init, InfrastructureInit, ProcessingInit, FileServiceInit, Idle, RenameChangesTitle,
         Progress, UploadsFresh, MessagesAgree, RunsAgree, AlertsAgree
<1>2. TypeOK /\ Ownership /\ AlertsHaveRow /\ AlertsHaveRow' /\ PipelineAfterInsert
        /\ RenameChangesTitle /\ OneHolder /\ Progress /\ [Next]_vars
        => RenameChangesTitle' /\ OneHolder' /\ Progress'
  <2> SUFFICES ASSUME TypeOK, Ownership, AlertsHaveRow, AlertsHaveRow', PipelineAfterInsert,
                      RenameChangesTitle, OneHolder, Progress, [Next]_vars
               PROVE  RenameChangesTitle' /\ OneHolder' /\ Progress'
    OBVIOUS
  <2>1. "publish_unsure" \notin Faults /\ "redeliver" \notin Faults
    BY DEF Orderly
  <2>2. OneHolder'
    BY <2>1, NextHolders
  <2>3. UploadsFresh
    BY DEF Progress
  <2>4. Progress'
    BY <2>3, UploadsStayFresh, MessagesStayAgreed, RunsStayAgreed, AlertsStayAgreed DEF Progress
  <2> QED BY <2>2, <2>4, NextKeepsRename
<1>3. TypeOK /\ Ownership /\ RenameChangesTitle /\ AlertsHaveRow /\ PipelineAfterInsert
        /\ OneHolder /\ Progress => Orders
  BY DEF Orders
<1> QED BY <1>1, <1>2, <1>3, PipelineOrder, AlertsAlwaysHaveRow, OwnershipInvariant, PTL DEF Spec

\* The alert beside a row says what the row says, at every moment: critical for
\* failed, warning or info for processed, and none before the pipeline is
\* through.  File errors, lost workers, a dead API process and failing .delay()
\* calls do not part them.
THEOREM AlertsAlwaysAgree ==
  ASSUME Orderly
  PROVE  Spec => []AlertAgreesWithRow
<1>1. Orders => AlertAgreesWithRow
  <2> SUFFICES ASSUME Orders, NEW f \in Files, NEW i \in DOMAIN alerts[f]
               PROVE  /\ rows[f] # NoRow
                      /\ rows[f].processing_status \in {"processed", "failed"}
                      /\ alerts[f][i] = "critical" <=> rows[f].processing_status = "failed"
                      /\ alerts[f][i] = "warning" => rows[f].requires_attention
                      /\ alerts[f][i] = "info" => ~rows[f].requires_attention
    BY DEF AlertAgreesWithRow
  <2>1. alerts[f] \in Seq(AlertLevel) /\ Len(alerts[f]) <= 1
    BY DEF Orders, TypeOK, InfrastructureTypeOK, OneHolder, AtMostOneAlert
  <2>2. i = 1 /\ alerts[f] # <<>>
    BY <2>1
  <2>3. /\ rows[f] # NoRow /\ rows[f].processing_status \in {"processed", "failed"}
        /\ alerts[f][1] = LevelFor(rows[f])
    BY <2>2 DEF Orders, Progress, AlertsAgree
  <2> QED BY <2>2, <2>3 DEF LevelFor
<1> QED BY <1>1, OrdersInvariant, PTL

-----------------------------------------------------------------------------
(* The refinement                                                            *)

FlagOf(f) == rows[f] # NoRow /\ rows[f].requires_attention
NoticeOf(f) == IF alerts[f] = <<>> THEN "none" ELSE alerts[f][Len(alerts[f])]

Stays(f) == StageOf(f)' = StageOf(f) /\ FlagOf(f)' = FlagOf(f) /\ NoticeOf(f)' = NoticeOf(f)
Passes(f, from, to) == StageOf(f) \in from /\ StageOf(f)' = to

\* What a step of the backend may do to one file.
Lives(f) ==
  \/ Stays(f)
  \/ /\ \/ Passes(f, {"absent"}, "uploaded")
        \/ Passes(f, {"absent"}, "gone")
        \/ Passes(f, {"processing"}, "processed")
        \/ Passes(f, {"uploaded", "processing"}, "failed")
     /\ FlagOf(f)' = FlagOf(f)
     /\ NoticeOf(f)' = NoticeOf(f)
  \/ /\ Passes(f, {"uploaded"}, "processing")
     /\ FlagOf(f)' \in BOOLEAN
     /\ NoticeOf(f)' = NoticeOf(f)
  \/ /\ StageOf(f) \in {"processed", "failed"}
     /\ StageOf(f)' = StageOf(f)
     /\ FlagOf(f)' = FlagOf(f)
     /\ NoticeOf(f) = "none"
     /\ NoticeOf(f)' = IF StageOf(f) = "failed" THEN "critical"
                       ELSE IF FlagOf(f) THEN "warning" ELSE "info"
  \/ /\ Passes(f, {"uploaded", "processing", "processed", "failed"}, "gone")
     /\ FlagOf(f)' = FALSE
     /\ NoticeOf(f)' = "none"

\* A step that moves one file on and leaves the others is a step of FileLifecycle.
LEMMA OneFileLives ==
  ASSUME NEW f \in Files, Lives(f), \A g \in Files : g # f => Stays(g)
  PROVE  [Lifecycle!Next]_(Lifecycle!vars)
<1> DEFINE stage == [g \in Files |-> StageOf(g)]
           flagged == [g \in Files |-> FlagOf(g)]
           notice == [g \in Files |-> NoticeOf(g)]
<1>0. /\ stage[f] = StageOf(f) /\ flagged[f] = FlagOf(f) /\ notice[f] = NoticeOf(f)
      /\ stage' = [stage EXCEPT ![f] = StageOf(f)']
      /\ flagged' = [flagged EXCEPT ![f] = FlagOf(f)']
      /\ notice' = [notice EXCEPT ![f] = NoticeOf(f)']
  BY DEF Stays
<1>1. /\ FlagOf(f)' = FlagOf(f) => flagged' = flagged
      /\ NoticeOf(f)' = NoticeOf(f) => notice' = notice
      /\ StageOf(f)' = StageOf(f) => stage' = stage
  BY <1>0
<1>2. /\ Lifecycle!Upload(f) <=>
           /\ stage[f] \in {"absent"} /\ stage' = [stage EXCEPT ![f] = "uploaded"]
           /\ flagged' = flagged /\ notice' = notice
      /\ Lifecycle!Complete(f) <=>
           /\ stage[f] \in {"processing"} /\ stage' = [stage EXCEPT ![f] = "processed"]
           /\ flagged' = flagged /\ notice' = notice
      /\ Lifecycle!Fail(f) <=>
           /\ stage[f] \in {"uploaded", "processing"} /\ stage' = [stage EXCEPT ![f] = "failed"]
           /\ flagged' = flagged /\ notice' = notice
      /\ Lifecycle!Delete(f) <=>
           /\ stage[f] \in {"uploaded", "processing", "processed", "failed"}
           /\ stage' = [stage EXCEPT ![f] = "gone"]
           /\ flagged' = [flagged EXCEPT ![f] = FALSE]
           /\ notice' = [notice EXCEPT ![f] = "none"]
  BY DEF FlagOf, NoticeOf, Lifecycle!Upload, Lifecycle!Complete, Lifecycle!Fail,
         Lifecycle!Delete, Lifecycle!Move
<1>3. /\ Lifecycle!Scan(f) <=>
           /\ stage[f] \in {"uploaded"} /\ stage' = [stage EXCEPT ![f] = "processing"]
           /\ \E verdict \in BOOLEAN : flagged' = [flagged EXCEPT ![f] = verdict]
           /\ notice' = notice
      /\ Lifecycle!Notify(f) <=>
           /\ stage[f] \in {"processed", "failed"} /\ notice[f] = "none"
           /\ notice' = [notice EXCEPT ![f] = IF stage[f] = "failed" THEN "critical"
                                             ELSE IF flagged[f] THEN "warning" ELSE "info"]
           /\ stage' = stage /\ flagged' = flagged
  BY DEF FlagOf, NoticeOf, Lifecycle!Scan, Lifecycle!Notify, Lifecycle!Move
<1>4. /\ Lifecycle!Abandon({f}) <=>
           /\ {f} # {} /\ \A g \in {f} : stage[g] = "absent"
           /\ stage' = [g \in Files |-> IF g \in {f} THEN "gone" ELSE stage[g]]
           /\ flagged' = flagged /\ notice' = notice
      /\ UNCHANGED Lifecycle!vars <=> stage' = stage /\ flagged' = flagged /\ notice' = notice
  BY DEF FlagOf, NoticeOf, Lifecycle!Abandon, Lifecycle!vars
<1>5. stage = [g \in Files |-> stage[g]]
  OBVIOUS
<1> HIDE DEF stage, flagged, notice
<1>6. CASE Stays(f)
  BY <1>6, <1>1, <1>4 DEF Stays
<1>7. CASE /\ \/ Passes(f, {"absent"}, "uploaded")
              \/ Passes(f, {"processing"}, "processed")
              \/ Passes(f, {"uploaded", "processing"}, "failed")
           /\ FlagOf(f)' = FlagOf(f)
           /\ NoticeOf(f)' = NoticeOf(f)
  <2>1. Lifecycle!Upload(f) \/ Lifecycle!Complete(f) \/ Lifecycle!Fail(f)
    BY <1>7, <1>0, <1>1, <1>2 DEF Passes
  <2> QED BY <2>1 DEF Lifecycle!Next
<1>8. CASE /\ Passes(f, {"absent"}, "gone")
           /\ FlagOf(f)' = FlagOf(f)
           /\ NoticeOf(f)' = NoticeOf(f)
  <2>1. stage' = [g \in Files |-> IF g \in {f} THEN "gone" ELSE stage[g]]
    BY <1>8, <1>0, <1>5 DEF Passes
  <2>2. Lifecycle!Abandon({f})
    BY <1>8, <2>1, <1>0, <1>1, <1>4 DEF Passes
  <2> QED BY <2>2 DEF Lifecycle!Next
<1>9. CASE /\ Passes(f, {"uploaded"}, "processing")
           /\ FlagOf(f)' \in BOOLEAN
           /\ NoticeOf(f)' = NoticeOf(f)
  <2>1. Lifecycle!Scan(f)
    BY <1>9, <1>0, <1>1, <1>3 DEF Passes
  <2> QED BY <2>1 DEF Lifecycle!Next
<1>10. CASE /\ StageOf(f) \in {"processed", "failed"}
            /\ StageOf(f)' = StageOf(f)
            /\ FlagOf(f)' = FlagOf(f)
            /\ NoticeOf(f) = "none"
            /\ NoticeOf(f)' = IF StageOf(f) = "failed" THEN "critical"
                              ELSE IF FlagOf(f) THEN "warning" ELSE "info"
  <2>1. Lifecycle!Notify(f)
    BY <1>10, <1>0, <1>1, <1>3
  <2> QED BY <2>1 DEF Lifecycle!Next
<1>11. CASE /\ Passes(f, {"uploaded", "processing", "processed", "failed"}, "gone")
            /\ FlagOf(f)' = FALSE
            /\ NoticeOf(f)' = "none"
  <2>1. Lifecycle!Delete(f)
    BY <1>11, <1>0, <1>2 DEF Passes
  <2> QED BY <2>1 DEF Lifecycle!Next
<1> QED BY <1>6, <1>7, <1>8, <1>9, <1>10, <1>11 DEF Lives

\* A file whose row, alerts and prospects a step leaves alone stays where it is.
LEMMA Untroubled ==
  ASSUME NEW f \in Files, Awaited(f)' <=> Awaited(f), alerts'[f] = alerts[f],
         \/ rows'[f] = rows[f]
         \/ rows[f] # NoRow /\ rows'[f] # NoRow /\ SameStage(rows[f], rows'[f])
  PROVE  Stays(f)
<1>1. rows'[f] # NoRow <=> rows[f] # NoRow
  OBVIOUS
<1>2. rows[f] # NoRow => SameStage(rows[f], rows'[f])
  BY DEF SameStage
<1>3. StageOf(f)' = StageOf(f)
  BY <1>1, <1>2 DEF StageOf, SameStage
<1>4. FlagOf(f)' = FlagOf(f)
  BY <1>1, <1>2 DEF FlagOf, SameStage
<1>5. NoticeOf(f)' = NoticeOf(f)
  BY DEF NoticeOf
<1> QED BY <1>3, <1>4, <1>5 DEF Stays

\* A request's step moves its own file alone: in, when its row is inserted, or
\* away, when its upload fails or its row is deleted.
LEMMA RequestLives ==
  ASSUME Orders, TypeOK', AlertsHaveRow', NEW c \in Requests, RequestStep(c)
  PROVE  \E f \in Files : Lives(f) /\ \A g \in Files : g # f => Stays(g)
<1> USE DEF Orders
<1>0. /\ reqs[c].pc # "idle" /\ reqs[c].file \in Files /\ reqs[c].changes \in Changes
      /\ reqs[c].file \in issued
      /\ reqs[c].pc \in {"write", "insert"} => reqs[c].item \in Row
      /\ rows \in [Files -> Row \cup {NoRow}] /\ alerts \in [Files -> Seq(AlertLevel)]
  <2>1. reqs[c].pc # "idle"
    BY DEF RequestStep, WriteFails, StoreBytes, ReplaceFails, InsertRow, InsertFails, RefreshItem,
       RefreshFails, Cleanup, CleanupFails, EnqueueScan, EnqueueFails, SaveTitle, RenameFails,
       DeleteRow, DeleteFails, Unlink, UnlinkFails
  <2> QED BY <2>1, SlotType
          DEF TypeOK, InfrastructureTypeOK, Request, RequestRecord, Ownership, RequestsIssued
<1>f. PICK f \in Files : f = reqs[c].file
  BY <1>0
<1>1. /\ \A g \in Files : g # f => rows'[g] = rows[g] /\ alerts'[g] = alerts[g]
      /\ rows'[f] # NoRow => alerts'[f] = alerts[f]
  <2>1. CASE InsertRow(c) \/ InsertFails(c)
    <3>1. alerts' = alerts /\ rows' \in {rows, [rows EXCEPT ![f] = reqs[c].item]}
      BY <2>1, <1>f DEF InsertRow, InsertFails
    <3> QED BY <3>1, <1>0
  <2>2. CASE SaveTitle(c)
    <3>1. alerts' = alerts /\ rows' = RowsAfter(f, reqs[c].changes)
      BY <2>2, <1>f DEF SaveTitle
    <3> QED BY <3>1, <1>0 DEF RowsAfter
  <2>3. CASE DeleteRow(c) \/ DeleteFails(c)
    <3>1. UNCHANGED dbVars \/ DeleteWithAlerts(f)
      BY <2>3, <1>f DEF DeleteRow, DeleteFails
    <3> QED BY <3>1, <1>0 DEF dbVars, DeleteWithAlerts
  <2>4. CASE UNCHANGED dbVars
    BY <2>4 DEF dbVars
  <2> QED BY <2>1, <2>2, <2>3, <2>4
          DEF RequestStep, WriteFails, StoreBytes, ReplaceFails, RefreshItem, RefreshFails, Cleanup,
              CleanupFails, EnqueueScan, EnqueueFails, RenameFails, Unlink, UnlinkFails
<1>2. /\ issued' = issued
      /\ \A d \in Requests : d # c => reqs'[d] = reqs[d]
      /\ \/ reqs'[c].pc \notin {"write", "insert"}
         \/ reqs'[c].file = f /\ reqs[c].pc = "write"
  <2>1. Idle.pc = "idle"
    BY DEF Idle
  <2> QED BY <2>1, <1>f, RequestMoves
<1>3. ASSUME NEW g \in Files, g # f
      PROVE  Stays(g)
  <2>1. Awaited(g)' <=> Awaited(g)
    BY <1>2, <1>3, <1>f DEF Awaited, Doing
  <2> QED BY <2>1, <1>1, <1>3, Untroubled
<1>4. Awaited(f) <=> reqs[c].pc \in {"write", "insert"}
  BY <1>0, <1>f DEF Awaited, Doing, Ownership, UploadsAlone
<1>5. Awaited(f)' => reqs[c].pc = "write"
  BY <1>0, <1>2, <1>f DEF Awaited, Doing, Ownership, UploadsAlone
<1>6. CASE rows'[f] # NoRow /\ rows[f] # NoRow
  <2>1. SameStage(rows[f], rows'[f]) /\ reqs[c].pc \notin {"write", "insert"}
    BY <1>6, <1>0, <1>f, RequestMovesRows DEF Ownership, UploadsAlone
  <2>2. Awaited(f)' <=> Awaited(f)
    BY <2>1, <1>4, <1>5
  <2>3. Stays(f)
    BY <2>1, <2>2, <1>0, <1>1, <1>6, Untroubled
  <2> QED BY <2>3, <1>0, <1>3 DEF Lives
<1>7. CASE rows'[f] # NoRow /\ rows[f] = NoRow
  <2>1. reqs[c].pc = "insert" /\ rows'[f] = reqs[c].item
    BY <1>7, <1>0, <1>f, RequestMovesRows DEF Doing
  <2>2. Passes(f, {"absent"}, "uploaded")
    BY <2>1, <1>4, <1>7 DEF Passes, StageOf, Progress, UploadsFresh
  <2>3. FlagOf(f)' = FlagOf(f)
    BY <2>1, <1>7 DEF FlagOf, Progress, UploadsFresh
  <2>4. NoticeOf(f)' = NoticeOf(f)
    BY <1>0, <1>1, <1>7 DEF NoticeOf
  <2>5. Lives(f)
    BY <2>2, <2>3, <2>4 DEF Lives
  <2> QED BY <2>5, <1>0, <1>3
<1>8. CASE rows'[f] = NoRow
  <2>1. alerts'[f] = <<>> /\ NoticeOf(f)' = "none" /\ FlagOf(f)' = FALSE
    BY <1>8, <1>0 DEF AlertsHaveRow, NoticeOf, FlagOf
  <2>2. CASE rows[f] # NoRow
    <3>1. reqs[c].pc \notin {"write", "insert"}
      BY <2>2, <1>0, <1>f DEF Ownership, UploadsAlone
    <3>2. rows[f].processing_status \in {"uploaded", "processing", "processed", "failed"}
      BY <2>2, <1>0 DEF Row, ProcessingStatus
    <3>3. Passes(f, {"uploaded", "processing", "processed", "failed"}, "gone")
      BY <3>1, <3>2, <2>2, <1>5, <1>8 DEF Passes, StageOf
    <3>4. Lives(f)
      BY <3>3, <2>1 DEF Lives
    <3> QED BY <3>4, <1>0, <1>3
  <2>3. CASE rows[f] = NoRow
    <3>1. alerts[f] = <<>> /\ NoticeOf(f) = "none" /\ FlagOf(f) = FALSE
      BY <2>3, <1>0 DEF AlertsHaveRow, NoticeOf, FlagOf
    <3>2. CASE Awaited(f)' <=> Awaited(f)
      <4>1. Stays(f)
        BY <3>1, <3>2, <2>1, <2>3, <1>0, <1>8, Untroubled
      <4> QED BY <4>1, <1>0, <1>3 DEF Lives
    <3>3. CASE ~Awaited(f)' /\ Awaited(f)
      <4>1. Passes(f, {"absent"}, "gone")
        BY <3>3, <2>3, <1>8 DEF Passes, StageOf
      <4>2. Lives(f)
        BY <4>1, <3>1, <2>1 DEF Lives
      <4> QED BY <4>2, <1>0, <1>3
    <3> QED BY <3>2, <3>3, <1>4, <1>5
  <2> QED BY <2>2, <2>3
<1> QED BY <1>6, <1>7, <1>8

\* A step of a run moves its file to the next stage, or reports it.
LEMMA RunLives ==
  ASSUME Orderly, Orders, TypeOK', AlertsHaveRow', NEW e \in Executors, RunStep(e),
         UNCHANGED requestVars
  PROVE  \E f \in Files : Lives(f) /\ \A g \in Files : g # f => Stays(g)
<1> USE DEF Orders
<1>0. /\ rows \in [Files -> Row \cup {NoRow}]
      /\ rows' \in [Files -> Row \cup {NoRow}]
      /\ RunsAgree /\ runs[e].file \in Files
  BY RunStepOwn DEF TypeOK, InfrastructureTypeOK, Progress
<1>f. PICK f \in Files : f = runs[e].file
  BY <1>0
<1>1. /\ \A g \in Files : g # f => rows'[g] = rows[g] /\ alerts'[g] = alerts[g]
      /\ rows'[f] = NoRow <=> rows[f] = NoRow
      /\ \/ alerts' = alerts
         \/ rows' = rows /\ alerts[f] = <<>> /\ alerts'[f] = <<runs[e].level>>
  BY <1>f, RunStepOwn
<1>2. \A g \in Files : Awaited(g)' <=> Awaited(g)
  BY DEF Awaited, Doing, requestVars
<1>3. \A g \in Files : g # f => Stays(g)
  BY <1>1, <1>2, Untroubled
<1>4. CASE rows[f] = NoRow
  <2>1. alerts[f] = <<>> /\ alerts'[f] = <<>>
    BY <1>4, <1>1 DEF AlertsHaveRow
  <2>2. Stays(f)
    BY <2>1, <1>1, <1>2, <1>4, Untroubled
  <2> QED BY <2>2, <1>3 DEF Lives
<1>5. CASE rows[f] # NoRow
  <2>1. /\ alerts' = alerts
             \/ (rows'[f] = rows[f] /\ rows[f].processing_status \in {"processed", "failed"}
                 /\ runs[e].level = LevelFor(rows[f]))
        /\ rows'[f] = rows[f] \/ (alerts' = alerts /\ Advances(rows[f], rows'[f]))
    BY <1>0, <1>5, <1>f, RunStepAgrees
  <2>2. CASE alerts' = alerts /\ rows'[f] = rows[f]
    <3>1. Stays(f)
      BY <2>2, <1>2, Untroubled
    <3> QED BY <3>1, <1>3 DEF Lives
  <2>3. CASE alerts' = alerts /\ Advances(rows[f], rows'[f])
    <3>1. /\ StageOf(f) = rows[f].processing_status /\ StageOf(f)' = rows'[f].processing_status
          /\ FlagOf(f) = rows[f].requires_attention /\ FlagOf(f)' = rows'[f].requires_attention
      BY <1>0, <1>1, <1>5 DEF StageOf, FlagOf, Row
    <3>2. FlagOf(f)' \in BOOLEAN
      BY <3>1, <1>0, <1>1, <1>5 DEF Row
    <3>3. NoticeOf(f)' = NoticeOf(f)
      BY <2>3 DEF NoticeOf
    <3>4. Lives(f)
      BY <2>3, <3>1, <3>2, <3>3 DEF Lives, Passes, Advances
    <3> QED BY <3>4, <1>3
  <2>4. CASE alerts' # alerts
    <3>1. /\ rows' = rows /\ alerts[f] = <<>> /\ alerts'[f] = <<runs[e].level>>
          /\ rows[f].processing_status \in {"processed", "failed"}
          /\ runs[e].level = LevelFor(rows[f])
      BY <2>4, <2>1, <1>1
    <3>2. StageOf(f)' = StageOf(f) /\ StageOf(f) = rows[f].processing_status
      BY <3>1, <1>5, <1>2 DEF StageOf
    <3>3. FlagOf(f)' = FlagOf(f) /\ (FlagOf(f) <=> rows[f].requires_attention)
      BY <3>1, <1>5 DEF FlagOf
    <3>4. NoticeOf(f) = "none" /\ NoticeOf(f)' = LevelFor(rows[f])
      BY <3>1 DEF NoticeOf
    <3>5. LevelFor(rows[f]) = IF StageOf(f) = "failed" THEN "critical"
                              ELSE IF FlagOf(f) THEN "warning" ELSE "info"
      BY <3>2, <3>3 DEF LevelFor
    <3>6. Lives(f)
      BY <3>1, <3>2, <3>3, <3>4, <3>5 DEF Lives
    <3> QED BY <3>6, <1>3
  <2> QED BY <2>1, <2>2, <2>3, <2>4
<1> QED BY <1>4, <1>5

\* A request that starts moves no file: an id it draws was and is awaited.
LEMMA RequestStartsQuietly ==
  ASSUME TypeOK, NEW c \in Requests, BeginRequest(c), NEW g \in Files
  PROVE  Stays(g)
<1>0. reqs \in [Requests -> Request \cup {Idle}]
  BY DEF TypeOK, FileServiceTypeOK
<1>1. reqs[c].pc = "idle" /\ UNCHANGED dbVars
  <2>1. reqs[c] = Idle /\ UNCHANGED dbVars
    BY DEF BeginRequest, BeginCreate, BeginRename, BeginDelete
  <2> QED BY <2>1 DEF Idle
<1>2. Awaited(g)' <=> Awaited(g)
  <2>1. ASSUME NEW f \in Files, NEW kind \in Kinds, NEW title \in Titles,
               BeginCreate(c, f, kind, title)
        PROVE  Awaited(g)' <=> Awaited(g)
    <3>1. /\ f \notin issued /\ issued' = issued \cup {f}
          /\ reqs'[c].pc = "write" /\ reqs'[c].file = f
          /\ \A d \in Requests : d # c => reqs'[d] = reqs[d]
      BY <2>1, <1>0 DEF BeginCreate, Begin, RequestAt
    <3> QED BY <3>1, <1>1 DEF Awaited, Doing
  <2>2. ASSUME NEW r, Begin(c, r), r.pc \in {"rename", "delete"}, issued' = issued
        PROVE  Awaited(g)' <=> Awaited(g)
    <3>1. \A d \in Requests : reqs'[d] = IF d = c THEN r ELSE reqs[d]
      BY <2>2, <1>0 DEF Begin
    <3> QED BY <3>1, <2>2, <1>1 DEF Awaited, Doing
  <2>3. ASSUME NEW f \in Files, NEW title \in Titles, BeginRename(c, f, title)
        PROVE  Awaited(g)' <=> Awaited(g)
    <3>1. [RequestAt("rename", f) EXCEPT
             !.changes = Dirty(rows[f], [rows[f] EXCEPT !.title = title])].pc = "rename"
      BY DEF RequestAt
    <3> QED BY <3>1, <2>2, <2>3 DEF BeginRename
  <2>4. ASSUME NEW f \in Files, BeginDelete(c, f)
        PROVE  Awaited(g)' <=> Awaited(g)
    <3>1. RequestAt("delete", f).pc = "delete"
      BY DEF RequestAt
    <3> QED BY <3>1, <2>2, <2>4 DEF BeginDelete
  <2> QED BY <2>1, <2>3, <2>4 DEF BeginRequest
<1> QED BY <1>1, <1>2, Untroubled DEF dbVars

\* The ids whose uploads die with the API process are spent.
LEMMA CrashAbandons ==
  ASSUME Ownership, ApiCrash
  PROVE  [Lifecycle!Next]_(Lifecycle!vars)
<1> DEFINE F == {f \in Files : rows[f] = NoRow /\ f \in issued
                               /\ \E c \in Requests : Doing(c, f, {"write", "insert"})}
           stage == [f \in Files |-> StageOf(f)]
<1>1. rows' = rows /\ alerts' = alerts /\ issued' = issued /\ reqs' = [c \in Requests |-> Idle]
  BY DEF ApiCrash, dbVars
<1>2. ASSUME NEW f \in Files
      PROVE  StageOf(f)' = IF f \in F THEN "gone" ELSE StageOf(f)
  <2>1. Awaited(f)' <=> f \notin issued
    BY <1>1 DEF Awaited, Doing, Idle
  <2> QED BY <2>1, <1>1 DEF StageOf, Awaited
<1>3. \A f \in F : StageOf(f) = "absent"
  BY DEF StageOf, Awaited
<1>4. /\ \A f \in F : stage[f] = "absent"
      /\ stage' = [f \in Files |-> IF f \in F THEN "gone" ELSE stage[f]]
  BY <1>2, <1>3
<1>5. /\ Lifecycle!Abandon(F) <=>
           /\ F # {} /\ \A f \in F : stage[f] = "absent"
           /\ stage' = [f \in Files |-> IF f \in F THEN "gone" ELSE stage[f]]
           /\ UNCHANGED <<[f \in Files |-> FlagOf(f)], [f \in Files |-> NoticeOf(f)]>>
      /\ Lifecycle!vars = <<stage, [f \in Files |-> FlagOf(f)], [f \in Files |-> NoticeOf(f)]>>
      /\ Lifecycle!vars' = <<stage, [f \in Files |-> FlagOf(f)], [f \in Files |-> NoticeOf(f)]>>'
  BY DEF FlagOf, NoticeOf, Lifecycle!Abandon, Lifecycle!vars
<1>6. UNCHANGED <<[f \in Files |-> FlagOf(f)], [f \in Files |-> NoticeOf(f)]>>
  BY <1>1 DEF FlagOf, NoticeOf
<1>7. F \in SUBSET Files /\ stage = [f \in Files |-> stage[f]]
  OBVIOUS
<1> HIDE DEF F, stage
<1>8. CASE F # {}
  BY <1>8, <1>4, <1>5, <1>6, <1>7 DEF Lifecycle!Next
<1>9. CASE F = {}
  <2>1. stage' = stage
    BY <1>9, <1>4, <1>7
  <2> QED BY <2>1, <1>5, <1>6
<1> QED BY <1>8, <1>9

\* Where nothing moves, FileLifecycle stutters.
LEMMA NobodyLives ==
  ASSUME \A f \in Files : Stays(f)
  PROVE  [Lifecycle!Next]_(Lifecycle!vars)
<1>1. /\ UNCHANGED [f \in Files |-> StageOf(f)]
      /\ UNCHANGED [f \in Files |-> FlagOf(f)]
      /\ UNCHANGED [f \in Files |-> NoticeOf(f)]
  BY DEF Stays
<1>2. UNCHANGED <<[f \in Files |-> StageOf(f)], [f \in Files |-> FlagOf(f)],
                  [f \in Files |-> NoticeOf(f)]>> <=> UNCHANGED Lifecycle!vars
  BY DEF FlagOf, NoticeOf, Lifecycle!vars
<1> QED BY <1>1, <1>2

\* Every step of the backend is a step of FileLifecycle.
LEMMA NextLives ==
  ASSUME Orderly, Orders, TypeOK', AlertsHaveRow', [Next]_vars
  PROVE  [Lifecycle!Next]_(Lifecycle!vars)
<1>1. ASSUME NEW c \in Requests, BeginRequest(c)
      PROVE  [Lifecycle!Next]_(Lifecycle!vars)
  BY <1>1, RequestStartsQuietly, NobodyLives DEF Orders
<1>2. ASSUME NEW c \in Requests, RequestStep(c)
      PROVE  [Lifecycle!Next]_(Lifecycle!vars)
  BY <1>2, RequestLives, OneFileLives
<1>3. ASSUME NEW e \in Executors, RunStep(e), UNCHANGED requestVars
      PROVE  [Lifecycle!Next]_(Lifecycle!vars)
  BY <1>3, RunLives, OneFileLives
<1>4. CASE ApiCrash
  BY <1>4, CrashAbandons DEF Orders
<1>5. ASSUME UNCHANGED dbVars, UNCHANGED requestVars
      PROVE  [Lifecycle!Next]_(Lifecycle!vars)
  <2>1. ASSUME NEW f \in Files PROVE Awaited(f)' <=> Awaited(f)
    BY <1>5 DEF Awaited, Doing, requestVars
  <2> QED BY <2>1, <1>5, Untroubled, NobodyLives DEF dbVars
<1>6. CASE \/ \E w \in Workers, m \in Message : ReceiveTask(w, m) /\ UNCHANGED requestVars
           \/ \E w \in Workers : WorkerCrash(w) /\ UNCHANGED requestVars
           \/ \E m \in Message : Redeliver(m) /\ UNCHANGED <<runs, requestVars>>
           \/ UNCHANGED vars
  <2>1. UNCHANGED dbVars /\ UNCHANGED requestVars
    BY <1>6 DEF ReceiveTask, WorkerCrash, Redeliver, vars, requestVars
  <2> QED BY <2>1, <1>5
<1> QED BY <1>1, <1>2, <1>3, <1>4, <1>6, NextSplit DEF Background

\* The backend implements the life of a file that FileLifecycle states: uploaded,
\* processing, processed or failed, never back, one alert after the end, gone for
\* good once deleted; whatever file errors, crashes of workers and of the API
\* process, failing .delay() calls and concurrent requests come in between.
THEOREM ImplementsLifecycle ==
  ASSUME Orderly
  PROVE  Spec => RefinesLifecycle
<1>1. Init => Lifecycle!Init
  BY DEF Init, InfrastructureInit, FileServiceInit, Idle, Lifecycle!Init, StageOf, Awaited
<1>2. Orders /\ TypeOK' /\ AlertsHaveRow' /\ [Next]_vars => [Lifecycle!Next]_(Lifecycle!vars)
  BY NextLives
<1>3. Orders => TypeOK /\ AlertsHaveRow
  BY DEF Orders
<1> QED BY <1>1, <1>2, <1>3, OrdersInvariant, PTL
        DEF Spec, RefinesLifecycle, Lifecycle!Spec

-----------------------------------------------------------------------------
(* Nobody drops a file                                                       *)

\* The failures under which, besides, no process dies and no worker's message is
\* lost.
Reliable == Faults \subseteq {"fs", "publish_api"}

\* Its upload, a message or a run is to take f on.
Held(f) ==
  \/ \E c \in Requests : Doing(c, f, {"refresh", "enqueue"})
  \/ \E m \in Message : Pending(m, f)
  \/ \E e \in Executors : Busy(e, f)

InProgress(f) == rows[f] # NoRow /\ rows[f].processing_status \in {"uploaded", "processing"}

\* A thread of the API process stays on the file it was started for.
ThreadsOwn == \A f \in Files : runs[f].pc # "idle" => runs[f].file = f

InHands == ThreadsOwn /\ \A f \in Files : InProgress(f) => Held(f)

LEMMA ReliableFaults ==
  ASSUME Reliable
  PROVE  /\ Orderly
         /\ Faults \cap {"publish_worker", "worker_crash", "api_crash"} = {}
BY DEF Reliable, Orderly

\* Threads are started by EnqueueFails, for the file of the request.
LEMMA ThreadsKeepFile ==
  ASSUME TypeOK, ThreadsOwn, [Next]_vars
  PROVE  ThreadsOwn'
<1>0. runs \in [Executors -> Run \cup {Idle}] /\ Files \subseteq Executors
  BY DEF TypeOK, ProcessingTypeOK, Executors
<1>1. ASSUME NEW c \in Requests, RequestStep(c)
      PROVE  ThreadsOwn'
  <2>1. CASE EnqueueFails(c)
    <3>1. runs' = [runs EXCEPT ![reqs[c].file] = RunAt("get", "scan", reqs[c].file)]
      BY <2>1 DEF EnqueueFails, Step
    <3>2. RunAt("get", "scan", reqs[c].file).file = reqs[c].file
      BY DEF RunAt
    <3> HIDE DEF RunAt
    <3> QED BY <3>1, <3>2, <1>0 DEF ThreadsOwn
  <2>2. CASE ~EnqueueFails(c)
    <3>1. runs' = runs
      BY <2>2, <1>1 DEF RequestStep, WriteFails, StoreBytes, ReplaceFails, InsertRow, InsertFails,
         RefreshItem, RefreshFails, Cleanup, CleanupFails, EnqueueScan, SaveTitle, RenameFails,
         DeleteRow, DeleteFails, Unlink, UnlinkFails
    <3> QED BY <3>1 DEF ThreadsOwn
  <2> QED BY <2>1, <2>2
<1>2. ASSUME NEW e \in Executors, RunStep(e)
      PROVE  ThreadsOwn'
  BY <1>0, <1>2, RunMoves DEF ThreadsOwn
<1>3. ASSUME NEW w \in Workers, NEW m \in Message, ReceiveTask(w, m)
      PROVE  ThreadsOwn'
  <2>1. \A f \in Files : runs'[f] = runs[f]
    BY <1>0, <1>3, WorkersAssumption DEF ReceiveTask, Step
  <2> QED BY <2>1 DEF ThreadsOwn
<1>4. CASE \A e \in Executors : runs'[e] = runs[e] \/ runs'[e] = Idle
  BY <1>0, <1>4 DEF ThreadsOwn, Idle
<1>5. ASSUME NEW w \in Workers, WorkerCrash(w)
      PROVE  \A e \in Executors : runs'[e] = runs[e] \/ runs'[e] = Idle
  BY <1>0, <1>5 DEF WorkerCrash, Step
<1>6. ASSUME ApiCrash
      PROVE  \A e \in Executors : runs'[e] = runs[e] \/ runs'[e] = Idle
  BY <1>0, <1>6 DEF ApiCrash
<1>7. ASSUME NEW c \in Requests, BeginRequest(c)
      PROVE  runs' = runs
  BY <1>7 DEF BeginRequest, BeginCreate, BeginRename, BeginDelete
<1> QED BY <1>1, <1>2, <1>3, <1>4, <1>5, <1>6, <1>7 DEF Next, vars

\* A message that is sent and the messages there were wait in the queue.
LEMMA SentStays ==
  ASSUME queue \in [Message -> Nat], NEW m \in Message, queue' = Sent(m)
  PROVE  queue'[m] > 0 /\ \A n \in Message : queue[n] > 0 => queue'[n] > 0
BY DEF Sent

\* A request lets go of a file only by handing it to a message or a thread.
LEMMA RequestHandsOn ==
  ASSUME Reliable, Orders, InHands, NEW c \in Requests, RequestStep(c),
         NEW f \in Files, InProgress(f)'
  PROVE  Held(f)'
<1> USE DEF Orders
<1>0. /\ reqs \in [Requests -> Request \cup {Idle}] /\ runs \in [Executors -> Run \cup {Idle}]
      /\ queue \in [Message -> Nat] /\ Files \subseteq Executors
      /\ reqs[c].pc # "idle" => reqs[c].file \in Files
  BY SlotType
     DEF TypeOK, FileServiceTypeOK, ProcessingTypeOK, InfrastructureTypeOK, Executors
<1>1. /\ "db" \notin Faults /\ "late" \notin Faults /\ "publish_unsure" \notin Faults
  BY DEF Reliable
<1>2. \A d \in Requests : d # c => reqs'[d] = reqs[d]
  BY RequestMoves
<1>3. ASSUME NEW pc \in {"refresh", "enqueue"}, Proceed(c, pc), reqs[c].file = f
      PROVE  Held(f)'
  <2>1. reqs'[c].pc = pc /\ reqs'[c].file = f
    BY <1>0, <1>3 DEF Proceed, RequestAt
  <2> QED BY <2>1 DEF Held, Doing
<1>4. CASE Doing(c, f, {"insert"})
  <2>1. InsertRow(c)
    BY <1>1, <1>4 DEF Doing, RequestStep, WriteFails, StoreBytes, ReplaceFails, InsertFails,
       RefreshItem, RefreshFails, Cleanup, CleanupFails, EnqueueScan, EnqueueFails, SaveTitle,
       RenameFails, DeleteRow, DeleteFails, Unlink, UnlinkFails
  <2> QED BY <2>1, <1>3, <1>4 DEF InsertRow, Doing
<1>5. CASE ~Doing(c, f, {"insert"})
  <2>1. rows'[f] # NoRow
    BY DEF InProgress
  <2>2. rows[f] # NoRow /\ SameStage(rows[f], rows'[f])
    BY <1>5, <2>1, RequestMovesRows
  <2>3. Held(f)
    BY <2>2 DEF InProgress, InHands, SameStage
  <2>4. CASE Doing(c, f, {"refresh"})
    <3>1. RefreshItem(c)
      BY <1>1, <2>2, <2>4 DEF Doing, RequestStep, WriteFails, StoreBytes, ReplaceFails, InsertRow,
         InsertFails, RefreshFails, Cleanup, CleanupFails, EnqueueScan, EnqueueFails, SaveTitle,
         RenameFails, DeleteRow, DeleteFails, Unlink, UnlinkFails
    <3> QED BY <3>1, <1>3, <2>4 DEF RefreshItem, Doing
  <2>5. CASE EnqueueScan(c)
    <3>1. PICK m \in Message : m.file = reqs[c].file /\ queue' = Sent(m) /\ runs' = runs
      <4>1. /\ reqs[c].file \in Files /\ queue' = Sent(ScanMessage(reqs[c].file)) /\ runs' = runs
        BY <2>5, <1>0 DEF EnqueueScan
      <4>2. /\ ScanMessage(reqs[c].file) \in Message
            /\ ScanMessage(reqs[c].file).file = reqs[c].file
        BY <4>1 DEF ScanMessage, Message, Phase
      <4> QED BY <4>1, <4>2
    <3>2. queue'[m] > 0 /\ \A n \in Message : queue[n] > 0 => queue'[n] > 0
      BY <3>1, <1>0, SentStays
    <3>3. CASE reqs[c].file = f
      BY <3>1, <3>2, <3>3 DEF Held, Pending
    <3>4. CASE reqs[c].file # f
      BY <3>1, <3>2, <3>4, <2>3, <1>2 DEF Held, Pending, Busy, Doing
    <3> QED BY <3>3, <3>4
  <2>6. CASE EnqueueFails(c)
    <3> DEFINE g == reqs[c].file
    <3>1. g \in Files /\ queue' = queue /\ runs' = [runs EXCEPT ![g] = RunAt("get", "scan", g)]
      BY <2>6, <1>0, <1>1 DEF EnqueueFails, Step
    <3>2. RunAt("get", "scan", g).pc = "get" /\ RunAt("get", "scan", g).file = g
      BY DEF RunAt
    <3> HIDE DEF g
    <3>3. runs'[g].pc # "idle" /\ runs'[g].file = g /\ \A e \in Executors : e # g => runs'[e] = runs[e]
      BY <3>1, <3>2, <1>0
    <3>4. CASE g = f
      BY <3>1, <3>3, <3>4, <1>0 DEF Held, Busy
    <3>5. CASE g # f
      <4>1. ~Busy(g, f)
        BY <3>1, <3>5 DEF Busy, InHands, ThreadsOwn
      <4> QED BY <3>1, <3>3, <3>5, <4>1, <2>3, <1>2 DEF Held, Pending, Busy, Doing, g
    <3> QED BY <3>4, <3>5
  <2>7. CASE UNCHANGED <<queue, runs>> /\ ~Doing(c, f, {"refresh"}) /\ ~EnqueueScan(c) /\ ~EnqueueFails(c)
    <3>1. ~Doing(c, f, {"refresh", "enqueue"})
      BY <2>7 DEF Doing, RequestStep, WriteFails, StoreBytes, ReplaceFails, InsertRow,
         InsertFails, RefreshItem, RefreshFails, Cleanup, CleanupFails, SaveTitle,
         RenameFails, DeleteRow, DeleteFails, Unlink, UnlinkFails
    <3> QED BY <3>1, <2>7, <2>3, <1>2 DEF Held, Pending, Busy, Doing
  <2> QED BY <2>4, <2>5, <2>6, <2>7, RequestAddsNoHolder
<1> QED BY <1>4, <1>5

\* A run that lets go of a file in progress has published the next phase, for
\* otherwise the file is processed or failed.
LEMMA RunHandsOn ==
  ASSUME Reliable, Orders, NEW e \in Executors, RunStep(e),
         rows[runs[e].file] # NoRow, runs'[e].pc = "idle", queue' = queue
  PROVE  rows'[runs[e].file].processing_status \in {"processed", "failed"}
<1> DEFINE r == runs[e]
           row == rows[r.file]
<1> USE DEF Orders
<1>0. /\ r.pc # "idle" /\ r \in Run /\ RunAgrees(r, row)
      /\ r.file \in Files /\ r.changes \in Changes /\ row \in Row
      /\ runs \in [Executors -> Run \cup {Idle}]
      /\ rows \in [Files -> Row \cup {NoRow}]
      /\ queue \in [Message -> Nat]
  BY RunMoves, BusyRun
     DEF TypeOK, InfrastructureTypeOK, ProcessingTypeOK, Progress, RunsAgree, Run, RunRecord
<1>1. ASSUME NEW run, Step(e, run), run.pc # "idle" PROVE FALSE
  BY <1>0, <1>1 DEF Step
<1>2. /\ \A pc, phase, f : RunAt(pc, phase, f).pc = pc
      /\ \A pc, item, assigned : Assigned(r, pc, item, assigned).pc = pc
  BY DEF RunAt, Assigned
<1>3. CASE AddAlert(e)
  BY <1>3, <1>0 DEF AddAlert, RunAgrees, StatusBefore
<1>4. CASE SaveFailed(e)
  <2>1. r.pc = "save" /\ rows' = RowsAfter(r.file, r.changes)
    BY <1>4 DEF SaveFailed
  <2>2. rows'[r.file] = Flushed(row, r.changes)
    BY <2>1, <1>0 DEF RowsAfter
  <2>3. Flushed(row, r.changes).processing_status = "failed"
    BY <2>1, <1>0, CommitAdvances
  <2> QED BY <2>2, <2>3
<1>5. CASE Publish(e)
  <2> DEFINE m == [task |-> r.phase, file |-> r.file]
  <2>1. queue' = Sent(m) /\ m \in Message
    BY <1>5, <1>0 DEF Publish, Message, Run, RunRecord
  <2> HIDE DEF m
  <2> QED BY <2>1, <1>0 DEF Sent
<1>6. CASE GetItem(e)
  <2> DEFINE run == IF r.phase = "alert"
                    THEN [r EXCEPT !.pc = "commit", !.level = LevelFor(row)]
                    ELSE [r EXCEPT !.pc = "read", !.item = row]
  <2>1. Step(e, run)
    BY <1>6 DEF GetItem
  <2>2. run.pc # "idle"
    BY <1>0 DEF Run, RunRecord
  <2> HIDE DEF run
  <2> QED BY <2>1, <2>2, <1>1
<1>7. CASE ReadHeader(e) \/ PathMissing(e) \/ MarkFailed(e)
  <2>1. \E pc \in {"commit", "save"} : \E item, assigned : Step(e, Assigned(r, pc, item, assigned))
    BY <1>7 DEF ReadHeader, PathMissing, MarkFailed
  <2> QED BY <2>1, <1>1, <1>2
<1>8. CASE PathExists(e) \/ ExtractCounters(e)
  <2>1. \/ Step(e, [r EXCEPT !.pc = "parse"])
        \/ Step(e, Assigned(r, "commit", r.item, Extracted(r.item)))
    BY <1>8 DEF PathExists, ExtractCounters
  <2>2. [r EXCEPT !.pc = "parse"].pc # "idle"
    BY <1>0 DEF Run, RunRecord
  <2>3. Assigned(r, "commit", r.item, Extracted(r.item)).pc # "idle"
    BY <1>2
  <2> QED BY <2>1, <2>2, <2>3, <1>1
<1>9. CASE OpenFails(e) \/ PhaseFails(e)
  <2>1. r.pc \in {"read", "parse"} /\ Step(e, Raised(e))
    BY <1>9, ReliableFaults DEF OpenFails, PhaseFails, Orderly
  <2>2. Raised(e) = RunAt("mark", r.phase, r.file)
    BY <2>1, <1>0 DEF Raised, Run
  <2>3. Raised(e).pc # "idle"
    BY <2>2, <1>2
  <2> QED BY <2>1, <2>3, <1>1
<1>10. CASE CommitItem(e)
  BY <1>10, <1>1, <1>2 DEF CommitItem, Onward
<1>11. CASE \/ GetNothing(e) \/ CommitRefused(e) \/ MarkIneffective(e) \/ CommitUnconfirmed(e)
            \/ PublishFails(e)
  BY <1>11, ReliableFaults
     DEF GetNothing, CommitRefused, MarkIneffective, CommitUnconfirmed, PublishFails, Accepts, Orderly
<1> QED BY <1>3, <1>4, <1>5, <1>6, <1>7, <1>8, <1>9, <1>10, <1>11 DEF RunStep

LEMMA NextInHands ==
  ASSUME Reliable, Orders, InHands, [Next]_vars
  PROVE  InHands'
<1> USE DEF Orders
<1>0. /\ reqs \in [Requests -> Request \cup {Idle}] /\ runs \in [Executors -> Run \cup {Idle}]
      /\ queue \in [Message -> Nat]
  BY DEF TypeOK, FileServiceTypeOK, ProcessingTypeOK, InfrastructureTypeOK
<1> SUFFICES ASSUME NEW f \in Files, InProgress(f)' PROVE Held(f)'
  BY ThreadsKeepFile DEF InHands
<1>1. ASSUME NEW c \in Requests, RequestStep(c) PROVE Held(f)'
  BY <1>1, RequestHandsOn
<1>2. ASSUME NEW c \in Requests, BeginRequest(c) PROVE Held(f)'
  <2>1. rows' = rows /\ queue' = queue /\ runs' = runs /\ reqs[c] = Idle
    BY <1>2 DEF BeginRequest, BeginCreate, BeginRename, BeginDelete, dbVars, brokerVars
  <2>2. \A d \in Requests : d # c => reqs'[d] = reqs[d]
    BY <1>2, RequestStarts
  <2>3. Held(f)
    BY <2>1 DEF InProgress, InHands
  <2> QED BY <2>1, <2>2, <2>3 DEF Held, Doing, Pending, Busy, Idle
<1>3. ASSUME NEW e \in Executors, RunStep(e), UNCHANGED requestVars PROVE Held(f)'
  <2>1. /\ runs[e].pc # "idle" /\ \A d \in Executors : d # e => runs'[d] = runs[d]
        /\ runs'[e].pc # "idle" => runs'[e].file = runs[e].file
        /\ queue' = queue \/ \E t \in Phase : queue' = Sent([task |-> t, file |-> runs[e].file])
    BY <1>3, RunMoves
  <2>2. /\ runs[e].file \in Files
        /\ \A g \in Files : g # runs[e].file => rows'[g] = rows[g]
        /\ rows'[runs[e].file] = NoRow <=> rows[runs[e].file] = NoRow
    BY <1>3, RunStepOwn
  <2>3. ASSUME NEW t \in Phase, queue' = Sent([task |-> t, file |-> runs[e].file])
        PROVE  /\ \A n \in Message : queue[n] > 0 => queue'[n] > 0
               /\ \E n \in Message : n.file = runs[e].file /\ queue'[n] > 0
    <3> DEFINE m == [task |-> t, file |-> runs[e].file]
    <3>1. m \in Message /\ m.file = runs[e].file
      BY <2>2 DEF Message
    <3>2. PICK n \in Message : n.file = runs[e].file /\ queue' = Sent(n)
      BY <2>3, <3>1
    <3>3. queue'[n] > 0 /\ \A k \in Message : queue[k] > 0 => queue'[k] > 0
      BY <3>2, <1>0, SentStays
    <3> HIDE DEF m
    <3> QED BY <3>2, <3>3 DEF Pending
  <2>4. CASE f # runs[e].file
    <3>1. Held(f)
      BY <2>2, <2>4 DEF InProgress, InHands
    <3>2. \A n \in Message : queue[n] > 0 => queue'[n] > 0
      BY <2>1, <2>3
    <3> QED BY <3>1, <3>2, <2>1, <2>4, <1>3 DEF Held, Doing, Pending, Busy, requestVars
  <2>5. CASE f = runs[e].file
    <3>1. CASE runs'[e].pc # "idle"
      BY <3>1, <2>1, <2>5 DEF Held, Busy
    <3>2. CASE queue' # queue
      <4>1. \E n \in Message : n.file = f /\ queue'[n] > 0
        BY <3>2, <2>1, <2>3, <2>5
      <4> QED BY <4>1 DEF Held, Pending
    <3>3. CASE runs'[e].pc = "idle" /\ queue' = queue
      <4>1. rows[f] # NoRow
        BY <2>2, <2>5 DEF InProgress
      <4>2. rows'[f].processing_status \in {"processed", "failed"}
        BY <3>3, <4>1, <2>5, <1>3, RunHandsOn
      <4> QED BY <4>2 DEF InProgress
    <3> QED BY <3>1, <3>2, <3>3
  <2> QED BY <2>4, <2>5
<1>4. ASSUME NEW w \in Workers, NEW m \in Message, ReceiveTask(w, m), UNCHANGED requestVars
      PROVE  Held(f)'
  <2>1. /\ rows' = rows /\ reqs' = reqs /\ runs[w] = Idle /\ w \in Executors
        /\ queue' = [queue EXCEPT ![m] = @ - 1]
        /\ runs' = [runs EXCEPT ![w] = RunAt("get", m.task, m.file)]
    BY <1>4 DEF ReceiveTask, Step, dbVars, requestVars, Executors
  <2>2. /\ \A n \in Message : n # m => queue'[n] = queue[n]
        /\ \A e \in Executors : e # w => runs'[e] = runs[e]
        /\ runs'[w].pc = "get" /\ runs'[w].file = m.file /\ runs[w].pc = "idle"
    BY <2>1, <1>0 DEF RunAt, Idle
  <2>3. Held(f)
    BY <2>1 DEF InProgress, InHands
  <2> QED BY <2>1, <2>2, <2>3 DEF Held, Doing, Pending, Busy
<1>5. CASE UNCHANGED vars
  <2>1. Held(f)
    BY <1>5 DEF vars, dbVars, InProgress, InHands
  <2> QED BY <2>1, <1>5 DEF vars, dbVars, brokerVars, Held, Doing, Pending, Busy
<1> QED BY <1>1, <1>2, <1>3, <1>4, <1>5, ReliableFaults
        DEF Next, WorkerCrash, ApiCrash, Redeliver, Orderly

\* No file hangs: with a database that answers, messages that arrive once and
\* processes that live, a file that is neither processed nor failed is in the
\* hands of its upload, a message or a run, whatever file errors and failing
\* .delay() calls of the API process it goes through.
THEOREM FilesNeverStuck ==
  ASSUME Reliable
  PROVE  Spec => []NeverStuck
<1>1. Init => InHands
  BY DEF Init, InfrastructureInit, ProcessingInit, Idle, Executors, InHands, ThreadsOwn, InProgress
<1>2. Orders /\ InHands /\ [Next]_vars => InHands'
  BY NextInHands
<1>3. Orders /\ InHands => NeverStuck
  <2> SUFFICES ASSUME Orders, InHands, NEW f \in Files, rows[f] # NoRow, Quiet(f),
                      rows[f].processing_status \notin {"processed", "failed"}
               PROVE  FALSE
    BY DEF NeverStuck
  <2>1. rows[f].processing_status \in {"uploaded", "processing"}
    BY DEF Orders, TypeOK, InfrastructureTypeOK, Row, ProcessingStatus
  <2>2. Held(f)
    BY <2>1 DEF InHands, InProgress
  <2>3. \A m \in Message : ~Pending(m, f)
    <3> SUFFICES ASSUME NEW m \in Message, m.file = f PROVE queue[m] = 0
      BY DEF Pending
    <3>1. m.task \in Phase /\ m = [task |-> m.task, file |-> f]
      BY DEF Message
    <3>2. queue[[task |-> m.task, file |-> f]] = 0
      BY <3>1 DEF Quiet
    <3> QED BY <3>1, <3>2
  <2>4. \A e \in Executors : ~Busy(e, f)
    BY DEF Quiet, Busy, Idle
  <2>5. \A c \in Requests : ~Doing(c, f, {"refresh", "enqueue"})
    BY DEF Quiet, Doing
  <2> QED BY <2>2, <2>3, <2>4, <2>5 DEF Held
<1>4. Orderly
  BY ReliableFaults
<1> QED BY <1>1, <1>2, <1>3, <1>4, OrdersInvariant, PTL DEF Spec
=============================================================================
