-------------------------- MODULE FileSharingProofs --------------------------
(* Theorems about FileSharing, for any files, requests, workers, contents    *)
(* and titles.                                                               *)
EXTENDS FileSharing, TLAPS

-----------------------------------------------------------------------------
(* Rows                                                                      *)

\* create() inserts a well-formed row.
LEMMA StoredFileType ==
  ASSUME NEW kind \in Kinds, NEW title \in Titles
  PROVE  StoredFile(kind, title) \in Row
BY DEF StoredFile, Row, ProcessingStatus, ScanStatus, MetadataClass

\* Every phase leaves the loaded object a well-formed row.
LEMMA AssignedType ==
  ASSUME NEW item \in Row, NEW present
  PROVE  /\ Scanned(item, present) \in Row
         /\ Extracted(item) \in Row
         /\ Failed(item) \in Row
<1>1. Scanned(item, present) \in Row
  <2> DEFINE reasons == EvaluateThreats(item.kind, HeaderIsPdf(item.kind, present))
  <2>1. Scanned(item, present) =
          [item EXCEPT !.processing_status = "processing",
                       !.scan_status = IF reasons = {} THEN "clean" ELSE "suspicious",
                       !.requires_attention = reasons # {}]
    BY DEF Scanned
  <2> HIDE DEF reasons
  <2> QED BY <2>1 DEF Row, ProcessingStatus, ScanStatus
<1>2. Extracted(item) \in Row
  <2>1. item.kind.mime \in MetadataClass
    BY KindsAssumption DEF Row, Kind, MetadataClass
  <2> QED BY <2>1 DEF Extracted, Row, ProcessingStatus
<1>3. Failed(item) \in Row
  BY DEF Failed, Row, ProcessingStatus, ScanStatus
<1> QED BY <1>1, <1>2, <1>3

\* send_alert() picks one of the three levels.
LEMMA LevelType == ASSUME NEW item PROVE LevelFor(item) \in AlertLevel \ {"none"}
BY DEF LevelFor, AlertLevel

\* A session's changes are well-formed, and so is the row they are written to.
LEMMA DirtyType ==
  ASSUME NEW loaded \in Row, NEW item \in Row
  PROVE  Dirty(loaded, item) \in Changes
BY DEF Dirty, Change, Changes, Row

LEMMA FlushedType ==
  ASSUME NEW row \in Row, NEW changes \in Changes
  PROVE  Flushed(row, changes) \in Row
BY DEF Flushed, Column, Changes, Row

LEMMA NoChangeType == NoChange \in Changes
BY DEF NoChange, Changes

\* A committed UPDATE keeps the table well-formed and creates or removes no row.
LEMMA RowsAfterType ==
  ASSUME NEW f \in Files, NEW changes \in Changes,
         rows \in [Files -> Row \cup {NoRow}]
  PROVE  /\ RowsAfter(f, changes) \in [Files -> Row \cup {NoRow}]
         /\ \A g \in Files : RowsAfter(f, changes)[g] = NoRow <=> rows[g] = NoRow
<1>1. CASE rows[f] = NoRow
  BY <1>1 DEF RowsAfter
<1>2. CASE rows[f] # NoRow
  <2>1. Flushed(rows[f], changes) \in Row
    BY <1>2, FlushedType
  <2> QED BY <1>2, <2>1, NoRowAssumption DEF RowsAfter
<1> QED BY <1>1, <1>2

-----------------------------------------------------------------------------
(* Runs                                                                      *)

\* An executor that is not idle holds a well-formed run.
LEMMA BusyRun ==
  ASSUME ProcessingTypeOK, NEW e \in Executors, runs[e].pc # "idle"
  PROVE  runs[e] \in Run
BY DEF ProcessingTypeOK, Idle

LEMMA RunAtType ==
  ASSUME NEW pc \in {"get", "mark", "publish"}, NEW phase \in Phase, NEW f \in Files
  PROVE  RunAt(pc, phase, f) \in Run
BY NoChangeType DEF RunAt, Run, RunRecord

\* What an executor does next, after a phase, an exception or _mark_failed.
LEMMA NextRunType ==
  ASSUME NEW e \in Executors, runs[e] \in Run
  PROVE  /\ \A phase \in Phase : Onward(e, phase, runs[e].file) \in Run
         /\ Raised(e) \in Run \cup {Idle}
         /\ Marked(e) \in Run \cup {Idle}
<1>1. runs[e].file \in Files /\ runs[e].phase \in Phase
  BY DEF Run, RunRecord
<1>2. "alert" \in Phase
  BY DEF Phase
<1> QED BY <1>1, <1>2, RunAtType DEF Onward, Raised, Marked

\* A run about to commit what it assigned to the object it loaded.
LEMMA AssignedRunType ==
  ASSUME NEW r \in Run, NEW pc \in {"commit", "save"}, pc = "commit" => r.phase # "alert",
         NEW loaded \in Row, NEW item \in Row
  PROVE  Assigned(r, pc, loaded, item) \in Run
<1>1. Dirty(loaded, item) \in Changes
  BY DirtyType
<1>2. RunAt(pc, r.phase, r.file) =
        [pc |-> pc, phase |-> r.phase, file |-> r.file,
         item |-> NoRow, changes |-> NoChange, level |-> "none"]
  BY DEF RunAt
<1> QED BY <1>1, <1>2 DEF Assigned, Run, RunRecord

LEMMA StepType ==
  ASSUME ProcessingTypeOK, NEW e \in Executors, NEW run \in Run \cup {Idle}, Step(e, run)
  PROVE  ProcessingTypeOK'
BY DEF ProcessingTypeOK, Step

\* Every step of a pipeline phase, a worker or the broker preserves the types.
LEMMA RunStepType ==
  ASSUME TypeOK, NEW e \in Executors, RunStep(e)
  PROVE  InfrastructureTypeOK' /\ ProcessingTypeOK'
<1> DEFINE r == runs[e]
<1> USE DEF TypeOK
<1>0. /\ r.pc # "idle" => r \in Run /\ r.file \in Files /\ r.phase \in Phase
                           /\ r.changes \in Changes
      /\ rows \in [Files -> Row \cup {NoRow}]
  BY BusyRun DEF Run, RunRecord, InfrastructureTypeOK
<1>a. ASSUME r.pc # "idle", UNCHANGED <<dbVars, fsVars, brokerVars>>,
             NEW run \in Run \cup {Idle}, Step(e, run)
      PROVE  InfrastructureTypeOK' /\ ProcessingTypeOK'
  BY <1>a, StepType DEF InfrastructureTypeOK, dbVars, fsVars, brokerVars
<1>b. ASSUME r.pc # "idle", rows' = RowsAfter(r.file, r.changes),
             UNCHANGED <<alerts, fsVars, brokerVars>>,
             NEW run \in Run \cup {Idle}, Step(e, run)
      PROVE  InfrastructureTypeOK' /\ ProcessingTypeOK'
  <2>1. rows' \in [Files -> Row \cup {NoRow}]
    BY <1>0, <1>b, RowsAfterType
  <2> QED BY <2>1, <1>b, StepType DEF InfrastructureTypeOK, fsVars, brokerVars
<1>c. ASSUME r.pc # "idle", r.level \in AlertLevel,
             alerts' = [alerts EXCEPT ![r.file] = Append(@, r.level)],
             UNCHANGED <<rows, fsVars, brokerVars>>,
             NEW run \in Run \cup {Idle}, Step(e, run)
      PROVE  InfrastructureTypeOK' /\ ProcessingTypeOK'
  <2>1. alerts' \in [Files -> Seq(AlertLevel)]
    BY <1>0, <1>c DEF InfrastructureTypeOK
  <2> QED BY <2>1, <1>c, StepType DEF InfrastructureTypeOK, fsVars, brokerVars
<1>d. r.pc # "idle" => /\ \A phase \in Phase : Onward(e, phase, r.file) \in Run
                       /\ Raised(e) \in Run \cup {Idle}
                       /\ Marked(e) \in Run \cup {Idle}
  BY <1>0, NextRunType
<1>e. ASSUME r.pc = "commit", r.phase = "alert" PROVE r.level \in AlertLevel
  BY <1>0, <1>e DEF Run, RunRecord
<1>f. ASSUME r.pc \in {"read", "parse"} PROVE r.item \in Row
  BY <1>0, <1>f DEF Run, RunRecord
<1>1. CASE GetItem(e)
  <2> DEFINE run == IF r.phase = "alert"
                    THEN [r EXCEPT !.pc = "commit", !.level = LevelFor(rows[r.file])]
                    ELSE [r EXCEPT !.pc = "read", !.item = rows[r.file]]
  <2>1. r.pc = "get" /\ rows[r.file] # NoRow /\ Step(e, run)
        /\ UNCHANGED <<dbVars, fsVars, brokerVars>>
    BY <1>1 DEF GetItem
  <2>2. LevelFor(rows[r.file]) \in AlertLevel \ {"none"}
    BY LevelType
  <2>3. run \in Run
    BY <2>1, <2>2, <1>0 DEF Run, RunRecord
  <2> QED BY <2>1, <2>3, <1>a
<1>2. CASE GetNothing(e)
  BY <1>2, <1>a DEF GetNothing
<1>3. CASE ReadHeader(e)
  <2>1. Scanned(r.item, r.file \in disk) \in Row
    BY <1>3, <1>f, AssignedType DEF ReadHeader
  <2>2. Assigned(r, "commit", r.item, Scanned(r.item, r.file \in disk)) \in Run
    BY <2>1, <1>3, <1>0, <1>f, AssignedRunType DEF ReadHeader
  <2> QED BY <2>2, <1>3, <1>a DEF ReadHeader
<1>4. CASE PathExists(e)
  <2>1. Assigned(r, "commit", r.item, Extracted(r.item)) \in Run
    BY <1>4, <1>0, <1>f, AssignedType, AssignedRunType DEF PathExists
  <2>2. [r EXCEPT !.pc = "parse"] \in Run
    BY <1>4, <1>0 DEF PathExists, Run, RunRecord
  <2> QED BY <2>1, <2>2, <1>4, <1>a DEF PathExists
<1>5. CASE PathMissing(e)
  <2>1. Assigned(r, "commit", r.item, Failed(r.item)) \in Run
    BY <1>5, <1>0, <1>f, AssignedType, AssignedRunType DEF PathMissing
  <2> QED BY <2>1, <1>5, <1>a DEF PathMissing
<1>6. CASE ExtractCounters(e)
  <2>1. r.phase # "alert"
    BY <1>6, <1>0 DEF ExtractCounters, Run
  <2>2. Assigned(r, "commit", r.item, Extracted(r.item)) \in Run
    BY <2>1, <1>6, <1>0, <1>f, AssignedType, AssignedRunType DEF ExtractCounters
  <2> QED BY <2>2, <1>6, <1>a DEF ExtractCounters
<1>7. CASE OpenFails(e)
  BY <1>7, <1>a, <1>d DEF OpenFails
<1>8. CASE CommitItem(e)
  <2>1. Onward(e, IF r.phase = "scan" THEN "extract" ELSE "alert", r.file) \in Run
    BY <1>8, <1>d DEF CommitItem, Phase
  <2> QED BY <2>1, <1>8, <1>b DEF CommitItem
<1>9. CASE AddAlert(e)
  BY <1>9, <1>c, <1>e DEF AddAlert
<1>10. CASE CommitRefused(e)
  BY <1>10, <1>a, <1>d DEF CommitRefused
<1>11. CASE PhaseFails(e)
  BY <1>11, <1>a, <1>d DEF PhaseFails
<1>12. CASE CommitUnconfirmed(e)
  <2>1. CASE r.phase = "alert"
    BY <2>1, <1>12, <1>c, <1>d, <1>e DEF CommitUnconfirmed
  <2>2. CASE r.phase # "alert"
    BY <2>2, <1>12, <1>b, <1>d DEF CommitUnconfirmed
  <2> QED BY <2>1, <2>2
<1>13. CASE MarkFailed(e)
  <2>1. r.pc = "mark" /\ rows[r.file] \in Row
    BY <1>13, <1>0 DEF MarkFailed
  <2>2. Assigned(r, "save", rows[r.file], Failed(rows[r.file])) \in Run
    BY <2>1, <1>0, AssignedType, AssignedRunType
  <2> QED BY <2>1, <2>2, <1>13, <1>a DEF MarkFailed
<1>14. CASE SaveFailed(e)
  BY <1>14, <1>b, <1>d DEF SaveFailed
<1>15. CASE MarkIneffective(e)
  BY <1>15, <1>a, <1>d DEF MarkIneffective
<1>16. CASE Publish(e)
  <2>1. [task |-> r.phase, file |-> r.file] \in Message
    BY <1>16, <1>0 DEF Publish, Message
  <2>2. queue' \in [Message -> Nat]
    BY <2>1, <1>16 DEF Publish, Sent, InfrastructureTypeOK
  <2> QED BY <2>2, <1>16, StepType DEF Publish, InfrastructureTypeOK, dbVars, fsVars
<1>17. CASE PublishFails(e)
  BY <1>17, <1>a DEF PublishFails
<1> QED BY <1>1, <1>2, <1>3, <1>4, <1>5, <1>6, <1>7, <1>8, <1>9, <1>10, <1>11, <1>12,
           <1>13, <1>14, <1>15, <1>16, <1>17 DEF RunStep

-----------------------------------------------------------------------------
(* Requests                                                                  *)

LEMMA RequestAtType ==
  ASSUME NEW pc \in {"refresh", "cleanup", "enqueue", "rename", "delete", "unlink"},
         NEW f \in Files
  PROVE  RequestAt(pc, f) \in Request
BY NoChangeType DEF RequestAt, Request, RequestRecord

\* Starting, continuing and ending a request leave the slots well-formed.
LEMMA SlotType ==
  ASSUME FileServiceTypeOK, NEW c \in Requests
  PROVE  /\ reqs[c].pc # "idle" => reqs[c] \in Request /\ reqs[c].file \in Files
         /\ \A request \in Request : Begin(c, request)
              => reqs' \in [Requests -> Request \cup {Idle}]
         /\ \A pc \in {"refresh", "cleanup", "enqueue", "rename", "delete", "unlink"} :
              reqs[c].pc # "idle" /\ Proceed(c, pc)
              => reqs' \in [Requests -> Request \cup {Idle}]
         /\ Finish(c) => reqs' \in [Requests -> Request \cup {Idle}]
<1>1. reqs[c].pc # "idle" => reqs[c] \in Request /\ reqs[c].file \in Files
  BY DEF FileServiceTypeOK, Idle, Request, RequestRecord
<1>2. ASSUME NEW pc \in {"refresh", "cleanup", "enqueue", "rename", "delete", "unlink"},
             reqs[c].pc # "idle"
      PROVE  RequestAt(pc, reqs[c].file) \in Request
  BY <1>1, <1>2, RequestAtType
<1> QED BY <1>1, <1>2 DEF FileServiceTypeOK, Begin, Proceed, Finish

\* Every step of a request preserves the types.
LEMMA RequestStepType ==
  ASSUME TypeOK, NEW c \in Requests, RequestStep(c)
  PROVE  TypeOK'
<1> DEFINE r == reqs[c]
<1> USE DEF TypeOK
<1>0. /\ r.pc # "idle" => r \in Request /\ r.file \in Files /\ r.changes \in Changes
      /\ r.pc \in {"write", "insert"} => r.item \in Row
      /\ rows \in [Files -> Row \cup {NoRow}]
  BY SlotType DEF Request, RequestRecord, InfrastructureTypeOK
<1>a. ASSUME r.pc # "idle",
             \/ Finish(c)
             \/ \E pc \in {"refresh", "cleanup", "enqueue", "unlink"} : Proceed(c, pc),
             issued' = issued
      PROVE  FileServiceTypeOK'
  BY <1>a, SlotType DEF FileServiceTypeOK
<1>b. ASSUME UNCHANGED <<dbVars, fsVars, brokerVars, runs>>
      PROVE  InfrastructureTypeOK' /\ ProcessingTypeOK'
  BY <1>b DEF InfrastructureTypeOK, ProcessingTypeOK, dbVars, fsVars, brokerVars
<1>c. ASSUME rows' \in [Files -> Row \cup {NoRow}], UNCHANGED <<alerts, fsVars, brokerVars, runs>>
      PROVE  InfrastructureTypeOK' /\ ProcessingTypeOK'
  BY <1>c DEF InfrastructureTypeOK, ProcessingTypeOK, fsVars, brokerVars
<1>d. ASSUME disk' \subseteq Files, parts' \subseteq Files, UNCHANGED <<dbVars, brokerVars, runs>>
      PROVE  InfrastructureTypeOK' /\ ProcessingTypeOK'
  BY <1>d DEF InfrastructureTypeOK, ProcessingTypeOK, dbVars, brokerVars
<1>e. ASSUME NEW f \in Files, DeleteWithAlerts(f), UNCHANGED <<fsVars, brokerVars, runs>>
      PROVE  InfrastructureTypeOK' /\ ProcessingTypeOK'
  BY <1>e DEF DeleteWithAlerts, InfrastructureTypeOK, ProcessingTypeOK, fsVars, brokerVars
<1>f. disk \subseteq Files /\ parts \subseteq Files
  BY DEF InfrastructureTypeOK
<1>g. ASSUME NEW f \in Files, queue' = queue \/ queue' = Sent(ScanMessage(f))
      PROVE  queue' \in [Message -> Nat]
  <2>1. ScanMessage(f) \in Message
    BY DEF ScanMessage, Message, Phase
  <2> QED BY <2>1, <1>g DEF Sent, InfrastructureTypeOK
<1>1. CASE WriteFails(c)
  BY <1>1, <1>a, <1>d, <1>f DEF WriteFails
<1>2. CASE StoreBytes(c)
  <2>1. [r EXCEPT !.pc = "insert"] \in Request
    BY <1>2, <1>0 DEF StoreBytes, Request, RequestRecord
  <2>2. FileServiceTypeOK'
    BY <2>1, <1>2, SlotType DEF StoreBytes, FileServiceTypeOK
  <2> QED BY <2>2, <1>2, <1>0, <1>d, <1>f DEF StoreBytes
<1>3. CASE ReplaceFails(c)
  BY <1>3, <1>a, <1>b DEF ReplaceFails
<1>4. CASE InsertRow(c)
  BY <1>4, <1>0, <1>a, <1>c DEF InsertRow
<1>5. CASE InsertFails(c)
  BY <1>5, <1>0, <1>a, <1>c DEF InsertFails
<1>6. CASE RefreshItem(c)
  BY <1>6, <1>a, <1>b DEF RefreshItem
<1>7. CASE RefreshFails(c)
  BY <1>7, <1>a, <1>b DEF RefreshFails
<1>8. CASE Cleanup(c)
  BY <1>8, <1>a, <1>d, <1>f DEF Cleanup
<1>9. CASE CleanupFails(c)
  BY <1>9, <1>a, <1>b DEF CleanupFails
<1>10. CASE EnqueueScan(c)
  <2>1. queue' \in [Message -> Nat]
    BY <1>10, <1>0, <1>g DEF EnqueueScan
  <2>2. InfrastructureTypeOK' /\ ProcessingTypeOK'
    BY <2>1, <1>10 DEF EnqueueScan, InfrastructureTypeOK, ProcessingTypeOK, dbVars, fsVars
  <2> QED BY <2>2, <1>10, <1>a DEF EnqueueScan
<1>11. CASE EnqueueFails(c)
  <2>1. r.file \in Files
    BY <1>11, <1>0 DEF EnqueueFails
  <2>2. queue' \in [Message -> Nat]
    BY <2>1, <1>11, <1>g DEF EnqueueFails
  <2>3. InfrastructureTypeOK'
    BY <2>2, <1>11 DEF EnqueueFails, InfrastructureTypeOK, dbVars, fsVars
  <2>4. r.file \in Executors /\ RunAt("get", "scan", r.file) \in Run
    BY <2>1, RunAtType DEF Executors, Phase
  <2>5. ProcessingTypeOK'
    BY <2>4, <1>11, StepType DEF EnqueueFails
  <2> QED BY <2>3, <2>5, <1>11, <1>a DEF EnqueueFails
<1>12. CASE SaveTitle(c)
  <2>1. rows' \in [Files -> Row \cup {NoRow}]
    BY <1>12, <1>0, RowsAfterType DEF SaveTitle
  <2> QED BY <2>1, <1>12, <1>a, <1>c DEF SaveTitle
<1>13. CASE RenameFails(c)
  BY <1>13, <1>a, <1>b DEF RenameFails
<1>14. CASE DeleteRow(c)
  BY <1>14, <1>0, <1>a, <1>e DEF DeleteRow
<1>15. CASE DeleteFails(c)
  <2>1. CASE UNCHANGED dbVars
    BY <2>1, <1>15, <1>a, <1>b DEF DeleteFails
  <2>2. CASE DeleteWithAlerts(r.file)
    BY <2>2, <1>15, <1>0, <1>a, <1>e DEF DeleteFails
  <2> QED BY <2>1, <2>2, <1>15 DEF DeleteFails
<1>16. CASE Unlink(c)
  BY <1>16, <1>a, <1>d, <1>f DEF Unlink
<1>17. CASE UnlinkFails(c)
  BY <1>17, <1>a, <1>b DEF UnlinkFails
<1> QED BY <1>1, <1>2, <1>3, <1>4, <1>5, <1>6, <1>7, <1>8, <1>9, <1>10, <1>11, <1>12,
           <1>13, <1>14, <1>15, <1>16, <1>17 DEF RequestStep

\* So does the start of a request.
LEMMA BeginRequestType ==
  ASSUME TypeOK, NEW c \in Requests, BeginRequest(c)
  PROVE  TypeOK'
<1> USE DEF TypeOK
<1>1. ASSUME NEW f \in Files, NEW kind \in Kinds, NEW title \in Titles,
             BeginCreate(c, f, kind, title)
      PROVE  TypeOK'
  <2>1. [RequestAt("write", f) EXCEPT !.item = StoredFile(kind, title)] \in Request
    <3>1. StoredFile(kind, title) \in Row
      BY StoredFileType
    <3> QED BY <3>1, NoRowAssumption, NoChangeType DEF RequestAt, Request, RequestRecord
  <2>2. FileServiceTypeOK'
    BY <2>1, <1>1, SlotType DEF BeginCreate, FileServiceTypeOK
  <2> QED BY <2>2, <1>1 DEF BeginCreate, InfrastructureTypeOK, ProcessingTypeOK, dbVars, brokerVars
<1>2. ASSUME NEW f \in Files, NEW title \in Titles, BeginRename(c, f, title)
      PROVE  TypeOK'
  <2>1. rows[f] \in Row
    BY <1>2 DEF BeginRename, InfrastructureTypeOK
  <2>2. Dirty(rows[f], [rows[f] EXCEPT !.title = title]) \in Changes
    BY <2>1, DirtyType DEF Row
  <2>3. [RequestAt("rename", f) EXCEPT
           !.changes = Dirty(rows[f], [rows[f] EXCEPT !.title = title])] \in Request
    BY <2>2 DEF RequestAt, Request, RequestRecord
  <2>4. FileServiceTypeOK'
    BY <2>3, <1>2, SlotType DEF BeginRename, FileServiceTypeOK
  <2> QED BY <2>4, <1>2
        DEF BeginRename, InfrastructureTypeOK, ProcessingTypeOK, dbVars, fsVars, brokerVars
<1>3. ASSUME NEW f \in Files, BeginDelete(c, f)
      PROVE  TypeOK'
  <2>1. FileServiceTypeOK'
    BY <1>3, SlotType, RequestAtType DEF BeginDelete, FileServiceTypeOK
  <2> QED BY <2>1, <1>3
        DEF BeginDelete, InfrastructureTypeOK, ProcessingTypeOK, dbVars, fsVars, brokerVars
<1> QED BY <1>1, <1>2, <1>3 DEF BeginRequest

-----------------------------------------------------------------------------
(* Type correctness                                                          *)

\* The initial state is well-formed.
LEMMA InitType == Init => TypeOK
BY RedeliveriesAssumption DEF Init, InfrastructureInit, ProcessingInit, FileServiceInit,
   TypeOK, InfrastructureTypeOK, ProcessingTypeOK, FileServiceTypeOK

\* Every step of the system preserves the types.
LEMMA NextType == TypeOK /\ [Next]_vars => TypeOK'
<1> SUFFICES ASSUME TypeOK, [Next]_vars PROVE TypeOK'
  OBVIOUS
<1> USE DEF TypeOK
<1>1. CASE \E c \in Requests : BeginRequest(c)
  BY <1>1, BeginRequestType
<1>2. CASE \E c \in Requests : RequestStep(c)
  BY <1>2, RequestStepType
<1>3. ASSUME NEW w \in Workers, NEW m \in Message, ReceiveTask(w, m), UNCHANGED requestVars
      PROVE  TypeOK'
  <2>1. w \in Executors /\ RunAt("get", m.task, m.file) \in Run
    BY RunAtType DEF Executors, Message
  <2>2. ProcessingTypeOK'
    BY <2>1, <1>3, StepType DEF ReceiveTask
  <2>3. InfrastructureTypeOK'
    BY <1>3 DEF ReceiveTask, InfrastructureTypeOK, dbVars, fsVars
  <2> QED BY <2>2, <2>3, <1>3 DEF FileServiceTypeOK, requestVars
<1>4. ASSUME NEW e \in Executors, RunStep(e), UNCHANGED requestVars
      PROVE  TypeOK'
  BY <1>4, RunStepType DEF FileServiceTypeOK, requestVars
<1>5. ASSUME NEW w \in Workers, WorkerCrash(w), UNCHANGED requestVars
      PROVE  TypeOK'
  <2>1. ProcessingTypeOK'
    BY <1>5, StepType DEF WorkerCrash, Executors
  <2> QED BY <2>1, <1>5 DEF WorkerCrash, InfrastructureTypeOK, FileServiceTypeOK,
                            requestVars, dbVars, fsVars, brokerVars
<1>6. ASSUME NEW m \in Message, Redeliver(m), UNCHANGED <<runs, requestVars>>
      PROVE  TypeOK'
  <2>1. queue' \in [Message -> Nat] /\ redelivered' \in 0..MaxRedeliveries
    BY <1>6, RedeliveriesAssumption DEF Redeliver, Sent, InfrastructureTypeOK
  <2> QED BY <2>1, <1>6 DEF Redeliver, InfrastructureTypeOK, ProcessingTypeOK,
                            FileServiceTypeOK, requestVars, dbVars, fsVars
<1>7. CASE ApiCrash
  BY <1>7 DEF ApiCrash, InfrastructureTypeOK, ProcessingTypeOK, FileServiceTypeOK,
              dbVars, fsVars, brokerVars
<1>8. CASE UNCHANGED vars
  BY <1>8 DEF vars, InfrastructureTypeOK, ProcessingTypeOK, FileServiceTypeOK,
              dbVars, fsVars, brokerVars
<1> QED BY <1>1, <1>2, <1>3, <1>4, <1>5, <1>6, <1>7, <1>8 DEF Next

\* Whatever faults occur, every variable keeps its type: runs and requests hold
\* a loaded row where they are about to use one, and only enum values are stored.
THEOREM TypeCorrect == Spec => []TypeOK
BY InitType, NextType, PTL DEF Spec
=============================================================================
