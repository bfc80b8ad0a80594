---------------------------- MODULE VerdictProofs ----------------------------
(* The verdict beside a file is the one its content deserves, although every  *)
(* writer of the row works on a copy it loaded earlier; and uploads leave no  *)
(* temporary file behind.                                                     *)
EXTENDS RefinementProofs

-----------------------------------------------------------------------------
(* The inductive invariant                                                   *)

\* The pipeline of a file starts after its upload has inserted the row.
PastInsert(f) == f \in issued /\ \A c \in Requests : ~Doing(c, f, {"write", "insert"})
PipelineAfterInsert ==
  /\ \A m \in Message : queue[m] > 0 => PastInsert(m.file)
  /\ \A e \in Executors : runs[e].pc # "idle" => PastInsert(runs[e].file)

\* The content deserves what the row says; attention may be ahead of the verdict
\* (a later mark_failed overwrites one and not the other), never behind it.
Threats(row) == EvaluateThreats(row.kind, row.kind.magic)
Sound(row) ==
  /\ row.requires_attention => Threats(row) # {}
  /\ row.scan_status = "clean" => Threats(row) = {}
  /\ row.scan_status = "suspicious" => Threats(row) # {} /\ row.requires_attention

\* What holds between a version of a row and every later one.
Grows(row, later) ==
  /\ later.kind = row.kind
  /\ row.requires_attention => later.requires_attention

\* An UPDATE that keeps a sound row sound.
SoundChanges(changes, row) ==
  /\ changes.requires_attention # Kept => changes.requires_attention = TRUE /\ Threats(row) # {}
  /\ changes.scan_status = "clean" => Threats(row) = {}
  /\ changes.scan_status = "suspicious" =>
       Threats(row) # {} /\ (changes.requires_attention = TRUE \/ row.requires_attention)

\* A run on a row that is still there holds an earlier version of it and is about
\* to write sound changes.
SoundRun(r, row) ==
  /\ r.item # NoRow => Grows(r.item, row)
  /\ SoundChanges(r.changes, row)

SoundRows == \A f \in Files : rows[f] # NoRow => Sound(rows[f])
SoundUploads == \A c \in Requests : reqs[c].pc \in {"write", "insert"} => Sound(reqs[c].item)
SoundRuns ==
  \A e \in Executors : runs[e].pc # "idle" /\ rows[runs[e].file] # NoRow
    => SoundRun(runs[e], rows[runs[e].file])

Soundness == PipelineAfterInsert /\ SoundRows /\ SoundUploads /\ SoundRuns

-----------------------------------------------------------------------------
(* Rows and changes                                                          *)

\* A sound UPDATE leaves a sound row that has grown.
LEMMA FlushedSound ==
  ASSUME NEW row \in Row, NEW changes \in Changes, Sound(row), SoundChanges(changes, row)
  PROVE  Sound(Flushed(row, changes)) /\ Grows(row, Flushed(row, changes))
<1> DEFINE later == Flushed(row, changes)
<1>1. /\ later.kind = row.kind
      /\ later.scan_status = IF changes.scan_status = Kept THEN row.scan_status
                             ELSE changes.scan_status
      /\ later.requires_attention = IF changes.requires_attention = Kept
                                    THEN row.requires_attention
                                    ELSE changes.requires_attention
  BY DEF Flushed, Column
<1>2. Threats(later) = Threats(row)
  BY <1>1 DEF Threats
<1>3. changes.requires_attention = Kept \/ later.requires_attention = TRUE
  BY <1>1 DEF SoundChanges
<1> HIDE DEF later
<1>4. Grows(row, later)
  BY <1>1, <1>3 DEF Grows
<1>5. Sound(later)
  BY <1>1, <1>2, <1>3, KeptAssumption DEF Sound, SoundChanges, Changes, Row
<1> QED BY <1>4, <1>5 DEF later

\* What is sound for a row is sound for its later versions.
LEMMA SoundLater ==
  ASSUME NEW r, NEW row, NEW later, Grows(row, later), SoundRun(r, row)
  PROVE  SoundRun(r, later)
<1>1. Threats(later) = Threats(row)
  BY DEF Grows, Threats
<1> QED BY <1>1 DEF SoundRun, SoundChanges, Grows

\* Nothing to write is sound, and so is a title.
LEMMA TitleSound ==
  ASSUME NEW changes, NEW row, changes = [NoChange EXCEPT !.title = changes.title]
  PROVE  SoundChanges(changes, row)
<1>1. changes.requires_attention = Kept /\ changes.scan_status = Kept
  BY DEF NoChange
<1> QED BY <1>1, KeptAssumption DEF SoundChanges, ScanStatus

\* What the phases assign to an earlier version of a row makes sound changes, as
\* long as the header is read from bytes that are there.
LEMMA AssignedSound ==
  ASSUME NEW item \in Row, NEW row \in Row, Grows(item, row), Sound(row)
  PROVE  /\ SoundChanges(Dirty(item, Scanned(item, TRUE)), row)
         /\ SoundChanges(Dirty(item, Extracted(item)), row)
         /\ SoundChanges(Dirty(item, Failed(item)), row)
<1>1. SoundChanges(Dirty(item, Scanned(item, TRUE)), row)
  <2> DEFINE reasons == EvaluateThreats(item.kind, HeaderIsPdf(item.kind, TRUE))
             scanned == Scanned(item, TRUE)
             changes == Dirty(item, scanned)
  <2>1. scanned = [item EXCEPT !.processing_status = "processing",
                     !.scan_status = IF reasons = {} THEN "clean" ELSE "suspicious",
                     !.requires_attention = reasons # {}]
    BY DEF Scanned
  <2>2. item.kind.magic \in BOOLEAN
    BY KindsAssumption DEF Row, Kind
  <2>3. reasons = Threats(row)
    BY <2>2 DEF Grows, Threats, HeaderIsPdf
  <2> HIDE DEF reasons
  <2>4. /\ scanned.scan_status = IF reasons = {} THEN "clean" ELSE "suspicious"
        /\ scanned.requires_attention = (reasons # {})
    BY <2>1 DEF Row
  <2>5. /\ changes.scan_status \in {Kept, scanned.scan_status}
        /\ changes.requires_attention = IF scanned.requires_attention = item.requires_attention
                                        THEN Kept ELSE scanned.requires_attention
    BY DEF Dirty, Change
  <2> HIDE DEF scanned, changes
  <2>6. item.requires_attention \in BOOLEAN /\ row.requires_attention \in BOOLEAN
    BY DEF Row
  <2>7. item.requires_attention => row.requires_attention /\ reasons # {}
    BY <2>3 DEF Grows, Sound
  <2>8. changes.requires_attention # Kept => changes.requires_attention = TRUE /\ reasons # {}
    BY <2>4, <2>5, <2>6, <2>7
  <2>9. changes.scan_status = "clean" => reasons = {}
    BY <2>4, <2>5, KeptAssumption DEF ScanStatus
  <2>10. changes.scan_status = "suspicious" => reasons # {}
    BY <2>4, <2>5, KeptAssumption DEF ScanStatus
  <2>11. reasons # {} => changes.requires_attention = TRUE \/ row.requires_attention
    BY <2>4, <2>5, <2>6, <2>7
  <2> QED BY <2>3, <2>8, <2>9, <2>10, <2>11 DEF SoundChanges, changes, scanned
<1>2. SoundChanges(Dirty(item, Extracted(item)), row)
  <2>1. /\ Dirty(item, Extracted(item)).scan_status = Kept
        /\ Dirty(item, Extracted(item)).requires_attention = Kept
    BY DEF Dirty, Change, Extracted, Row
  <2> QED BY <2>1, KeptAssumption DEF SoundChanges, ScanStatus
<1>3. SoundChanges(Dirty(item, Failed(item)), row)
  <2>1. /\ Dirty(item, Failed(item)).scan_status \in {Kept, "failed"}
        /\ Dirty(item, Failed(item)).requires_attention = Kept
    BY DEF Dirty, Change, Failed, Row
  <2> QED BY <2>1, KeptAssumption DEF SoundChanges, ScanStatus
<1> QED BY <1>1, <1>2, <1>3

-----------------------------------------------------------------------------
(* Who works on a file                                                       *)

\* A request in flight stays on its file; it is past its INSERT or was before it,
\* and then keeps the object it is to insert.
LEMMA RequestMoves ==
  ASSUME TypeOK, NEW c \in Requests, RequestStep(c)
  PROVE  /\ issued' = issued
         /\ \A d \in Requests : d # c => reqs'[d] = reqs[d]
         /\ \/ reqs'[c] = Idle
            \/ reqs'[c].file = reqs[c].file /\ reqs'[c].pc \notin {"write", "insert"}
            \/ /\ reqs'[c].file = reqs[c].file /\ reqs'[c].item = reqs[c].item
               /\ reqs[c].pc = "write" /\ reqs'[c].pc = "insert"
<1>0. reqs \in [Requests -> Request \cup {Idle}]
  BY DEF TypeOK, FileServiceTypeOK
<1>1. CASE StoreBytes(c)
  <2>1. /\ reqs[c].pc = "write" /\ issued' = issued
        /\ reqs' = [reqs EXCEPT ![c] = [reqs[c] EXCEPT !.pc = "insert"]]
    BY <1>1 DEF StoreBytes, Begin
  <2>2. reqs[c] \in Request
    BY <2>1, SlotType DEF TypeOK
  <2> QED BY <2>1, <2>2, <1>0 DEF Request, RequestRecord
<1>2. CASE Continues(c) /\ issued' = issued
  <2>1. ASSUME Finish(c)
        PROVE  reqs'[c] = Idle /\ \A d \in Requests : d # c => reqs'[d] = reqs[d]
    BY <2>1, <1>0 DEF Finish
  <2>2. ASSUME NEW pc \in {"refresh", "cleanup", "enqueue", "unlink"}, Proceed(c, pc)
        PROVE  /\ \A d \in Requests : d # c => reqs'[d] = reqs[d]
               /\ reqs'[c].file = reqs[c].file /\ reqs'[c].pc \notin {"write", "insert"}
    BY <2>2, <1>0 DEF Proceed, RequestAt
  <2> QED BY <2>1, <2>2, <1>2 DEF Continues
<1>3. StoreBytes(c) \/ (Continues(c) /\ issued' = issued)
  BY DEF RequestStep, Continues, WriteFails, ReplaceFails, InsertRow, InsertFails,
     RefreshItem, RefreshFails, Cleanup, CleanupFails, EnqueueScan, EnqueueFails, SaveTitle,
     RenameFails, DeleteRow, DeleteFails, Unlink, UnlinkFails
<1> QED BY <1>1, <1>2, <1>3

\* A request that starts is an upload of a fresh id, or past any INSERT.
LEMMA RequestStarts ==
  ASSUME TypeOK, NEW c \in Requests, BeginRequest(c)
  PROVE  /\ issued \subseteq issued'
         /\ \A d \in Requests : d # c => reqs'[d] = reqs[d]
         /\ \/ /\ reqs'[c].pc = "write" /\ reqs'[c].file \notin issued
               /\ \E kind \in Kinds, title \in Titles : reqs'[c].item = StoredFile(kind, title)
            \/ reqs'[c].pc \in {"rename", "delete"}
<1>0. reqs \in [Requests -> Request \cup {Idle}]
  BY DEF TypeOK, FileServiceTypeOK
<1>1. ASSUME NEW f \in Files, NEW kind \in Kinds, NEW title \in Titles,
             BeginCreate(c, f, kind, title)
      PROVE  /\ issued \subseteq issued'
             /\ \A d \in Requests : d # c => reqs'[d] = reqs[d]
             /\ reqs'[c].pc = "write" /\ reqs'[c].file \notin issued
             /\ reqs'[c].item = StoredFile(kind, title)
  BY <1>1, <1>0 DEF BeginCreate, Begin, RequestAt
<1>2. ASSUME NEW f \in Files, NEW title \in Titles, BeginRename(c, f, title)
      PROVE  /\ issued' = issued
             /\ \A d \in Requests : d # c => reqs'[d] = reqs[d]
             /\ reqs'[c].pc \in {"rename", "delete"}
  <2> DEFINE changes == Dirty(rows[f], [rows[f] EXCEPT !.title = title])
  <2>1. /\ issued' = issued
        /\ reqs' = [reqs EXCEPT ![c] = [RequestAt("rename", f) EXCEPT !.changes = changes]]
    BY <1>2 DEF BeginRename, Begin
  <2> HIDE DEF changes
  <2> QED BY <2>1, <1>0 DEF RequestAt
<1>3. ASSUME NEW f \in Files, BeginDelete(c, f)
      PROVE  /\ issued' = issued
             /\ \A d \in Requests : d # c => reqs'[d] = reqs[d]
             /\ reqs'[c].pc \in {"rename", "delete"}
  BY <1>3, <1>0 DEF BeginDelete, Begin, RequestAt
<1> QED BY <1>1, <1>2, <1>3 DEF BeginRequest

\* A pipeline step keeps its executor on its file or frees it, leaves the others
\* alone and publishes at most one message about that file.
LEMMA RunMoves ==
  ASSUME TypeOK, NEW e \in Executors, RunStep(e)
  PROVE  /\ runs[e].pc # "idle"
         /\ \A d \in Executors : d # e => runs'[d] = runs[d]
         /\ runs'[e].pc # "idle" => runs'[e].file = runs[e].file
         /\ \/ queue' = queue
            \/ \E t \in Phase : queue' = Sent([task |-> t, file |-> runs[e].file])
<1> DEFINE r == runs[e]
<1>0. runs \in [Executors -> Run \cup {Idle}] /\ (r.pc # "idle" => r \in Run)
  BY BusyRun DEF TypeOK, ProcessingTypeOK
<1>1. ASSUME NEW run, r.pc # "idle", Step(e, run), run.pc # "idle" => run.file = r.file,
             queue' = queue
      PROVE  /\ runs[e].pc # "idle"
             /\ \A d \in Executors : d # e => runs'[d] = runs[d]
             /\ runs'[e].pc # "idle" => runs'[e].file = runs[e].file
             /\ queue' = queue
  BY <1>0, <1>1 DEF Step
<1>2. ASSUME NEW pc, NEW phase PROVE RunAt(pc, phase, r.file).file = r.file
  BY DEF RunAt
<1>3. ASSUME NEW pc, NEW item, NEW assigned
      PROVE  Assigned(r, pc, item, assigned).file = r.file
  BY DEF Assigned, RunAt
<1>4. CASE GetItem(e)
  <2> DEFINE run == IF r.phase = "alert"
                    THEN [r EXCEPT !.pc = "commit", !.level = LevelFor(rows[r.file])]
                    ELSE [r EXCEPT !.pc = "read", !.item = rows[r.file]]
  <2>1. r.pc = "get" /\ Step(e, run) /\ queue' = queue
    BY <1>4 DEF GetItem, brokerVars
  <2>2. run.file = r.file
    BY <2>1, <1>0 DEF Run, RunRecord
  <2> HIDE DEF run
  <2> QED BY <2>1, <2>2, <1>1
<1>5. CASE PathExists(e)
  <2>1. r.pc = "read" /\ queue' = queue
    BY <1>5 DEF PathExists, brokerVars
  <2>2. [r EXCEPT !.pc = "parse"].file = r.file
    BY <2>1, <1>0 DEF Run, RunRecord
  <2> QED BY <2>1, <2>2, <1>1, <1>3, <1>5 DEF PathExists
<1>6. CASE ReadHeader(e) \/ PathMissing(e) \/ ExtractCounters(e) \/ MarkFailed(e)
  <2>1. PICK pc, item, assigned :
          r.pc # "idle" /\ Step(e, Assigned(r, pc, item, assigned)) /\ queue' = queue
    BY <1>6 DEF ReadHeader, PathMissing, ExtractCounters, MarkFailed, brokerVars
  <2> QED BY <2>1, <1>1, <1>3
<1>7. CASE \/ GetNothing(e) \/ OpenFails(e) \/ AddAlert(e) \/ CommitRefused(e)
           \/ PhaseFails(e) \/ CommitUnconfirmed(e) \/ SaveFailed(e) \/ MarkIneffective(e)
           \/ PublishFails(e) \/ CommitItem(e)
  <2>1. PICK run : /\ r.pc # "idle" /\ Step(e, run) /\ queue' = queue
                   /\ \/ run \in {Idle, Raised(e), Marked(e)}
                      \/ \E phase : run = Onward(e, phase, r.file)
    BY <1>7 DEF GetNothing, OpenFails, AddAlert, CommitRefused, PhaseFails, CommitUnconfirmed,
       SaveFailed, MarkIneffective, PublishFails, CommitItem, brokerVars
  <2>2. run.pc # "idle" => run.file = r.file
    BY <2>1, <1>2 DEF Raised, Marked, Onward, Idle
  <2> QED BY <2>1, <2>2, <1>1
<1>8. CASE Publish(e)
  <2>1. r.pc # "idle" /\ Step(e, Idle) /\ queue' = Sent([task |-> r.phase, file |-> r.file])
    BY <1>8 DEF Publish
  <2>2. r.phase \in Phase
    BY <2>1, <1>0 DEF Run, RunRecord
  <2> QED BY <2>1, <2>2, <1>0 DEF Step, Idle
<1> QED BY <1>4, <1>5, <1>6, <1>7, <1>8 DEF RunStep

\* A file past its INSERT stays so: ids are drawn once.
LEMMA PastInsertStable ==
  ASSUME TypeOK, [Next]_vars, NEW f \in Files, PastInsert(f)
  PROVE  PastInsert(f)'
<1>1. ASSUME NEW c \in Requests, RequestStep(c)
      PROVE  PastInsert(f)'
  BY <1>1, RequestMoves DEF PastInsert, Doing, Idle
<1>2. ASSUME NEW c \in Requests, BeginRequest(c)
      PROVE  PastInsert(f)'
  BY <1>2, RequestStarts DEF PastInsert, Doing
<1>3. CASE Background
  BY <1>3, BackgroundEffect DEF PastInsert, Doing, Idle
<1> QED BY <1>1, <1>2, <1>3, NextSplit

\* Only a request past its upload's INSERT publishes or starts a pipeline, and a
\* pipeline carries on where it was started.
LEMMA CarrierOrigin ==
  ASSUME TypeOK, Ownership, PipelineAfterInsert, [Next]_vars
  PROVE  /\ \A m \in Message : queue'[m] > 0 => PastInsert(m.file)
         /\ \A e \in Executors : runs'[e].pc # "idle" => PastInsert(runs'[e].file)
<1> DEFINE Origin == /\ \A m \in Message : queue'[m] > 0 => PastInsert(m.file)
                     /\ \A e \in Executors : runs'[e].pc # "idle" => PastInsert(runs'[e].file)
<1>0. queue \in [Message -> Nat] /\ runs \in [Executors -> Run \cup {Idle}]
  BY DEF TypeOK, InfrastructureTypeOK, ProcessingTypeOK
<1>a. ASSUME NEW m \in Message, queue' = Sent(m), PastInsert(m.file)
      PROVE  \A n \in Message : queue'[n] > 0 => PastInsert(n.file)
  BY <1>0, <1>a DEF Sent, PipelineAfterInsert
<1>b. ASSUME NEW e \in Executors, NEW phase, NEW f, Step(e, RunAt("get", phase, f)), PastInsert(f)
      PROVE  \A d \in Executors : runs'[d].pc # "idle" => PastInsert(runs'[d].file)
  <2>1. RunAt("get", phase, f).file = f
    BY DEF RunAt
  <2> QED BY <2>1, <1>0, <1>b DEF Step, PipelineAfterInsert
<1>c. CASE UNCHANGED <<queue, runs>>
  BY <1>c DEF PipelineAfterInsert
<1>1. ASSUME NEW c \in Requests, BeginRequest(c)
      PROVE  Origin
  BY <1>1, <1>c DEF BeginRequest, BeginCreate, BeginRename, BeginDelete, brokerVars
<1>2. ASSUME NEW c \in Requests, RequestStep(c)
      PROVE  Origin
  <2> DEFINE f == reqs[c].file
  <2>1. ASSUME reqs[c].pc = "enqueue"
        PROVE  f \in Files /\ PastInsert(f) /\ ScanMessage(f) \in Message /\ ScanMessage(f).file = f
    BY <2>1, SlotType
       DEF TypeOK, Ownership, RequestsIssued, UploadsAlone, PastInsert, Doing, ScanMessage, Message, Phase
  <2>2. CASE EnqueueScan(c)
    <3>1. reqs[c].pc = "enqueue" /\ queue' = Sent(ScanMessage(f)) /\ runs' = runs
      BY <2>2 DEF EnqueueScan
    <3> QED BY <3>1, <2>1, <1>a DEF PipelineAfterInsert
  <2>3. CASE EnqueueFails(c)
    <3>1. /\ reqs[c].pc = "enqueue" /\ Step(f, RunAt("get", "scan", f))
          /\ queue' = queue \/ queue' = Sent(ScanMessage(f))
      BY <2>3 DEF EnqueueFails
    <3> QED BY <3>1, <2>1, <1>a, <1>b DEF PipelineAfterInsert, Executors
  <2>4. CASE ~EnqueueScan(c) /\ ~EnqueueFails(c)
    <3>1. UNCHANGED <<queue, runs>>
      BY <2>4, <1>2 DEF RequestStep, WriteFails, StoreBytes, ReplaceFails, InsertRow,
         InsertFails, RefreshItem, RefreshFails, Cleanup, CleanupFails, SaveTitle,
         RenameFails, DeleteRow, DeleteFails, Unlink, UnlinkFails, brokerVars
    <3> QED BY <3>1, <1>c
  <2> QED BY <2>2, <2>3, <2>4
<1>3. ASSUME NEW e \in Executors, RunStep(e)
      PROVE  Origin
  <2>1. /\ runs[e].pc # "idle"
        /\ \A d \in Executors : d # e => runs'[d] = runs[d]
        /\ runs'[e].pc # "idle" => runs'[e].file = runs[e].file
        /\ \/ queue' = queue
           \/ \E t \in Phase : queue' = Sent([task |-> t, file |-> runs[e].file])
    BY <1>3, RunMoves
  <2>2. PastInsert(runs[e].file) /\ runs[e].file \in Files
    BY <2>1, BusyRun DEF PipelineAfterInsert, TypeOK, Run, RunRecord
  <2>3. ASSUME NEW t \in Phase, queue' = Sent([task |-> t, file |-> runs[e].file])
        PROVE  \A n \in Message : queue'[n] > 0 => PastInsert(n.file)
    BY <2>2, <2>3, <1>a DEF Message
  <2> QED BY <2>1, <2>2, <2>3 DEF PipelineAfterInsert
<1>4. ASSUME NEW w \in Workers, NEW m \in Message, ReceiveTask(w, m)
      PROVE  Origin
  <2>1. queue[m] > 0 /\ queue' = [queue EXCEPT ![m] = @ - 1] /\ Step(w, RunAt("get", m.task, m.file))
    BY <1>4 DEF ReceiveTask
  <2>2. PastInsert(m.file)
    BY <2>1 DEF PipelineAfterInsert
  <2>3. \A n \in Message : queue'[n] > 0 => queue[n] > 0
    BY <2>1, <1>0
  <2> QED BY <2>1, <2>2, <2>3, <1>b DEF PipelineAfterInsert, Executors
<1>5. ASSUME NEW w \in Workers, WorkerCrash(w)
      PROVE  Origin
  BY <1>5, <1>0 DEF WorkerCrash, Step, Idle, PipelineAfterInsert, Executors, brokerVars
<1>6. ASSUME NEW m \in Message, Redeliver(m), UNCHANGED runs
      PROVE  Origin
  <2>1. PastInsert(m.file) /\ queue' = Sent(m)
    BY <1>6 DEF Redeliver, PipelineAfterInsert
  <2> QED BY <2>1, <1>6, <1>a DEF PipelineAfterInsert
<1>7. CASE ApiCrash
  BY <1>7 DEF ApiCrash, Idle, PipelineAfterInsert, brokerVars
<1>8. CASE UNCHANGED vars
  BY <1>8, <1>c DEF vars, brokerVars
<1> QED BY <1>1, <1>2, <1>3, <1>4, <1>5, <1>6, <1>7, <1>8 DEF Next

LEMMA PipelineStaysAfterInsert ==
  ASSUME TypeOK, TypeOK', Ownership, PipelineAfterInsert, [Next]_vars
  PROVE  PipelineAfterInsert'
<1>1. ASSUME NEW m \in Message, queue'[m] > 0
      PROVE  PastInsert(m.file)'
  BY <1>1, CarrierOrigin, PastInsertStable DEF Message
<1>2. ASSUME NEW e \in Executors, runs'[e].pc # "idle"
      PROVE  PastInsert(runs[e].file)'
  <2>1. runs'[e].file \in Files
    BY <1>2 DEF TypeOK, ProcessingTypeOK, Idle, Run, RunRecord
  <2>2. PastInsert(runs'[e].file)
    BY <1>2, CarrierOrigin
  <2> QED BY <2>1, <2>2, PastInsertStable DEF PastInsert, Doing
<1> QED BY <1>1, <1>2 DEF PipelineAfterInsert

-----------------------------------------------------------------------------
(* Steps keep rows and runs sound                                            *)

\* Nothing to write to any version of a row.
Blank(r) == r.item = NoRow /\ r.changes = NoChange

LEMMA BlankSound ==
  ASSUME NEW r, NEW row, Blank(r)
  PROVE  SoundRun(r, row)
<1>1. r.changes = [NoChange EXCEPT !.title = r.changes.title]
  BY DEF Blank, NoChange
<1> QED BY <1>1, TitleSound DEF Blank, SoundRun

\* A sound UPDATE of one row keeps the table sound, and its rows grow.
LEMMA UpdateSound ==
  ASSUME TypeOK, SoundRows, NEW f \in Files, NEW changes \in Changes,
         rows' = RowsAfter(f, changes),
         rows[f] # NoRow => SoundChanges(changes, rows[f])
  PROVE  /\ SoundRows'
         /\ \A g \in Files : rows'[g] # NoRow => rows[g] # NoRow /\ Grows(rows[g], rows'[g])
<1>0. rows \in [Files -> Row \cup {NoRow}]
  BY DEF TypeOK, InfrastructureTypeOK
<1>1. \A g \in Files : Grows(rows[g], rows[g])
  BY DEF Grows
<1>2. CASE rows[f] = NoRow
  BY <1>1, <1>2 DEF RowsAfter, SoundRows
<1>3. CASE rows[f] # NoRow
  <2>1. /\ Sound(Flushed(rows[f], changes))
        /\ Grows(rows[f], Flushed(rows[f], changes))
    BY <1>0, <1>3, FlushedSound DEF SoundRows
  <2>2. rows' = [rows EXCEPT ![f] = Flushed(rows[f], changes)]
    BY <1>3 DEF RowsAfter
  <2>3. \A g \in Files : rows'[g] = IF g = f THEN Flushed(rows[f], changes) ELSE rows[g]
    BY <2>2, <1>0
  <2> QED BY <1>1, <1>3, <2>1, <2>3 DEF SoundRows
<1> QED BY <1>2, <1>3

\* Where rows only grow, the runs that do not move stay sound.
LEMMA RunsStaySound ==
  ASSUME SoundRuns, TypeOK, NEW e \in Executors, runs'[e] = runs[e],
         \A g \in Files : rows'[g] # NoRow => rows[g] # NoRow /\ Grows(rows[g], rows'[g]),
         runs'[e].pc # "idle", rows'[runs'[e].file] # NoRow
  PROVE  SoundRun(runs'[e], rows'[runs'[e].file])
<1>1. runs[e].file \in Files
  BY BusyRun DEF TypeOK, Run, RunRecord
<1> QED BY <1>1, SoundLater DEF SoundRuns

\* After a step of its own a run holds nothing, or no row has changed and it is
\* sound: what it assigned, it assigned to the row as it is or to an earlier version.
LEMMA RunStepRun ==
  ASSUME TypeOK, RowsHaveBytes, SoundRows, SoundRuns, NEW e \in Executors, RunStep(e),
         runs'[e].pc # "idle", rows[runs[e].file] # NoRow
  PROVE  Blank(runs'[e]) \/ (rows' = rows /\ SoundRun(runs'[e], rows[runs[e].file]))
<1> DEFINE r == runs[e]
           row == rows[r.file]
           Goal == Blank(runs'[e]) \/ (rows' = rows /\ SoundRun(runs'[e], row))
<1>0. /\ runs \in [Executors -> Run \cup {Idle}] /\ (r.pc # "idle" => r \in Run)
      /\ r.pc # "idle" => SoundRun(r, row)
      /\ r.pc # "idle" => row \in Row /\ Sound(row) /\ r.file \in disk
  BY BusyRun DEF TypeOK, ProcessingTypeOK, InfrastructureTypeOK, SoundRuns, SoundRows,
     RowsHaveBytes, Run, RunRecord
<1>1. \A pc, phase, f : Blank(RunAt(pc, phase, f))
  BY DEF Blank, RunAt
<1>2. ASSUME NEW run, Step(e, run) PROVE runs'[e] = run
  BY <1>0, <1>2 DEF Step
<1>3. ASSUME NEW pc, NEW item, NEW assigned, rows' = rows,
             Step(e, Assigned(r, pc, item, assigned)), SoundChanges(Dirty(item, assigned), row)
      PROVE  Goal
  <2> DEFINE run == Assigned(r, pc, item, assigned)
  <2>1. run.item = NoRow /\ run.changes = Dirty(item, assigned)
    BY DEF Assigned, RunAt
  <2>2. SoundRun(run, row)
    BY <2>1, <1>3 DEF SoundRun
  <2> QED BY <2>2, <1>2, <1>3
<1>4. ASSUME NEW run, rows' = rows, r.pc # "idle", Step(e, run), run.changes = r.changes,
             run.item \in {r.item, row}
      PROVE  Goal
  <2>1. Grows(row, row)
    BY DEF Grows
  <2>2. SoundRun(run, row)
    BY <2>1, <1>0, <1>4 DEF SoundRun
  <2> QED BY <2>2, <1>2, <1>4
<1>5. ASSUME r.pc \in {"read", "parse"}
      PROVE  r.item \in Row /\ Grows(r.item, row)
  BY <1>0, <1>5 DEF SoundRun, Run, RunRecord
<1>6. CASE GetItem(e)
  <2> DEFINE run == IF r.phase = "alert"
                    THEN [r EXCEPT !.pc = "commit", !.level = LevelFor(row)]
                    ELSE [r EXCEPT !.pc = "read", !.item = row]
  <2>1. r.pc = "get" /\ Step(e, run) /\ rows' = rows
    BY <1>6 DEF GetItem, dbVars
  <2>2. run.changes = r.changes /\ run.item \in {r.item, row}
    BY <2>1, <1>0 DEF Run, RunRecord
  <2> HIDE DEF run
  <2> QED BY <2>1, <2>2, <1>4
<1>7. CASE ReadHeader(e)
  <2>1. r.pc = "read" /\ rows' = rows
        /\ Step(e, Assigned(r, "commit", r.item, Scanned(r.item, r.file \in disk)))
    BY <1>7 DEF ReadHeader, dbVars
  <2>2. (r.file \in disk) = TRUE
    BY <2>1, <1>0
  <2>3. SoundChanges(Dirty(r.item, Scanned(r.item, r.file \in disk)), row)
    BY <2>1, <2>2, <1>0, <1>5, AssignedSound
  <2> QED BY <2>1, <2>3, <1>3
<1>8. CASE PathExists(e)
  <2>1. r.pc = "read" /\ rows' = rows
    BY <1>8 DEF PathExists, dbVars
  <2>2. CASE Step(e, Assigned(r, "commit", r.item, Extracted(r.item)))
    BY <2>1, <2>2, <1>0, <1>3, <1>5, AssignedSound
  <2>3. CASE Step(e, [r EXCEPT !.pc = "parse"])
    <3>1. [r EXCEPT !.pc = "parse"].changes = r.changes /\ [r EXCEPT !.pc = "parse"].item = r.item
      BY <2>1, <1>0 DEF Run, RunRecord
    <3> QED BY <3>1, <2>1, <2>3, <1>4
  <2> QED BY <2>2, <2>3, <1>8 DEF PathExists
<1>9. CASE PathMissing(e)
  <2>1. /\ r.pc = "read" /\ rows' = rows
        /\ Step(e, Assigned(r, "commit", r.item, Failed(r.item)))
    BY <1>9 DEF PathMissing, dbVars
  <2> QED BY <2>1, <1>0, <1>3, <1>5, AssignedSound
<1>10. CASE ExtractCounters(e)
  <2>1. /\ r.pc = "parse" /\ rows' = rows
        /\ Step(e, Assigned(r, "commit", r.item, Extracted(r.item)))
    BY <1>10 DEF ExtractCounters, dbVars
  <2> QED BY <2>1, <1>0, <1>3, <1>5, AssignedSound
<1>11. CASE MarkFailed(e)
  <2>1. /\ r.pc = "mark" /\ rows' = rows
        /\ Step(e, Assigned(r, "save", row, Failed(row)))
    BY <1>11 DEF MarkFailed, dbVars
  <2>2. Grows(row, row)
    BY DEF Grows
  <2> QED BY <2>1, <2>2, <1>0, <1>3, AssignedSound
<1>12. CASE \/ GetNothing(e) \/ OpenFails(e) \/ AddAlert(e) \/ CommitRefused(e)
            \/ PhaseFails(e) \/ CommitUnconfirmed(e) \/ SaveFailed(e) \/ MarkIneffective(e)
            \/ Publish(e) \/ PublishFails(e) \/ CommitItem(e)
  <2>1. PICK run : /\ Step(e, run)
                   /\ \/ run \in {Idle, Raised(e), Marked(e)}
                      \/ \E phase : run = Onward(e, phase, r.file)
    BY <1>12 DEF GetNothing, OpenFails, AddAlert, CommitRefused, PhaseFails, CommitUnconfirmed,
       SaveFailed, MarkIneffective, Publish, PublishFails, CommitItem
  <2>2. run.pc # "idle" => Blank(run)
    BY <2>1, <1>1 DEF Raised, Marked, Onward, Idle
  <2> QED BY <2>1, <2>2, <1>2
<1> QED BY <1>6, <1>7, <1>8, <1>9, <1>10, <1>11, <1>12 DEF RunStep

\* A pipeline step writes what is sound for the row as it is by then.
LEMMA RunStepSound ==
  ASSUME TypeOK, RowsHaveBytes, SoundRows, SoundRuns, NEW e \in Executors, RunStep(e)
  PROVE  SoundRows' /\ SoundRuns'
<1> DEFINE r == runs[e]
<1>0. r.pc # "idle" /\ r.file \in Files /\ r.changes \in Changes
  BY RunMoves, BusyRun DEF TypeOK, Run, RunRecord
<1>1. \A g \in Files : Grows(rows[g], rows[g])
  BY DEF Grows
<1>2. /\ SoundRows'
      /\ \A g \in Files : rows'[g] # NoRow => rows[g] # NoRow /\ Grows(rows[g], rows'[g])
  <2>1. CASE UNCHANGED rows
    BY <2>1, <1>1 DEF SoundRows
  <2>2. CASE rows' = RowsAfter(r.file, r.changes)
    BY <2>2, <1>0, UpdateSound DEF SoundRuns, SoundRun
  <2> QED BY <2>1, <2>2, RunStepEffect DEF dbVars
<1>3. SoundRuns'
  <2> SUFFICES ASSUME NEW d \in Executors, runs'[d].pc # "idle", rows'[runs'[d].file] # NoRow
               PROVE  SoundRun(runs'[d], rows'[runs'[d].file])
    BY DEF SoundRuns
  <2>1. CASE d # e
    <3>1. runs'[d] = runs[d]
      BY <2>1, RunMoves
    <3> QED BY <3>1, <1>2, RunsStaySound
  <2>2. CASE d = e
    <3>1. runs'[e].file = r.file /\ rows[r.file] # NoRow
      BY <2>2, <1>0, <1>2, RunMoves
    <3>2. Blank(runs'[e]) \/ (rows' = rows /\ SoundRun(runs'[e], rows[r.file]))
      BY <2>2, <3>1, RunStepRun
    <3> QED BY <2>2, <3>1, <3>2, BlankSound
  <2> QED BY <2>1, <2>2
<1> QED BY <1>2, <1>3

\* A request inserts a sound row nobody works on yet, changes a title or deletes.
LEMMA RequestStepSound ==
  ASSUME TypeOK, RenameChangesTitle, Soundness, NEW c \in Requests, RequestStep(c)
  PROVE  SoundRows' /\ SoundRuns'
<1> DEFINE f == reqs[c].file
<1> USE DEF Soundness
<1>0. /\ rows \in [Files -> Row \cup {NoRow}]
      /\ runs \in [Executors -> Run \cup {Idle}]
      /\ reqs[c].pc # "idle" => f \in Files /\ reqs[c].changes \in Changes
      /\ \A e \in Executors : runs[e].pc # "idle" => runs[e].file \in Files
  BY SlotType, BusyRun
     DEF TypeOK, InfrastructureTypeOK, ProcessingTypeOK, Request, RequestRecord, Run, RunRecord
<1>1. CASE EnqueueFails(c)
  <2>1. rows' = rows /\ reqs[c].pc = "enqueue" /\ Step(f, RunAt("get", "scan", f))
    BY <1>1 DEF EnqueueFails, dbVars
  <2>2. \A e \in Executors : runs'[e] = IF e = f THEN RunAt("get", "scan", f) ELSE runs[e]
    BY <2>1, <1>0 DEF Step
  <2>3. Blank(RunAt("get", "scan", f))
    BY DEF Blank, RunAt
  <2> QED BY <2>1, <2>2, <2>3, BlankSound DEF SoundRows, SoundRuns
<1>2. CASE InsertRow(c) \/ InsertFails(c)
  <2>1. /\ reqs[c].pc = "insert" /\ runs' = runs
        /\ rows' = rows \/ rows' = [rows EXCEPT ![f] = reqs[c].item]
    BY <1>2 DEF InsertRow, InsertFails
  <2>2. Sound(reqs[c].item)
    BY <2>1 DEF SoundUploads
  <2>3. \A e \in Executors : runs[e].pc # "idle" => runs[e].file # f
    BY <2>1 DEF PipelineAfterInsert, PastInsert, Doing
  <2> QED BY <2>1, <2>2, <2>3, <1>0 DEF SoundRows, SoundRuns
<1>3. CASE SaveTitle(c)
  <2>1. /\ reqs[c].pc = "rename" /\ runs' = runs
        /\ rows' = RowsAfter(f, reqs[c].changes)
    BY <1>3 DEF SaveTitle
  <2>2. SoundChanges(reqs[c].changes, rows[f])
    BY <2>1, TitleSound DEF RenameChangesTitle
  <2>3. /\ SoundRows'
        /\ \A g \in Files : rows'[g] # NoRow => rows[g] # NoRow /\ Grows(rows[g], rows'[g])
    BY <2>1, <2>2, <1>0, UpdateSound
  <2> QED BY <2>1, <2>3, RunsStaySound DEF SoundRuns
<1>4. CASE DeleteRow(c) \/ DeleteFails(c)
  <2>1. /\ reqs[c].pc = "delete" /\ runs' = runs
        /\ rows' = rows \/ rows' = [rows EXCEPT ![f] = NoRow]
    BY <1>4 DEF DeleteRow, DeleteFails, DeleteWithAlerts, dbVars
  <2> QED BY <2>1, <1>0 DEF SoundRows, SoundRuns
<1>5. CASE UNCHANGED <<rows, runs>>
  BY <1>5 DEF SoundRows, SoundRuns
<1>6. \/ EnqueueFails(c) \/ InsertRow(c) \/ InsertFails(c) \/ SaveTitle(c)
      \/ DeleteRow(c) \/ DeleteFails(c) \/ UNCHANGED <<rows, runs>>
  BY DEF RequestStep, WriteFails, StoreBytes, ReplaceFails, RefreshItem, RefreshFails,
     Cleanup, CleanupFails, EnqueueScan, RenameFails, Unlink, UnlinkFails, dbVars
<1> QED BY <1>1, <1>2, <1>3, <1>4, <1>5, <1>6

\* The row create() is to insert has no verdict yet.
LEMMA UploadsStaySound ==
  ASSUME TypeOK, SoundUploads, [Next]_vars
  PROVE  SoundUploads'
<1>1. ASSUME NEW c \in Requests, RequestStep(c)
      PROVE  SoundUploads'
  <2>1. \A d \in Requests : d # c => reqs'[d] = reqs[d]
    BY <1>1, RequestMoves
  <2>2. ASSUME reqs'[c].pc \in {"write", "insert"}
        PROVE  Sound(reqs'[c].item)
    BY <1>1, <2>2, RequestMoves DEF Idle, SoundUploads
  <2> QED BY <2>1, <2>2 DEF SoundUploads
<1>2. ASSUME NEW c \in Requests, BeginRequest(c)
      PROVE  SoundUploads'
  <2>1. \A kind \in Kinds, title \in Titles : Sound(StoredFile(kind, title))
    BY DEF Sound, StoredFile
  <2> QED BY <1>2, <2>1, RequestStarts DEF SoundUploads
<1>3. CASE Background
  BY <1>3, BackgroundEffect DEF SoundUploads, Idle
<1> QED BY <1>1, <1>2, <1>3, NextSplit

LEMMA NextSound ==
  ASSUME TypeOK, TypeOK', Ownership, BytesSafe, RenameChangesTitle, Soundness, [Next]_vars
  PROVE  Soundness'
<1> USE DEF Soundness
<1>0. runs \in [Executors -> Run \cup {Idle}]
  BY DEF TypeOK, ProcessingTypeOK
<1>1. PipelineAfterInsert' /\ SoundUploads'
  BY PipelineStaysAfterInsert, UploadsStaySound
<1>2. ASSUME NEW e \in Executors, NEW run, Step(e, run), rows' = rows, run = Idle \/ Blank(run)
      PROVE  SoundRows' /\ SoundRuns'
  <2>1. \A d \in Executors : runs'[d] = IF d = e THEN run ELSE runs[d]
    BY <1>0, <1>2 DEF Step
  <2> QED BY <2>1, <1>2, BlankSound DEF SoundRows, SoundRuns, Idle
<1>3. \A phase, f : Blank(RunAt("get", phase, f))
  BY DEF Blank, RunAt
<1>4. SoundRows' /\ SoundRuns'
  <2>1. ASSUME NEW c \in Requests, BeginRequest(c)
        PROVE  SoundRows' /\ SoundRuns'
    BY <2>1 DEF BeginRequest, BeginCreate, BeginRename, BeginDelete, dbVars, SoundRows, SoundRuns
  <2>2. ASSUME NEW c \in Requests, RequestStep(c)
        PROVE  SoundRows' /\ SoundRuns'
    BY <2>2, RequestStepSound
  <2>3. ASSUME NEW e \in Executors, RunStep(e)
        PROVE  SoundRows' /\ SoundRuns'
    BY <2>3, RunStepSound DEF BytesSafe
  <2>4. ASSUME NEW w \in Workers, NEW m \in Message, ReceiveTask(w, m)
        PROVE  SoundRows' /\ SoundRuns'
    BY <2>4, <1>2, <1>3 DEF ReceiveTask, Executors, dbVars
  <2>5. ASSUME NEW w \in Workers, WorkerCrash(w)
        PROVE  SoundRows' /\ SoundRuns'
    BY <2>5, <1>2 DEF WorkerCrash, Executors, dbVars
  <2>6. CASE ApiCrash
    BY <2>6 DEF ApiCrash, Idle, dbVars, SoundRows, SoundRuns
  <2>7. CASE UNCHANGED <<rows, runs>>
    BY <2>7 DEF SoundRows, SoundRuns
  <2> QED BY <2>1, <2>2, <2>3, <2>4, <2>5, <2>6, <2>7 DEF Next, Redeliver, vars, dbVars
<1> QED BY <1>1, <1>4

-----------------------------------------------------------------------------
(* The theorems                                                              *)

\* Although scans run twice, fail half-way, race deletes, renames and
\* mark_failed, a verdict of scan() always agrees with the uploaded bytes, and
\* requires_attention with the verdict.  Only a failure seen after a COMMIT took
\* effect is excluded (its answer lost, or the refresh after it failing): it can
\* leave a row whose bytes are gone, and a scan of that row reads an empty header.
THEOREM VerdictsMatchContent ==
  ASSUME "late" \notin Faults
  PROVE  Spec => []VerdictMatchesContent
<1>1. Init => BytesSafe /\ RenameChangesTitle /\ Soundness
  BY DEF Init, InfrastructureInit, ProcessingInit, FileServiceInit, Idle, BytesSafe,
     BytesBeforeRow, RemovalAfterRow, RowsHaveBytes, RenameChangesTitle, Soundness,
     PipelineAfterInsert, SoundRows, SoundUploads, SoundRuns
<1>2. TypeOK /\ TypeOK' /\ Ownership /\ BytesSafe /\ RenameChangesTitle /\ Soundness /\ [Next]_vars
        => BytesSafe' /\ RenameChangesTitle' /\ Soundness'
  BY NextKeepsBytes, NextKeepsRename, NextSound
<1>3. TypeOK /\ Soundness => VerdictMatchesContent
  <2> SUFFICES ASSUME TypeOK, Soundness, NEW f \in Files, rows[f] # NoRow,
                      rows[f].scan_status \in {"clean", "suspicious"}
               PROVE  /\ rows[f].scan_status = (IF Threats(rows[f]) = {} THEN "clean" ELSE "suspicious")
                      /\ rows[f].requires_attention = (Threats(rows[f]) # {})
    BY DEF VerdictMatchesContent, Threats
  <2>1. Sound(rows[f]) /\ rows[f].requires_attention \in BOOLEAN
    BY DEF Soundness, SoundRows, TypeOK, InfrastructureTypeOK, Row
  <2> QED BY <2>1 DEF Sound
<1> QED BY <1>1, <1>2, <1>3, OwnershipInvariant, PTL DEF Spec

\* Once write_temp has returned or raised, no temporary file is left: as long as
\* file operations work, names fit and the API process lives, every .part file
\* belongs to the upload that is writing it.
THEOREM PartsAlwaysOwned ==
  ASSUME "fs" \notin Faults, "api_crash" \notin Faults, \A kind \in Kinds : ~kind.long
  PROVE  Spec => []PartsOwned
<1>1. Init => PartsOwned
  BY DEF Init, InfrastructureInit, PartsOwned
<1>2. TypeOK /\ [Next]_vars /\ PartsOwned => PartsOwned'
  <2> SUFFICES ASSUME TypeOK, [Next]_vars, PartsOwned, NEW f \in parts'
               PROVE  \E d \in Requests : Doing(d, f, {"write"})'
    BY DEF PartsOwned
  <2>0. reqs \in [Requests -> Request \cup {Idle}] /\ parts \subseteq Files
    BY DEF TypeOK, FileServiceTypeOK, InfrastructureTypeOK
  <2>1. ASSUME NEW c \in Requests, ~Doing(c, f, {"write"}), f \in parts,
               \A d \in Requests : d # c => reqs'[d] = reqs[d]
        PROVE  \E d \in Requests : Doing(d, f, {"write"})'
    BY <2>1 DEF PartsOwned, Doing
  <2>2. ASSUME NEW c \in Requests, RequestStep(c)
        PROVE  \E d \in Requests : Doing(d, f, {"write"})'
    <3>1. f \in parts /\ ~Doing(c, f, {"write"})
      <4>1. CASE reqs[c].pc = "write"
        <5>1. reqs[c].item.kind.long = FALSE
          BY <4>1, SlotType, KindsAssumption
             DEF TypeOK, Request, RequestRecord, Row, Kind
        <5>2. parts' = parts \ {reqs[c].file}
          BY <4>1, <5>1, <2>2 DEF RequestStep, WriteFails, StoreBytes, ReplaceFails, InsertRow,
             InsertFails, RefreshItem, RefreshFails, Cleanup, CleanupFails, EnqueueScan,
             EnqueueFails, SaveTitle, RenameFails, DeleteRow, DeleteFails, Unlink, UnlinkFails
        <5> QED BY <5>2 DEF Doing
      <4>2. CASE reqs[c].pc # "write"
        <5>1. parts' = parts
          BY <4>2, <2>2 DEF RequestStep, WriteFails, StoreBytes, ReplaceFails, InsertRow,
             InsertFails, RefreshItem, RefreshFails, Cleanup, CleanupFails, EnqueueScan,
             EnqueueFails, SaveTitle, RenameFails, DeleteRow, DeleteFails, Unlink, UnlinkFails,
             fsVars
        <5> QED BY <5>1, <4>2 DEF Doing
      <4> QED BY <4>1, <4>2
    <3> QED BY <3>1, <2>1, <2>2, RequestMoves
  <2>3. ASSUME NEW c \in Requests, BeginRequest(c)
        PROVE  \E d \in Requests : Doing(d, f, {"write"})'
    <3>1. CASE f \in parts
      <4>1. ~Doing(c, f, {"write"})
        <5>1. reqs[c] = Idle
          BY <2>3 DEF BeginRequest, BeginCreate, BeginRename, BeginDelete
        <5> QED BY <5>1 DEF Doing, Idle
      <4> QED BY <4>1, <3>1, <2>1, <2>3, RequestStarts
    <3>2. CASE f \notin parts
      <4>1. PICK kind \in Kinds, title \in Titles : BeginCreate(c, f, kind, title)
        BY <3>2, <2>3, <2>0 DEF BeginRequest, BeginCreate, BeginRename, BeginDelete, fsVars
      <4>2. reqs'[c].pc = "write" /\ reqs'[c].file = f
        BY <4>1, <2>0 DEF BeginCreate, Begin, RequestAt
      <4> QED BY <4>2 DEF Doing
    <3> QED BY <3>1, <3>2
  <2>4. CASE Background
    <3>1. reqs' = reqs
      BY <2>4 DEF Background, Redeliver, ApiCrash, requestVars, vars
    <3> QED BY <3>1, <2>4, BackgroundEffect DEF PartsOwned, Doing
  <2> QED BY <2>2, <2>3, <2>4, NextSplit
<1> QED BY <1>1, <1>2, OwnershipInvariant, PTL DEF Spec
=============================================================================
