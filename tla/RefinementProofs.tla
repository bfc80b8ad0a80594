-------------------------- MODULE RefinementProofs --------------------------
(* Renames and the pipeline update the same row without losing each other's  *)
(* columns; so the services and tasks, with every fault, change the tables   *)
(* only by the transactions of module Tables.                                *)
EXTENDS OwnershipProofs

-----------------------------------------------------------------------------
(* Renames                                                                   *)

\* The pipeline never assigns a title, a rename nothing else.
PipelineKeepsTitle ==
  \A e \in Executors : runs[e].pc # "idle" => runs[e].changes.title = Kept
RenameChangesTitle ==
  \A c \in Requests : reqs[c].pc = "rename" =>
    reqs[c].changes = [NoChange EXCEPT !.title = reqs[c].changes.title]

-----------------------------------------------------------------------------
(* What sessions write                                                       *)

\* The phases leave the title of the object alone, so it is not dirty.
LEMMA AssignedTitle ==
  ASSUME NEW item \in Row, NEW present
  PROVE  /\ Dirty(item, Scanned(item, present)).title = Kept
         /\ Dirty(item, Extracted(item)).title = Kept
         /\ Dirty(item, Failed(item)).title = Kept
<1>1. Scanned(item, present).title = item.title
  <2> DEFINE reasons == EvaluateThreats(item.kind, HeaderIsPdf(item.kind, present))
  <2>1. Scanned(item, present) =
          [item EXCEPT !.processing_status = "processing",
                       !.scan_status = IF reasons = {} THEN "clean" ELSE "suspicious",
                       !.requires_attention = reasons # {}]
    BY DEF Scanned
  <2> HIDE DEF reasons
  <2> QED BY <2>1 DEF Row
<1>2. Extracted(item).title = item.title
  BY DEF Extracted, Row
<1>3. Failed(item).title = item.title
  BY DEF Failed, Row
<1> QED BY <1>1, <1>2, <1>3 DEF Dirty, Change

\* Assigning a title makes nothing else dirty.
LEMMA RenameDirty ==
  ASSUME NEW row \in Row, NEW title \in Titles
  PROVE  LET changes == Dirty(row, [row EXCEPT !.title = title])
         IN  changes = [NoChange EXCEPT !.title = changes.title]
BY DEF Dirty, Change, NoChange, Row

\* An UPDATE without a title keeps the title; one of the title alone keeps the rest.
LEMMA FlushedTitle ==
  ASSUME NEW row \in Row, NEW changes \in Changes
  PROVE  /\ changes.title = Kept => Flushed(row, changes).title = row.title
         /\ changes = [NoChange EXCEPT !.title = changes.title] =>
              /\ Flushed(row, changes) = [row EXCEPT !.title = Flushed(row, changes).title]
              /\ Flushed(row, changes).title # row.title
                   => changes.title = Flushed(row, changes).title
<1>1. changes.title = Kept => Flushed(row, changes).title = row.title
  BY DEF Flushed, Column
<1>2. ASSUME changes = [NoChange EXCEPT !.title = changes.title]
      PROVE  /\ Flushed(row, changes) = [row EXCEPT !.title = Flushed(row, changes).title]
             /\ Flushed(row, changes).title # row.title
                  => changes.title = Flushed(row, changes).title
  <2>1. /\ changes.processing_status = Kept
        /\ changes.scan_status = Kept
        /\ changes.metadata_json = Kept
        /\ changes.requires_attention = Kept
    BY <1>2 DEF NoChange
  <2> QED BY <2>1 DEF Flushed, Column, Row
<1> QED BY <1>1, <1>2

-----------------------------------------------------------------------------
(* The invariants                                                            *)

LEMMA RunAtTitle ==
  ASSUME NEW pc, NEW phase, NEW f
  PROVE  RunAt(pc, phase, f).changes.title = Kept
BY DEF RunAt, NoChange

\* The run an executor steps to holds no title either.
LEMMA StepKeepsTitle ==
  ASSUME TypeOK, PipelineKeepsTitle, NEW e \in Executors, NEW run,
         Step(e, run), run.pc # "idle" => run.changes.title = Kept
  PROVE  PipelineKeepsTitle'
BY DEF TypeOK, ProcessingTypeOK, Step, PipelineKeepsTitle

LEMMA RunStepKeepsTitle ==
  ASSUME TypeOK, PipelineKeepsTitle, NEW e \in Executors, RunStep(e)
  PROVE  PipelineKeepsTitle'
<1> DEFINE r == runs[e]
<1>0. r.pc # "idle" => /\ r \in Run
                       /\ r.changes.title = Kept
                       /\ r.file \in Files
  BY BusyRun DEF TypeOK, PipelineKeepsTitle, Run, RunRecord
<1>1. ASSUME NEW run, Step(e, run), run = Idle \/ run = Raised(e) \/ run = Marked(e)
      PROVE  PipelineKeepsTitle'
  <2>1. run.pc # "idle" => run.changes.title = Kept
    BY <1>1, RunAtTitle DEF Raised, Marked, Idle
  <2> QED BY <2>1, <1>1, StepKeepsTitle
<1>2. ASSUME NEW pc, NEW item \in Row, NEW assigned, Step(e, Assigned(r, pc, item, assigned)),
             Dirty(item, assigned).title = Kept
      PROVE  PipelineKeepsTitle'
  <2>1. Assigned(r, pc, item, assigned).changes = Dirty(item, assigned)
    BY DEF Assigned, RunAt
  <2> QED BY <2>1, <1>2, StepKeepsTitle
<1>3. r.pc \in {"read", "parse"} => r.item \in Row
  BY <1>0 DEF Run, RunRecord
<1>4. CASE GetItem(e)
  <2> DEFINE run == IF r.phase = "alert"
                    THEN [r EXCEPT !.pc = "commit", !.level = LevelFor(rows[r.file])]
                    ELSE [r EXCEPT !.pc = "read", !.item = rows[r.file]]
  <2>1. r.pc = "get" /\ Step(e, run)
    BY <1>4 DEF GetItem
  <2>2. run.changes = r.changes
    BY <2>1, <1>0 DEF Run, RunRecord
  <2> QED BY <2>1, <2>2, <1>0, StepKeepsTitle
<1>5. CASE \/ GetNothing(e) \/ OpenFails(e) \/ AddAlert(e) \/ CommitRefused(e)
           \/ PhaseFails(e) \/ CommitUnconfirmed(e) \/ SaveFailed(e) \/ MarkIneffective(e)
           \/ Publish(e) \/ PublishFails(e)
  BY <1>5, <1>1 DEF GetNothing, OpenFails, AddAlert, CommitRefused, PhaseFails,
     CommitUnconfirmed, SaveFailed, MarkIneffective, Publish, PublishFails
<1>6. CASE ReadHeader(e)
  BY <1>6, <1>2, <1>3, AssignedTitle DEF ReadHeader
<1>7. CASE PathExists(e)
  <2>1. CASE Step(e, Assigned(r, "commit", r.item, Extracted(r.item)))
    BY <2>1, <1>7, <1>2, <1>3, AssignedTitle DEF PathExists
  <2>2. CASE r.pc = "read" /\ Step(e, [r EXCEPT !.pc = "parse"])
    <3>1. [r EXCEPT !.pc = "parse"].changes = r.changes
      BY <2>2, <1>0 DEF Run, RunRecord
    <3> QED BY <3>1, <2>2, <1>0, StepKeepsTitle
  <2> QED BY <2>1, <2>2, <1>7 DEF PathExists
<1>8. CASE PathMissing(e)
  BY <1>8, <1>2, <1>3, AssignedTitle DEF PathMissing
<1>9. CASE ExtractCounters(e)
  BY <1>9, <1>2, <1>3, AssignedTitle DEF ExtractCounters
<1>10. CASE CommitItem(e)
  <2>1. PICK phase : Step(e, Onward(e, phase, r.file))
    BY <1>10 DEF CommitItem
  <2>2. Onward(e, phase, r.file).changes.title = Kept
    BY RunAtTitle DEF Onward
  <2> QED BY <2>1, <2>2, StepKeepsTitle
<1>11. CASE MarkFailed(e)
  <2>1. rows[r.file] \in Row
    BY <1>11, <1>0 DEF MarkFailed, TypeOK, InfrastructureTypeOK
  <2> QED BY <2>1, <1>11, <1>2, AssignedTitle DEF MarkFailed
<1> QED BY <1>4, <1>5, <1>6, <1>7, <1>8, <1>9, <1>10, <1>11 DEF RunStep

\* Runs not touched by a pipeline step: the same, started or lost.
LEMMA NextKeepsTitle ==
  ASSUME TypeOK, PipelineKeepsTitle, [Next]_vars
  PROVE  PipelineKeepsTitle'
<1>1. CASE UNCHANGED runs
  BY <1>1 DEF PipelineKeepsTitle
<1>2. ASSUME NEW e \in Executors, RunStep(e)
      PROVE  PipelineKeepsTitle'
  BY <1>2, RunStepKeepsTitle
<1>3. ASSUME NEW e \in Executors, NEW f \in Files, NEW phase, Step(e, RunAt("get", phase, f))
      PROVE  PipelineKeepsTitle'
  BY <1>3, RunAtTitle, StepKeepsTitle
<1>4. ASSUME NEW w \in Workers, WorkerCrash(w)
      PROVE  PipelineKeepsTitle'
  BY <1>4, StepKeepsTitle DEF WorkerCrash, Executors, Idle
<1>5. CASE ApiCrash
  BY <1>5 DEF ApiCrash, PipelineKeepsTitle, Idle
<1>6. ASSUME NEW c \in Requests, RequestStep(c)
      PROVE  PipelineKeepsTitle'
  <2>1. CASE EnqueueFails(c)
    <3>1. reqs[c].file \in Files
      BY <2>1, SlotType DEF EnqueueFails, TypeOK
    <3> QED BY <3>1, <2>1, <1>3 DEF EnqueueFails, Executors
  <2>2. CASE ~EnqueueFails(c)
    <3>1. UNCHANGED runs
      BY <2>2, <1>6 DEF RequestStep, WriteFails, StoreBytes, ReplaceFails, InsertRow,
         InsertFails, RefreshItem, RefreshFails, Cleanup, CleanupFails, EnqueueScan,
         SaveTitle, RenameFails, DeleteRow, DeleteFails, Unlink, UnlinkFails
    <3> QED BY <3>1, <1>1
  <2> QED BY <2>1, <2>2
<1>7. ASSUME NEW c \in Requests, BeginRequest(c)
      PROVE  PipelineKeepsTitle'
  BY <1>7, <1>1 DEF BeginRequest, BeginCreate, BeginRename, BeginDelete
<1>8. ASSUME NEW w \in Workers, NEW m \in Message, ReceiveTask(w, m)
      PROVE  PipelineKeepsTitle'
  BY <1>8, <1>3 DEF ReceiveTask, Executors, Message
<1> QED BY <1>1, <1>2, <1>4, <1>5, <1>6, <1>7, <1>8 DEF Next, vars

\* A rename starts with nothing but its title dirty, and keeps it so.
LEMMA NextKeepsRename ==
  ASSUME TypeOK, RenameChangesTitle, [Next]_vars
  PROVE  RenameChangesTitle'
<1>0. reqs \in [Requests -> Request \cup {Idle}]
  BY DEF TypeOK, FileServiceTypeOK
<1>1. ASSUME NEW c \in Requests, NEW r, reqs' = [reqs EXCEPT ![c] = r], r.pc # "rename"
      PROVE  RenameChangesTitle'
  BY <1>0, <1>1 DEF RenameChangesTitle
<1>2. CASE Background
  BY <1>2, BackgroundEffect DEF RenameChangesTitle, Idle
<1>3. ASSUME NEW c \in Requests, RequestStep(c)
      PROVE  RenameChangesTitle'
  <2>1. CASE StoreBytes(c)
    <3>1. reqs[c].pc = "write" /\ reqs' = [reqs EXCEPT ![c] = [reqs[c] EXCEPT !.pc = "insert"]]
      BY <2>1 DEF StoreBytes, Begin
    <3>2. [reqs[c] EXCEPT !.pc = "insert"].pc = "insert"
      BY <3>1, SlotType DEF TypeOK, Request, RequestRecord
    <3> QED BY <3>1, <3>2, <1>1
  <2>2. CASE Continues(c)
    <3>1. CASE Finish(c)
      <4>1. Idle.pc # "rename"
        BY DEF Idle
      <4> QED BY <4>1, <3>1, <1>1 DEF Finish
    <3>2. ASSUME NEW pc \in {"refresh", "cleanup", "enqueue", "unlink"}, Proceed(c, pc)
          PROVE  RenameChangesTitle'
      <4>1. RequestAt(pc, reqs[c].file).pc = pc
        BY DEF RequestAt
      <4> QED BY <4>1, <3>2, <1>1 DEF Proceed
    <3> QED BY <3>1, <3>2, <2>2 DEF Continues
  <2>3. StoreBytes(c) \/ Continues(c)
    BY <1>3 DEF RequestStep, Continues, WriteFails, ReplaceFails, InsertRow, InsertFails,
       RefreshItem, RefreshFails, Cleanup, CleanupFails, EnqueueScan, EnqueueFails, SaveTitle,
       RenameFails, DeleteRow, DeleteFails, Unlink, UnlinkFails
  <2> QED BY <2>1, <2>2, <2>3
<1>4. ASSUME NEW c \in Requests, NEW f \in Files, NEW kind \in Kinds, NEW title \in Titles,
             BeginCreate(c, f, kind, title)
      PROVE  RenameChangesTitle'
  <2>1. [RequestAt("write", f) EXCEPT !.item = StoredFile(kind, title)].pc = "write"
    BY DEF RequestAt
  <2> QED BY <2>1, <1>4, <1>1 DEF BeginCreate, Begin
<1>5. ASSUME NEW c \in Requests, NEW f \in Files, BeginDelete(c, f)
      PROVE  RenameChangesTitle'
  <2>1. RequestAt("delete", f).pc = "delete"
    BY DEF RequestAt
  <2> QED BY <2>1, <1>5, <1>1 DEF BeginDelete, Begin
<1>6. ASSUME NEW c \in Requests, NEW f \in Files, NEW title \in Titles, BeginRename(c, f, title)
      PROVE  RenameChangesTitle'
  <2> DEFINE changes == Dirty(rows[f], [rows[f] EXCEPT !.title = title])
             r == [RequestAt("rename", f) EXCEPT !.changes = changes]
  <2>1. rows[f] \in Row /\ reqs' = [reqs EXCEPT ![c] = r]
    BY <1>6 DEF BeginRename, Begin, TypeOK, InfrastructureTypeOK
  <2>2. changes = [NoChange EXCEPT !.title = changes.title]
    BY <2>1, RenameDirty
  <2>3. r.changes = changes
    BY DEF RequestAt
  <2> HIDE DEF changes, r
  <2> QED BY <2>1, <2>2, <2>3, <1>0 DEF RenameChangesTitle
<1> QED BY <1>2, <1>3, <1>4, <1>5, <1>6, NextSplit DEF BeginRequest

-----------------------------------------------------------------------------
(* The property                                                              *)

\* A step that changes a title is the rename that asked for it.
LEMMA TitleChange ==
  ASSUME TypeOK, Ownership, PipelineKeepsTitle, RenameChangesTitle, [Next]_vars,
         NEW f \in Files, rows[f] # NoRow, rows'[f] # NoRow, rows'[f].title # rows[f].title
  PROVE  /\ rows'[f] = [rows[f] EXCEPT !.title = rows'[f].title]
         /\ \E c \in Requests : Doing(c, f, {"rename"})
                                /\ reqs[c].changes.title = rows'[f].title
<1>0. rows \in [Files -> Row \cup {NoRow}] /\ rows[f] \in Row
  BY DEF TypeOK, InfrastructureTypeOK
<1>1. ASSUME rows'[f] = rows[f] PROVE FALSE
  BY <1>1
<1>2. ASSUME NEW e \in Executors, RunStep(e) PROVE FALSE
  <2>1. CASE UNCHANGED rows
    BY <2>1, <1>1
  <2>2. CASE runs[e].pc \in {"commit", "save"} /\ rows' = RowsAfter(runs[e].file, runs[e].changes)
    <3>1. /\ runs[e].file \in Files
          /\ runs[e].changes \in Changes
          /\ runs[e].changes.title = Kept
      BY <2>2, BusyRun DEF TypeOK, Run, RunRecord, PipelineKeepsTitle
    <3>2. rows'[f] = rows[f] \/ rows'[f] = Flushed(rows[f], runs[e].changes)
      BY <2>2, <3>1, <1>0 DEF RowsAfter
    <3> QED BY <3>1, <3>2, <1>0, FlushedTitle
  <2> QED BY <2>1, <2>2, <1>2, RunStepEffect DEF dbVars
<1>3. ASSUME NEW c \in Requests, RequestStep(c)
      PROVE  /\ rows'[f] = [rows[f] EXCEPT !.title = rows'[f].title]
             /\ Doing(c, f, {"rename"}) /\ reqs[c].changes.title = rows'[f].title
  <2> DEFINE file == reqs[c].file
  <2>0. reqs[c].pc # "idle" => file \in Files /\ reqs[c].changes \in Changes
    BY SlotType DEF TypeOK, Request, RequestRecord
  <2>1. CASE UNCHANGED rows
    BY <2>1, <1>1
  <2>2. CASE SaveTitle(c)
    <3>1. reqs[c].pc = "rename" /\ rows' = RowsAfter(file, reqs[c].changes)
      BY <2>2 DEF SaveTitle
    <3>2. file = f /\ rows'[f] = Flushed(rows[f], reqs[c].changes)
      BY <3>1, <2>0, <1>0, <1>1 DEF RowsAfter
    <3>3. /\ reqs[c].changes \in Changes
          /\ reqs[c].changes = [NoChange EXCEPT !.title = reqs[c].changes.title]
      BY <3>1, <2>0 DEF RenameChangesTitle
    <3>4. /\ rows'[f] = [rows[f] EXCEPT !.title = rows'[f].title]
          /\ reqs[c].changes.title = rows'[f].title
      BY <3>2, <3>3, <1>0, FlushedTitle
    <3> QED BY <3>1, <3>2, <3>4 DEF Doing
  <2>3. CASE InsertRow(c) \/ InsertFails(c)
    <3>1. /\ reqs[c].pc = "insert"
          /\ rows' = rows \/ rows' = [rows EXCEPT ![file] = reqs[c].item]
      BY <2>3 DEF InsertRow, InsertFails
    <3>2. rows[file] = NoRow
      BY <3>1 DEF Ownership, UploadsAlone
    <3> QED BY <3>1, <3>2, <1>0, <1>1
  <2>4. CASE DeleteRow(c) \/ DeleteFails(c)
    <3>1. rows' = rows \/ rows' = [rows EXCEPT ![file] = NoRow]
      BY <2>4 DEF DeleteRow, DeleteFails, DeleteWithAlerts, dbVars
    <3> QED BY <3>1, <1>0, <1>1
  <2>5. UNCHANGED rows \/ InsertRow(c) \/ InsertFails(c) \/ SaveTitle(c)
          \/ DeleteRow(c) \/ DeleteFails(c)
    BY <1>3 DEF RequestStep, WriteFails, StoreBytes, ReplaceFails, RefreshItem, RefreshFails,
       Cleanup, CleanupFails, EnqueueScan, EnqueueFails, RenameFails, Unlink, UnlinkFails, dbVars
  <2> QED BY <2>1, <2>2, <2>3, <2>4, <2>5
<1>4. ASSUME NEW c \in Requests, BeginRequest(c) PROVE FALSE
  BY <1>4, <1>1 DEF BeginRequest, BeginCreate, BeginRename, BeginDelete, dbVars
<1>5. ASSUME Background PROVE FALSE
  BY <1>5, <1>1, <1>2 DEF Background, ReceiveTask, WorkerCrash, Redeliver, ApiCrash, dbVars, vars
<1> QED BY <1>3, <1>4, <1>5, NextSplit

\* Whatever fails and however requests and pipeline interleave, a title changes
\* only by the rename that asked for it, and with it no other column.
THEOREM RenamesAreIsolated == Spec => RenameIsolated
<1>1. Init => PipelineKeepsTitle /\ RenameChangesTitle
  BY DEF Init, ProcessingInit, FileServiceInit, PipelineKeepsTitle, RenameChangesTitle, Idle
<1>2. TypeOK /\ PipelineKeepsTitle /\ RenameChangesTitle /\ [Next]_vars
        => PipelineKeepsTitle' /\ RenameChangesTitle'
  BY NextKeepsTitle, NextKeepsRename
<1>3. TypeOK /\ Ownership /\ PipelineKeepsTitle /\ RenameChangesTitle /\ [Next]_vars =>
        [\A f \in Files : rows[f] # NoRow /\ rows'[f] # NoRow
                          /\ rows'[f].title # rows[f].title
         => /\ rows'[f] = [rows[f] EXCEPT !.title = rows'[f].title]
            /\ \E c \in Requests : Doing(c, f, {"rename"})
                                   /\ reqs[c].changes.title = rows'[f].title]_vars
  BY TitleChange
<1> QED BY <1>1, <1>2, <1>3, OwnershipInvariant, PTL DEF Spec, RenameIsolated

-----------------------------------------------------------------------------
(* The transactions                                                          *)

\* An UPDATE of the pipeline writes its four columns, one of a rename the title;
\* of a row that is gone it writes nothing.
LEMMA UpdateTransacts ==
  ASSUME rows \in [Files -> Row \cup {NoRow}], NEW f \in Files, NEW changes \in Changes,
         \/ changes.title = Kept
         \/ changes = [NoChange EXCEPT !.title = changes.title],
         rows' = RowsAfter(f, changes), UNCHANGED alerts
  PROVE  UNCHANGED <<rows, alerts>> \/ Transactions!Update(f)
<1>1. CASE rows[f] = NoRow
  BY <1>1 DEF RowsAfter
<1>2. CASE rows[f] # NoRow
  <2> DEFINE row == Flushed(rows[f], changes)
             pipeline == {"processing_status", "scan_status", "metadata_json",
                          "requires_attention"}
  <2>1. /\ rows[f] \in Row /\ row \in Row
        /\ rows' = [rows EXCEPT ![f] = row]
    BY <1>2, FlushedType DEF RowsAfter
  <2>2. DOMAIN row = {"kind", "title"} \cup pipeline
    BY DEF Flushed
  <2>3. row.kind = rows[f].kind
    BY DEF Flushed
  <2>4. changes.title = Kept => \A c \in DOMAIN row \ pipeline : row[c] = rows[f][c]
    BY <2>1, <2>2, <2>3, FlushedTitle
  <2>5. changes = [NoChange EXCEPT !.title = changes.title]
          => \A c \in DOMAIN row \ {"title"} : row[c] = rows[f][c]
    <3> SUFFICES ASSUME changes = [NoChange EXCEPT !.title = changes.title]
                 PROVE  \A c \in DOMAIN row \ {"title"} : row[c] = rows[f][c]
      OBVIOUS
    <3>1. row = [rows[f] EXCEPT !.title = row.title]
      BY <2>1, FlushedTitle
    <3> HIDE DEF row
    <3> QED BY <3>1, <2>1 DEF Row
  <2>6. \E columns \in {{"title"}, pipeline} :
          \A c \in DOMAIN row \ columns : row[c] = rows[f][c]
    BY <2>4, <2>5
  <2> HIDE DEF row
  <2> QED BY <1>2, <2>1, <2>6 DEF Transactions!Update
<1> QED BY <1>1, <1>2

\* A pipeline step updates the row it loaded or inserts an alert for it.
LEMMA RunStepTransacts ==
  ASSUME TypeOK, PipelineKeepsTitle, NEW e \in Executors, RunStep(e)
  PROVE  UNCHANGED <<rows, alerts>> \/ Transactions!Next
<1> DEFINE r == runs[e]
<1>0. rows \in [Files -> Row \cup {NoRow}]
  BY DEF TypeOK, InfrastructureTypeOK
<1>1. r.pc # "idle" => r \in Run /\ r.file \in Files /\ r.changes \in Changes
                       /\ r.changes.title = Kept
  BY BusyRun DEF TypeOK, Run, RunRecord, PipelineKeepsTitle
<1>2. CASE UNCHANGED dbVars
  BY <1>2 DEF dbVars
<1>3. CASE r.pc \in {"commit", "save"} /\ rows' = RowsAfter(r.file, r.changes) /\ UNCHANGED alerts
  BY <1>3, <1>0, <1>1, UpdateTransacts DEF Transactions!Next
<1>4. CASE /\ r.pc = "commit" /\ r.phase = "alert"
           /\ UNCHANGED rows
           /\ rows[r.file] # NoRow
           /\ alerts' = [alerts EXCEPT ![r.file] = Append(@, r.level)]
  <2>1. r.level \in AlertLevel
    BY <1>4, <1>1 DEF Run, RunRecord
  <2> QED BY <2>1, <1>1, <1>4 DEF Transactions!Next, Transactions!Report
<1> QED BY <1>2, <1>3, <1>4, RunStepEffect

\* A request inserts the row of its upload, updates the title or deletes.
LEMMA RequestStepTransacts ==
  ASSUME TypeOK, Ownership, RenameChangesTitle, NEW c \in Requests, RequestStep(c)
  PROVE  UNCHANGED <<rows, alerts>> \/ Transactions!Next
<1> DEFINE r == reqs[c]
<1>0. rows \in [Files -> Row \cup {NoRow}]
  BY DEF TypeOK, InfrastructureTypeOK
<1>1. r.pc # "idle" => r \in Request /\ r.file \in Files /\ r.changes \in Changes
  BY SlotType DEF TypeOK, Request, RequestRecord
<1>2. CASE InsertRow(c) \/ InsertFails(c)
  <2>1. /\ r.pc = "insert" /\ UNCHANGED alerts
        /\ rows' = rows \/ rows' = [rows EXCEPT ![r.file] = r.item]
    BY <1>2 DEF InsertRow, InsertFails
  <2>2. r.item \in Row /\ rows[r.file] = NoRow
    BY <2>1, <1>1 DEF Request, RequestRecord, Ownership, UploadsAlone
  <2> QED BY <2>1, <2>2, <1>1 DEF Transactions!Next, Transactions!Insert
<1>3. CASE SaveTitle(c)
  <2>1. r.pc = "rename" /\ rows' = RowsAfter(r.file, r.changes) /\ UNCHANGED alerts
    BY <1>3 DEF SaveTitle
  <2>2. r.changes = [NoChange EXCEPT !.title = r.changes.title]
    BY <2>1 DEF RenameChangesTitle
  <2> QED BY <2>1, <2>2, <1>0, <1>1, UpdateTransacts DEF Transactions!Next
<1>4. CASE DeleteRow(c) \/ DeleteFails(c)
  <2>1. r.pc = "delete" /\ (UNCHANGED dbVars \/ DeleteWithAlerts(r.file))
    BY <1>4 DEF DeleteRow, DeleteFails
  <2> QED BY <2>1, <1>1 DEF DeleteWithAlerts, dbVars, Transactions!Next, Transactions!Remove
<1>5. CASE \/ WriteFails(c) \/ StoreBytes(c) \/ ReplaceFails(c) \/ RefreshItem(c)
           \/ RefreshFails(c) \/ Cleanup(c) \/ CleanupFails(c) \/ EnqueueScan(c)
           \/ EnqueueFails(c) \/ RenameFails(c) \/ Unlink(c) \/ UnlinkFails(c)
  BY <1>5 DEF WriteFails, StoreBytes, ReplaceFails, RefreshItem, RefreshFails, Cleanup,
     CleanupFails, EnqueueScan, EnqueueFails, RenameFails, Unlink, UnlinkFails, dbVars
<1> QED BY <1>2, <1>3, <1>4, <1>5 DEF RequestStep

\* Nothing else touches the tables.
LEMMA NextTransacts ==
  ASSUME TypeOK, Ownership, PipelineKeepsTitle, RenameChangesTitle, [Next]_vars
  PROVE  UNCHANGED <<rows, alerts>> \/ Transactions!Next
<1>1. ASSUME NEW c \in Requests, BeginRequest(c)
      PROVE  UNCHANGED <<rows, alerts>>
  BY <1>1 DEF BeginRequest, BeginCreate, BeginRename, BeginDelete, dbVars
<1>2. CASE Background
  BY <1>2, RunStepTransacts DEF Background, ReceiveTask, WorkerCrash, Redeliver, ApiCrash, dbVars, vars
<1> QED BY <1>1, <1>2, NextSplit, RequestStepTransacts

\* Whatever fails and however many requests and runs there are, the backend asks
\* nothing of the database but the transactions of module Tables.
THEOREM ImplementsTables == Spec => RefinesTables
<1>1. Init => PipelineKeepsTitle /\ RenameChangesTitle
  BY DEF Init, ProcessingInit, FileServiceInit, PipelineKeepsTitle, RenameChangesTitle, Idle
<1>2. TypeOK /\ PipelineKeepsTitle /\ RenameChangesTitle /\ [Next]_vars
        => PipelineKeepsTitle' /\ RenameChangesTitle'
  BY NextKeepsTitle, NextKeepsRename
<1>3. Init => Transactions!Init
  BY DEF Init, InfrastructureInit, Transactions!Init
<1>4. TypeOK /\ Ownership /\ PipelineKeepsTitle /\ RenameChangesTitle /\ [Next]_vars
        => [Transactions!Next]_<<rows, alerts>>
  BY NextTransacts
<1> QED BY <1>1, <1>2, <1>3, <1>4, OwnershipInvariant, PTL
        DEF Spec, RefinesTables, Transactions!Spec, Transactions!vars
=============================================================================
