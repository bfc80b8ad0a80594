----------------------------- MODULE FileSharing ----------------------------
(* The whole backend: clients' requests in the API process, the pipeline in  *)
(* workers and inline threads, over one database, storage directory and      *)
(* broker, with the faults the instance allows.                              *)
EXTENDS FileService

vars == <<dbVars, fsVars, brokerVars, runs, reqs, issued>>
requestVars == <<reqs, issued>>

TypeOK ==
  /\ InfrastructureTypeOK
  /\ ProcessingTypeOK
  /\ FileServiceTypeOK

Init ==
  /\ InfrastructureInit
  /\ ProcessingInit
  /\ FileServiceInit

\* The API process dies: its requests and inline threads are gone, what they
\* committed and wrote to disk stays.
ApiCrash ==
  /\ "api_crash" \in Faults
  /\ reqs' = [c \in Requests |-> Idle]
  /\ runs' = [e \in Executors |-> IF e \in Files THEN Idle ELSE runs[e]]
  /\ UNCHANGED <<dbVars, fsVars, brokerVars, issued>>

Next ==
  \/ \E c \in Requests : BeginRequest(c)
  \/ \E c \in Requests : RequestStep(c)
  \/ \E w \in Workers, m \in Message : ReceiveTask(w, m) /\ UNCHANGED requestVars
  \/ \E e \in Executors : RunStep(e) /\ UNCHANGED requestVars
  \/ \E w \in Workers : WorkerCrash(w) /\ UNCHANGED requestVars
  \/ \E m \in Message : Redeliver(m) /\ UNCHANGED <<runs, requestVars>>
  \/ ApiCrash

\* Coroutines and threads that can go on do so, and a free worker takes the
\* messages waiting for it.  Clients need never start a request.
Fairness ==
  /\ \A c \in Requests : WF_vars(RequestStep(c))
  /\ \A e \in Executors : WF_vars(RunStep(e) /\ UNCHANGED requestVars)
  /\ \A m \in Message :
       WF_vars(\E w \in Workers : ReceiveTask(w, m) /\ UNCHANGED requestVars)

Spec == Init /\ [][Next]_vars
FairSpec == Spec /\ Fairness

-----------------------------------------------------------------------------
(* Rows, alerts and bytes                                                    *)

\* A file's row is never missing while the alerts of send_alert() refer to it,
\* however deletes and alerts interleave.
AlertsHaveRow == \A f \in Files : alerts[f] # <<>> => rows[f] # NoRow

\* "Row without file" never happens: create() stores the bytes before the row,
\* delete() removes the row before the bytes.  What get_download() needs.
RowsHaveBytes == \A f \in Files : rows[f] # NoRow => f \in disk

\* Request c is working on file f at control point pc.
Doing(c, f, pcs) == reqs[c].pc \in pcs /\ reqs[c].file = f

\* "No row in the database, no file" (METHODOLOGY DATA-3): bytes without a row
\* belong to a request that is about to insert the row or remove the bytes.
BytesHaveRow ==
  \A f \in disk : rows[f] # NoRow
    \/ \E c \in Requests : Doing(c, f, {"insert", "cleanup", "unlink"})

\* A temporary file belongs to the upload that is writing it (METHODOLOGY
\* DATA-2: temporary files are deleted on error).
PartsOwned == \A f \in parts : \E c \in Requests : Doing(c, f, {"write"})

\* No writer that loaded a row before delete() brings it back: rows appear only
\* by the INSERT of the upload that drew the id.
NoResurrection ==
  [][\A f \in Files : rows[f] = NoRow /\ rows'[f] # NoRow
       => \E c \in Requests : Doing(c, f, {"insert"})]_vars

\* update_title() and the pipeline write the same row concurrently without
\* losing each other's columns: a title changes only by a rename that asked for
\* the new one, and nothing else changes with it.
RenameIsolated ==
  [][\A f \in Files : rows[f] # NoRow /\ rows'[f] # NoRow
                      /\ rows'[f].title # rows[f].title
       => /\ rows'[f] = [rows[f] EXCEPT !.title = rows'[f].title]
          /\ \E c \in Requests : Doing(c, f, {"rename"})
                                 /\ reqs[c].changes.title = rows'[f].title]_vars

-----------------------------------------------------------------------------
(* Verdicts, outcomes and alerts                                             *)

\* The verdict scan() leaves agrees with the bytes the client uploaded, and
\* requires_attention with the verdict, though header and row are read and
\* written apart while others delete, rename, mark and scan again.
VerdictMatchesContent ==
  \A f \in Files : rows[f] # NoRow /\ rows[f].scan_status \in {"clean", "suspicious"} =>
    LET threats == EvaluateThreats(rows[f].kind, rows[f].kind.magic) IN
    /\ rows[f].scan_status = (IF threats = {} THEN "clean" ELSE "suspicious")
    /\ rows[f].requires_attention = (threats # {})

\* One upload, one alert.
AtMostOneAlert == \A f \in Files : Len(alerts[f]) <= 1

\* The alert a user sees agrees with the row beside it: critical for failed,
\* warning or info for processed, and never before the pipeline is through.
AlertAgreesWithRow ==
  \A f \in Files : \A i \in DOMAIN alerts[f] :
    /\ rows[f] # NoRow
    /\ rows[f].processing_status \in {"processed", "failed"}
    /\ alerts[f][i] = "critical" <=> rows[f].processing_status = "failed"
    /\ alerts[f][i] = "warning" => rows[f].requires_attention
    /\ alerts[f][i] = "info" => ~rows[f].requires_attention

\* "info" means success (METHODOLOGY, alert levels): no file that is not
\* processed has an info alert.
InfoOnlyIfProcessed ==
  \A f \in Files : rows[f] # NoRow /\ (\E i \in DOMAIN alerts[f] : alerts[f][i] = "info")
    => rows[f].processing_status = "processed"

\* Nobody will touch file f again unless a client asks: no upload in flight, no
\* message, no run.
Quiet(f) ==
  /\ \A c \in Requests : ~Doing(c, f, {"write", "insert", "refresh", "cleanup", "enqueue"})
  /\ \A t \in Phase : queue[[task |-> t, file |-> f]] = 0
  /\ \A e \in Executors : runs[e] = Idle \/ runs[e].file # f

\* No file hangs in "uploaded" or "processing" (README, defect table): once
\* quiet it is processed or failed.
NeverStuck ==
  \A f \in Files : rows[f] # NoRow /\ Quiet(f)
    => rows[f].processing_status \in {"processed", "failed"}

\* Once nobody works on it, a failed file has its critical alert.
Reported(f) ==
  rows[f] # NoRow /\ Quiet(f) /\ rows[f].processing_status = "failed"
    => \E i \in DOMAIN alerts[f] : alerts[f][i] = "critical"

\* "failed" plus critical alert (README, defect table), however the pipeline ran.
FailedIsReported == \A f \in Files : Reported(f)

\* The pipeline of f never runs in a thread of the API process.
WorkersOnly(f) == [](runs[f] = Idle)

\* The same where workers alone ran the pipeline, at whatever step it failed.
WorkersReportFailures == \A f \in Files : WorkersOnly(f) => []Reported(f)

\* Every uploaded file is deleted or reaches its end, whichever way it runs.
EventuallySettled ==
  \A f \in Files : rows[f] # NoRow
    ~> rows[f] = NoRow \/ rows[f].processing_status \in {"processed", "failed"}

\* Every uploaded file whose pipeline workers ran is deleted or gets an alert.
EventuallyReported ==
  \A f \in Files : WorkersOnly(f) => (rows[f] # NoRow ~> rows[f] = NoRow \/ alerts[f] # <<>>)

-----------------------------------------------------------------------------
(* The life of a file, as FileLifecycle promises it                          *)

\* An id without a row is still to come while its upload may insert the row.
Awaited(f) ==
  f \notin issued \/ \E c \in Requests : Doing(c, f, {"write", "insert"})

StageOf(f) ==
  IF rows[f] # NoRow THEN rows[f].processing_status
  ELSE IF Awaited(f) THEN "absent" ELSE "gone"

Lifecycle == INSTANCE FileLifecycle WITH
  stage <- [f \in Files |-> StageOf(f)],
  flagged <- [f \in Files |-> rows[f] # NoRow /\ rows[f].requires_attention],
  notice <- [f \in Files |-> IF alerts[f] = <<>> THEN "none" ELSE alerts[f][Len(alerts[f])]]

\* The backend implements the lifecycle: uploaded -> processing -> processed or
\* failed (METHODOLOGY, statuses), never back, the alert after the end.
RefinesLifecycle == Lifecycle!Spec

Transactions == INSTANCE Tables WITH
  Level <- AlertLevel,
  Writes <- {{"title"},
             {"processing_status", "scan_status", "metadata_json", "requires_attention"}}

\* What Database.tla shows the units of work to promise is all that services and
\* tasks ever ask of them: whichever step fails, each step changes the tables by
\* one transaction about one file, which writes the columns of one operation.
RefinesTables == Transactions!Spec
=============================================================================
