--------------------------- MODULE Infrastructure ---------------------------
(* What the API process and the Celery workers share: the database, the      *)
(* storage directory and the broker queue, with the ways each can fail.      *)
EXTENDS Domain

CONSTANTS
  Files,            \* the uuids create() may draw
  Kept,             \* "this column was not changed"
  Faults,           \* which failures this instance allows, a subset of Fault
  MaxRedeliveries   \* bound on duplicate deliveries by the broker

\* db              a statement or COMMIT fails and has no effect
\* late            a failure seen after the transaction has committed: a lost
\*                 acknowledgement of COMMIT, or a failing refresh after it
\* fs              a file operation fails
\* publish_api     .delay() in the API process fails, message not sent
\* publish_worker  .delay() in a worker fails, message not sent
\* publish_unsure  .delay() in the API process fails, message sent all the same
\* worker_crash, api_crash  the process dies, its transactions roll back
\* redeliver       the broker hands out a message nobody has acknowledged again
Fault == {"db", "late", "fs", "publish_api", "publish_worker",
          "publish_unsure", "worker_crash", "api_crash", "redeliver"}

ASSUME FaultsAssumption == Faults \subseteq Fault
ASSUME KeptAssumption ==
  /\ Kept \notin Titles
  /\ Kept \notin ProcessingStatus \cup ScanStatus \cup MetadataClass
  /\ Kept \notin BOOLEAN
ASSUME RedeliveriesAssumption == MaxRedeliveries \in Nat

Phase == {"scan", "extract", "alert"}
Message == [task: Phase, file: Files]

VARIABLES
  rows,         \* table files: the committed row of each id, or NoRow
  alerts,       \* table alerts: the levels stored for each file, oldest first
  disk,         \* ids whose bytes are stored under their final name
  parts,        \* ids whose temporary .upload-*.part file exists
  queue,        \* how many copies of each message the broker holds
  redelivered   \* duplicate deliveries so far

dbVars == <<rows, alerts>>
fsVars == <<disk, parts>>
brokerVars == <<queue, redelivered>>

InfrastructureTypeOK ==
  /\ rows \in [Files -> Row \cup {NoRow}]
  /\ alerts \in [Files -> Seq(AlertLevel)]
  /\ disk \subseteq Files
  /\ parts \subseteq Files
  /\ queue \in [Message -> Nat]
  /\ redelivered \in 0..MaxRedeliveries

InfrastructureInit ==
  /\ rows = [f \in Files |-> NoRow]
  /\ alerts = [f \in Files |-> <<>>]
  /\ disk = {}
  /\ parts = {}
  /\ queue = [m \in Message |-> 0]
  /\ redelivered = 0

-----------------------------------------------------------------------------
(* Unit of work: UPDATE names only the columns whose value the session       *)
(* changed; every other column is Kept.                                      *)

Changes == [title: Titles \cup {Kept},
            processing_status: ProcessingStatus \cup {Kept},
            scan_status: ScanStatus \cup {"null", Kept},
            metadata_json: MetadataClass \cup {Kept},
            requires_attention: BOOLEAN \cup {Kept}]

Change(loaded, assigned) == IF assigned = loaded THEN Kept ELSE assigned

\* Seeded bug: every column is written back.
WholeRow(loaded, item) ==
  [title |-> item.title, processing_status |-> item.processing_status,
   scan_status |-> item.scan_status, metadata_json |-> item.metadata_json,
   requires_attention |-> item.requires_attention]

\* What is dirty in an object that was loaded as one row and assigned to.
Dirty(loaded, item) ==
  [title |-> Change(loaded.title, item.title),
   processing_status |-> Change(loaded.processing_status, item.processing_status),
   scan_status |-> Change(loaded.scan_status, item.scan_status),
   metadata_json |-> Change(loaded.metadata_json, item.metadata_json),
   requires_attention |-> Change(loaded.requires_attention, item.requires_attention)]

NoChange == [title |-> Kept, processing_status |-> Kept, scan_status |-> Kept,
             metadata_json |-> Kept, requires_attention |-> Kept]

Column(current, change) == IF change = Kept THEN current ELSE change

\* The row after the UPDATE.
Flushed(row, changes) ==
  [kind |-> row.kind,
   title |-> Column(row.title, changes.title),
   processing_status |-> Column(row.processing_status, changes.processing_status),
   scan_status |-> Column(row.scan_status, changes.scan_status),
   metadata_json |-> Column(row.metadata_json, changes.metadata_json),
   requires_attention |-> Column(row.requires_attention, changes.requires_attention)]

\* An UPDATE that matches no row raises StaleDataError; no change, no UPDATE.
Accepts(f, changes) == changes = NoChange \/ rows[f] # NoRow

\* Seeded bug: a missing row is inserted again.
Upserted(f, changes) ==
  [rows EXCEPT ![f] = IF @ = NoRow
                      THEN StoredFile(CHOOSE k \in Kinds : TRUE, CHOOSE t \in Titles : TRUE)
                      ELSE Flushed(@, changes)]

\* The table after that session commits.
RowsAfter(f, changes) ==
  IF rows[f] = NoRow THEN rows ELSE [rows EXCEPT ![f] = Flushed(rows[f], changes)]

\* Seeded bug: the alerts stay behind.
DeleteWithoutCascade(f) ==
  /\ rows' = [rows EXCEPT ![f] = NoRow]
  /\ UNCHANGED alerts

\* DELETE ... ON DELETE CASCADE; deleting a row that is gone already is accepted.
DeleteWithAlerts(f) ==
  /\ rows' = [rows EXCEPT ![f] = NoRow]
  /\ alerts' = [alerts EXCEPT ![f] = <<>>]

\* The broker after one more copy of message m.
Sent(m) == [queue EXCEPT ![m] = @ + 1]

\* A message still unacknowledged after the visibility timeout is delivered again.
Redeliver(m) ==
  /\ "redeliver" \in Faults
  /\ queue[m] > 0
  /\ redelivered < MaxRedeliveries
  /\ queue' = Sent(m)
  /\ redelivered' = redelivered + 1
  /\ UNCHANGED <<dbVars, fsVars>>
=============================================================================
