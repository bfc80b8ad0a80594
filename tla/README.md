# A TLA+ model of the file-sharing service

The repository is a small service for sharing files: an HTTP API (FastAPI) that stores uploads on
disk and rows in PostgreSQL, Celery workers that scan every upload, extract metadata and raise an
alert, and a dashboard (Next.js). Its code is short; what is hard about it is that one file is
written by three kinds of processes at once, through a database, a directory and a broker that can
each fail between any two steps. These modules model that, TLC checks them on small instances, and
TLAPS proves all but one of the safety properties the runs check, for every size and as many faults as it survives.

Paths below are relative to `src/`; backend modules live in `backend/src/`.

## 1. The system

| Part | State it keeps | Operations | What makes it correct |
| --- | --- | --- | --- |
| File service (`application/services/file_service.py`) | none of its own; coroutines of one event loop | `create`, `update_title`, `delete`, reads | bytes before row, row before bytes; no leftover of a failed upload |
| Processing service (`processing_service.py`) | none; one session per phase | `scan`, `extract_metadata`, `send_alert`, `mark_failed`, `run_all` | verdict matches the content; a file ends processed or failed; one alert that agrees with it |
| Celery tasks (`worker/tasks.py`) | messages in flight | the three tasks, `_mark_failed`, `process_file_fully`, `enqueue_scan` | every failure ends in `failed` plus an alert |
| Database and unit of work (`infrastructure/repositories.py`, `db.py`, `domain/entities.py`, `application/ports.py`) | tables `files` and `alerts`; sessions; the pool's connections | enter, load, flush, commit, refresh, exit; UPDATE of the changed columns; cascading DELETE | no lost update, no orphaned alert; no connection lost, no circle of waiting among sessions |
| Migrations (`migrations/`) | schema, recorded revision | `alembic upgrade`, `downgrade` | schema and revision go together, also when a command dies half-way |
| Local storage (`infrastructure/storage.py`) | storage directory, temporary files | `write_temp`, `commit`, `delete` | whole files only, limit respected, no litter |
| Threat rules and counters (`domain/scanning.py`) | none | `evaluate_threats`, `read_header`, two streaming counters | results do not depend on chunk boundaries |
| Broker (`infrastructure/celery_app.py`, Redis) | queue | deliver, deliver again | – |
| Dashboard (`frontend/src/hooks`, `UploadFileModal.tsx`, `DashboardPage.tsx`) | lists, flags, form | `loadData`, `upload`, open, close, submit | one upload at a time; shown data is current |
| Alert service (`alert_service.py`) | none | one read | gives its connection back |
| Configuration, schemas, tables, formatting, containers | – | rendering and deployment | not modelled |

How they interact: `POST /files` streams the body to a temporary file, renames it, inserts the row,
refreshes it and calls `enqueue_scan`. That publishes `scan_file_for_threats`; if publishing raises,
a daemon thread of the API process runs the whole pipeline instead. A worker runs one phase per
message and publishes the next phase when it is done, or marks the file failed and publishes the
alert. Meanwhile other requests rename or delete the same file. Nothing locks: the only protection
is the order of the steps, the per-column UPDATE of SQLAlchemy, StaleDataError on a vanished row and
the foreign key.

The behaviours that are hard to test are listed, with their lines, in the hazards of
`PROJECT.json`. They are of five kinds: interleavings of requests and pipeline runs that loaded the
same row; failures between two steps that belong together (store and insert, mark and alert, finish
and publish); crashes of either process; duplicate or doubtful deliveries; and, in the browser,
answers that arrive in another order than the questions.

## 2. The modules

```
Domain            columns, threat rules, what each phase does to a row       (operators only)
  Infrastructure  database, storage directory, broker, and their faults
    Processing    phases and tasks, run by workers and inline threads
      FileService upload, rename, delete requests
        FileSharing        Next, fairness, specification, properties
          MCFileSharing    constants for TLC
          FileSharingProofs -> OwnershipProofs -> RefinementProofs -> VerdictProofs
                            -> LifecycleProofs: each extends the one before
FileLifecycle     what is promised about one file; FileSharing implements it
Tables            what a unit of work promises: whole transactions of two tables;
                  FileSharing and Database both implement it
Migrations        the revisions and the command that applies them
  UnitOfWork      sessions, pool, row locks, statement by statement
    Database      sessions of API and workers while the schema is migrated;  DatabaseProofs
LocalStorage      one upload, chunk by chunk
  Scanning        the streaming counters
    Streaming     both, with the properties;  MCStreaming: constants for TLC;  StreamingProofs
Dashboard         the page and its upload form;  DashboardProofs
```

### State and code

| Variable | Stands for |
| --- | --- |
| `rows[f]` | the committed row of table `files` with id `f`, or `NoRow` |
| `alerts[f]` | the levels of the rows of table `alerts` that refer to `f`, oldest first |
| `disk` | ids whose bytes exist under the final name (`LocalStorage.commit`) |
| `parts` | ids whose `.upload-*.part` exists |
| `queue[m]` | copies of message `m` in the broker; a bag, because nothing promises order |
| `runs[e]` | what executor `e` is doing: a worker slot, or the inline thread of a file (named by the file) |
| `reqs[c]` | what request slot `c` is doing |
| `issued` | uuids drawn; an id is never drawn twice |

A step lasts from one await, thread hop or external call to the next, because that is where other
coroutines, threads and processes come in: loading a row, reading the file and committing are three
steps, and `runs[e].item` and `runs[e].changes` carry what a phase read and what its UPDATE will
contain. A row has the columns the properties distinguish; `scan_details`, timestamps, sizes and
names are abstracted to a `Kind` (class of the suffix, above 10 MB or not, begins with `%PDF` or
not, class of the MIME type, suffix too long or not). Because `scan_details` is left out, an UPDATE
that changes no modelled column may or may not exist; for a deleted row both are allowed.

Faults are actions of their own, enabled by the constant `Faults`:

| Fault | Meaning |
| --- | --- |
| `db` | a statement or COMMIT fails without effect |
| `late` | a COMMIT takes effect and is seen to fail, or the refresh after it fails |
| `fs` | a file operation fails |
| `publish_api`, `publish_worker` | `.delay()` raises, nothing sent |
| `publish_unsure` | `.delay()` raises in the API process, message sent |
| `worker_crash`, `api_crash` | the process dies, open transactions roll back |
| `redeliver` | the broker delivers a message once more |

Celery's defaults apply (`celery_app.py` sets no `acks_late`): a message is acknowledged when it is
taken, so a crash loses it. A redelivery adds a copy of a message that is still in the broker.

### The database, twice

`FileSharing` takes a unit of work to be atomic at its COMMIT: a phase loads a row in one step and
its UPDATE takes effect in another, with nothing in between. `Database` is where that is justified.
It runs the same code statement by statement: `__aenter__` makes a session without a connection,
the first statement checks one out of the pool (`Connect`; the API's engine has a QueuePool, tasks
and inline threads a NullPool), `commit()` flushes under PostgreSQL's row locks (`Flush` waits, or is
refused), COMMITs and gives the connection back, `refresh()` needs another, `__aexit__` rolls back
and closes. Any of these may fail, time out or be cut off by the death of the process, and a
migration may alter the foreign key, or remove the tables, between them. Both modules are shown to
implement `Tables`, whose steps are one transaction about one file each: the sessions offer no more
than that (`Database!RefinesTables`), and the services ask for no more than that
(`FileSharing!RefinesTables`). TLC checks both, and both are theorems.

| Variable | Stands for |
| --- | --- |
| `sessions[s]` | what session `s` is doing: the statement that is pending (`pc`), the use case (`job`), whether it holds a connection, which `tables` its transaction has used and so locks, what it will write (`value`), what it wrote and did not commit (`written`) |
| `free`, `poolSize` | connections the API's QueuePool can still give out, and all it may give out; the size differs from one behaviour to another, never within one |
| `schema`, `revision` | the committed schema and `alembic_version` |
| `migration` | the running `alembic` command: the schema its transaction sees, the revision it has come to, the tables it has locked |

The use cases are reduced to what they ask of the session: `create` flushes and refreshes, `rename`
loads, flushes and refreshes, `delete` loads and flushes, `read` (lists, `get`, `get_download`, the
alert service) loads; `process` stands for `scan`, `extract_metadata` and `mark_failed`, `alert` for
`send_alert`. A row has the column a rename writes and one for those of the pipeline. What
PostgreSQL and SQLAlchemy do (lock modes, the locks of tables, the deadlock detector, StaleDataError, the timeout of the pool) is external to the repository and
modelled from their documented behaviour under READ COMMITTED, PostgreSQL's default, which the code
does not change. Pooled connections that
went stale are replaced by `pool_pre_ping` and appear as statements that fail.

*Locks of tables.* A statement locks its table against migrations until its transaction ends. The
last statement of `send_alert` (an INSERT into `alerts` that checks its file) and of `delete` (a
DELETE from `files` that cascades) use both tables, and either uses `files` first: its SELECT has.
They are two steps, `Flush` and `CheckForeignKey`, and another may come between. A migration locks
the tables one at a time and in the other order (`LockTable`: `drop_constraint` on `alerts`, then
the table it refers to; `drop_table` of `alerts`, then of `files`), waiting for every transaction
that has used the next one, while it holds what it has. So a migration and a session can wait
for each other (`Deadlocked`), and only PostgreSQL's detector ends that, by failing one of the two
(`BreakDeadlock`). The queue for a lock is not modelled: in the model a statement may overtake a migration
that is still waiting, where PostgreSQL lets it queue behind. A circle that only the order of that queue
closes is one the detector undoes by reordering it; nobody is failed. An aborted transaction gives its
locks back at once.

### Pages and bytes

`Dashboard` answers the two list requests of one `loadData` apart, in either order; the files it
counts are those this page uploaded, numbered as the server stores them. An upload may fail for the
page in every state of the request: before the server has it, while it works on it (a lost connection, the
timeout of a proxy), with an error although the row is committed, or with a lost 201. A
request that is given up stays with the server (`givenUp`), which may store the file at any later time
(`StoreGivenUp`), also between the two answers of a load that a later upload has started; `lost` is the set
of files that were stored although the page has reported a failure. `LocalStorage` also has the name of the upload: a sequence of
dots, separators and other characters, cut by pathlib's rules (Python 3.14) into the suffix that
`create` puts behind the uuid. `LocalStorage` and `Scanning` reduce bytes to five symbols: the
two parts of a two-byte character, a newline, and the two bytes the page token is made of.

## 3. What TLC checks

| Run | Faults | Shows |
| --- | --- | --- |
| `Hostile` | everything but publishing in workers and doubtful publishing | `AlertsHaveRow`, `NoResurrection`, `RenameIsolated`: no fault or interleaving orphans an alert, brings a deleted file back or mixes up the columns of a rename and of the pipeline; `RefinesTables`: every step is one transaction of `Tables` |
| `Tidy` | `db`, `publish_api`, `publish_unsure`, `worker_crash`, `redeliver` | `RowsHaveBytes`, `BytesHaveRow`, `PartsOwned`: rows and bytes come and go together; `VerdictMatchesContent`: no race makes a genuine PDF suspicious or a fake one clean |
| `Pipeline` | `fs`, failing publications, crashes | with two files: `AtMostOneAlert`, `AlertAgreesWithRow`, and `RefinesLifecycle`, the refinement of `FileLifecycle` |
| `Live` | `fs`, `publish_api` | `NeverStuck`, `EventuallySettled`: every file is deleted or ends processed or failed; `EventuallyReported`, `WorkersReportFailures`: if workers alone ran its pipeline it also gets its alert, a critical one if it failed |
| `Database` | refused and failing statements, lost answers of COMMIT, pool timeouts, deaths of both kinds of processes, failing migrations | `ConnectionsAccounted`: no connection is lost or given back twice; `OnlyMigrationsDeadlock`: sessions never all wait for each other, for the pool or for a migration, but for the one circle above; `SchemaMatchesRevision`; `RefinesTables`: overlapping sessions act as if each ran alone at its COMMIT |
| `Streaming` | – | `StoredWhole`, `LimitExact`, `TextCounted`, `PagesCounted`; `NamesAgree`: whatever the client calls its file, the stored name resolves and keeps the suffix |
| `Dashboard` | refused and lost requests and answers, uploads stored after the page gave them up | `UploadsSerial`, `SpinnerHonest`, `EventuallyShown`; `AlertsListed`: with the newest load on the page, an alert of an unlisted file is of an upload under way or of one reported as failed; `DraftKept`: a failing upload or a load never clears the form |

Each of these properties is broken by at least one small change to the code, kept in the modules as
an operator marked *Seeded bug* before the definition it would replace.

Five more runs each show a disagreement between the code and what the repository says of it:

| Run | Disagreement |
| --- | --- |
| `HangWithoutBroker` | `.delay()` of the next task stands outside the `try` (`worker/tasks.py:67`): if the broker fails there, the file hangs in `processing`, which README.md:79 lists as fixed |
| `SilentInlineFailure` | the inline fallback marks a file failed without an alert (`worker/tasks.py:94`), against README.md:79 and `tests/test_worker.py:176` |
| `InfoForUnprocessed` | when marking fails too, the alert says success (`worker/tasks.py:53`), against METHODOLOGY.md:370 |
| `LongSuffix` | a suffix that does not fit behind the uuid makes `commit` raise and leaves the temporary file (`file_service.py:60`), against METHODOLOGY.md:123 |
| `StaleList` | a slow answer to an older load overwrites a newer list (`useDashboardData.ts:30`), against the reload test of that hook |

### Bounds, and why they are enough

* Two requests and two workers per instance: every hazard is a race of two writers of one row, plus
  the inline thread, so three concurrent writers occur. Request slots are reused; a file can be
  uploaded, renamed, deleted and scanned again in one behaviour.
* One file where properties are about one file (files share nothing but the executors), two in
  `Pipeline`, where the refinement and the alerts of different files meet in the same workers.
* One redelivery: the second copy already runs concurrently with everything the first one does.
* Two titles where a rename must be told from a non-rename, one elsewhere. `OnePdf` has one content;
  `PdfAndFake` has the pair that only the header tells apart; `AllKinds` adds text and an executable
  with a suffix that is too long.
* `Streaming`: all texts of up to five symbols and all strings of up to seven over the token's two
  bytes, against read chunks of 1 to 4. Upload chunks of 4 and a limit of 6 put the limit inside a chunk; the
  bodies of seven are there to be refused, so that what is stored and counted has at most six symbols: two tokens
  of three, or one in every position. `PagesCountedOnce` is proved for any length.
* `Streaming` tries every name of up to five characters out of dot, separator and another one, which
  holds leading, trailing and double dots before and after a separator.
* `Database`: two API sessions over a pool of one or two connections, one task session, one file, one `alembic` command of
  at most two revisions from any revision, and a second alert is not started once a file has one.
  Neither size alone shows everything: with one connection every checkout of the API is contended,
  but its two sessions never hold a transaction at the same time; with two, three transactions meet
  on the row, in every pair of lock modes, but nobody waits for the pool unless a connection was lost.
  These are about 990 000 states, and TLC takes every action in them, `BreakDeadlock` included.
* `Dashboard`: one alert, of either file, and two uploads and one click on refresh besides the initial load give four loads, up to
  three of them at once, and the first upload may be stored in the middle of any load after the second.

Files, requests and workers are symmetric in the safety runs; the liveness runs use no symmetry.
Deadlock is not checked: ids and bounds run out, and clients need not ask for anything.

### Fairness

`FileSharing!Fairness` is weak fairness of each request, each executor and each message: a
coroutine or thread that can continue does (asyncio and the operating system schedule them), and a
message that stays in the queue is taken by a free worker. Clients are never obliged to act.
Failing is a possible outcome of a fair step, so the liveness properties hold whether steps fail or
not. They are stated without crashes, failing statements and failing publications in workers: the code acknowledges
early and does not retry (METHODOLOGY.md:395 has retries in the backlog), so under those a file may
stay unfinished, as `HangWithoutBroker` shows. `Dashboard` assumes that every request the page waits
for is answered or fails; what becomes of one it has given up is left open.

`Database` states no fairness and checks no liveness. That waiting ends is the invariant
`OnlyMigrationsDeadlock`: in every state with a session or a migration under way somebody can take its
next step, without the pool's timeout, faults or new work, or the detector has a circle to break. Steps
only lead forward to the end of the session, the others do not have to enter again, and the states in
which all who can go on have ended are among those checked; so a circle of some could not hide behind the
progress of others. One session may still be kept waiting by a stream of new ones: the share lock of an
alert and the lock of an UPDATE do not exclude each other, and a DELETE waits for both.

## 4. What is proved

Every invariant and every action property that a passing run checks, but one, and all three refinements,
are theorems. They hold for any sets of files, requests, workers, sessions, titles and contents, any
pool, any chunk sizes, any uploads and any bounds, given the named assumptions on the constants.

| Theorem | Says | Assuming |
| --- | --- | --- |
| `FileSharingProofs!TypeCorrect` | `[]TypeOK` | any faults |
| `OwnershipProofs!AlertsAlwaysHaveRow` | `[]AlertsHaveRow` | any faults |
| `OwnershipProofs!DeletedRowsStayDeleted` | `NoResurrection` | any faults |
| `OwnershipProofs!RowsAlwaysHaveBytes` | `[]RowsHaveBytes` | no `late` |
| `OwnershipProofs!BytesAlwaysHaveRow` | `[]BytesHaveRow` | no `fs`, `late`, `api_crash` |
| `RefinementProofs!RenamesAreIsolated` | `RenameIsolated` | any faults |
| `RefinementProofs!ImplementsTables` | `RefinesTables` | any faults |
| `VerdictProofs!VerdictsMatchContent` | `[]VerdictMatchesContent` | no `late` |
| `VerdictProofs!PartsAlwaysOwned` | `[]PartsOwned` | no `fs`, `api_crash`; names that fit behind the uuid |
| `LifecycleProofs!FilesReportedOnce` | `[]AtMostOneAlert` | no `publish_unsure`, `redeliver` |
| `LifecycleProofs!AlertsAlwaysAgree` | `[]AlertAgreesWithRow` | `Orderly`: no `db`, `late`, `publish_unsure`, `redeliver` |
| `LifecycleProofs!ImplementsLifecycle` | `RefinesLifecycle` | `Orderly` |
| `LifecycleProofs!FilesNeverStuck` | `[]NeverStuck` | `Reliable`: no faults but `fs` and `publish_api` |
| `DatabaseProofs!TypeCorrect` | `[]TypeOK` | – |
| `DatabaseProofs!ConnectionsAlwaysAccounted` | `[]ConnectionsAccounted` | – |
| `DatabaseProofs!SchemaAlwaysMatches` | `[]SchemaMatchesRevision` | – |
| `DatabaseProofs!ImplementsTables` | `RefinesTables` | – |
| `StreamingProofs!TypeCorrect` | `[]TypeOK` | – |
| `StreamingProofs!UploadsStoredWhole`, `LimitAlwaysExact`, `NamesAlwaysAgree` | `[]StoredWhole`, `[]LimitExact`, `[]NamesAgree` | – |
| `StreamingProofs!TextCountedWhole`, `PagesCountedOnce` | `[]TextCounted`, `[]PagesCounted` | – |
| `DashboardProofs!TypeCorrect` | `[]TypeOK` | – |
| `DashboardProofs!OneUploadAtATime`, `SpinnerStops`, `AlertsBecomeListed` | `[]UploadsSerial`, `[]SpinnerHonest`, `[]AlertsListed` | – |
| `DashboardProofs!DraftsSurvive` | `DraftKept` | – |

The faults of `Database`, `Streaming` and `Dashboard` are actions without a switch: their theorems
have them all. In `FileSharing` an assumption excludes a fault only where the code does not
survive it:

* `late`: `create` deletes the bytes of a committed row (`file_service.py:77`), and a scan of that
  row would read an empty header.
* `fs`, `api_crash`: bytes and temporary files stay behind.
* `redeliver`, `publish_unsure`: two runs work on one file, and each of them reports it
  (`send_alert` does not look for an earlier alert).
* `db`: a `mark_failed` that fails does so silently, and the alert that follows calls an unfinished file processed.
* `worker_crash`, `publish_worker`: the message is lost and nobody takes the file on.

### The arguments

*Ownership.* `RowsHaveBytes` is not inductive: `InsertRow` inserts a row and must know that the
bytes are there, `Cleanup` and `Unlink` remove bytes and must know that the row is not, and no other
request may be doing the opposite. The strengthening says who owns an
id. `Ownership` (lemma `OwnershipInvariant`, true under all faults): rows and requests use only ids
that were drawn, and an upload whose row is not in yet (`write`, `insert`) finds no row and is the
only request on its id. `BytesSafe` adds that `insert` implies bytes on disk, and `cleanup` and
`unlink` imply that the row is gone; the last part is where a `late` fault would break it, because
then `cleanup` may follow a committed INSERT. With both, each action either leaves rows and bytes of
an id alone or changes them in the order the code prescribes. `BytesHaveRow` uses the same ownership:
whoever takes the row away goes on to `unlink`, and without crashes and file errors gets there.
`AlertsHaveRow` needs that an alert is inserted only beside its row and that a DELETE cascades.
`NoResurrection` holds since no UPDATE inserts (`RowsAfter` of a missing row changes nothing) and
only `InsertRow` and `InsertFails` of the owner do.

*Columns.* `RenameIsolated` has invariants about what is in flight: a pending UPDATE of the pipeline
leaves `title` alone (`PipelineKeepsTitle`) and one of a rename everything else
(`RenameChangesTitle`), which is what lets two concurrent UPDATEs of one row commute.
`RefinesTables` rests on the same two and on `Ownership`: an INSERT finds no row
because the upload owns its id, an UPDATE writes the columns of one operation, an alert is inserted
only beside its row.

*Verdicts.* `VerdictMatchesContent` says nothing about what a run has loaded and not yet
written, and runs of one file overlap under `redeliver`. `Soundness` does: a row is sound
(`requires_attention` may be ahead of the verdict, because a later UPDATE overwrites one and not
the other, never behind); versions of a row only grow (`Grows`: the content never changes, attention
is never taken back); a run holds an earlier version of its row, and its UPDATE keeps any later
version sound. That a scan reads the content it judges is `RowsHaveBytes`. `PipelineAfterInsert`
(a run or a message exists only once its upload has inserted the row) keeps an INSERT from
meeting a run that loaded something else.

*One holder.* The right to process a file is a token. `OneHolder`: an upload before its enqueue, or
the one copy of one message, or one run holds it, and whoever does finds no alert. An inline thread
in `mark_failed` (`Spent`) is past reporting and holds nothing any more. Every step moves the token
or spends it on the alert, hence `AtMostOneAlert`. `Progress` says where the row stands
when each holder has it (`StatusBefore` of the phase), which gives `AlertAgreesWithRow` and makes
every step of a run a step of `FileLifecycle`. For `NeverStuck`, `InHands` adds the other
direction: a file that is not processed or failed has a holder (`RequestHandsOn` and `RunHandsOn`: whoever lets go
has handed it to a message or a thread, or has finished it).

*The dashboard.* `UploadsSerial` and `SpinnerHonest` follow from `Shape`. `AlertsListed`
relates lists that were read at different times; `Settling` says that the newest load read its
files after the last acknowledged upload, and that a file the server has stored since is of an upload
under way or in `lost` (`Unacknowledged`). An upload that was given up is stored once at most and
counts until then among those submitted (`Serial`), so nobody else has its number.

*Sessions.* `ConnectionsAccounted` is about the cardinality of a set that every step changes by the
connection of one session (`Accounted`). For `RefinesTables`, `Isolation` says what makes overlapping
sessions serial: two pending COMMITs about one file hold row locks that PostgreSQL grants together
(`LocksShared`), so that what each is about to commit still fits the committed row (`VersionsFit`), an INSERT
is alone on its id (`CreatesAlone`), and no COMMIT is pending when a migration commits: whoever is about
to commit has used table `files`, no table a session has used is locked by a migration (`TablesHeld`), and one that has
applied a revision has locked both (`MigrationHoldsLocks`). Between `Flush` and
`CheckForeignKey` a session has written nothing but the DELETE whose row lock it holds (`KeysPending`). The
step to see is `Flush`: it waits for the others' locks and reads the row afresh, which is where the
UPDATE of only the changed columns is needed.

*Streams.* `StorageRight`: the temporary file is the part of the body that was taken, the rest is to
come. The counters are compared with one pass over all that was read (`Prefix`).
`Continued` relates what was read before a chunk, what was read after it, and what the counter
looks at; the occurrences of the token, the newlines and the characters of the
whole are then those before and, moved, those the counter adds, none in both (`InParts`).
An occurrence that ends in the new chunk begins in the carried tail or behind it, and one that ended earlier
does not fit in a tail shorter than the token. `Cardinality` of such a union is the sum (`Adds`).
`TokenAssumption` (the token does not overlap itself, as `/Type /Page` does not) makes `bytes.count`
and `Occurrences` the same number. `NamesAgree` follows pathlib's rules through
`PathName` and `Suffix`, for names of any length.

What the proofs found: two cases of `UnitOfWork!Versions` overlapped and TLC took the first that
fits, which left the definition open to another reading; they exclude each other now. `Values` has to have an element
(`ValuesAssumption`), or an INSERT would have no row to write. `Components` of a path is built from
the positions of the separators, because the provers cannot see through a set of pairs; `Streaming` visits
the same states as before.

*Only model-checked:* liveness (`EventuallySettled`, `EventuallyReported`, `WorkersReportFailures`,
`EventuallyShown`), which is beyond the proof system, and `OnlyMigrationsDeadlock`, which is stated with ENABLED.

## 5. What is not modelled

Downloads: `get_download` loads a row and hands a path to the response (`RowsHaveBytes` protects it;
its session is a `read` of `Database`). Wording, timestamps and the order of lists, HTTP codes,
CORS, validation of lengths, the result backend, the state Celery keeps about results, SQLite,
offline SQL scripts of Alembic, rendering, containers. `session_scope`, `make_uow_factory`,
`LocalStorage.discard`, `read` and `open_binary` have no caller in the service. `Database` and
`FileSharing` are not one module: their product would not fit TLC, and `Tables` is the contract
between them; only a commit that takes effect and is reported as failed crosses it, and that is the fault
`late` of `FileSharing`, of which an exhausted pool at `refresh` is one cause. Several API processes are
not modelled either: the service runs one, and `ApiCrash` ends all its requests at once.

## 6. Plan

Done, in this order: `Domain` to `FileSharing` (the pipeline and the requests are the core),
`FileLifecycle`, the type and ownership theorems, the rename theorem, `Streaming`, `Dashboard`;
then `Tables`, `Migrations`, `UnitOfWork` and `Database`, the liveness of reporting, the stored
names, the two list requests of the dashboard, and the theorem that the services implement `Tables`.

After that the remaining safety properties as theorems: verdicts and temporary files; one holder, the
alerts and the refinement of `FileLifecycle`; the dashboard; pool, schema and `Database!RefinesTables`;
the streams; and that no file hangs.

To come:

1. Weaker assumptions about faults: which alerts still agree under `db` alone, and
   that under `redeliver` a file has at most one alert per delivery.
2. `NeverStuck` with crashes: every file that hangs was dropped by a crash or a failed publication,
   stated with a history of the faults that happened.
3. The safety half of the liveness properties: that a file's distance to its end never grows once it has
   a holder, which is what remains to be argued by hand beside `InHands`.
4. Downloads as requests of `FileService`, if the proofs above make that cheap.
