------------------------------- MODULE Domain -------------------------------
(* The data of the file-sharing backend: the columns of a StoredFile row,    *)
(* the threat rules and what each pipeline phase does to a row it loaded.    *)
(* Pure operators; nothing here is a state machine.                          *)
EXTENDS Integers, Sequences

CONSTANTS
  Titles,   \* titles a client may give a file
  Kinds,    \* the contents and names clients upload, a subset of Kind
  NoRow     \* "the table has no such row"

ProcessingStatus == {"uploaded", "processing", "processed", "failed"}
ScanStatus == {"clean", "suspicious", "failed"}
AlertLevel == {"info", "warning", "critical"}
MetadataClass == {"null", "text", "pdf", "other"}

\* What the program ever asks about an upload: the class of its suffix, whether
\* it is above MAX_CLEAN_SIZE, whether it starts with PDF_HEADER, the class of
\* its MIME type, and whether uuid + suffix exceeds what a file name may hold.
Kind == [ext: {"plain", "executable", "pdf"},
         big: BOOLEAN,
         magic: BOOLEAN,
         mime: {"text", "pdf", "other"},
         long: BOOLEAN]

\* A row of table files.  metadata_json is "null" or the class of counters it
\* holds; scan_details is wording and left out.
Row == [kind: Kinds,
        title: Titles,
        processing_status: ProcessingStatus,
        scan_status: ScanStatus \cup {"null"},
        metadata_json: MetadataClass,
        requires_attention: BOOLEAN]

ASSUME KindsAssumption == Kinds \subseteq Kind
ASSUME NoRowAssumption == NoRow \notin Row

\* The row create() inserts: every column create() does not name has its default.
StoredFile(kind, title) ==
  [kind |-> kind, title |-> title,
   processing_status |-> "uploaded", scan_status |-> "null",
   metadata_json |-> "null", requires_attention |-> FALSE]

\* Seeded bug: the client's Content-Type is believed instead of the bytes.
TrustContentType(kind, present) == present /\ kind.mime = "pdf"

\* Does the header read from disk start with %PDF?  A missing file reads as
\* empty bytes, so its header never does.
HeaderIsPdf(kind, present) == present /\ kind.magic

\* The threat rules, as the set of reasons found.
EvaluateThreats(kind, headerIsPdf) ==
  {reason \in {"extension", "size", "mismatch"} :
     \/ reason = "extension" /\ kind.ext = "executable"
     \/ reason = "size" /\ kind.big
     \/ reason = "mismatch" /\ kind.ext = "pdf" /\ ~headerIsPdf}

\* scan(): the attributes assigned after the header was read.
Scanned(item, present) ==
  LET reasons == EvaluateThreats(item.kind, HeaderIsPdf(item.kind, present))
  IN [item EXCEPT !.processing_status = "processing",
                  !.scan_status = IF reasons = {} THEN "clean" ELSE "suspicious",
                  !.requires_attention = reasons # {}]

\* extract_metadata(): the attributes assigned once the counters are known.
Extracted(item) ==
  [item EXCEPT !.metadata_json = item.kind.mime,
               !.processing_status = "processed"]

\* Seeded bug: an alert level is stored as the status.
FailedAsLevel(item) == [item EXCEPT !.processing_status = "critical"]

\* mark_failed(), and extract_metadata() when the stored file is missing: a
\* verdict already given is kept (item.scan_status or ScanStatus.FAILED).
Failed(item) ==
  [item EXCEPT !.processing_status = "failed",
               !.scan_status = IF @ = "null" THEN "failed" ELSE @]

\* Seeded bug: attention is looked at before failure.
AttentionFirst(item) ==
  IF item.requires_attention THEN "warning"
  ELSE IF item.processing_status = "failed" THEN "critical"
  ELSE "info"

\* send_alert(): the level is chosen from the row as it was loaded.
LevelFor(item) ==
  IF item.processing_status = "failed" THEN "critical"
  ELSE IF item.requires_attention THEN "warning"
  ELSE "info"
=============================================================================
