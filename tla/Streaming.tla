------------------------------ MODULE Streaming -----------------------------
(* An upload is written in chunks of one size and read back in chunks of     *)
(* another; what is stored and what is counted must depend on neither.       *)
EXTENDS Scanning

vars == <<storageVars, scanVars>>

TypeOK == StorageTypeOK /\ ScanTypeOK

Init == StorageInit /\ ScanInit

Next ==
  \/ StorageNext /\ UNCHANGED scanVars
  \/ ScanNext /\ UNCHANGED storageVars

Spec == Init /\ [][Next]_vars

-----------------------------------------------------------------------------

\* A file under its final name is the whole upload, and its size is the one
\* recorded: write_temp and commit never store a prefix (README 3.1).
StoredWhole == stored # NoFile => stored = body /\ size = Len(body)

\* "Names on disk are made by the server, uuid + extension" (METHODOLOGY DATA-4):
\* whatever the client calls its file, dots and separators included, the stored
\* name is one that _resolve accepts and has the suffix by which threats and MIME
\* type are judged.  Whether a name so long fits the file system is another
\* question: module FileSharing has the suffixes that do not (LongSuffix).
NamesAgree ==
  /\ Resolves(StoredName(name))
  /\ Suffix(StoredName(name)) = Suffix(PathName(name))

\* The limit is applied while reading (METHODOLOGY DATA-2), to the byte: no more
\* than max_upload_size ever reaches the disk, and only a body that is larger is
\* refused as too large.
LimitExact ==
  /\ part # NoFile => Len(part) <= MaxSize
  /\ size > MaxSize => Len(body) > MaxSize /\ upload = "failed"
  /\ upload = "writing" /\ unsent # <<>> /\ TooLarge(size + Len(Chunk))
       => Len(body) > MaxSize

\* What the reader has seen of the file.
Prefix == Take(stored, consumed)

\* extract_text_metadata counts what one decoding of the whole file counts,
\* after every chunk and wherever a chunk cuts a character.
TextCounted ==
  reader = "text" =>
    /\ text.char_count = Cardinality(Characters(Prefix))
    /\ LineCount = IF Characters(Prefix) = {} THEN 0
                   ELSE Cardinality(Newlines(Prefix)) + (IF EndsWithNewline(Prefix) THEN 0 ELSE 1)

\* "Counted with chunk-boundary carry so results equal a full-file scan"
\* (scanning.py): no token is missed and none is counted twice.
PagesCounted ==
  reader = "pdf" =>
    /\ count = Cardinality(Occurrences(Prefix))
    /\ ApproxPageCount = Max({Cardinality(Occurrences(Prefix)), 1})
=============================================================================
