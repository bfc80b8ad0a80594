---------------------------- MODULE LocalStorage ----------------------------
(* One upload on its way to disk, chunk by chunk: write_temp fills a         *)
(* temporary file, commit renames it to the name create() has made of the    *)
(* client's.  A byte or a character is one of a few symbols.                 *)
EXTENDS Integers, Sequences, FiniteSetsExt

CONSTANTS
  Byte,         \* the bytes the properties tell apart
  Uploads,      \* what clients upload: pairs of a body and the client's name for it
  UploadChunk,  \* _UPLOAD_CHUNK: how much of the request body is read at a time
  MaxSize,      \* max_upload_size
  NoFile        \* "there is no such file"

ASSUME UploadsAssumption == Uploads \subseteq Seq(Byte) \X Seq({"/", ".", "x"})
ASSUME UploadChunkAssumption == UploadChunk \in Nat \ {0}
ASSUME MaxSizeAssumption == MaxSize \in Nat
ASSUME NoFileAssumption == NoFile \notin Seq(Byte)

VARIABLES
  body,     \* the bytes of the request
  name,     \* original_name, the file name the client gives
  unsent,   \* what write_temp has not received yet
  part,     \* content of the temporary file
  size,     \* bytes counted so far, later the size column
  stored,   \* content of the file under its final name
  upload    \* "writing", "stored" or "failed"

storageVars == <<body, name, unsent, part, size, stored, upload>>

StorageTypeOK ==
  /\ <<body, name>> \in Uploads
  /\ unsent \in Seq(Byte)
  /\ part \in Seq(Byte) \cup {NoFile}
  /\ size \in Nat
  /\ stored \in Seq(Byte) \cup {NoFile}
  /\ upload \in {"writing", "stored", "failed"}

-----------------------------------------------------------------------------
(* Names.  "/" separates components, everything else but "." is "x".         *)

\* pathlib: the components of a path, as the intervals they occupy.
Components(path) ==
  {c \in (DOMAIN path) \X (DOMAIN path) :
     /\ c[1] <= c[2]
     /\ \A k \in c[1]..c[2] : path[k] # "/"
     /\ c[1] > 1 => path[c[1] - 1] = "/"
     /\ c[2] < Len(path) => path[c[2] + 1] = "/"
     /\ SubSeq(path, c[1], c[2]) # <<".">>}

\* Path(path).name: the last component.
PathName(path) ==
  LET components == Components(path)
      last == CHOOSE c \in components : \A d \in components : d[2] <= c[2]
  IN IF components = {} THEN <<>> ELSE SubSeq(path, last[1], last[2])

\* os.path.splitext: from the last dot that does not belong to leading dots.
Suffix(n) ==
  LET dots == {i \in DOMAIN n : n[i] = "." /\ \E k \in 1..i : n[k] # "."} IN
  IF dots = {} THEN <<>> ELSE SubSeq(n, Max(dots), Len(n))

\* Seeded bug: the suffix is cut from the path as the client sent it.
RawStoredName(original) == <<"x">> \o Suffix(original)

\* stored_name: a uuid and the suffix of the client's file name.
StoredName(original) == <<"x">> \o Suffix(PathName(original))

\* _resolve accepts a stored name.
Resolves(n) == n # <<>> /\ n = PathName(n)

-----------------------------------------------------------------------------

StorageInit ==
  /\ \E u \in Uploads : body = u[1] /\ name = u[2]
  /\ unsent = body
  /\ part = <<>>
  /\ size = 0
  /\ stored = NoFile
  /\ upload = "writing"

\* The first n bytes of a sequence, or all of it; and what follows them.
Take(bytes, n) == SubSeq(bytes, 1, Min({n, Len(bytes)}))
Drop(bytes, n) == SubSeq(bytes, Min({n, Len(bytes)}) + 1, Len(bytes))

\* The next chunk of the request body.
Chunk == Take(unsent, UploadChunk)

\* Seeded bug: an upload of exactly the maximum size is refused.
TooLargeAtLimit(n) == n >= MaxSize

TooLarge(n) == n > MaxSize

\* The except branch of write_temp: the temporary file is removed.
Abort ==
  /\ part' = NoFile
  /\ upload' = "failed"
  /\ UNCHANGED <<body, name, unsent, stored>>

\* A chunk is counted and written.
WriteChunk ==
  /\ upload = "writing"
  /\ unsent # <<>>
  /\ ~TooLarge(size + Len(Chunk))
  /\ size' = size + Len(Chunk)
  /\ part' = part \o Chunk
  /\ unsent' = Drop(unsent, UploadChunk)
  /\ UNCHANGED <<body, name, stored, upload>>

\* FileTooLargeError, raised before the chunk is written.
RejectLarge ==
  /\ upload = "writing"
  /\ unsent # <<>>
  /\ TooLarge(size + Len(Chunk))
  /\ size' = size + Len(Chunk)
  /\ Abort

\* Seeded bug: a broken stream is taken for a complete one.
KeepPartial ==
  /\ upload = "writing"
  /\ part # <<>>
  /\ stored' = part
  /\ part' = NoFile
  /\ upload' = "stored"
  /\ UNCHANGED <<body, name, unsent, size>>

\* Reading the request or writing the file raises, or the request is cancelled.
StreamFails ==
  /\ upload = "writing"
  /\ Abort
  /\ UNCHANGED size

\* EmptyFileError.
RejectEmpty ==
  /\ upload = "writing"
  /\ unsent = <<>>
  /\ size = 0
  /\ Abort
  /\ UNCHANGED size

\* The body is complete: write_temp returns and commit renames.
Commit ==
  /\ upload = "writing"
  /\ unsent = <<>>
  /\ size > 0
  /\ Resolves(StoredName(name))
  /\ stored' = part
  /\ part' = NoFile
  /\ upload' = "stored"
  /\ UNCHANGED <<body, name, unsent, size>>

\* commit raises, always if the name does not resolve; the temporary file stays.
CommitFails ==
  /\ upload = "writing"
  /\ unsent = <<>>
  /\ size > 0
  /\ upload' = "failed"
  /\ UNCHANGED <<body, name, unsent, part, size, stored>>

StorageNext ==
  \/ WriteChunk
  \/ RejectLarge
  \/ StreamFails
  \/ RejectEmpty
  \/ Commit
  \/ CommitFails
=============================================================================
