------------------------------ MODULE Scanning ------------------------------
(* The streaming counters of the metadata phase: a stored file is read in    *)
(* chunks, and the counters must not depend on where the chunks end.         *)
EXTENDS LocalStorage

CONSTANTS
  ScanChunks,   \* the values of SCAN_CHUNK_SIZE considered
  Token         \* PDF_PAGE_TOKEN

ASSUME ScanChunksAssumption == ScanChunks \subseteq Nat \ {0}

\* Like "/Type /Page", the token does not begin with a proper end of itself, so
\* its occurrences never overlap.
ASSUME TokenAssumption ==
  /\ Token \in Seq(Byte) \ {<<>>}
  /\ \A n \in 1..(Len(Token) - 1) :
       SubSeq(Token, 1, n) # SubSeq(Token, Len(Token) - n + 1, Len(Token))

VARIABLES
  chunkSize,   \* SCAN_CHUNK_SIZE
  reader,      \* "idle", "text", "pdf" or "done"
  consumed,    \* bytes of the stored file read so far
  undecoded,   \* bytes the UTF-8 decoder keeps for the next chunk
  text,        \* char_count, newlines, ends_with_newline
  count,       \* tokens found
  carry        \* end of the data already searched

scanVars == <<chunkSize, reader, consumed, undecoded, text, count, carry>>

\* tail: how much of the searched data may belong to a token that goes on.
TailLength == Len(Token) - 1

ScanTypeOK ==
  /\ chunkSize \in ScanChunks
  /\ reader \in {"idle", "text", "pdf", "done"}
  /\ consumed \in Nat
  /\ undecoded \in {<<>>, <<"lead">>}
  /\ text \in [char_count: Nat, newlines: Nat, ends_with_newline: BOOLEAN]
  /\ count \in Nat
  /\ carry \in Seq(Byte) /\ Len(carry) <= TailLength

ScanInit ==
  /\ chunkSize \in ScanChunks
  /\ reader = "idle"
  /\ consumed = 0
  /\ undecoded = <<>>
  /\ text = [char_count |-> 0, newlines |-> 0, ends_with_newline |-> FALSE]
  /\ count = 0
  /\ carry = <<>>

-----------------------------------------------------------------------------
(* UTF-8 with errors="ignore": "lead" opens a character of two bytes, which  *)
(* "cont" completes; either alone is dropped; every other byte is a          *)
(* character.                                                                *)

\* Where the characters of bytes begin.
Characters(bytes) ==
  {i \in DOMAIN bytes :
     IF bytes[i] = "lead" THEN i < Len(bytes) /\ bytes[i + 1] = "cont"
                          ELSE bytes[i] # "cont"}

Newlines(bytes) == {i \in DOMAIN bytes : bytes[i] = "nl"}

EndsWithNewline(bytes) ==
  Characters(bytes) # {} /\ bytes[Max(Characters(bytes))] = "nl"

\* Where the token occurs in bytes.
Occurrences(bytes) ==
  {i \in 1..(Len(bytes) - Len(Token) + 1) :
     SubSeq(bytes, i, i + Len(Token) - 1) = Token}

\* Seeded bug: every chunk is decoded on its own.
ForgetUndecoded(data) == <<>>

\* What the incremental decoder keeps: a character that may be completed.
Undecoded(data) ==
  IF data # <<>> /\ data[Len(data)] = "lead" THEN <<"lead">> ELSE <<>>

\* Seeded bug: one byte more is carried than the slice should hold.
CarryWholeToken(data) ==
  IF Len(data) <= Len(Token) THEN data ELSE Drop(data, Len(data) - Len(Token))

\* Seeded bug: a token cut in two by the end of a chunk is missed.
CarryNothing(data) == <<>>

\* data[-tail:]
Carried(data) ==
  IF Len(data) <= TailLength THEN data ELSE Drop(data, Len(data) - TailLength)

\* fh.read(SCAN_CHUNK_SIZE)
Read == Take(Drop(stored, consumed), chunkSize)

-----------------------------------------------------------------------------

\* The metadata phase opens the file; the MIME type chooses the counter.
Open ==
  /\ upload = "stored"
  /\ reader = "idle"
  /\ reader' \in {"text", "pdf"}
  /\ UNCHANGED <<chunkSize, consumed, undecoded, text, count, carry>>

\* extract_text_metadata: one turn of the loop.
CountText ==
  LET data == undecoded \o Read IN
  /\ reader = "text"
  /\ Read # <<>>
  /\ consumed' = consumed + Len(Read)
  /\ undecoded' = Undecoded(data)
  /\ text' = IF Characters(data) = {} THEN text
             ELSE [char_count |-> text.char_count + Cardinality(Characters(data)),
                   newlines |-> text.newlines + Cardinality(Newlines(data)),
                   ends_with_newline |-> EndsWithNewline(data)]
  /\ UNCHANGED <<chunkSize, reader, count, carry>>

\* extract_pdf_metadata: one turn of the loop.
CountTokens ==
  LET data == carry \o Read IN
  /\ reader = "pdf"
  /\ Read # <<>>
  /\ consumed' = consumed + Len(Read)
  /\ count' = count + Cardinality(Occurrences(data))
  /\ carry' = Carried(data)
  /\ UNCHANGED <<chunkSize, reader, undecoded, text>>

\* The file is read: an incomplete character is dropped, the result returned.
Return ==
  /\ reader \in {"text", "pdf"}
  /\ Read = <<>>
  /\ undecoded' = <<>>
  /\ reader' = "done"
  /\ UNCHANGED <<chunkSize, consumed, text, count, carry>>

ScanNext ==
  \/ Open
  \/ CountText
  \/ CountTokens
  \/ Return

\* The results.
LineCount ==
  IF text.char_count = 0 THEN 0
  ELSE text.newlines + (IF text.ends_with_newline THEN 0 ELSE 1)
ApproxPageCount == Max({count, 1})
=============================================================================
