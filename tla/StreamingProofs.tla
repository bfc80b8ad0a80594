--------------------------- MODULE StreamingProofs ---------------------------
(* Theorems about one upload and the counters, for bodies, names, chunks and *)
(* tokens of any length.                                                     *)
EXTENDS Streaming, FiniteSetTheorems, SequenceTheorems, TLAPS

-----------------------------------------------------------------------------
(* Sequences in parts                                                        *)

LEMMA MinOfTwo ==
  ASSUME NEW a \in Int, NEW b \in Int
  PROVE  Min({a, b}) = IF a <= b THEN a ELSE b
BY DEF Min

\* What Take and Drop return.
LEMMA TakeDropSpec ==
  ASSUME NEW S, NEW s \in Seq(S), NEW n \in Nat
  PROVE  /\ Take(s, n) \in Seq(S) /\ Drop(s, n) \in Seq(S)
         /\ Len(Take(s, n)) = (IF n <= Len(s) THEN n ELSE Len(s))
         /\ Len(Drop(s, n)) = (IF n <= Len(s) THEN Len(s) - n ELSE 0)
         /\ \A i \in 1..Len(Take(s, n)) : Take(s, n)[i] = s[i]
         /\ \A i \in 1..Len(Drop(s, n)) : Drop(s, n)[i] = s[i + n]
<1> DEFINE m == IF n <= Len(s) THEN n ELSE Len(s)
<1>1. Min({n, Len(s)}) = m /\ m \in 0..Len(s)
  BY MinOfTwo
<1>2. Take(s, n) = SubSeq(s, 1, m) /\ Drop(s, n) = SubSeq(s, m + 1, Len(s))
  BY <1>1 DEF Take, Drop
<1>3. \A i \in 1..Len(s) : s[i] \in S
  OBVIOUS
<1> HIDE DEF m
<1>4. /\ SubSeq(s, 1, m) \in Seq(S)
      /\ Len(SubSeq(s, 1, m)) = m
      /\ \A i \in 1..m : SubSeq(s, 1, m)[i] = s[i]
  BY <1>1, <1>3, SubSeqProperties
<1>5. /\ SubSeq(s, m + 1, Len(s)) \in Seq(S)
      /\ Len(SubSeq(s, m + 1, Len(s))) = Len(s) - m
      /\ \A i \in 1..(Len(s) - m) : SubSeq(s, m + 1, Len(s))[i] = s[i + m]
  <2>1. /\ m + 1 \in Int /\ Len(s) \in Int
        /\ \A i \in (m + 1)..Len(s) : s[i] \in S
    BY <1>1, <1>3
  <2>2. /\ SubSeq(s, m + 1, Len(s)) \in Seq(S)
        /\ Len(SubSeq(s, m + 1, Len(s))) = IF m + 1 <= Len(s) THEN Len(s) - (m + 1) + 1 ELSE 0
        /\ \A i \in 1..(Len(s) - (m + 1) + 1) :
             SubSeq(s, m + 1, Len(s))[i] = s[(m + 1) + i - 1]
    BY <2>1, SubSeqProperties
  <2> QED BY <1>1, <2>2
<1>6. /\ n <= Len(s) => m = n
      /\ n > Len(s) => m = Len(s)
      /\ Len(s) \in Nat
  BY DEF m
<1>7. \A i \in 1..(Len(s) - m) : Drop(s, n)[i] = s[i + n]
  <2>1. CASE n <= Len(s)
    BY <2>1, <1>2, <1>5, <1>6
  <2>2. CASE n > Len(s)
    BY <2>2, <1>6
  <2> QED BY <2>1, <2>2, <1>6
<1>8. /\ m = (IF n <= Len(s) THEN n ELSE Len(s))
      /\ Len(s) - m = (IF n <= Len(s) THEN Len(s) - n ELSE 0)
  BY <1>6
<1> QED BY <1>2, <1>4, <1>5, <1>7, <1>8

\* The same within the length of a sequence.
LEMMA WithinSpec ==
  ASSUME NEW S, NEW s \in Seq(S), NEW n \in Nat, n <= Len(s)
  PROVE  /\ Take(s, n) \in Seq(S) /\ Len(Take(s, n)) = n
         /\ \A i \in 1..n : Take(s, n)[i] = s[i]
         /\ Drop(s, n) \in Seq(S) /\ Len(Drop(s, n)) = Len(s) - n
         /\ \A i \in 1..(Len(s) - n) : Drop(s, n)[i] = s[i + n]
<1>1. /\ Take(s, n) \in Seq(S) /\ Drop(s, n) \in Seq(S)
      /\ Len(Take(s, n)) = n /\ Len(Drop(s, n)) = Len(s) - n
  BY TakeDropSpec
<1>2. \A i \in 1..Len(Take(s, n)) : Take(s, n)[i] = s[i]
  BY TakeDropSpec
<1>3. \A i \in 1..Len(Drop(s, n)) : Drop(s, n)[i] = s[i + n]
  BY TakeDropSpec
<1> QED BY <1>1, <1>2, <1>3

\* A chunk of k symbols leads from position n of s to m: it may be cut by the end.
Leads(s, n, k, m) == n <= m /\ m <= Len(s) /\ (m = n + k \/ (m = Len(s) /\ m <= n + k))

\* One more chunk: what was taken grows by it, what is left shrinks by it.
LEMMA NextChunk ==
  ASSUME NEW S, NEW s \in Seq(S), NEW n \in Nat, NEW m \in Nat, NEW k \in Nat, Leads(s, n, k, m)
  PROVE  /\ Take(s, m) = Take(s, n) \o Take(Drop(s, n), k)
         /\ Drop(s, m) = Drop(Drop(s, n), k)
<1> DEFINE rest == Drop(s, n)
           chunk == Take(rest, k)
<1>7. n <= m /\ m <= Len(s) /\ (m = n + k \/ (m = Len(s) /\ m <= n + k))
  BY DEF Leads
<1>1. /\ rest \in Seq(S) /\ Len(rest) = Len(s) - n
      /\ \A i \in 1..Len(rest) : rest[i] = s[i + n]
  <2>0. n <= Len(s) /\ Len(s) \in Nat
    BY <1>7
  <2>1. rest \in Seq(S) /\ Len(rest) = Len(s) - n
    BY <2>0, WithinSpec
  <2>2. \A i \in 1..(Len(s) - n) : rest[i] = s[i + n]
    BY <2>0, WithinSpec
  <2> QED BY <2>1, <2>2
<1> HIDE DEF rest
<1>2. /\ chunk \in Seq(S) /\ Len(chunk) = (IF k <= Len(rest) THEN k ELSE Len(rest))
      /\ \A i \in 1..Len(chunk) : chunk[i] = rest[i]
      /\ Drop(rest, k) \in Seq(S) /\ Len(Drop(rest, k)) = (IF k <= Len(rest) THEN Len(rest) - k ELSE 0)
      /\ \A i \in 1..Len(Drop(rest, k)) : Drop(rest, k)[i] = rest[i + k]
  <2>0. rest \in Seq(S)
    BY <1>1
  <2>1. /\ chunk \in Seq(S) /\ Len(chunk) = (IF k <= Len(rest) THEN k ELSE Len(rest))
        /\ \A i \in 1..Len(chunk) : chunk[i] = rest[i]
    BY <2>0, TakeDropSpec
  <2>2. Drop(rest, k) \in Seq(S) /\ Len(Drop(rest, k)) = (IF k <= Len(rest) THEN Len(rest) - k ELSE 0)
    BY <2>0, TakeDropSpec
  <2>3. \A i \in 1..Len(Drop(rest, k)) : Drop(rest, k)[i] = rest[i + k]
    BY <2>0, TakeDropSpec
  <2> QED BY <2>1, <2>2, <2>3
<1> HIDE DEF chunk
<1>3. m \in 0..Len(s) /\ Len(s) \in Nat
  BY <1>7
<1>4. /\ Take(s, n) \in Seq(S) /\ Len(Take(s, n)) = n
      /\ \A i \in 1..n : Take(s, n)[i] = s[i]
      /\ Take(s, m) \in Seq(S) /\ Len(Take(s, m)) = m
      /\ \A i \in 1..m : Take(s, m)[i] = s[i]
      /\ Drop(s, m) \in Seq(S) /\ Len(Drop(s, m)) = Len(s) - m
      /\ \A i \in 1..(Len(s) - m) : Drop(s, m)[i] = s[i + m]
  <2>0. n <= Len(s) /\ m <= Len(s)
    BY <1>7
  <2>1. /\ Take(s, n) \in Seq(S) /\ Len(Take(s, n)) = n
        /\ \A i \in 1..n : Take(s, n)[i] = s[i]
    BY <2>0, WithinSpec
  <2>2. /\ Take(s, m) \in Seq(S) /\ Len(Take(s, m)) = m
        /\ \A i \in 1..m : Take(s, m)[i] = s[i]
        /\ Drop(s, m) \in Seq(S) /\ Len(Drop(s, m)) = Len(s) - m
        /\ \A i \in 1..(Len(s) - m) : Drop(s, m)[i] = s[i + m]
    BY <2>0, WithinSpec
  <2> QED BY <2>1, <2>2
<1>0. m = n + Len(chunk) /\ Len(chunk) \in Nat /\ Len(rest) \in Nat
  BY <1>1, <1>2, <1>7
<1>5. Take(s, m) = Take(s, n) \o chunk
  <2>1. /\ Take(s, n) \o chunk \in Seq(S) /\ Len(Take(s, n) \o chunk) = m
        /\ \A i \in 1..m : (Take(s, n) \o chunk)[i]
                             = IF i <= n THEN Take(s, n)[i] ELSE chunk[i - n]
    <3> DEFINE taken == Take(s, n)
    <3>0. taken \in Seq(S) /\ chunk \in Seq(S)
      BY <1>2, <1>4
    <3> HIDE DEF taken
    <3>1. /\ taken \o chunk \in Seq(S)
          /\ Len(taken \o chunk) = Len(taken) + Len(chunk)
          /\ \A i \in 1..(Len(taken) + Len(chunk)) : (taken \o chunk)[i]
               = IF i <= Len(taken) THEN taken[i] ELSE chunk[i - Len(taken)]
      BY <3>0, ConcatProperties
    <3>2. /\ Take(s, n) \o chunk \in Seq(S)
          /\ Len(Take(s, n) \o chunk) = Len(Take(s, n)) + Len(chunk)
          /\ \A i \in 1..(Len(Take(s, n)) + Len(chunk)) : (Take(s, n) \o chunk)[i]
               = IF i <= Len(Take(s, n)) THEN Take(s, n)[i] ELSE chunk[i - Len(Take(s, n))]
      BY <3>1 DEF taken
    <3> QED BY <3>2, <1>0, <1>4
  <2>2. ASSUME NEW i \in 1..m PROVE (Take(s, n) \o chunk)[i] = s[i]
    <3>1. CASE i <= n
      BY <3>1, <2>1, <1>4
    <3>2. CASE i > n
      <4>1. i - n \in 1..Len(chunk) /\ i - n \in 1..Len(rest) /\ (i - n) + n = i
        BY <3>2, <1>0, <1>2
      <4>2. (Take(s, n) \o chunk)[i] = chunk[i - n]
        BY <3>2, <2>1
      <4>3. chunk[i - n] = rest[i - n]
        BY <4>1, <1>2
      <4>4. rest[i - n] = s[(i - n) + n]
        BY <4>1, <1>1
      <4> QED BY <4>1, <4>2, <4>3, <4>4
    <3>3. i <= n \/ i > n
      BY <1>3
    <3> QED BY <3>1, <3>2, <3>3
  <2>3. \A i \in 1..m : Take(s, m)[i] = (Take(s, n) \o chunk)[i]
    BY <2>2, <1>4
  <2> QED BY <2>1, <2>3, <1>4, SeqEqual
<1>6. Drop(s, m) = Drop(rest, k)
  <2>1. Len(Drop(rest, k)) = Len(s) - m
    BY <1>0, <1>1, <1>2
  <2>2. ASSUME NEW i \in 1..(Len(s) - m) PROVE Drop(rest, k)[i] = Drop(s, m)[i]
    <3>1. Len(chunk) = k /\ i + k \in 1..Len(rest) /\ (i + k) + n = i + m
      BY <2>1, <1>0, <1>1, <1>2
    <3>2. /\ Drop(rest, k)[i] = rest[i + k]
          /\ rest[i + k] = s[(i + k) + n]
          /\ Drop(s, m)[i] = s[i + m]
      BY <3>1, <2>1, <1>1, <1>2, <1>4
    <3> QED BY <3>1, <3>2
  <2> QED BY <2>1, <2>2, <1>2, <1>4, SeqEqual
<1> QED BY <1>5, <1>6 DEF chunk, rest

\* Nothing, everything, and nothing left.
LEMMA TakeDropEnds ==
  ASSUME NEW S, NEW s \in Seq(S)
  PROVE  /\ Take(s, 0) = <<>> /\ Drop(s, 0) = s /\ Take(s, Len(s)) = s
         /\ \A n \in 0..Len(s) : Drop(s, n) = <<>> <=> n = Len(s)
<1>0. Len(s) \in Nat /\ <<>> \in Seq(S) /\ Len(<<>>) = 0
  OBVIOUS
<1>1. Take(s, 0) = <<>>
  <2>1. Take(s, 0) \in Seq(S) /\ Len(Take(s, 0)) = 0
    BY <1>0, TakeDropSpec
  <2> QED BY <2>1
<1>2. Drop(s, 0) = s
  <2>1. /\ Drop(s, 0) \in Seq(S) /\ Len(Drop(s, 0)) = Len(s)
        /\ \A i \in 1..Len(s) : Drop(s, 0)[i] = s[i + 0]
    <3>1. 0 \in Nat /\ 0 <= Len(s) /\ Len(s) - 0 = Len(s)
      BY <1>0
    <3> QED BY <3>1, TakeDropSpec
  <2>2. \A i \in 1..Len(s) : Drop(s, 0)[i] = s[i]
    BY <2>1
  <2> QED BY <2>1, <2>2, SeqEqual
<1>3. Take(s, Len(s)) = s
  <2>1. /\ Take(s, Len(s)) \in Seq(S) /\ Len(Take(s, Len(s))) = Len(s)
        /\ \A i \in 1..Len(s) : Take(s, Len(s))[i] = s[i]
    BY <1>0, TakeDropSpec
  <2> QED BY <2>1, SeqEqual
<1>4. ASSUME NEW n \in 0..Len(s) PROVE Drop(s, n) = <<>> <=> n = Len(s)
  <2>1. Drop(s, n) \in Seq(S) /\ Len(Drop(s, n)) = Len(s) - n
    BY <1>0, TakeDropSpec
  <2>2. Drop(s, n) = <<>> <=> Len(Drop(s, n)) = 0
    BY <2>1
  <2> QED BY <2>1, <2>2, <1>0
<1> QED BY <1>1, <1>2, <1>3, <1>4

-----------------------------------------------------------------------------
(* The upload                                                                *)

\* While the body arrives, the temporary file holds what was counted and the rest
\* is to come.
Writing ==
  upload = "writing" =>
    /\ size \in 0..Len(body) /\ size <= MaxSize
    /\ part = Take(body, size) /\ unsent = Drop(body, size)

StorageRight ==
  /\ StorageTypeOK
  /\ Writing
  /\ stored # NoFile <=> upload = "stored"
  /\ StoredWhole
  /\ part # NoFile => Len(part) <= MaxSize
  /\ size > MaxSize => Len(body) > MaxSize /\ upload = "failed"

\* The next chunk of the body, and where it leads.
LEMMA ChunkRight ==
  ASSUME StorageRight, upload = "writing"
  PROVE  /\ body \in Seq(Byte) /\ Len(body) \in Nat /\ size \in Nat
         /\ part \in Seq(Byte) /\ Len(part) = size
         /\ unsent = <<>> <=> size = Len(body)
         /\ Chunk \in Seq(Byte) /\ Len(Chunk) \in Nat
         /\ size + Len(Chunk) \in 0..Len(body)
         /\ Take(body, size + Len(Chunk)) = part \o Chunk
         /\ Drop(body, size + Len(Chunk)) = Drop(unsent, UploadChunk)
<1>1. /\ body \in Seq(Byte) /\ size \in 0..Len(body)
      /\ part = Take(body, size) /\ unsent = Drop(body, size)
  BY UploadsAssumption DEF StorageRight, StorageTypeOK, Writing
<1>2. Chunk = Take(Drop(body, size), UploadChunk) /\ UploadChunk \in Nat /\ Len(body) \in Nat
  BY <1>1, UploadChunkAssumption DEF Chunk
<1>3. /\ Chunk \in Seq(Byte) /\ size + Len(Chunk) \in 0..Len(body)
      /\ Take(body, size + Len(Chunk)) = part \o Chunk
      /\ Drop(body, size + Len(Chunk)) = Drop(unsent, UploadChunk)
  <2>1. /\ unsent \in Seq(Byte) /\ Len(unsent) = Len(body) - size
        /\ Chunk \in Seq(Byte)
        /\ Len(Chunk) = (IF UploadChunk <= Len(unsent) THEN UploadChunk ELSE Len(unsent))
    BY <1>1, <1>2, TakeDropSpec
  <2>2. PICK m \in Nat : m = size + Len(Chunk)
    BY <2>1, <1>1, <1>2
  <2>3. size <= m /\ m <= Len(body)
        /\ (m = size + UploadChunk \/ (m = Len(body) /\ m <= size + UploadChunk))
    BY <2>1, <2>2, <1>1, <1>2
  <2>4. Take(body, m) = Take(body, size) \o Chunk /\ Drop(body, m) = Drop(unsent, UploadChunk)
    <3>1. /\ body \in Seq(Byte) /\ size \in Nat /\ UploadChunk \in Nat
          /\ Chunk = Take(Drop(body, size), UploadChunk) /\ unsent = Drop(body, size)
      BY <1>1, <1>2
    <3>2. Leads(body, size, UploadChunk, m)
      BY <2>3 DEF Leads
    <3>3. /\ Take(body, m) = Take(body, size) \o Take(Drop(body, size), UploadChunk)
          /\ Drop(body, m) = Drop(Drop(body, size), UploadChunk)
      <4>1. body \in Seq(Byte) /\ size \in Nat /\ UploadChunk \in Nat
        BY <3>1
      <4> QED BY <4>1, <3>2, NextChunk
    <3> QED BY <3>1, <3>3
  <2> QED BY <2>1, <2>2, <2>3, <2>4, <1>1
<1>4. unsent = <<>> <=> size = Len(body)
  BY <1>1, TakeDropEnds
<1>5. part \in Seq(Byte) /\ Len(part) = size
  BY <1>1, <1>2, TakeDropSpec
<1> QED BY <1>1, <1>2, <1>3, <1>4, <1>5

LEMMA StorageInitial == Init => StorageRight
<1> USE MaxSizeAssumption, NoFileAssumption
<1> SUFFICES ASSUME Init PROVE StorageRight
  OBVIOUS
<1>1. /\ <<body, name>> \in Uploads /\ body \in Seq(Byte)
      /\ unsent = body /\ part = <<>> /\ size = 0 /\ stored = NoFile /\ upload = "writing"
  <2>1. PICK u \in Uploads : body = u[1] /\ name = u[2]
    BY DEF Init, StorageInit
  <2>2. u \in Seq(Byte) \X Seq({"/", ".", "x"})
    BY <2>1, UploadsAssumption
  <2> QED BY <2>1, <2>2 DEF Init, StorageInit
<1>2. Take(body, 0) = <<>> /\ Drop(body, 0) = body /\ Len(body) \in Nat
  BY <1>1, TakeDropEnds
<1> QED BY <1>1, <1>2 DEF StorageRight, StorageTypeOK, Writing, StoredWhole

LEMMA StorageStep == StorageRight /\ [Next]_vars => StorageRight'
<1> USE MaxSizeAssumption, NoFileAssumption
<1> SUFFICES ASSUME StorageRight, [Next]_vars PROVE StorageRight'
  OBVIOUS
<1> USE DEF StorageRight
<1>0. StorageTypeOK /\ Len(body) \in Nat
  BY UploadsAssumption DEF StorageTypeOK
<1>1. CASE UNCHANGED storageVars
  BY <1>1 DEF storageVars, StorageTypeOK, Writing, StoredWhole
<1>2. CASE WriteChunk
  <2>1. /\ upload = "writing" /\ upload' = upload /\ stored = NoFile
        /\ size' = size + Len(Chunk) /\ part' = part \o Chunk
        /\ unsent' = Drop(unsent, UploadChunk) /\ UNCHANGED <<body, name, stored>>
        /\ ~TooLarge(size + Len(Chunk))
    BY <1>2 DEF WriteChunk
  <2>2. /\ size' \in 0..Len(body) /\ size' <= MaxSize
        /\ part' = Take(body, size') /\ unsent' = Drop(body, size')
    BY <2>1, ChunkRight DEF TooLarge
  <2>3. /\ part' \in Seq(Byte) /\ unsent' \in Seq(Byte) /\ Len(part') = size' /\ size' \in Nat
    BY <2>2, <2>1, ChunkRight, TakeDropSpec
  <2> QED BY <2>1, <2>2, <2>3, <1>0 DEF StorageTypeOK, Writing, StoredWhole
<1>3. CASE RejectLarge
  <2>1. /\ upload = "writing" /\ upload' = "failed" /\ stored = NoFile /\ part' = NoFile
        /\ size' = size + Len(Chunk) /\ UNCHANGED <<body, name, unsent, stored>>
    BY <1>3 DEF RejectLarge, Abort
  <2>2. size' \in Nat /\ size' <= Len(body)
    BY <2>1, ChunkRight
  <2> QED BY <2>1, <2>2, <1>0 DEF StorageTypeOK, Writing, StoredWhole
<1>4. CASE StreamFails \/ RejectEmpty
  <2>1. /\ upload = "writing" /\ upload' = "failed" /\ stored = NoFile /\ part' = NoFile
        /\ UNCHANGED <<body, name, unsent, stored, size>>
    BY <1>4 DEF StreamFails, RejectEmpty, Abort
  <2>2. size \in Nat /\ size <= MaxSize
    BY <2>1, <1>0 DEF Writing
  <2> QED BY <2>1, <2>2, <1>0 DEF StorageTypeOK, Writing, StoredWhole
<1>5. CASE Commit
  <2>1. /\ upload = "writing" /\ upload' = "stored" /\ unsent = <<>> /\ part' = NoFile
        /\ stored' = part /\ UNCHANGED <<body, name, unsent, size>>
    BY <1>5 DEF Commit
  <2>2. size = Len(body) /\ part = body
    BY <2>1, ChunkRight, TakeDropEnds DEF Writing
  <2>3. body \in Seq(Byte) /\ size <= MaxSize
    BY <2>1, ChunkRight DEF Writing
  <2> QED BY <2>1, <2>2, <2>3, <1>0 DEF StorageTypeOK, Writing, StoredWhole
<1>6. CASE CommitFails
  <2>1. /\ upload = "writing" /\ upload' = "failed" /\ stored = NoFile
        /\ UNCHANGED <<body, name, unsent, part, stored, size>>
    BY <1>6 DEF CommitFails
  <2>2. size <= MaxSize
    BY <2>1 DEF Writing
  <2> QED BY <2>1, <2>2, <1>0 DEF StorageTypeOK, Writing, StoredWhole
<1> QED BY <1>1, <1>2, <1>3, <1>4, <1>5, <1>6 DEF Next, StorageNext, vars

LEMMA StorageInvariant == Spec => []StorageRight
BY StorageInitial, StorageStep, PTL DEF Spec

\* Whatever the body, the chunks and the moment at which something fails: a file
\* under its final name is the whole upload with its recorded size.
THEOREM UploadsStoredWhole == Spec => []StoredWhole
<1>1. StorageRight => StoredWhole
  BY DEF StorageRight
<1> QED BY <1>1, StorageInvariant, PTL

\* The size limit is met to the byte, wherever it falls in a chunk.
THEOREM LimitAlwaysExact == Spec => []LimitExact
<1>1. StorageRight => LimitExact
  <2> SUFFICES ASSUME StorageRight PROVE LimitExact
    OBVIOUS
  <2>1. ASSUME upload = "writing", TooLarge(size + Len(Chunk)) PROVE Len(body) > MaxSize
    BY <2>1, ChunkRight, MaxSizeAssumption DEF TooLarge
  <2> QED BY <2>1 DEF StorageRight, LimitExact
<1> QED BY <1>1, StorageInvariant, PTL

-----------------------------------------------------------------------------
(* Names                                                                     *)

\* A set of numbers up to n has a largest one: the largest x has the smallest
\* interval above it.
LEMMA LargestOf ==
  ASSUME NEW n \in Nat, NEW S \in SUBSET (1..n), S # {}
  PROVE  Max(S) \in S /\ \A x \in S : x <= Max(S)
<1> DEFINE U == 1..n
           Above(x) == (x + 1)..n
           T == {Above(x) : x \in S}
           R == StrictSubsetOrdering(U)
<1>1. IsFiniteSet(U)
  BY FS_Interval
<1>2. IsWellFoundedOn(R, FiniteSubsetsOf(U)) /\ FiniteSubsetsOf(U) = SUBSET U
  BY <1>1, FS_StrictSubsetOrderingWellFounded, FS_FiniteSubsetsOfFinite
<1>3. T \subseteq SUBSET U /\ T # {}
  <2>1. ASSUME NEW x \in S PROVE Above(x) \in SUBSET U
    OBVIOUS
  <2> HIDE DEF Above, U
  <2> QED BY <2>1
<1>4. PICK A \in T : \A B \in T : <<B, A>> \notin R
  <2> HIDE DEF R, T, U
  <2> QED BY <1>2, <1>3, WFMin
<1>5. PICK x \in S : A = Above(x)
  BY <1>4
<1>6. ASSUME NEW y \in S PROVE y <= x
  <2> SUFFICES ASSUME y > x PROVE FALSE
    OBVIOUS
  <2>1. Above(y) \subseteq Above(x) /\ y \in Above(x) /\ y \notin Above(y)
    OBVIOUS
  <2>2. <<Above(y), A>> \in R
    <3>1. Above(y) \in SUBSET U /\ A \in SUBSET U /\ Above(y) \subseteq A /\ Above(y) # A
      BY <1>3, <1>5, <2>1
    <3> HIDE DEF Above, U
    <3> QED BY <3>1 DEF StrictSubsetOrdering
  <2> QED BY <2>2, <1>4
<1>7. x \in S /\ \A y \in S : x >= y
  BY <1>6
<1>8. Max(S) \in S /\ \A y \in S : Max(S) >= y
  BY <1>7 DEF Max
<1> QED BY <1>8

Symbol == {"/", ".", "x"}

\* The last component of a path has no separator in it.
LEMMA PathNameType ==
  ASSUME NEW path \in Seq(Symbol)
  PROVE  /\ PathName(path) \in Seq(Symbol)
         /\ \A i \in 1..Len(PathName(path)) : PathName(path)[i] # "/"
<1> DEFINE C == Components(path)
           last == CHOOSE c \in C : \A d \in C : d[2] <= c[2]
<1>1. CASE C = {}
  <2>1. PathName(path) = <<>>
    BY <1>1 DEF PathName
  <2> QED BY <2>1
<1>2. CASE C # {}
  <2>1. PathName(path) = SubSeq(path, last[1], last[2])
    BY <1>2 DEF PathName
  <2>2. \A c \in C : /\ c[1] \in 1..Len(path) /\ c[2] \in 1..Len(path) /\ c[1] <= c[2]
                     /\ \A k \in c[1]..c[2] : path[k] # "/"
    BY DEF Components
  <2> DEFINE ends == {c[2] : c \in C}
  <2> HIDE DEF C
  <2>3. ends \in SUBSET (1..Len(path)) /\ ends # {} /\ Len(path) \in Nat
    BY <1>2, <2>2
  <2>4. PICK c \in C : c[2] = Max(ends) /\ \A e \in ends : e <= Max(ends)
    <3> HIDE DEF ends
    <3>1. Max(ends) \in ends /\ \A e \in ends : e <= Max(ends)
      BY <2>3, LargestOf
    <3> QED BY <3>1 DEF ends
  <2>5. last \in C
    BY <2>4
  <2> HIDE DEF last
  <2> DEFINE i == last[1]
             j == last[2]
  <2>6. /\ i \in 1..Len(path) /\ j \in 1..Len(path) /\ i <= j
        /\ \A k \in i..j : path[k] # "/"
    BY <2>2, <2>5
  <2> HIDE DEF i, j
  <2>7. \A k \in i..j : path[k] \in Symbol
    BY <2>6
  <2>8. /\ SubSeq(path, i, j) \in Seq(Symbol)
        /\ Len(SubSeq(path, i, j)) = j - i + 1
        /\ \A k \in 1..(j - i + 1) : SubSeq(path, i, j)[k] = path[i + k - 1]
    BY <2>6, <2>7, SubSeqProperties
  <2>9. \A k \in 1..(j - i + 1) : i + k - 1 \in i..j
    BY <2>6
  <2> QED BY <2>1, <2>6, <2>8, <2>9 DEF i, j
<1> QED BY <1>1, <1>2

\* A suffix is empty, or a dot and what no dot follows.
LEMMA SuffixType ==
  ASSUME NEW n \in Seq(Symbol), NEW s, s = Suffix(n), s # <<>>
  PROVE  /\ s \in Seq(Symbol) /\ Len(s) > 0 /\ s[1] = "."
         /\ \A i \in 2..Len(s) : s[i] # "."
         /\ \A i \in 1..Len(s) : \E k \in 1..Len(n) : s[i] = n[k]
<1> DEFINE dots == {i \in DOMAIN n : n[i] = "." /\ \E k \in 1..i : n[k] # "."}
           m == Max(dots)
<1>0. Len(n) \in Nat /\ DOMAIN n = 1..Len(n)
  OBVIOUS
<1>1. dots # {} /\ s = SubSeq(n, m, Len(n))
  BY DEF Suffix
<1>2. dots \in SUBSET (1..Len(n))
  BY <1>0
<1>3. m \in dots /\ \A i \in dots : i <= m
  <2> HIDE DEF dots
  <2> QED BY <1>0, <1>1, <1>2, LargestOf
<1>4. PICK k \in 1..m : n[k] # "."
  BY <1>3
<1>5. /\ m \in 1..Len(n) /\ n[m] = "."
  BY <1>3, <1>0
<1>6. ASSUME NEW i \in 1..Len(n), i > m PROVE n[i] # "."
  <2>1. k \in 1..i
    BY <1>5, <1>6
  <2>2. n[i] = "." => i \in dots
    BY <2>1, <1>4, <1>0
  <2>3. i \in dots => i <= m
    BY <1>3
  <2> HIDE DEF m, dots
  <2> QED BY <2>2, <2>3, <1>5, <1>6
<1> HIDE DEF m
<1>7. \A i \in m..Len(n) : n[i] \in Symbol
  BY <1>5
<1>8. /\ s \in Seq(Symbol) /\ Len(s) = Len(n) - m + 1
      /\ \A i \in 1..(Len(n) - m + 1) : s[i] = n[m + i - 1]
  <2>1. m \in Int /\ Len(n) \in Int /\ m <= Len(n)
    BY <1>5
  <2>2. /\ SubSeq(n, m, Len(n)) \in Seq(Symbol)
        /\ Len(SubSeq(n, m, Len(n))) = Len(n) - m + 1
        /\ \A i \in 1..(Len(n) - m + 1) : SubSeq(n, m, Len(n))[i] = n[m + i - 1]
    BY <2>1, <1>7, SubSeqProperties
  <2> QED BY <2>2, <1>1
<1>9. ASSUME NEW i \in 1..Len(s)
      PROVE  m + i - 1 \in 1..Len(n) /\ s[i] = n[m + i - 1] /\ (i > 1 => s[i] # ".")
  <2>1. m + i - 1 \in 1..Len(n) /\ (i > 1 => m + i - 1 > m)
    BY <1>5, <1>8, <1>9
  <2>2. s[i] = n[m + i - 1]
    BY <1>8, <1>9
  <2> QED BY <2>1, <2>2, <1>6
<1>10. s[1] = "."
  <2>1. s[1] = n[m + 1 - 1] /\ m + 1 - 1 = m
    BY <1>5, <1>8
  <2> QED BY <2>1, <1>5
<1> QED BY <1>5, <1>8, <1>9, <1>10

\* A name without a separator is its own last component.
LEMMA PlainName ==
  ASSUME NEW n \in Seq(Symbol), n # <<>>, n # <<".">>, \A i \in 1..Len(n) : n[i] # "/"
  PROVE  PathName(n) = n
<1>0. Len(n) \in Nat /\ Len(n) > 0 /\ DOMAIN n = 1..Len(n) /\ SubSeq(n, 1, Len(n)) = n
  BY SubSeqFull
<1>1. ASSUME NEW c \in Components(n) PROVE c = <<1, Len(n)>>
  <2>1. /\ c \in (1..Len(n)) \X (1..Len(n))
        /\ c[1] > 1 => n[c[1] - 1] = "/"
        /\ c[2] < Len(n) => n[c[2] + 1] = "/"
    BY <1>0 DEF Components
  <2>2. c[1] = 1
    <3> SUFFICES ASSUME c[1] > 1 PROVE FALSE
      BY <2>1
    <3>1. c[1] - 1 \in 1..Len(n)
      BY <2>1
    <3> QED BY <3>1, <2>1
  <2>3. c[2] = Len(n)
    <3> SUFFICES ASSUME c[2] < Len(n) PROVE FALSE
      BY <2>1, <1>0
    <3>1. c[2] + 1 \in 1..Len(n)
      BY <2>1
    <3> QED BY <3>1, <2>1
  <2> QED BY <2>1, <2>2, <2>3
<1>2. <<1, Len(n)>> \in Components(n)
  <2> DEFINE c == <<1, Len(n)>>
  <2>1. c \in (DOMAIN n) \X (DOMAIN n) /\ c[1] = 1 /\ c[2] = Len(n)
    BY <1>0
  <2> HIDE DEF c
  <2>2. c[1] <= c[2] /\ ~(c[1] > 1) /\ ~(c[2] < Len(n))
    BY <2>1, <1>0
  <2>3. \A k \in c[1]..c[2] : n[k] # "/"
    BY <2>1
  <2>4. SubSeq(n, c[1], c[2]) # <<".">>
    BY <2>1, <1>0
  <2>5. c \in Components(n)
    BY <2>1, <2>2, <2>3, <2>4 DEF Components
  <2> QED BY <2>5 DEF c
<1>3. Components(n) = {<<1, Len(n)>>}
  BY <1>1, <1>2
<1>4. PathName(n) = SubSeq(n, 1, Len(n))
  <2> DEFINE last == CHOOSE c \in Components(n) : \A d \in Components(n) : d[2] <= c[2]
  <2>1. last = <<1, Len(n)>>
    BY <1>0, <1>3
  <2>2. PathName(n) = SubSeq(n, last[1], last[2])
    BY <1>3 DEF PathName
  <2> HIDE DEF last
  <2>3. last[1] = 1 /\ last[2] = Len(n)
    BY <2>1
  <2> QED BY <2>2, <2>3
<1> QED BY <1>0, <1>4

\* The name a file is stored under is plain and has the suffix of the client's.
LEMMA StoredNameRight ==
  ASSUME NEW original \in Seq(Symbol)
  PROVE  /\ Resolves(StoredName(original))
         /\ Suffix(StoredName(original)) = Suffix(PathName(original))
<1> DEFINE s == Suffix(PathName(original))
           n == StoredName(original)
<1>1. /\ PathName(original) \in Seq(Symbol)
      /\ \A i \in 1..Len(PathName(original)) : PathName(original)[i] # "/"
  BY PathNameType
<1>2. n = <<"x">> \o s
  BY DEF StoredName
<1>3. CASE s = <<>>
  <2>1. n = <<"x">>
    BY <1>2, <1>3
  <2> HIDE DEF n
  <2>2. /\ n \in Seq(Symbol) /\ Len(n) = 1 /\ n[1] = "x" /\ DOMAIN n = {1} /\ n # <<>>
    BY <2>1 DEF Symbol
  <2>3. PathName(n) = n
    BY <2>2, PlainName
  <2>4. {i \in DOMAIN n : n[i] = "." /\ \E k \in 1..i : n[k] # "."} = {}
    BY <2>2
  <2>5. Suffix(n) = <<>>
    BY <2>4 DEF Suffix
  <2> QED BY <2>2, <2>3, <2>5, <1>3 DEF Resolves, n
<1>4. CASE s # <<>>
  <2>1. /\ s \in Seq(Symbol) /\ Len(s) > 0 /\ s[1] = "."
        /\ \A i \in 2..Len(s) : s[i] # "."
        /\ \A i \in 1..Len(s) : s[i] # "/"
    <3>1. PICK t : t = s
      OBVIOUS
    <3> HIDE DEF s
    <3>2. t = Suffix(PathName(original)) /\ t # <<>>
      BY <3>1, <1>4 DEF s
    <3>3. /\ t \in Seq(Symbol) /\ Len(t) > 0 /\ t[1] = "." /\ \A i \in 2..Len(t) : t[i] # "."
          /\ \A i \in 1..Len(t) : \E k \in 1..Len(PathName(original)) : t[i] = PathName(original)[k]
      BY <3>2, <1>1, SuffixType
    <3>4. \A i \in 1..Len(t) : t[i] # "/"
      BY <3>3, <1>1
    <3> QED BY <3>1, <3>3, <3>4
  <2> HIDE DEF s, n
  <2>2. <<"x">> \in Seq(Symbol) /\ Len(<<"x">>) = 1 /\ <<"x">>[1] = "x"
    BY DEF Symbol
  <2>3. /\ n \in Seq(Symbol) /\ Len(n) = 1 + Len(s) /\ n[1] = "x"
        /\ \A i \in 1..Len(s) : n[i + 1] = s[i]
    <3>1. /\ n \in Seq(Symbol) /\ Len(n) = Len(<<"x">>) + Len(s)
          /\ \A i \in 1..(Len(<<"x">>) + Len(s)) :
               n[i] = IF i <= Len(<<"x">>) THEN <<"x">>[i] ELSE s[i - Len(<<"x">>)]
      <4> DEFINE x == <<"x">>
      <4>1. x \in Seq(Symbol) /\ s \in Seq(Symbol) /\ n = x \o s
        BY <1>2, <2>1, <2>2
      <4> HIDE DEF x
      <4>2. /\ n \in Seq(Symbol) /\ Len(n) = Len(x) + Len(s)
            /\ \A i \in 1..(Len(x) + Len(s)) : n[i] = IF i <= Len(x) THEN x[i] ELSE s[i - Len(x)]
        BY <4>1, ConcatProperties
      <4> QED BY <4>2 DEF x
    <3>2. \A i \in 1..(1 + Len(s)) : n[i] = IF i <= 1 THEN "x" ELSE s[i - 1]
      BY <3>1, <2>2
    <3>3. \A i \in 1..Len(s) : i + 1 \in 1..(1 + Len(s)) /\ ~(i + 1 <= 1) /\ (i + 1) - 1 = i
      BY <2>1
    <3> QED BY <3>1, <3>2, <3>3, <2>1, <2>2
  <2>4. /\ Len(n) \in Nat /\ Len(n) > 1 /\ DOMAIN n = 1..Len(n)
        /\ \A i \in 2..Len(n) : i - 1 \in 1..Len(s) /\ n[i] = s[i - 1]
    <3>1. Len(s) \in Nat /\ Len(n) = 1 + Len(s)
      BY <2>1, <2>3
    <3>2. ASSUME NEW i \in 2..Len(n) PROVE i - 1 \in 1..Len(s) /\ n[i] = s[i - 1]
      <4>1. i - 1 \in 1..Len(s) /\ (i - 1) + 1 = i
        BY <3>1, <3>2
      <4>2. n[(i - 1) + 1] = s[i - 1]
        BY <4>1, <2>3
      <4> QED BY <4>1, <4>2
    <3> QED BY <3>1, <3>2, <2>1, <2>3
  <2>5. \A i \in 1..Len(n) : n[i] # "/" /\ (n[i] = "." <=> i = 2)
    <3> SUFFICES ASSUME NEW i \in 1..Len(n)
                 PROVE  n[i] # "/" /\ (n[i] = "." <=> i = 2)
      OBVIOUS
    <3>1. CASE i = 1
      BY <3>1, <2>3
    <3>2. CASE i = 2
      <4>1. n[2] = s[2 - 1] /\ 2 - 1 = 1
        BY <2>4, <3>2
      <4> QED BY <4>1, <3>2, <2>1
    <3>3. CASE i > 2
      <4>1. i - 1 \in 2..Len(s) /\ n[i] = s[i - 1]
        BY <2>4, <3>3
      <4> QED BY <4>1, <3>3, <2>1
    <3> QED BY <3>1, <3>2, <3>3, <2>4
  <2>6. PathName(n) = n
    <3>1. n # <<>> /\ n # <<".">>
      <4>1. Len(<<>>) = 0 /\ <<".">>[1] = "."
        OBVIOUS
      <4>2. n[1] = "x" /\ Len(n) # 0
        BY <2>3, <2>4
      <4> QED BY <4>1, <4>2
    <3> QED BY <3>1, <2>3, <2>5, PlainName
  <2>7. {i \in DOMAIN n : n[i] = "." /\ \E k \in 1..i : n[k] # "."} = {2}
    <3>1. 1 \in 1..2 /\ n[1] # "." /\ 2 \in 1..Len(n)
      BY <2>3, <2>4
    <3> QED BY <3>1, <2>4, <2>5
  <2>8. Max({2}) = 2
    BY DEF Max
  <2>9. Suffix(n) = SubSeq(n, 2, Len(n))
    BY <2>7, <2>8 DEF Suffix
  <2>10. SubSeq(n, 2, Len(n)) = s
    <3>1. /\ SubSeq(n, 2, Len(n)) \in Seq(Symbol) /\ Len(SubSeq(n, 2, Len(n))) = Len(s)
          /\ \A i \in 1..Len(s) : SubSeq(n, 2, Len(n))[i] = n[i + 1]
      <4>1. \A i \in 2..Len(n) : n[i] \in Symbol
        BY <2>3, <2>4
      <4>2. /\ SubSeq(n, 2, Len(n)) \in Seq(Symbol)
            /\ Len(SubSeq(n, 2, Len(n))) = Len(n) - 2 + 1
            /\ \A i \in 1..(Len(n) - 2 + 1) : SubSeq(n, 2, Len(n))[i] = n[2 + i - 1]
        <5>1. 2 \in Int /\ Len(n) \in Int /\ 2 <= Len(n)
          BY <2>4
        <5> QED BY <5>1, <4>1, SubSeqProperties
      <4>3. Len(n) - 2 + 1 = Len(s) /\ \A i \in 1..Len(s) : 2 + i - 1 = i + 1
        BY <2>1, <2>3
      <4> QED BY <4>2, <4>3
    <3>2. \A i \in 1..Len(s) : SubSeq(n, 2, Len(n))[i] = s[i]
      BY <3>1, <2>3
    <3> QED BY <3>1, <3>2, <2>1, SeqEqual
  <2>11. n # <<>> /\ Suffix(n) = s
    BY <2>4, <2>9, <2>10
  <2> QED BY <2>6, <2>11 DEF Resolves, n, s
<1> QED BY <1>3, <1>4

\* Whatever the client calls its file, of any length and with dots and separators
\* anywhere: the stored name resolves and keeps the suffix.
THEOREM NamesAlwaysAgree == Spec => []NamesAgree
<1>1. StorageRight => NamesAgree
  <2> SUFFICES ASSUME StorageRight PROVE NamesAgree
    OBVIOUS
  <2>1. name \in Seq(Symbol)
    <3>1. <<body, name>> \in Seq(Byte) \X Seq({"/", ".", "x"})
      BY UploadsAssumption DEF StorageRight, StorageTypeOK
    <3> QED BY <3>1 DEF Symbol
  <2> QED BY <2>1, StoredNameRight DEF NamesAgree
<1> QED BY <1>1, StorageInvariant, PTL

-----------------------------------------------------------------------------
(* Data in parts: what is counted up to here and what the next chunk adds    *)

\* The next chunk has been read: before is what had been read until then, after is
\* what has been read now, and data, what the counter looks at, is after without
\* its first d bytes.  The first n bytes of data had been read before.
Continued(before, after, data, n, d) ==
  /\ before \in Seq(Byte) /\ after \in Seq(Byte) /\ data \in Seq(Byte)
  /\ n \in Nat /\ d \in Nat
  /\ Len(before) = n + d /\ Len(after) = Len(data) + d /\ n < Len(data)
  /\ \A i \in 1..(n + d) : after[i] = before[i]
  /\ \A i \in 1..Len(data) : data[i] = after[i + d]

LEMMA ContinuedByChunk ==
  ASSUME NEW before \in Seq(Byte), NEW kept \in Seq(Byte), NEW chunk \in Seq(Byte),
         chunk # <<>>, NEW d \in Nat, Len(before) = Len(kept) + d,
         \A i \in 1..Len(kept) : kept[i] = before[i + d]
  PROVE  Continued(before, before \o chunk, kept \o chunk, Len(kept), d)
<1> DEFINE after == before \o chunk
           data == kept \o chunk
<1>1. /\ after \in Seq(Byte) /\ Len(after) = Len(before) + Len(chunk)
      /\ \A i \in 1..(Len(before) + Len(chunk)) :
           after[i] = IF i <= Len(before) THEN before[i] ELSE chunk[i - Len(before)]
  BY ConcatProperties
<1>2. /\ data \in Seq(Byte) /\ Len(data) = Len(kept) + Len(chunk)
      /\ \A i \in 1..(Len(kept) + Len(chunk)) :
           data[i] = IF i <= Len(kept) THEN kept[i] ELSE chunk[i - Len(kept)]
  BY ConcatProperties
<1>3. Len(chunk) \in Nat /\ Len(chunk) > 0 /\ Len(kept) \in Nat
  OBVIOUS
<1> HIDE DEF after, data
<1>4. \A i \in 1..(Len(kept) + d) : after[i] = before[i]
  BY <1>1, <1>3
<1>5. ASSUME NEW i \in 1..Len(data) PROVE data[i] = after[i + d]
  <2>1. i + d \in 1..(Len(before) + Len(chunk))
    BY <1>2, <1>3
  <2>2. CASE i <= Len(kept)
    <3>1. data[i] = kept[i] /\ after[i + d] = before[i + d] /\ i \in 1..Len(kept)
      BY <2>1, <2>2, <1>1, <1>2, <1>3
    <3> QED BY <3>1
  <2>3. CASE i > Len(kept)
    <3>1. (i + d) - Len(before) = i - Len(kept) /\ ~(i + d <= Len(before))
      BY <2>3, <1>3
    <3>2. after[i + d] = chunk[(i + d) - Len(before)] /\ data[i] = chunk[i - Len(kept)]
      BY <3>1, <2>1, <2>3, <1>1, <1>2, <1>3
    <3> QED BY <3>1, <3>2
  <2> QED BY <2>2, <2>3, <1>3
<1>6. Len(after) = Len(data) + d /\ Len(kept) < Len(data)
  BY <1>1, <1>2, <1>3
<1> QED BY <1>1, <1>2, <1>3, <1>4, <1>5, <1>6 DEF Continued, after, data

\* C is A and, apart from it, B moved by d.
InParts(A, B, C, d) ==
  /\ A \subseteq C
  /\ \A i \in B : i + d \in C /\ i + d \notin A
  /\ \A j \in C : j \notin A => j - d \in B

\* Then there are as many in C as in A and B.
Adds(A, B, C) ==
  /\ Cardinality(A) \in Nat /\ Cardinality(B) \in Nat
  /\ Cardinality(C) = Cardinality(A) + Cardinality(B)

\* Positions counted before and positions added, moved by d, are all there are.
LEMMA CountInParts ==
  ASSUME NEW n \in Nat, NEW d \in Nat,
         NEW A \in SUBSET (1..n), NEW B \in SUBSET (1..n), NEW C \in SUBSET (1..n),
         InParts(A, B, C, d)
  PROVE  Adds(A, B, C)
<1> USE DEF InParts
<1> DEFINE F == C \ A
           f == [i \in B |-> i + d]
<1>1. IsFiniteSet(A) /\ IsFiniteSet(B) /\ IsFiniteSet(C) /\ IsFiniteSet(F)
  <2>1. IsFiniteSet(1..n)
    BY FS_Interval
  <2> QED BY <2>1, FS_Subset
<1>2. f \in Bijection(B, F)
  <2>1. f \in [B -> F]
    OBVIOUS
  <2>2. \A i, k \in B : f[i] = f[k] => i = k
    OBVIOUS
  <2>3. ASSUME NEW j \in F PROVE \E i \in B : f[i] = j
    <3>1. j - d \in B /\ (j - d) + d = j
      OBVIOUS
    <3>2. f[j - d] = j
      BY <3>1
    <3> QED BY <3>1, <3>2
  <2> HIDE DEF f, F
  <2> QED BY <2>1, <2>2, <2>3 DEF Bijection, Injection, Surjection, IsInjective
<1>3. Cardinality(F) = Cardinality(B)
  BY <1>1, <1>2, FS_Bijection DEF ExistsBijection
<1>4. Cardinality(F) = Cardinality(C) - Cardinality(C \cap A) /\ C \cap A = A
  BY <1>1, FS_Difference
<1>5. Cardinality(A) \in Nat /\ Cardinality(B) \in Nat /\ Cardinality(C) \in Nat
  BY <1>1, FS_CardinalityType
<1> QED BY <1>3, <1>4, <1>5 DEF Adds

-----------------------------------------------------------------------------
(* The counters                                                              *)

\* What it means that the token occurs at a position.
TokenAt(s, i) == \A k \in 1..Len(Token) : s[i + k - 1] = Token[k]

LEMMA OccurrenceAt ==
  ASSUME NEW s \in Seq(Byte), NEW i
  PROVE  i \in Occurrences(s) <=> (i \in 1..(Len(s) - Len(Token) + 1) /\ TokenAt(s, i))
<1>0. Token \in Seq(Byte) /\ Len(Token) \in Nat /\ Len(Token) > 0 /\ Len(s) \in Nat
  BY TokenAssumption
<1>1. ASSUME i \in 1..(Len(s) - Len(Token) + 1)
      PROVE  (SubSeq(s, i, i + Len(Token) - 1) = Token) <=>
               (\A k \in 1..Len(Token) : s[i + k - 1] = Token[k])
  <2> DEFINE j == i + Len(Token) - 1
             t == SubSeq(s, i, j)
  <2>1. i \in Int /\ j \in Int /\ i <= j /\ j <= Len(s) /\ j - i + 1 = Len(Token)
        /\ \A k \in i..j : s[k] \in Byte
    BY <1>0, <1>1
  <2> HIDE DEF j
  <2>2. /\ t \in Seq(Byte) /\ Len(t) = j - i + 1
        /\ \A k \in 1..(j - i + 1) : t[k] = s[i + k - 1]
    BY <2>1, SubSeqProperties
  <2> HIDE DEF t
  <2>3. Len(t) = Len(Token) /\ \A k \in 1..Len(Token) : t[k] = s[i + k - 1]
    BY <2>1, <2>2
  <2>4. ASSUME \A k \in 1..Len(Token) : s[i + k - 1] = Token[k] PROVE t = Token
    BY <2>2, <2>3, <2>4, <1>0, SeqEqual
  <2>5. (t = Token) <=> (\A k \in 1..Len(Token) : s[i + k - 1] = Token[k])
    BY <2>3, <2>4
  <2> QED BY <2>5 DEF t, j
<1> QED BY <1>1 DEF Occurrences, TokenAt

\* Tokens: what has been carried over is too short for one, and nothing before it
\* belongs to one that has not been counted.
LEMMA OccurrencesAdd ==
  ASSUME NEW before, NEW after, NEW data, NEW n, NEW d,
         Continued(before, after, data, n, d),
         n <= TailLength, n < TailLength => d = 0
  PROVE  Adds(Occurrences(before), Occurrences(data), Occurrences(after))
<1> DEFINE A == Occurrences(before)
           B == Occurrences(data)
           C == Occurrences(after)
           L == Len(Token)
<1>0. /\ before \in Seq(Byte) /\ after \in Seq(Byte) /\ data \in Seq(Byte)
      /\ n \in Nat /\ d \in Nat
      /\ Len(before) = n + d /\ Len(after) = Len(data) + d /\ n < Len(data)
      /\ \A i \in 1..(n + d) : after[i] = before[i]
      /\ \A i \in 1..Len(data) : data[i] = after[i + d]
  BY DEF Continued
<1>1. L \in Nat /\ L > 0 /\ n <= L - 1 /\ (n < L - 1 => d = 0) /\ Len(data) \in Nat
  BY <1>0, TokenAssumption DEF TailLength
<1>2. \A i : /\ i \in A <=> (i \in 1..(n + d - L + 1) /\ TokenAt(before, i))
             /\ i \in B <=> (i \in 1..(Len(data) - L + 1) /\ TokenAt(data, i))
             /\ i \in C <=> (i \in 1..(Len(data) + d - L + 1) /\ TokenAt(after, i))
  <2> TAKE i
  <2>1. before \in Seq(Byte) /\ after \in Seq(Byte) /\ data \in Seq(Byte)
    BY <1>0
  <2>2. /\ i \in A <=> (i \in 1..(Len(before) - L + 1) /\ TokenAt(before, i))
        /\ i \in B <=> (i \in 1..(Len(data) - L + 1) /\ TokenAt(data, i))
        /\ i \in C <=> (i \in 1..(Len(after) - L + 1) /\ TokenAt(after, i))
    <3>1. \A s \in Seq(Byte) : i \in Occurrences(s) <=>
                                  (i \in 1..(Len(s) - Len(Token) + 1) /\ TokenAt(s, i))
      BY OccurrenceAt
    <3> QED BY <2>1, <3>1
  <2> HIDE DEF A, B, C, L
  <2>3. /\ Len(before) - L + 1 = n + d - L + 1
        /\ Len(after) - L + 1 = Len(data) + d - L + 1
    BY <1>0, <1>1
  <2> QED BY <2>2, <2>3
<1> HIDE DEF A, B, C, L
<1>3. ASSUME NEW i \in 1..(n + d - L + 1) PROVE (i \in A) <=> (i \in C)
  <2>1. i \in 1..(Len(data) + d - L + 1) /\ \A k \in 1..L : i + k - 1 \in 1..(n + d)
    BY <1>0, <1>1
  <2>2. \A k \in 1..L : after[i + k - 1] = before[i + k - 1]
    BY <2>1, <1>0
  <2>3. TokenAt(before, i) <=> TokenAt(after, i)
    BY <2>2 DEF TokenAt, L
  <2> QED BY <2>1, <2>3, <1>2
<1>4. ASSUME NEW i \in 1..(Len(data) - L + 1) PROVE (i \in B) <=> (i + d \in C)
  <2>1. i + d \in 1..(Len(data) + d - L + 1) /\ \A k \in 1..L : i + k - 1 \in 1..Len(data)
    BY <1>0, <1>1
  <2>2. \A k \in 1..L : data[i + k - 1] = after[i + d + k - 1]
    <3> SUFFICES ASSUME NEW k \in 1..L PROVE data[i + k - 1] = after[i + d + k - 1]
      OBVIOUS
    <3>1. PICK m \in 1..Len(data) : m = i + k - 1
      BY <2>1
    <3>2. m + d = i + d + k - 1
      BY <3>1, <1>0, <1>1
    <3>3. data[m] = after[m + d]
      BY <1>0
    <3> QED BY <3>1, <3>2, <3>3
  <2>3. TokenAt(data, i) <=> TokenAt(after, i + d)
    BY <2>2 DEF TokenAt, L
  <2> QED BY <2>1, <2>3, <1>2
<1>5. /\ A \subseteq 1..(n + d - L + 1) /\ B \subseteq 1..(Len(data) - L + 1)
      /\ C \subseteq 1..(Len(data) + d - L + 1)
  BY <1>2
<1>6. A \subseteq C
  BY <1>3, <1>5
<1>7. ASSUME NEW i \in B PROVE i + d \in C /\ i + d \notin A
  <2>1. i \in 1..(Len(data) - L + 1)
    BY <1>5
  <2>2. i + d \notin 1..(n + d - L + 1)
    BY <2>1, <1>0, <1>1
  <2> QED BY <2>1, <2>2, <1>4, <1>5
<1>8. ASSUME NEW j \in C, j \notin A PROVE j - d \in B
  <2>1. j \in 1..(Len(data) + d - L + 1) /\ j \notin 1..(n + d - L + 1)
    BY <1>3, <1>5, <1>8
  <2>2. j - d \in 1..(Len(data) - L + 1) /\ (j - d) + d = j
    BY <2>1, <1>0, <1>1
  <2> QED BY <2>2, <1>4, <1>8
<1>9. PICK N \in Nat : N = Len(data) + d
  BY <1>0, <1>1
<1>10. A \in SUBSET (1..N) /\ B \in SUBSET (1..N) /\ C \in SUBSET (1..N)
  BY <1>0, <1>1, <1>5, <1>9
<1>11. Adds(A, B, C)
  <2>1. InParts(A, B, C, d)
    BY <1>6, <1>7, <1>8 DEF InParts
  <2>2. d \in Nat /\ N \in Nat
    BY <1>0, <1>9
  <2> QED BY <2>1, <2>2, <1>10, CountInParts
<1> QED BY <1>11 DEF A, B, C

\* What is carried over after the chunk is what would be carried over from all
\* that has been read.
LEMMA CarriedOn ==
  ASSUME NEW before, NEW after, NEW data, NEW n, NEW d,
         Continued(before, after, data, n, d),
         n < TailLength => d = 0
  PROVE  Carried(data) = Carried(after)
<1>0. /\ after \in Seq(Byte) /\ data \in Seq(Byte)
      /\ n \in Nat /\ d \in Nat
      /\ Len(after) = Len(data) + d /\ n < Len(data) /\ Len(data) \in Nat
      /\ \A i \in 1..Len(data) : data[i] = after[i + d]
      /\ TailLength \in Nat
  BY TokenAssumption DEF Continued, TailLength
<1>1. CASE Len(data) <= TailLength
  <2>1. d = 0 /\ Len(after) = Len(data)
    BY <1>0, <1>1
  <2>2. \A i \in 1..Len(data) : data[i] = after[i]
    BY <1>0, <2>1
  <2>3. data = after
    BY <1>0, <2>1, <2>2, SeqEqual
  <2> QED BY <2>3
<1>2. CASE Len(data) > TailLength
  <2>1. PICK a \in Nat, b \in Nat : /\ a = Len(data) - TailLength
                                    /\ b = Len(after) - TailLength
    <3>1. Len(data) - TailLength \in Nat /\ Len(after) - TailLength \in Nat
      BY <1>0, <1>2
    <3> QED BY <3>1
  <2>2. a <= Len(data) /\ b <= Len(after) /\ b = a + d
    BY <1>0, <2>1
  <2>3. /\ Drop(data, a) \in Seq(Byte) /\ Len(Drop(data, a)) = Len(data) - a
        /\ \A i \in 1..(Len(data) - a) : Drop(data, a)[i] = data[i + a]
    <3>1. data \in Seq(Byte) /\ a <= Len(data)
      BY <1>0, <2>2
    <3> QED BY <3>1, WithinSpec
  <2>4. /\ Drop(after, b) \in Seq(Byte) /\ Len(Drop(after, b)) = Len(after) - b
        /\ \A i \in 1..(Len(after) - b) : Drop(after, b)[i] = after[i + b]
    <3>1. after \in Seq(Byte) /\ b <= Len(after)
      BY <1>0, <2>2
    <3> QED BY <3>1, WithinSpec
  <2>5. Len(data) - a = TailLength /\ Len(after) - b = TailLength
    BY <1>0, <2>1
  <2>6. ASSUME NEW i \in 1..TailLength PROVE Drop(data, a)[i] = Drop(after, b)[i]
    <3>1. i + a \in 1..Len(data) /\ (i + a) + d = i + b
      BY <1>0, <2>1, <2>2
    <3>2. data[i + a] = after[(i + a) + d]
      BY <3>1, <1>0
    <3> QED BY <3>1, <3>2, <2>3, <2>4, <2>5
  <2>7. Drop(data, a) = Drop(after, b)
    BY <2>3, <2>4, <2>5, <2>6, SeqEqual
  <2> QED BY <2>1, <2>7, <1>0, <1>2 DEF Carried
<1> QED BY <1>0, <1>1, <1>2

\* What the decoder keeps is one byte if the last one opens a character.
LEMMA KeptByte ==
  ASSUME NEW s \in Seq(Byte)
  PROVE  /\ Undecoded(s) \in {<<>>, <<"lead">>}
         /\ Len(Undecoded(s)) = 1 => Undecoded(s) = <<"lead">>
         /\ Len(Undecoded(s)) = 0 => Undecoded(s) = <<>>
         /\ Undecoded(s) = <<"lead">> => Len(Undecoded(s)) = 1 /\ Len(s) > 0 /\ s[Len(s)] = "lead"
         /\ Undecoded(s) = <<>> => Len(Undecoded(s)) = 0 /\ (Len(s) > 0 => s[Len(s)] # "lead")
<1>1. Len(<<>>) = 0 /\ Len(<<"lead">>) = 1
  OBVIOUS
<1>2. Len(s) \in Nat /\ (s # <<>> <=> Len(s) > 0)
  OBVIOUS
<1> QED BY <1>1, <1>2 DEF Undecoded

\* The characters of what has been read are those completed before and those the
\* decoder finds now, a byte it had kept included.
LEMMA CharactersInParts ==
  ASSUME NEW before, NEW after, NEW data, NEW n, NEW d,
         Continued(before, after, data, n, d), n = Len(Undecoded(before))
  PROVE  /\ InParts(Characters(before), Characters(data), Characters(after), d)
         /\ InParts(Newlines(before), Newlines(data), Newlines(after), d)
         /\ \A i \in Characters(before), k \in Characters(data) : i < k + d
<1> DEFINE A == Characters(before)
           B == Characters(data)
           C == Characters(after)
           Char(s, i) == IF s[i] = "lead" THEN i < Len(s) /\ s[i + 1] = "cont"
                                          ELSE s[i] # "cont"
<1>0. /\ before \in Seq(Byte) /\ after \in Seq(Byte) /\ data \in Seq(Byte)
      /\ d \in Nat /\ Len(data) \in Nat
      /\ Len(before) = n + d /\ Len(after) = Len(data) + d /\ n < Len(data)
      /\ \A i \in 1..(n + d) : after[i] = before[i]
      /\ \A i \in 1..Len(data) : data[i] = after[i + d]
  BY DEF Continued
<1>1. /\ n = 0 \/ n = 1
      /\ n = 1 => before[n + d] = "lead"
      /\ n = 0 /\ d > 0 => before[n + d] # "lead"
  <2>1. /\ n = 1 => Undecoded(before) = <<"lead">>
        /\ n = 0 => Undecoded(before) = <<>>
        /\ Undecoded(before) \in {<<>>, <<"lead">>}
    BY <1>0, KeptByte
  <2>2. /\ Undecoded(before) = <<"lead">> => n = 1 /\ before[Len(before)] = "lead"
        /\ Undecoded(before) = <<>> => n = 0 /\ (Len(before) > 0 => before[Len(before)] # "lead")
    BY <1>0, KeptByte
  <2> QED BY <2>1, <2>2, <1>0
<1>2. \A i : /\ i \in A <=> (i \in 1..(n + d) /\ Char(before, i))
             /\ i \in B <=> (i \in 1..Len(data) /\ Char(data, i))
             /\ i \in C <=> (i \in 1..(Len(data) + d) /\ Char(after, i))
  <2>1. /\ DOMAIN before = 1..(n + d) /\ DOMAIN data = 1..Len(data)
        /\ DOMAIN after = 1..(Len(data) + d)
    BY <1>0
  <2> QED BY <2>1 DEF Characters
\* Up to d, a character is complete with what had been read.
<1>3. ASSUME NEW i \in 1..d PROVE (i \in A) <=> (i \in C)
  <2>1. /\ i \in 1..(n + d) /\ i \in 1..(Len(data) + d) /\ after[i] = before[i]
        /\ i < Len(after)
    BY <1>0, <1>1
  <2>2. CASE i < n + d
    <3>1. i + 1 \in 1..(n + d) /\ after[i + 1] = before[i + 1] /\ i < Len(before)
      BY <2>2, <1>0, <1>1
    <3> QED BY <2>1, <3>1, <1>2
  <2>3. CASE i = n + d
    <3>1. before[i] # "lead"
      BY <2>3, <1>1, <1>0
    <3> QED BY <2>1, <3>1, <1>2
  <2> QED BY <2>1, <2>2, <2>3, <1>0, <1>1
\* Beyond it, it is one of the data.
<1>4. ASSUME NEW i \in 1..Len(data) PROVE (i \in B) <=> (i + d \in C)
  <2>1. i + d \in 1..(Len(data) + d) /\ data[i] = after[i + d] /\ (i < Len(data) <=> i + d < Len(after))
    BY <1>0
  <2>2. CASE i < Len(data)
    <3>1. i + 1 \in 1..Len(data) /\ (i + 1) + d = (i + d) + 1
      BY <2>2, <1>0
    <3>2. data[i + 1] = after[(i + d) + 1]
      <4>1. data[i + 1] = after[(i + 1) + d]
        BY <3>1, <1>0
      <4> QED BY <4>1, <3>1
    <3> QED BY <2>1, <3>2, <1>2
  <2>3. CASE ~(i < Len(data))
    BY <2>1, <2>3, <1>2
  <2> QED BY <2>2, <2>3
<1>5. \A i \in A : i \in 1..d
  <2> SUFFICES ASSUME NEW i \in A PROVE i \in 1..d
    OBVIOUS
  <2>1. i \in 1..(n + d) /\ Char(before, i)
    BY <1>2
  <2>2. n = 1 => i # n + d
    BY <2>1, <1>0, <1>1
  <2>3. i \in 1..(n + d) /\ (n = 0 \/ n = 1) /\ d \in Nat
    BY <2>1, <1>0, <1>1
  <2> QED BY <2>2, <2>3
<1>6. \A i \in B : i \in 1..Len(data)
  BY <1>2
<1>7. \A j \in C : j \in 1..d \/ (j - d \in 1..Len(data) /\ (j - d) + d = j)
  <2>1. \A j \in C : j \in 1..(Len(data) + d)
    BY <1>2
  <2> QED BY <2>1, <1>0
<1>8. InParts(A, B, C, d)
  <2> HIDE DEF A, B, C
  <2>1. A \subseteq C
    BY <1>3, <1>5
  <2>2. ASSUME NEW i \in B PROVE i + d \in C /\ i + d \notin A
    <3>1. i \in 1..Len(data) /\ i + d \notin 1..d
      BY <1>6, <1>0
    <3> QED BY <3>1, <1>4, <1>5
  <2>3. ASSUME NEW j \in C, j \notin A PROVE j - d \in B
    <3>1. j - d \in 1..Len(data) /\ (j - d) + d = j
      BY <2>3, <1>3, <1>7
    <3>2. (j - d \in B) <=> ((j - d) + d \in C)
      BY <3>1, <1>4
    <3> QED BY <3>1, <3>2, <2>3
  <2> QED BY <2>1, <2>2, <2>3 DEF InParts
<1>9. \A i \in A, k \in B : i < k + d
  <2> HIDE DEF A, B, C
  <2> QED BY <1>0, <1>5, <1>6
<1>10. InParts(Newlines(before), Newlines(data), Newlines(after), d)
  <2> DEFINE X == Newlines(before)
             Y == Newlines(data)
             Z == Newlines(after)
  <2>1. \A i : /\ i \in X <=> (i \in 1..(n + d) /\ before[i] = "nl")
               /\ i \in Y <=> (i \in 1..Len(data) /\ data[i] = "nl")
               /\ i \in Z <=> (i \in 1..(Len(data) + d) /\ after[i] = "nl")
    <3>1. /\ DOMAIN before = 1..(n + d) /\ DOMAIN data = 1..Len(data)
          /\ DOMAIN after = 1..(Len(data) + d)
      BY <1>0
    <3> QED BY <3>1 DEF Newlines
  <2> HIDE DEF X, Y, Z
  <2>2. \A i \in X : i \in 1..d /\ i \in Z
    <3> SUFFICES ASSUME NEW i \in X PROVE i \in 1..d /\ i \in Z
      OBVIOUS
    <3>1. i \in 1..(n + d) /\ before[i] = "nl"
      BY <2>1
    <3>2. n = 1 => i # n + d
      BY <3>1, <1>1
    <3>3. i \in 1..d /\ i \in 1..(Len(data) + d) /\ after[i] = "nl"
      <4>1. i \in 1..(n + d) /\ (n = 0 \/ n = 1) /\ d \in Nat /\ Len(data) \in Nat
        BY <3>1, <1>0, <1>1
      <4>2. i \in 1..d
        BY <3>2, <4>1
      <4>3. after[i] = before[i]
        BY <4>1, <1>0
      <4> QED BY <3>1, <4>1, <4>2, <4>3
    <3> QED BY <3>3, <2>1
  <2>3. ASSUME NEW i \in Y PROVE i + d \in Z /\ i + d \notin X
    <3>1. i \in 1..Len(data) /\ data[i] = "nl"
      BY <2>1
    <3>2. i + d \in 1..(Len(data) + d) /\ i + d \notin 1..d /\ after[i + d] = "nl"
      BY <3>1, <1>0
    <3> QED BY <3>2, <2>1, <2>2
  <2>4. ASSUME NEW j \in Z, j \notin X PROVE j - d \in Y
    <3>1. j \in 1..(Len(data) + d) /\ after[j] = "nl"
      BY <2>1
    <3>2. j \notin 1..d
      <4> SUFFICES ASSUME j \in 1..d PROVE FALSE
        OBVIOUS
      <4>1. j \in 1..(n + d) /\ before[j] = "nl"
        BY <3>1, <1>0, <1>1
      <4> QED BY <4>1, <2>1, <2>4
    <3>3. PICK i \in 1..Len(data) : i = j - d /\ i + d = j
      <4>1. j - d \in 1..Len(data) /\ (j - d) + d = j
        BY <3>1, <3>2, <1>0
      <4> QED BY <4>1
    <3>4. data[i] = after[i + d]
      BY <1>0
    <3>5. data[j - d] = "nl" /\ j - d \in 1..Len(data)
      BY <3>1, <3>3, <3>4
    <3> QED BY <3>5, <2>1
  <2> QED BY <2>2, <2>3, <2>4 DEF InParts, X, Y, Z
<1> QED BY <1>8, <1>9, <1>10

\* So characters and newlines add up.
LEMMA CharactersAdd ==
  ASSUME NEW before, NEW after, NEW data, NEW n, NEW d,
         Continued(before, after, data, n, d), n = Len(Undecoded(before))
  PROVE  /\ Adds(Characters(before), Characters(data), Characters(after))
         /\ Adds(Newlines(before), Newlines(data), Newlines(after))
         /\ Characters(after) = {} <=> (Characters(before) = {} /\ Characters(data) = {})
         /\ Characters(data) = {} => Newlines(data) = {}
<1> DEFINE A == Characters(before)
           B == Characters(data)
           C == Characters(after)
           X == Newlines(before)
           Y == Newlines(data)
           Z == Newlines(after)
<1>0. /\ before \in Seq(Byte) /\ after \in Seq(Byte) /\ data \in Seq(Byte)
      /\ n \in Nat /\ d \in Nat /\ Len(data) \in Nat
      /\ Len(before) = n + d /\ Len(after) = Len(data) + d /\ n < Len(data)
  BY DEF Continued
<1>1. PICK N \in Nat : N = Len(data) + d
  BY <1>0
<1>2. /\ A \in SUBSET (1..N) /\ B \in SUBSET (1..N) /\ C \in SUBSET (1..N)
      /\ X \in SUBSET (1..N) /\ Y \in SUBSET (1..N) /\ Z \in SUBSET (1..N)
  <2>1. /\ DOMAIN before = 1..(n + d) /\ DOMAIN data = 1..Len(data)
        /\ DOMAIN after = 1..N
    BY <1>0, <1>1
  <2>2. DOMAIN before \subseteq 1..N /\ DOMAIN data \subseteq 1..N
    BY <2>1, <1>0, <1>1
  <2>3. /\ A \subseteq DOMAIN before /\ B \subseteq DOMAIN data /\ C \subseteq DOMAIN after
        /\ X \subseteq DOMAIN before /\ Y \subseteq DOMAIN data /\ Z \subseteq DOMAIN after
    BY DEF Characters, Newlines
  <2> HIDE DEF A, B, C, X, Y, Z
  <2> QED BY <2>1, <2>2, <2>3
<1>3. Y # {} => B # {}
  <2> SUFFICES ASSUME NEW i \in Y PROVE i \in B
    OBVIOUS
  <2>1. i \in DOMAIN data /\ data[i] = "nl"
    BY DEF Newlines
  <2> QED BY <2>1 DEF Characters
<1>4. InParts(A, B, C, d) /\ InParts(X, Y, Z, d)
  BY CharactersInParts
<1> HIDE DEF A, B, C, X, Y, Z
<1>5. Adds(A, B, C)
  BY <1>0, <1>1, <1>2, <1>4, CountInParts
<1>6. Adds(X, Y, Z)
  BY <1>0, <1>1, <1>2, <1>4, CountInParts
<1>7. C = {} <=> (A = {} /\ B = {})
  BY <1>4 DEF InParts
<1> QED BY <1>3, <1>5, <1>6, <1>7 DEF A, B, C, X, Y, Z

\* And the last character is the last of the data, if there is one in it.
LEMMA LastCharacter ==
  ASSUME NEW before, NEW after, NEW data, NEW n, NEW d,
         Continued(before, after, data, n, d), n = Len(Undecoded(before))
  PROVE  EndsWithNewline(after)
           = IF Characters(data) = {} THEN EndsWithNewline(before) ELSE EndsWithNewline(data)
<1> DEFINE A == Characters(before)
           B == Characters(data)
           C == Characters(after)
<1>0. /\ before \in Seq(Byte) /\ after \in Seq(Byte) /\ data \in Seq(Byte)
      /\ n \in Nat /\ d \in Nat /\ Len(data) \in Nat
      /\ Len(before) = n + d /\ Len(after) = Len(data) + d /\ n < Len(data)
      /\ \A i \in 1..(n + d) : after[i] = before[i]
      /\ \A i \in 1..Len(data) : data[i] = after[i + d]
  BY DEF Continued
<1>1. /\ A \in SUBSET (1..Len(before)) /\ B \in SUBSET (1..Len(data))
      /\ C \in SUBSET (1..Len(after))
  BY <1>0 DEF Characters
<1>2. InParts(A, B, C, d) /\ \A i \in A, k \in B : i < k + d
  BY CharactersInParts
<1>3. /\ (EndsWithNewline(before) <=> (A # {} /\ before[Max(A)] = "nl"))
      /\ (EndsWithNewline(data) <=> (B # {} /\ data[Max(B)] = "nl"))
      /\ (EndsWithNewline(after) <=> (C # {} /\ after[Max(C)] = "nl"))
  BY DEF EndsWithNewline
<1>b. \A s : EndsWithNewline(s) \in BOOLEAN
  BY DEF EndsWithNewline
<1> HIDE DEF A, B, C
<1>4. CASE B = {}
  <2>1. C = A
    BY <1>2, <1>4 DEF InParts
  <2>2. A # {} => after[Max(A)] = before[Max(A)]
    <3> SUFFICES ASSUME A # {} PROVE after[Max(A)] = before[Max(A)]
      OBVIOUS
    <3>1. Len(before) \in Nat
      BY <1>0
    <3>2. Max(A) \in A
      BY <3>1, <1>1, LargestOf
    <3>3. Max(A) \in 1..(n + d)
      BY <3>2, <1>0, <1>1
    <3> QED BY <3>3, <1>0
  <2>3. EndsWithNewline(after) <=> EndsWithNewline(before)
    BY <2>1, <2>2, <1>3
  <2> QED BY <2>3, <1>4, <1>b DEF B
<1>5. CASE B # {}
  <2>1. Max(B) \in B /\ \A x \in B : x <= Max(B)
    BY <1>0, <1>1, <1>5, LargestOf
  <2>2. Max(B) + d \in C
    BY <2>1, <1>2 DEF InParts
  <2>3. Max(C) \in C /\ \A x \in C : x <= Max(C)
    <3>1. Len(after) \in Nat /\ C # {}
      BY <1>0, <2>2
    <3> QED BY <3>1, <1>1, LargestOf
  <2>4. PICK b \in B, c \in C : b = Max(B) /\ c = Max(C)
    BY <2>1, <2>3
  <2>5. b \in 1..Len(data) /\ c \in Int /\ b + d <= c
    BY <2>2, <2>3, <2>4, <1>0, <1>1
  <2>6. c \notin A
    <3>1. c \in A => c < b + d
      BY <1>2
    <3> QED BY <3>1, <2>5, <1>0
  <2>7. c - d \in B
    BY <2>6, <1>2 DEF InParts
  <2>8. c - d <= b
    BY <2>7, <2>1, <2>4
  <2>9. c = b + d
    BY <2>5, <2>8, <1>0
  <2>10. after[Max(C)] = data[Max(B)]
    <3>1. data[b] = after[b + d]
      BY <2>5, <1>0
    <3> QED BY <3>1, <2>4, <2>9
  <2>11. EndsWithNewline(after) <=> EndsWithNewline(data)
    BY <2>2, <2>10, <1>3, <1>5
  <2> QED BY <2>11, <1>5, <1>b DEF B
<1> QED BY <1>4, <1>5

\* What the decoder keeps depends on the last byte only.
LEMMA UndecodedOn ==
  ASSUME NEW before, NEW after, NEW data, NEW n, NEW d,
         Continued(before, after, data, n, d)
  PROVE  Undecoded(data) = Undecoded(after)
<1>1. /\ after \in Seq(Byte) /\ data \in Seq(Byte) /\ n \in Nat /\ d \in Nat
      /\ Len(data) \in Nat /\ Len(after) = Len(data) + d /\ n < Len(data)
      /\ \A i \in 1..Len(data) : data[i] = after[i + d]
  BY DEF Continued
<1>2. Len(data) \in 1..Len(data) /\ Len(data) # 0 /\ Len(after) # 0
  BY <1>1
<1>3. data[Len(data)] = after[Len(data) + d]
  BY <1>1, <1>2
<1>4. data[Len(data)] = after[Len(after)]
  BY <1>1, <1>3
<1>5. data # <<>> /\ after # <<>>
  BY <1>1, <1>2
<1> QED BY <1>4, <1>5 DEF Undecoded

-----------------------------------------------------------------------------
(* The scan                                                                  *)

\* What is kept from one chunk for the next is the end of what has been read.
LEMMA KeptIsEnd ==
  ASSUME NEW s \in Seq(Byte)
  PROVE  /\ Undecoded(s) \in Seq(Byte)
         /\ \E d \in Nat : /\ Len(s) = Len(Undecoded(s)) + d
                           /\ \A i \in 1..Len(Undecoded(s)) : Undecoded(s)[i] = s[i + d]
         /\ Carried(s) \in Seq(Byte) /\ Len(Carried(s)) <= TailLength
         /\ \E d \in Nat : /\ Len(s) = Len(Carried(s)) + d
                           /\ Len(Carried(s)) < TailLength => d = 0
                           /\ \A i \in 1..Len(Carried(s)) : Carried(s)[i] = s[i + d]
<1>0. Len(s) \in Nat /\ TailLength \in Nat
  BY TokenAssumption DEF TailLength
<1>1. /\ Undecoded(s) \in Seq(Byte)
      /\ \E d \in Nat : /\ Len(s) = Len(Undecoded(s)) + d
                        /\ \A i \in 1..Len(Undecoded(s)) : Undecoded(s)[i] = s[i + d]
  <2>1. CASE Undecoded(s) = <<>>
    <3>1. PICK t : t = <<>>
      OBVIOUS
    <3>2. t \in Seq(Byte) /\ Len(t) = 0
      BY <3>1
    <3>3. PICK d \in Nat : d = Len(s)
      BY <1>0
    <3>4. Len(s) = Len(t) + d /\ \A i \in 1..Len(t) : t[i] = s[i + d]
      BY <3>2, <3>3
    <3>5. Undecoded(s) = t
      BY <2>1, <3>1
    <3> QED BY <3>2, <3>4, <3>5
  <2>2. CASE Undecoded(s) = <<"lead">>
    <3>1. Len(s) > 0 /\ s[Len(s)] = "lead"
      BY <2>2, KeptByte
    <3>2. PICK d \in Nat : d = Len(s) - 1
      <4>1. Len(s) - 1 \in Nat
        BY <3>1, <1>0
      <4> QED BY <4>1
    <3>3. Len(s) = 1 + d /\ 1 + d \in 1..Len(s)
      BY <3>1, <3>2, <1>0
    <3>4. "lead" \in Byte /\ s[1 + d] = "lead"
      BY <3>1, <3>3
    <3>5. PICK t : t = <<"lead">>
      OBVIOUS
    <3>6. t \in Seq(Byte) /\ Len(t) = 1 /\ t[1] = "lead"
      BY <3>4, <3>5
    <3>7. \A i \in 1..1 : t[i] = s[i + d]
      BY <3>4, <3>6
    <3> QED BY <2>2, <3>3, <3>5, <3>6, <3>7
  <2> QED BY <2>1, <2>2, KeptByte
<1>2. CASE Len(s) <= TailLength
  <2>1. Carried(s) = s
    BY <1>2 DEF Carried
  <2>2. Len(s) = Len(s) + 0 /\ \A i \in 1..Len(s) : s[i] = s[i + 0]
    BY <1>0
  <2>3. \E d \in Nat : /\ Len(s) = Len(s) + d /\ (Len(s) < TailLength => d = 0)
                       /\ \A i \in 1..Len(s) : s[i] = s[i + d]
    BY <2>2
  <2> QED BY <1>1, <1>2, <2>1, <2>3
<1>3. CASE Len(s) > TailLength
  <2>1. PICK d \in Nat : d = Len(s) - TailLength
    <3>1. Len(s) - TailLength \in Nat
      BY <1>0, <1>3
    <3> QED BY <3>1
  <2>2. d <= Len(s) /\ Len(s) - d = TailLength
    BY <2>1, <1>0
  <2>3. Carried(s) = Drop(s, d)
    BY <2>1, <1>0, <1>3 DEF Carried
  <2>4. /\ Drop(s, d) \in Seq(Byte) /\ Len(Drop(s, d)) = Len(s) - d
        /\ \A i \in 1..(Len(s) - d) : Drop(s, d)[i] = s[i + d]
    BY <2>2, WithinSpec
  <2>5. /\ Carried(s) \in Seq(Byte) /\ Len(Carried(s)) = TailLength
        /\ \A i \in 1..Len(Carried(s)) : Carried(s)[i] = s[i + d]
    BY <2>2, <2>3, <2>4
  <2>6. Len(s) = Len(Carried(s)) + d /\ ~(Len(Carried(s)) < TailLength)
    BY <2>1, <2>5, <1>0
  <2>7. Len(Carried(s)) <= TailLength
    BY <2>5, <1>0
  <2>8. \E x \in Nat : /\ Len(s) = Len(Carried(s)) + x
                       /\ Len(Carried(s)) < TailLength => x = 0
                       /\ \A i \in 1..Len(Carried(s)) : Carried(s)[i] = s[i + x]
    <3> HIDE DEF Carried
    <3> WITNESS d \in Nat
    <3> QED BY <2>5, <2>6
  <2> QED BY <1>1, <2>5, <2>7, <2>8
<1> QED BY <1>0, <1>2, <1>3

\* Of nothing there is nothing.
LEMMA NothingRead ==
  /\ Cardinality(Characters(<<>>)) = 0 /\ Cardinality(Newlines(<<>>)) = 0
  /\ EndsWithNewline(<<>>) = FALSE /\ Undecoded(<<>>) = <<>>
  /\ Cardinality(Occurrences(<<>>)) = 0 /\ Carried(<<>>) = <<>>
<1>0. Len(Token) \in Nat /\ Len(Token) > 0
  BY TokenAssumption
<1>1. Characters(<<>>) = {} /\ Newlines(<<>>) = {}
  BY DEF Characters, Newlines
<1>2. Occurrences(<<>>) = {}
  <2>1. 1..(Len(<<>>) - Len(Token) + 1) = {}
    BY <1>0
  <2> QED BY <2>1 DEF Occurrences
<1>3. Len(<<>>) <= TailLength
  BY <1>0 DEF TailLength
<1> QED BY <1>1, <1>2, <1>3, FS_EmptySet DEF EndsWithNewline, Undecoded, Carried

TextRight ==
  reader = "text" =>
    /\ undecoded = Undecoded(Prefix)
    /\ text = [char_count |-> Cardinality(Characters(Prefix)),
               newlines |-> Cardinality(Newlines(Prefix)),
               ends_with_newline |-> EndsWithNewline(Prefix)]

PagesRight ==
  reader = "pdf" => carry = Carried(Prefix) /\ count = Cardinality(Occurrences(Prefix))

ScanRight ==
  /\ StorageRight
  /\ ScanTypeOK
  /\ reader = "idle" =>
       /\ consumed = 0 /\ undecoded = <<>> /\ count = 0 /\ carry = <<>>
       /\ text = [char_count |-> 0, newlines |-> 0, ends_with_newline |-> FALSE]
  /\ reader # "idle" => upload = "stored" /\ consumed <= Len(stored)
  /\ TextRight
  /\ PagesRight

\* The next chunk of the file, and where it leads.
LEMMA ReadRight ==
  ASSUME ScanRight, reader # "idle", Read # <<>>
  PROVE  /\ Prefix \in Seq(Byte) /\ Read \in Seq(Byte) /\ Len(Read) \in Nat
         /\ consumed + Len(Read) \in Nat /\ consumed + Len(Read) <= Len(stored)
         /\ Take(stored, consumed + Len(Read)) = Prefix \o Read
<1>1. /\ stored \in Seq(Byte) /\ consumed \in Nat /\ consumed <= Len(stored)
      /\ chunkSize \in Nat /\ Len(stored) \in Nat
  BY ScanChunksAssumption DEF ScanRight, ScanTypeOK, StorageRight, StorageTypeOK
<1> DEFINE rest == Drop(stored, consumed)
<1>2. rest \in Seq(Byte) /\ Len(rest) = Len(stored) - consumed
  BY <1>1, WithinSpec
<1>3. Read \in Seq(Byte) /\ Len(Read) = (IF chunkSize <= Len(rest) THEN chunkSize ELSE Len(rest))
  <2> HIDE DEF rest
  <2>1. Take(rest, chunkSize) \in Seq(Byte)
        /\ Len(Take(rest, chunkSize)) = (IF chunkSize <= Len(rest) THEN chunkSize ELSE Len(rest))
    BY <1>1, <1>2, TakeDropSpec
  <2> QED BY <2>1 DEF Read, rest
<1>4. Prefix \in Seq(Byte)
  BY <1>1, WithinSpec DEF Prefix
<1>5. PICK m \in Nat : m = consumed + Len(Read)
  BY <1>1, <1>3
<1>6. /\ consumed <= m /\ m <= Len(stored)
      /\ (m = consumed + chunkSize \/ (m = Len(stored) /\ m <= consumed + chunkSize))
  BY <1>1, <1>2, <1>3, <1>5
<1>7. Take(stored, m) = Take(stored, consumed) \o Take(Drop(stored, consumed), chunkSize)
  <2>1. stored \in Seq(Byte) /\ consumed \in Nat /\ chunkSize \in Nat
    BY <1>1
  <2>2. Leads(stored, consumed, chunkSize, m)
    BY <1>6 DEF Leads
  <2> QED BY <2>1, <2>2, NextChunk
<1> QED BY <1>1, <1>3, <1>4, <1>5, <1>6, <1>7 DEF Prefix, Read

LEMMA ScanInitial == Init => ScanRight
<1> SUFFICES ASSUME Init PROVE ScanRight
  OBVIOUS
<1>1. StorageRight
  BY StorageInitial
<1>2. Len(<<>>) <= TailLength /\ <<>> \in Seq(Byte)
  BY TokenAssumption DEF TailLength
<1> QED BY <1>1, <1>2 DEF Init, ScanInit, ScanRight, ScanTypeOK, TextRight, PagesRight

\* One more chunk of text.
LEMMA CountTextRight ==
  ASSUME ScanRight, CountText, UNCHANGED storageVars
  PROVE  ScanTypeOK' /\ TextRight'
<1> DEFINE data == undecoded \o Read
           added == [char_count |-> text.char_count + Cardinality(Characters(data)),
                     newlines |-> text.newlines + Cardinality(Newlines(data)),
                     ends_with_newline |-> EndsWithNewline(data)]
<1>1. /\ reader = "text" /\ reader' = "text" /\ Read # <<>>
      /\ consumed' = consumed + Len(Read) /\ undecoded' = Undecoded(data)
      /\ text' = IF Characters(data) = {} THEN text ELSE added
      /\ UNCHANGED <<chunkSize, count, carry>> /\ stored' = stored
  BY DEF CountText, storageVars
<1>2. /\ Prefix \in Seq(Byte) /\ Read \in Seq(Byte) /\ consumed + Len(Read) \in Nat
      /\ Take(stored, consumed + Len(Read)) = Prefix \o Read
  BY <1>1, ReadRight
<1>3. Prefix' = Prefix \o Read
  BY <1>1, <1>2 DEF Prefix
<1>4. /\ undecoded = Undecoded(Prefix)
      /\ text = [char_count |-> Cardinality(Characters(Prefix)),
                 newlines |-> Cardinality(Newlines(Prefix)),
                 ends_with_newline |-> EndsWithNewline(Prefix)]
  BY <1>1 DEF ScanRight, TextRight
<1>5. PICK before, after, kept : before = Prefix /\ after = Prefix \o Read /\ kept = undecoded
  OBVIOUS
<1>6. PICK d \in Nat : /\ Len(before) = Len(kept) + d
                       /\ \A i \in 1..Len(kept) : kept[i] = before[i + d]
  BY <1>2, <1>4, <1>5, KeptIsEnd
<1>7. kept \in Seq(Byte) /\ Read \in Seq(Byte) /\ Read # <<>> /\ before \in Seq(Byte)
  BY <1>1, <1>2, <1>4, <1>5, KeptIsEnd
<1>8. Continued(before, after, data, Len(kept), d)
  <2>1. Continued(before, before \o Read, kept \o Read, Len(kept), d)
    BY <1>6, <1>7, ContinuedByChunk
  <2> QED BY <2>1, <1>5
<1>9. Len(kept) = Len(Undecoded(before))
  BY <1>4, <1>5
<1> HIDE DEF data
<1>10. /\ Adds(Characters(before), Characters(data), Characters(after))
       /\ Adds(Newlines(before), Newlines(data), Newlines(after))
       /\ Characters(data) = {} => Newlines(data) = {}
  BY <1>8, <1>9, CharactersAdd
<1>11. /\ EndsWithNewline(after)
            = IF Characters(data) = {} THEN EndsWithNewline(before) ELSE EndsWithNewline(data)
       /\ Undecoded(data) = Undecoded(after)
  BY <1>8, <1>9, LastCharacter, UndecodedOn
<1>12. text' = [char_count |-> Cardinality(Characters(after)),
                newlines |-> Cardinality(Newlines(after)),
                ends_with_newline |-> EndsWithNewline(after)]
  <2>1. text = [char_count |-> Cardinality(Characters(before)),
                newlines |-> Cardinality(Newlines(before)),
                ends_with_newline |-> EndsWithNewline(before)]
    BY <1>4, <1>5
  <2>2. CASE Characters(data) = {}
    <3>1. Cardinality(Characters(data)) = 0 /\ Cardinality(Newlines(data)) = 0
      BY <2>2, <1>10, FS_EmptySet
    <3>2. /\ Cardinality(Characters(after)) = Cardinality(Characters(before))
          /\ Cardinality(Newlines(after)) = Cardinality(Newlines(before))
      BY <3>1, <1>10 DEF Adds
    <3>3. text' = text /\ EndsWithNewline(after) = EndsWithNewline(before)
      BY <2>2, <1>1, <1>11
    <3> QED BY <2>1, <3>2, <3>3
  <2>3. CASE Characters(data) # {}
    <3>1. /\ Cardinality(Characters(after)) = text.char_count + Cardinality(Characters(data))
          /\ Cardinality(Newlines(after)) = text.newlines + Cardinality(Newlines(data))
      BY <2>1, <1>10 DEF Adds
    <3>2. text' = added /\ EndsWithNewline(after) = EndsWithNewline(data)
      BY <2>3, <1>1, <1>11
    <3> QED BY <3>1, <3>2
  <2> QED BY <2>2, <2>3
<1>13. TextRight'
  BY <1>1, <1>3, <1>5, <1>11, <1>12 DEF TextRight
<1>14. text' \in [char_count: Nat, newlines: Nat, ends_with_newline: BOOLEAN]
  <2>1. Cardinality(Characters(after)) \in Nat /\ Cardinality(Newlines(after)) \in Nat
    BY <1>10 DEF Adds
  <2>2. EndsWithNewline(after) \in BOOLEAN
    BY DEF EndsWithNewline
  <2> QED BY <1>12, <2>1, <2>2
<1>15. undecoded' \in {<<>>, <<"lead">>}
  BY <1>1 DEF Undecoded
<1> QED BY <1>1, <1>2, <1>13, <1>14, <1>15 DEF ScanRight, ScanTypeOK

\* One more chunk of a PDF.
LEMMA CountTokensRight ==
  ASSUME ScanRight, CountTokens, UNCHANGED storageVars
  PROVE  ScanTypeOK' /\ PagesRight'
<1> DEFINE data == carry \o Read
<1>1. /\ reader = "pdf" /\ reader' = "pdf" /\ Read # <<>>
      /\ consumed' = consumed + Len(Read) /\ carry' = Carried(data)
      /\ count' = count + Cardinality(Occurrences(data))
      /\ UNCHANGED <<chunkSize, undecoded, text>> /\ stored' = stored
  BY DEF CountTokens, storageVars
<1>2. /\ Prefix \in Seq(Byte) /\ Read \in Seq(Byte) /\ consumed + Len(Read) \in Nat
      /\ Take(stored, consumed + Len(Read)) = Prefix \o Read
  BY <1>1, ReadRight
<1>3. Prefix' = Prefix \o Read
  BY <1>1, <1>2 DEF Prefix
<1>4. carry = Carried(Prefix) /\ count = Cardinality(Occurrences(Prefix))
  BY <1>1 DEF ScanRight, PagesRight
<1>5. PICK before, after, kept : before = Prefix /\ after = Prefix \o Read /\ kept = carry
  OBVIOUS
<1>6. PICK d \in Nat : /\ Len(before) = Len(kept) + d /\ (Len(kept) < TailLength => d = 0)
                       /\ \A i \in 1..Len(kept) : kept[i] = before[i + d]
  BY <1>2, <1>4, <1>5, KeptIsEnd
<1>7. /\ kept \in Seq(Byte) /\ Read \in Seq(Byte) /\ Read # <<>> /\ before \in Seq(Byte)
      /\ Len(kept) <= TailLength
  BY <1>1, <1>2, <1>4, <1>5, KeptIsEnd
<1>8. Continued(before, after, data, Len(kept), d)
  <2>1. Continued(before, before \o Read, kept \o Read, Len(kept), d)
    BY <1>6, <1>7, ContinuedByChunk
  <2> QED BY <2>1, <1>5
<1> HIDE DEF data
<1>9. data \in Seq(Byte) /\ after \in Seq(Byte)
  BY <1>8 DEF Continued
<1>10. Adds(Occurrences(before), Occurrences(data), Occurrences(after))
  BY <1>6, <1>7, <1>8, OccurrencesAdd
<1>11. Carried(data) = Carried(after)
  BY <1>6, <1>8, CarriedOn
<1>12. count' = Cardinality(Occurrences(after)) /\ count' \in Nat
  BY <1>1, <1>4, <1>5, <1>10 DEF Adds
<1>13. PagesRight'
  BY <1>1, <1>3, <1>5, <1>11, <1>12 DEF PagesRight
<1>14. carry' \in Seq(Byte) /\ Len(carry') <= TailLength
  BY <1>1, <1>9, KeptIsEnd
<1> QED BY <1>1, <1>2, <1>12, <1>13, <1>14 DEF ScanRight, ScanTypeOK

LEMMA ScanInvariant == Spec => []ScanRight
<1>1. ScanRight /\ [Next]_vars => ScanRight'
  <2> SUFFICES ASSUME ScanRight, [Next]_vars PROVE ScanRight'
    OBVIOUS
  <2>0. StorageRight'
    BY StorageStep DEF ScanRight
  <2>1. CASE UNCHANGED vars
    BY <2>0, <2>1 DEF vars, storageVars, scanVars, ScanRight, ScanTypeOK, TextRight, PagesRight, Prefix
  \* While the upload is written, nobody reads it.
  <2>2. CASE StorageNext /\ UNCHANGED scanVars
    <3>1. upload = "writing"
      BY <2>2 DEF StorageNext, WriteChunk, RejectLarge, StreamFails, RejectEmpty, Commit, CommitFails
    <3>2. reader = "idle" /\ UNCHANGED scanVars
      BY <2>2, <3>1 DEF ScanRight
    <3> QED BY <2>0, <3>2 DEF scanVars, ScanRight, ScanTypeOK, TextRight, PagesRight
  <2>3. CASE Open /\ UNCHANGED storageVars
    <3>1. /\ upload = "stored" /\ reader = "idle" /\ reader' \in {"text", "pdf"}
          /\ UNCHANGED <<chunkSize, consumed, undecoded, text, count, carry>>
          /\ upload' = upload /\ stored' = stored
      BY <2>3 DEF Open, storageVars
    <3>2. stored \in Seq(Byte) /\ consumed = 0 /\ undecoded = <<>> /\ count = 0 /\ carry = <<>>
          /\ text = [char_count |-> 0, newlines |-> 0, ends_with_newline |-> FALSE]
      BY <3>1 DEF ScanRight, StorageRight, StorageTypeOK
    <3>3. Prefix' = <<>>
      BY <3>1, <3>2, TakeDropEnds DEF Prefix
    <3>4. TextRight' /\ PagesRight'
      BY <3>1, <3>2, <3>3, NothingRead DEF TextRight, PagesRight
    <3>5. consumed' <= Len(stored')
      BY <3>1, <3>2
    <3> QED BY <2>0, <3>1, <3>4, <3>5 DEF ScanRight, ScanTypeOK
  <2>4. CASE CountText /\ UNCHANGED storageVars
    <3>1. /\ reader = "text" /\ reader' = "text" /\ Read # <<>> /\ consumed' = consumed + Len(Read)
          /\ upload' = upload /\ stored' = stored
      BY <2>4 DEF CountText, storageVars
    <3>2. consumed' <= Len(stored') /\ upload' = "stored"
      BY <3>1, ReadRight DEF ScanRight
    <3>3. ScanTypeOK' /\ TextRight'
      BY <2>4, CountTextRight
    <3> QED BY <2>0, <3>1, <3>2, <3>3 DEF ScanRight, PagesRight
  <2>5. CASE CountTokens /\ UNCHANGED storageVars
    <3>1. /\ reader = "pdf" /\ reader' = "pdf" /\ Read # <<>> /\ consumed' = consumed + Len(Read)
          /\ upload' = upload /\ stored' = stored
      BY <2>5 DEF CountTokens, storageVars
    <3>2. consumed' <= Len(stored') /\ upload' = "stored"
      BY <3>1, ReadRight DEF ScanRight
    <3>3. ScanTypeOK' /\ PagesRight'
      BY <2>5, CountTokensRight
    <3> QED BY <2>0, <3>1, <3>2, <3>3 DEF ScanRight, TextRight
  <2>6. CASE Return /\ UNCHANGED storageVars
    <3>1. /\ reader \in {"text", "pdf"} /\ reader' = "done" /\ undecoded' = <<>>
          /\ UNCHANGED <<chunkSize, consumed, text, count, carry>>
          /\ upload' = upload /\ stored' = stored
      BY <2>6 DEF Return, storageVars
    <3>2. ScanTypeOK'
      BY <3>1 DEF ScanRight, ScanTypeOK
    <3> QED BY <2>0, <3>1, <3>2 DEF ScanRight, TextRight, PagesRight
  <2> QED BY <2>1, <2>2, <2>3, <2>4, <2>5, <2>6 DEF Next, ScanNext
<1> QED BY <1>1, ScanInitial, PTL DEF Spec

\* Every variable keeps its type; nothing but a tail is ever carried over.
THEOREM TypeCorrect == Spec => []TypeOK
<1>1. ScanRight => TypeOK
  BY DEF ScanRight, StorageRight, TypeOK
<1> QED BY <1>1, ScanInvariant, PTL

\* Wherever the chunks end, in a character or between a line and its newline: the
\* text counters are those of one decoding of all that was read.
THEOREM TextCountedWhole == Spec => []TextCounted
<1>1. ScanRight => TextCounted
  <2> SUFFICES ASSUME ScanRight, reader = "text" PROVE TextCounted
    BY DEF TextCounted
  <2>1. text = [char_count |-> Cardinality(Characters(Prefix)),
                newlines |-> Cardinality(Newlines(Prefix)),
                ends_with_newline |-> EndsWithNewline(Prefix)]
    BY DEF ScanRight, TextRight
  <2>2. IsFiniteSet(Characters(Prefix))
    <3>1. stored \in Seq(Byte) /\ consumed \in Nat
      BY DEF ScanRight, ScanTypeOK, StorageRight, StorageTypeOK
    <3>2. Prefix \in Seq(Byte)
      BY <3>1, TakeDropSpec DEF Prefix
    <3>3. Characters(Prefix) \in SUBSET (1..Len(Prefix)) /\ Len(Prefix) \in Nat
      BY <3>2 DEF Characters
    <3>4. IsFiniteSet(1..Len(Prefix))
      BY <3>3, FS_Interval
    <3> QED BY <3>3, <3>4, FS_Subset
  <2>3. text.char_count = 0 <=> Characters(Prefix) = {}
    BY <2>1, <2>2, FS_EmptySet
  <2> QED BY <2>1, <2>3 DEF TextCounted, LineCount
<1> QED BY <1>1, ScanInvariant, PTL

\* Wherever the chunks end, and whatever the token, as long as it does not overlap
\* itself: none of its occurrences is missed and none is counted twice.
THEOREM PagesCountedOnce == Spec => []PagesCounted
<1>1. ScanRight => PagesCounted
  BY DEF ScanRight, PagesRight, PagesCounted, ApproxPageCount
<1> QED BY <1>1, ScanInvariant, PTL
=============================================================================
