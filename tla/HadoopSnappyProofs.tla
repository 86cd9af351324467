-------------------------- MODULE HadoopSnappyProofs --------------------------
(***************************************************************************)
(* Theorems about HadoopSnappyFormat: for every size of the buffers, the   *)
(* memory, the text and the parts, what compress and uncompress put into   *)
(* their work buffers fits them, what is written is a text from its        *)
(* beginning and in order whatever happened to the stream, and the blocks  *)
(* snzip makes fit the buffer of a reader.  Then, by the grammar of the    *)
(* stream and the place of the reader in it: blocks add up to their words, *)
(* only whole files succeed, a text comes back, own files are found.       *)
(***************************************************************************)
EXTENDS HadoopSnappyFormat, SequenceTheorems, FiniteSetTheorems, TLAPS

-----------------------------------------------------------------------------
(* Sizes.                                                                  *)

(* The argument of -b, as a size_t, and the input size made of it by       *)
(* hadoop_snappy_max_input_size() are sizes, also where they wrap around.  *)
LEMMA SizesAreSizes ==
  ASSUME NEW b \in BlockSizes \cup {0}
  PROVE  Buffer(b) \in 0 .. SizeValues - 1 /\ MaxInput(b) \in Nat
<1>1. b \in -SizeValues .. SizeValues - 1
  BY SizesAssumption
<1>2. Buffer(b) \in 0 .. SizeValues - 1
  BY <1>1, SizesAssumption DEF Buffer, Wrapped
<1>3. QED
  BY <1>2, SizesAssumption DEF MaxInput, Wrapped

(* More input never has a smaller bound for its compressed length.         *)
LEMMA CompressedLengthGrows ==
  ASSUME NEW m \in Nat, NEW n \in Nat, m <= n
  PROVE  /\ MaxCompressedLength(m) \in Nat
         /\ MaxCompressedLength(m) <= MaxCompressedLength(n)
BY DEF MaxCompressedLength

(* The overhead hadoop_snappy_max_input_size() takes off is enough: when   *)
(* there is memory for the work buffers, a block compresses to no more     *)
(* than the buffer it was chosen for.  Where the input size wraps around,  *)
(* there is no such memory.                                                *)
LEMMA OverheadIsEnough ==
  ASSUME NEW b \in BlockSizes, Fits(Fresh(MaxInput(b)))
  PROVE  MaxCompressedLength(MaxInput(b)) <= Buffer(b)
<1> DEFINE B == Buffer(b)
           n == MaxInput(b)
<1>1. B \in 0 .. SizeValues - 1 /\ n \in Nat
  BY SizesAreSizes
<1>2. 32 + n + n \div 6 <= Memory
  BY DEF Fits, Fresh, Buffers, MaxCompressedLength
<1>3. n = Wrapped(B - (B \div 6 + 32))
  BY DEF MaxInput
<1>4. B \div 6 <= B /\ B \div 6 \in Nat /\ n \div 6 \in Nat
  BY <1>1
<1>5. n = B - (B \div 6 + 32)
  BY <1>1, <1>2, <1>3, <1>4, SizesAssumption DEF Wrapped
<1>6. n <= B
  BY <1>1, <1>4, <1>5
<1>7. n \div 6 <= B \div 6
  BY <1>1, <1>6
<1>8. QED
  BY <1>1, <1>4, <1>5, <1>7 DEF MaxCompressedLength

-----------------------------------------------------------------------------
(* The items of a stream.                                                  *)

(* The items of a stream have their types.                                 *)
LEMMA ItemTypes ==
  ASSUME NEW n \in Nat, NEW first \in Nat, NEW c \in Nat
  PROVE  /\ Source(n) \in Items /\ Source(n).kind = "source"
         /\ Length(c) \in Items /\ Length(c).kind = "length"
         /\ Length(c).v = c /\ Length(c).n = 0
         /\ Data(first, n, c) \in Items /\ Data(first, n, c).kind = "data"
         /\ Data(first, n, c).first = first /\ Data(first, n, c).n = n
         /\ Data(first, n, c).v = c
BY DEF Source, Length, Data, Items

(* An item after a stream that holds the text up to t, in order: a word    *)
(* changes nothing of that, data from t on extend it.                      *)
LEMMA OneMore ==
  ASSUME NEW s \in Seq(Items), NEW e \in Items, NEW t \in Nat,
         Ordered(s), EndsAt(s, t), e.kind = "data" => e.first = t
  PROVE  /\ Append(s, e) \in Seq(Items) /\ Ordered(Append(s, e))
         /\ EndsAt(Append(s, e), IF e.kind = "data" THEN t + e.n ELSE t)
<1> DEFINE r == Append(s, e)
           L == Len(s) + 1
<1>1. /\ r \in Seq(Items) /\ Len(r) = L /\ Len(s) \in Nat
      /\ DOMAIN r = 1 .. L /\ DOMAIN s = 1 .. L - 1
      /\ r[L] = e /\ \A i \in 1 .. L - 1 : r[i] = s[i]
  OBVIOUS
<1> HIDE DEF r
<1>2. \A i : IsData(r, i) <=> IsData(s, i) \/ (i = L /\ e.kind = "data")
  BY <1>1 DEF IsData
<1>3. ASSUME NEW j \in DOMAIN r, IsData(r, j),
             \A k \in 1 .. j - 1 : r[k].kind # "data"
      PROVE  r[j].first = 0
  <2>1. CASE j = L
    <3>1. \A k \in DOMAIN s : s[k].kind # "data"
      BY <1>1, <1>3, <2>1
    <3>2. t = 0
      BY <3>1 DEF EndsAt
    <3>3. QED
      BY <1>1, <1>3, <2>1, <3>2 DEF IsData
  <2>2. CASE j # L
    <3>1. j \in DOMAIN s /\ IsData(s, j)
      BY <1>1, <1>2, <1>3, <2>2
    <3>2. \A k \in 1 .. j - 1 : s[k].kind # "data"
      BY <1>1, <1>3, <3>1
    <3>3. QED
      BY <1>1, <3>1, <3>2 DEF Ordered
  <2>3. QED
    BY <2>1, <2>2
<1>4. ASSUME NEW i \in DOMAIN r, NEW j \in DOMAIN r, Adjacent(r, i, j)
      PROVE  r[j].first = r[i].first + r[i].n
  <2>1. /\ IsData(r, i) /\ IsData(r, j) /\ i < j
        /\ \A k \in i + 1 .. j - 1 : r[k].kind # "data"
    BY <1>4 DEF Adjacent
  <2>2. i \in DOMAIN s /\ IsData(s, i)
    BY <1>1, <1>2, <2>1
  <2>3. CASE j = L
    <3>1. \A k \in i + 1 .. Len(s) : s[k].kind # "data"
      BY <1>1, <2>1, <2>2, <2>3
    <3>2. s[i].first + s[i].n = t
      BY <2>2, <3>1 DEF EndsAt
    <3>3. QED
      BY <1>1, <2>1, <2>2, <2>3, <3>2 DEF IsData
  <2>4. CASE j # L
    <3>1. j \in DOMAIN s /\ IsData(s, j)
      BY <1>1, <1>2, <2>1, <2>4
    <3>2. Adjacent(s, i, j)
      BY <1>1, <2>1, <2>2, <3>1 DEF Adjacent
    <3>3. QED
      BY <1>1, <2>2, <3>1, <3>2 DEF Ordered
  <2>5. QED
    BY <2>3, <2>4
<1>5. Ordered(r)
  BY <1>3, <1>4 DEF Ordered
<1>6. CASE e.kind = "data"
  <2>1. \E k \in DOMAIN r : r[k].kind = "data"
    BY <1>1, <1>6
  <2>2. ASSUME NEW i \in DOMAIN r, IsData(r, i),
               \A k \in i + 1 .. Len(r) : r[k].kind # "data"
        PROVE  r[i].first + r[i].n = t + e.n
    <3>1. i = L
      BY <1>1, <1>6, <2>2
    <3>2. QED
      BY <1>1, <1>6, <3>1
  <2>3. EndsAt(r, t + e.n)
    BY <2>1, <2>2 DEF EndsAt
  <2>4. QED
    BY <1>1, <1>5, <1>6, <2>3 DEF r
<1>7. CASE e.kind # "data"
  <2>1. (\A k \in DOMAIN r : r[k].kind # "data") => t = 0
    BY <1>1 DEF EndsAt
  <2>2. ASSUME NEW i \in DOMAIN r, IsData(r, i),
               \A k \in i + 1 .. Len(r) : r[k].kind # "data"
        PROVE  r[i].first + r[i].n = t
    <3>1. i \in DOMAIN s /\ IsData(s, i)
      BY <1>1, <1>2, <1>7, <2>2 DEF IsData
    <3>2. \A k \in i + 1 .. Len(s) : s[k].kind # "data"
      BY <1>1, <2>2, <3>1
    <3>3. QED
      BY <1>1, <3>1, <3>2 DEF EndsAt
  <2>3. EndsAt(r, t)
    BY <2>1, <2>2 DEF EndsAt
  <2>4. QED
    BY <1>1, <1>5, <1>7, <2>3 DEF r
<1>8. QED
  BY <1>6, <1>7

(* The word with the length of a block keeps the order.                    *)
LEMMA OneMoreSource ==
  ASSUME NEW s \in Seq(Items), NEW t \in Nat, NEW n \in Nat,
         Ordered(s), EndsAt(s, t)
  PROVE  LET r == s \o <<Source(n)>> IN
         /\ r \in Seq(Items) /\ Len(r) >= Len(s)
         /\ Ordered(r) /\ EndsAt(r, t)
         /\ \A i \in DOMAIN r :
              (i \in DOMAIN s /\ r[i] = s[i]) \/ r[i] = Source(n)
<1>1. Source(n) \in Items /\ Source(n).kind = "source"
  BY ItemTypes, 0 \in Nat
<1> DEFINE e == Source(n)
<1> HIDE DEF e
<1>2. s \o <<e>> = Append(s, e)
  BY <1>1 DEF e
<1>3. \A i \in DOMAIN Append(s, e) :
         (i \in DOMAIN s /\ Append(s, e)[i] = s[i]) \/ Append(s, e)[i] = e
  BY <1>1 DEF e
<1>4. Len(Append(s, e)) >= Len(s)
  BY <1>1 DEF e
<1>5. /\ Append(s, e) \in Seq(Items) /\ Ordered(Append(s, e))
      /\ EndsAt(Append(s, e), IF e.kind = "data" THEN t + e.n ELSE t)
  BY <1>1, OneMore DEF e
<1>6. EndsAt(Append(s, e), t)
  BY <1>1, <1>5 DEF e
<1>7. QED
  BY <1>2, <1>3, <1>4, <1>5, <1>6 DEF e

(* A part that holds the text from t on keeps the order and extends it.    *)
LEMMA OneMorePart ==
  ASSUME NEW s \in Seq(Items), NEW t \in Nat, NEW n \in Nat, NEW c \in Nat,
         Ordered(s), EndsAt(s, t)
  PROVE  LET r == s \o Part(t, n, c) IN
         /\ r \in Seq(Items) /\ Len(r) >= Len(s)
         /\ Ordered(r) /\ EndsAt(r, t + n)
         /\ \A i \in DOMAIN r :
              \/ i \in DOMAIN s /\ r[i] = s[i]
              \/ r[i] = Length(c) \/ r[i] = Data(t, n, c)
<1> DEFINE a == Length(c)
           d == Data(t, n, c)
<1>1. /\ a \in Items /\ a.kind = "length"
      /\ d \in Items /\ d.kind = "data" /\ d.first = t /\ d.n = n
  BY ItemTypes
<1>2. Part(t, n, c) = <<a, d>>
  BY DEF Part
<1> HIDE DEF a, d
<1> DEFINE q == Append(s, a)
<1>3. q \in Seq(Items) /\ Ordered(q) /\ EndsAt(q, t)
  <2>1. /\ q \in Seq(Items) /\ Ordered(q)
        /\ EndsAt(q, IF a.kind = "data" THEN t + a.n ELSE t)
    BY <1>1, OneMore
  <2>2. QED
    BY <1>1, <2>1
<1>4. s \o <<a, d>> = Append(q, d)
  BY <1>1
<1>5. \A i \in DOMAIN Append(q, d) :
         \/ i \in DOMAIN s /\ Append(q, d)[i] = s[i]
         \/ Append(q, d)[i] = a \/ Append(q, d)[i] = d
  BY <1>1
<1>6. Len(Append(q, d)) >= Len(s)
  BY <1>1
<1> HIDE DEF q
<1>7. /\ Append(q, d) \in Seq(Items) /\ Ordered(Append(q, d))
      /\ EndsAt(Append(q, d), IF d.kind = "data" THEN t + d.n ELSE t)
  BY <1>1, <1>3, OneMore
<1>8. EndsAt(Append(q, d), t + n)
  BY <1>1, <1>7
<1>9. QED
  BY <1>2, <1>4, <1>5, <1>6, <1>7, <1>8 DEF a, d

-----------------------------------------------------------------------------
(* What may happen to a stream on its way keeps its data in order.         *)

(* A beginning of a stream.                                                *)
LEMMA BeginningOrdered ==
  ASSUME NEW s \in Seq(Items), Ordered(s), NEW m \in 0 .. Len(s)
  PROVE  SubSeq(s, 1, m) \in Seq(Items) /\ Ordered(SubSeq(s, 1, m))
<1> DEFINE r == SubSeq(s, 1, m)
<1>1. /\ r \in Seq(Items) /\ Len(r) = m /\ DOMAIN r = 1 .. m
      /\ DOMAIN s = 1 .. Len(s) /\ Len(s) \in Nat
      /\ \A i \in 1 .. m : r[i] = s[i]
  OBVIOUS
<1> HIDE DEF r
<1>2. ASSUME NEW j \in DOMAIN r, IsData(r, j),
             \A k \in 1 .. j - 1 : r[k].kind # "data"
      PROVE  r[j].first = 0
  <2>1. IsData(s, j) /\ \A k \in 1 .. j - 1 : s[k].kind # "data"
    BY <1>1, <1>2 DEF IsData
  <2>2. QED
    BY <1>1, <2>1 DEF Ordered, IsData
<1>3. ASSUME NEW i \in DOMAIN r, NEW j \in DOMAIN r, Adjacent(r, i, j)
      PROVE  r[j].first = r[i].first + r[i].n
  <2>1. Adjacent(s, i, j)
    BY <1>1, <1>3 DEF Adjacent, IsData
  <2>2. QED
    BY <1>1, <2>1 DEF Ordered, Adjacent, IsData
<1>4. QED
  BY <1>1, <1>2, <1>3 DEF Ordered, r

(* A stream whose items hold the same data as before.                      *)
LEMMA SameDataOrdered ==
  ASSUME NEW s \in Seq(Items), Ordered(s),
         NEW r \in Seq(Items), Len(r) = Len(s),
         \A i \in 1 .. Len(s) : /\ r[i].kind = s[i].kind
                                /\ r[i].first = s[i].first /\ r[i].n = s[i].n
  PROVE  Ordered(r)
<1>1. DOMAIN r = 1 .. Len(s) /\ DOMAIN s = 1 .. Len(s) /\ Len(s) \in Nat
  OBVIOUS
<1>2. ASSUME NEW j \in DOMAIN r, IsData(r, j),
             \A k \in 1 .. j - 1 : r[k].kind # "data"
      PROVE  r[j].first = 0
  <2>1. IsData(s, j) /\ \A k \in 1 .. j - 1 : s[k].kind # "data"
    BY <1>1, <1>2 DEF IsData
  <2>2. QED
    BY <1>1, <2>1 DEF Ordered, IsData
<1>3. ASSUME NEW i \in DOMAIN r, NEW j \in DOMAIN r, Adjacent(r, i, j)
      PROVE  r[j].first = r[i].first + r[i].n
  <2>1. Adjacent(s, i, j)
    BY <1>1, <1>3 DEF Adjacent, IsData
  <2>2. QED
    BY <1>1, <2>1 DEF Ordered, Adjacent, IsData
<1>4. QED
  BY <1>2, <1>3 DEF Ordered

(* A word in front of a stream.                                            *)
LEMMA WordInFrontOrdered ==
  ASSUME NEW s \in Seq(Items), Ordered(s), NEW e \in Items, e.kind # "data"
  PROVE  <<e>> \o s \in Seq(Items) /\ Ordered(<<e>> \o s)
<1> DEFINE r == <<e>> \o s
<1>1. /\ r \in Seq(Items) /\ Len(r) = Len(s) + 1 /\ Len(s) \in Nat
      /\ DOMAIN r = 1 .. Len(s) + 1 /\ DOMAIN s = 1 .. Len(s)
      /\ r[1] = e /\ \A i \in 1 .. Len(s) : r[i + 1] = s[i]
  OBVIOUS
<1> HIDE DEF r
<1>2. \A i \in 2 .. Len(s) + 1 : r[i] = s[i - 1] /\ i - 1 \in 1 .. Len(s)
  BY <1>1
<1>3. \A i \in DOMAIN r :
         IsData(r, i) => i \in 2 .. Len(s) + 1 /\ IsData(s, i - 1)
  BY <1>1, <1>2 DEF IsData
<1>4. ASSUME NEW j \in DOMAIN r, IsData(r, j),
             \A k \in 1 .. j - 1 : r[k].kind # "data"
      PROVE  r[j].first = 0
  <2>1. j \in 2 .. Len(s) + 1 /\ IsData(s, j - 1)
    BY <1>3, <1>4
  <2>2. ASSUME NEW k \in 1 .. j - 1 - 1
        PROVE  s[k].kind # "data"
    <3>1. k + 1 \in 1 .. j - 1 /\ k \in 1 .. Len(s)
      BY <1>1, <2>1
    <3>2. r[k + 1] = s[k]
      BY <1>1, <3>1
    <3>3. QED
      BY <1>4, <3>1, <3>2
  <2>3. s[j - 1].first = 0
    BY <1>1, <2>1, <2>2 DEF Ordered
  <2>4. QED
    BY <1>2, <2>1, <2>3
<1>5. ASSUME NEW i \in DOMAIN r, NEW j \in DOMAIN r, Adjacent(r, i, j)
      PROVE  r[j].first = r[i].first + r[i].n
  <2>1. /\ IsData(r, i) /\ IsData(r, j) /\ i < j
        /\ \A k \in i + 1 .. j - 1 : r[k].kind # "data"
    BY <1>5 DEF Adjacent
  <2>2. /\ i \in 2 .. Len(s) + 1 /\ IsData(s, i - 1)
        /\ j \in 2 .. Len(s) + 1 /\ IsData(s, j - 1)
    BY <1>3, <2>1
  <2>3. ASSUME NEW k \in i - 1 + 1 .. j - 1 - 1
        PROVE  s[k].kind # "data"
    <3>1. k + 1 \in i + 1 .. j - 1 /\ k \in 1 .. Len(s)
      BY <1>1, <2>2
    <3>2. r[k + 1] = s[k]
      BY <1>1, <3>1
    <3>3. QED
      BY <2>1, <3>1, <3>2
  <2>4. Adjacent(s, i - 1, j - 1)
    BY <2>1, <2>2, <2>3 DEF Adjacent
  <2>5. s[j - 1].first = s[i - 1].first + s[i - 1].n
    BY <1>1, <2>2, <2>4 DEF Ordered
  <2>6. QED
    BY <1>2, <2>2, <2>5
<1>6. QED
  BY <1>1, <1>4, <1>5 DEF Ordered, r

-----------------------------------------------------------------------------
(* The inductive invariant.                                                *)

(* As long as uncompress has not started, it has passed nothing.           *)
LEMMA NothingPassed ==
  ASSUME at' = 1, got' = <<>>, phase' # "held"
  PROVE  Passed'
BY DEF Passed, IsData

(* What compress and uncompress have put into the work buffer stays within *)
(* it when nothing is put there.                                           *)
LEMMA NothingPut ==
  ASSUME BuffersFit, UNCHANGED <<wb, stream, got>>,
         phase' \notin {"encode", "held"}
  PROVE  BuffersFit'
BY DEF BuffersFit, Within

(* The work buffers made for an input size.                                *)
LEMMA FreshBuffers ==
  ASSUME NEW b \in BlockSizes \cup {0}
  PROVE  Fresh(MaxInput(b)) \in [c : Nat, uc : Nat]
BY SizesAreSizes DEF Fresh, Buffers, MaxCompressedLength

(* Both start from nothing.                                                *)
LEMMA InitInvariant == Init => IInv
<1> SUFFICES ASSUME Init PROVE IInv
  OBVIOUS
<1>1. TypeOK
  BY SizesAssumption, EmptySeq DEF Init, TypeOK, Phases, Buffers
<1>2. Passed
  BY DEF Init, Passed, IsData
<1>3. Encoding
  BY DEF Init, Encoding, EndsAt, IsData
<1>4. Ordered(stream)
  BY DEF Init, Ordered, IsData, Adjacent
<1>5. BuffersFit /\ BlocksFitReader
  BY DEF Init, BuffersFit, BlocksFitReader
<1>6. QED
  BY <1>1, <1>2, <1>3, <1>4, <1>5 DEF IInv

(* StartEncode has work buffers for the input size, or dies.               *)
LEMMA StartEncodeKeeps == IInv /\ StartEncode => IInv'
<1> SUFFICES ASSUME IInv, StartEncode PROVE IInv'
  OBVIOUS
<1>1. /\ phase = "start" /\ stream = <<>> /\ taken = 0
      /\ at = 1 /\ got = <<>> /\ EndsAt(stream, taken)
  BY DEF IInv, StartEncode, Passed, Encoding
<1>2. /\ phase' = IF Fits(wb') THEN "encode" ELSE "died"
      /\ wb' = IF writer = "snzip" THEN Fresh(MaxInput(blockSize)) ELSE wb
      /\ writer' = writer /\ blockSize' = blockSize /\ size' = size
      /\ taken' = taken /\ stream' = stream /\ mishaps' = mishaps
      /\ at' = at /\ source' = source /\ length' = length /\ got' = got
  BY DEF StartEncode, text, reader
<1>3. wb' \in [c : Nat, uc : Nat]
  BY <1>2, FreshBuffers DEF IInv, TypeOK
<1>4. TypeOK'
  BY <1>2, <1>3 DEF IInv, TypeOK, Phases, Ended
<1>5. Passed'
  BY <1>1, <1>2, NothingPassed
<1>6. Encoding'
  BY <1>1, <1>2 DEF Encoding
<1>7. Ordered(stream)'
  BY <1>2 DEF IInv
<1>8. BuffersFit'
  BY <1>1, <1>2 DEF BuffersFit
<1>9. BlocksFitReader'
  BY <1>1, <1>2 DEF BlocksFitReader
<1>10. QED
  BY <1>4, <1>5, <1>6, <1>7, <1>8, <1>9 DEF IInv

(* CompressBlock puts a block into the buffers that is no larger than the  *)
(* input size they were made for.                                          *)
LEMMA CompressBlockKeeps == IInv /\ CompressBlock => IInv'
<1> SUFFICES ASSUME IInv, CompressBlock PROVE IInv'
  OBVIOUS
<1>1. /\ phase = "encode" /\ writer = "snzip" /\ Chunk > 0
      /\ taken' = taken + Chunk /\ phase' = phase /\ wb' = wb
      /\ writer' = writer /\ blockSize' = blockSize /\ size' = size
      /\ mishaps' = mishaps
      /\ at' = at /\ source' = source /\ length' = length /\ got' = got
  BY DEF CompressBlock, text, reader
<1>2. /\ blockSize \in BlockSizes /\ size \in Nat /\ taken \in 0 .. size
      /\ stream \in Seq(Items) /\ Ordered(stream) /\ EndsAt(stream, taken)
      /\ at = 1 /\ got = <<>>
      /\ wb = Fresh(MaxInput(blockSize)) /\ Fits(wb)
  BY <1>1, SizesAssumption DEF IInv, TypeOK, Encoding, Passed
<1> DEFINE n == Chunk
           most == MaxInput(blockSize)
<1>3. most \in Nat
  BY <1>2, SizesAreSizes
<1>4. n \in Nat /\ n <= most /\ taken + n <= size
  BY <1>1, <1>2, <1>3 DEF Chunk, Minimum
<1>5. PICK c \in CompressedSizes(n) :
        stream' = stream \o <<Source(n)>> \o Part(taken, n, c)
  BY DEF CompressBlock
<1>6. c \in Nat /\ c <= MaxCompressedLength(n)
  BY <1>4 DEF CompressedSizes, MaxCompressedLength
<1>7. c <= MaxCompressedLength(most) /\ MaxCompressedLength(most) \in Nat
  BY <1>3, <1>4, <1>6, CompressedLengthGrows
<1> DEFINE head == stream \o <<Source(n)>>
<1> HIDE DEF n, most
<1>8. /\ head \in Seq(Items) /\ Len(head) >= Len(stream)
      /\ Ordered(head) /\ EndsAt(head, taken)
      /\ \A i \in DOMAIN head :
           (i \in DOMAIN stream /\ head[i] = stream[i]) \/ head[i] = Source(n)
  BY <1>2, <1>4, OneMoreSource
<1> HIDE DEF head
<1>9. /\ stream' \in Seq(Items) /\ Len(stream') >= Len(head)
      /\ Ordered(stream') /\ EndsAt(stream', taken + n)
      /\ \A i \in DOMAIN stream' :
           \/ i \in DOMAIN head /\ stream'[i] = head[i]
           \/ stream'[i] = Length(c) \/ stream'[i] = Data(taken, n, c)
  <2>1. stream' = head \o Part(taken, n, c)
    BY <1>5 DEF head
  <2>2. taken \in Nat
    BY <1>2
  <2>3. QED
    <3> DEFINE r == head \o Part(taken, n, c)
    <3>1. /\ r \in Seq(Items) /\ Len(r) >= Len(head)
          /\ Ordered(r) /\ EndsAt(r, taken + n)
          /\ \A i \in DOMAIN r :
               \/ i \in DOMAIN head /\ r[i] = head[i]
               \/ r[i] = Length(c) \/ r[i] = Data(taken, n, c)
      BY <1>4, <1>6, <1>8, <2>2, OneMorePart
    <3> HIDE DEF r
    <3>2. stream' = r
      BY <2>1 DEF r
    <3>3. QED
      BY <3>1, <3>2
<1>10. \A i \in DOMAIN stream' :
         \/ i \in DOMAIN stream /\ stream'[i] = stream[i]
         \/ stream'[i] = Source(n)
         \/ stream'[i] = Length(c) \/ stream'[i] = Data(taken, n, c)
  BY <1>8, <1>9
<1>11. TypeOK'
  <2>1. taken' \in 0 .. size'
    BY <1>1, <1>2, <1>4 DEF n
  <2>2. at' \in 1 .. Len(stream') + 1 /\ got' \in Seq(DOMAIN stream')
    BY <1>1, <1>2, <1>9
  <2>3. QED
    BY <1>1, <1>9, <2>1, <2>2 DEF IInv, TypeOK
<1>12. Passed'
  BY <1>1, <1>2, NothingPassed
<1>13. Encoding'
  BY <1>1, <1>2, <1>9 DEF Encoding, n
<1>14. BuffersFit'
  <2>1. ASSUME NEW i \in DOMAIN stream', stream'[i].kind = "data"
        PROVE  Within(stream[i])'
    <3>1. CASE i \in DOMAIN stream /\ stream'[i] = stream[i]
      BY <1>1, <2>1, <3>1 DEF IInv, BuffersFit, Within
    <3>2. CASE stream'[i] = Data(taken, n, c)
      <4>1. stream'[i].v = c /\ stream'[i].n = n
        BY <1>2, <1>4, <1>6, <3>2, ItemTypes
      <4>2. wb'.c = MaxCompressedLength(most) /\ wb'.uc = most
        BY <1>1, <1>2 DEF Fresh, Buffers, most
      <4>3. QED
        BY <1>4, <1>7, <4>1, <4>2 DEF Within
    <3>3. stream'[i] # Source(n) /\ stream'[i] # Length(c)
      BY <1>4, <1>6, <2>1, ItemTypes
    <3>4. QED
      BY <1>10, <3>1, <3>2, <3>3
  <2>2. QED
    BY <1>1, <1>2, <2>1 DEF BuffersFit
<1>15. BlocksFitReader'
  <2>1. c <= Buffer(blockSize)
    <3>1. MaxCompressedLength(most) <= Buffer(blockSize)
      BY <1>2, OverheadIsEnough DEF most
    <3>2. QED
      BY <1>2, <1>6, <1>7, <3>1, SizesAreSizes
  <2>2. ASSUME mishaps = {}, NEW i \in DOMAIN stream',
               stream'[i].kind # "source"
        PROVE  stream'[i].v <= Buffer(blockSize)
    <3>1. CASE i \in DOMAIN stream /\ stream'[i] = stream[i]
      BY <1>1, <2>2, <3>1 DEF IInv, BlocksFitReader
    <3>2. CASE stream'[i] = Length(c) \/ stream'[i] = Data(taken, n, c)
      <4>1. stream'[i].v = c
        BY <1>2, <1>4, <1>6, <3>2, ItemTypes
      <4>2. QED
        BY <2>1, <4>1
    <3>3. stream'[i] # Source(n)
      BY <1>4, <2>2, ItemTypes
    <3>4. QED
      BY <1>10, <3>1, <3>2, <3>3
  <2>3. QED
    BY <1>1, <2>2 DEF BlocksFitReader
<1>16. QED
  BY <1>9, <1>11, <1>12, <1>13, <1>14, <1>15 DEF IInv

(* HadoopBlock extends the text by one or two parts.                       *)
LEMMA HadoopBlockKeeps == IInv /\ HadoopBlock => IInv'
<1> SUFFICES ASSUME IInv, HadoopBlock PROVE IInv'
  OBVIOUS
<1>1. /\ phase = "encode" /\ writer = "hadoop" /\ taken < size
      /\ phase' = phase /\ wb' = wb
      /\ writer' = writer /\ blockSize' = blockSize /\ size' = size
      /\ mishaps' = mishaps
      /\ at' = at /\ source' = source /\ length' = length /\ got' = got
  BY DEF HadoopBlock, text, reader
<1>2. /\ size \in Nat /\ taken \in Nat /\ taken <= size
      /\ stream \in Seq(Items) /\ Ordered(stream) /\ EndsAt(stream, taken)
      /\ at = 1 /\ got = <<>>
  <2>1. size \in Nat /\ taken \in 0 .. size /\ stream \in Seq(Items)
    BY SizesAssumption DEF IInv, TypeOK
  <2>2. /\ Ordered(stream) /\ EndsAt(stream, taken)
        /\ at = 1 /\ got = <<>>
    BY <1>1 DEF IInv, Encoding, Passed
  <2>3. QED
    BY <2>1, <2>2
<1>3. PICK n \in PartSizes \cup {size - taken}, m \in PartSizes \cup {0} :
        /\ taken + n + m <= size
        /\ taken' = taken + n + m
        /\ \E c \in {3, MaxCompressedLength(n)} :
             stream' = stream \o <<Source(n + m)>> \o Part(taken, n, c)
                         \o IF m = 0 THEN <<>> ELSE Part(taken + n, m, m + 2)
  BY DEF HadoopBlock
<1>4. PICK c \in {3, MaxCompressedLength(n)} :
        stream' = stream \o <<Source(n + m)>> \o Part(taken, n, c)
                    \o IF m = 0 THEN <<>> ELSE Part(taken + n, m, m + 2)
  BY <1>3
<1>5. n \in Nat /\ m \in Nat
  BY <1>1, <1>2, SizesAssumption
<1>6. c \in Nat
  BY <1>5 DEF MaxCompressedLength
<1> DEFINE head == stream \o <<Source(n + m)>>
           one == head \o Part(taken, n, c)
<1> HIDE DEF head, one
<1>7. /\ head \in Seq(Items) /\ Len(head) >= Len(stream)
      /\ Ordered(head) /\ EndsAt(head, taken)
  <2>1. n + m \in Nat
    BY <1>5
  <2>2. QED
    BY <1>2, <2>1, OneMoreSource DEF head
<1>8. /\ one \in Seq(Items) /\ Len(one) >= Len(head)
      /\ Ordered(one) /\ EndsAt(one, taken + n)
  BY <1>2, <1>5, <1>6, <1>7, OneMorePart DEF one
<1>9. /\ stream' \in Seq(Items) /\ Len(stream') >= Len(one)
      /\ Ordered(stream') /\ EndsAt(stream', taken + n + m)
  <2>1. CASE m = 0
    <3>1. stream' = one \o <<>>
      BY <1>4, <2>1 DEF one, head
    <3>2. stream' = one
      BY <1>8, <3>1
    <3>3. taken + n + m = taken + n
      BY <1>2, <1>5, <2>1
    <3>4. QED
      BY <1>8, <3>2, <3>3
  <2>2. CASE m # 0
    <3>1. stream' = one \o Part(taken + n, m, m + 2)
      BY <1>4, <2>2 DEF one, head
    <3>2. taken + n \in Nat /\ m + 2 \in Nat
      BY <1>2, <1>5
    <3>3. QED
      BY <1>5, <1>8, <3>1, <3>2, OneMorePart
  <2>3. QED
    BY <2>1, <2>2
<1>10. TypeOK'
  <2>1. taken' \in 0 .. size'
    BY <1>1, <1>2, <1>3, <1>5
  <2>2. at' \in 1 .. Len(stream') + 1 /\ got' \in Seq(DOMAIN stream')
    BY <1>1, <1>2, <1>9
  <2>3. QED
    BY <1>1, <1>9, <2>1, <2>2 DEF IInv, TypeOK
<1>11. Passed'
  BY <1>1, <1>2, NothingPassed
<1>12. Encoding'
  BY <1>1, <1>3, <1>9 DEF Encoding
<1>13. BuffersFit' /\ BlocksFitReader'
  BY <1>1, <1>2 DEF BuffersFit, BlocksFitReader
<1>14. QED
  BY <1>9, <1>10, <1>11, <1>12, <1>13 DEF IInv

(* The end of compress.                                                    *)
LEMMA EncodeEndsKeeps == IInv /\ EncodeEnds => IInv'
<1> SUFFICES ASSUME IInv, EncodeEnds PROVE IInv'
  OBVIOUS
<1>1. /\ phase = "encode" /\ phase' = "wire" /\ taken' = taken /\ wb' = wb
      /\ writer' = writer /\ blockSize' = blockSize /\ size' = size
      /\ stream' = stream /\ mishaps' = mishaps
      /\ at' = at /\ source' = source /\ length' = length /\ got' = got
  BY DEF EncodeEnds, text, reader
<1>2. at = 1 /\ got = <<>>
  BY <1>1 DEF IInv, Passed
<1>3. TypeOK'
  BY <1>1 DEF IInv, TypeOK, Phases
<1>4. Passed'
  BY <1>1, <1>2, NothingPassed
<1>5. Encoding' /\ Ordered(stream)'
  BY <1>1 DEF IInv, Encoding
<1>6. BuffersFit'
  BY <1>1, NothingPut DEF IInv
<1>7. BlocksFitReader'
  BY <1>1 DEF IInv, BlocksFitReader
<1>8. QED
  BY <1>3, <1>4, <1>5, <1>6, <1>7 DEF IInv

(* What happens to the stream on its way.                                  *)
LEMMA WireKeeps == IInv /\ Wire => IInv'
<1> SUFFICES ASSUME IInv, Wire PROVE IInv'
  OBVIOUS
<1>1. /\ phase = "wire" /\ phase' = phase /\ taken' = taken /\ wb' = wb
      /\ writer' = writer /\ blockSize' = blockSize /\ size' = size
      /\ at' = at /\ source' = source /\ length' = length /\ got' = got
  BY DEF Wire, text, reader
<1>2. at = 1 /\ got = <<>> /\ stream \in Seq(Items) /\ Ordered(stream)
  BY <1>1 DEF IInv, Passed, TypeOK
<1>3. /\ stream' \in Seq(Items) /\ Ordered(stream')
      /\ \E what \in {"cut", "corrupt", "word", "empty block"} :
           mishaps' = mishaps \cup {what}
  <2>1. CASE CutBeforeItem
    <3>1. PICK i \in DOMAIN stream : stream' = SubSeq(stream, 1, i - 1)
      BY <2>1 DEF CutBeforeItem
    <3>2. i - 1 \in 0 .. Len(stream)
      BY <1>2
    <3>3. QED
      BY <1>2, <2>1, <3>1, <3>2, BeginningOrdered DEF CutBeforeItem
  <2>2. CASE CutInItem
    <3>1. PICK i \in DOMAIN stream :
            stream' = [SubSeq(stream, 1, i) EXCEPT ![i].cut = TRUE]
      BY <2>2 DEF CutInItem
    <3> DEFINE r == SubSeq(stream, 1, i)
    <3>2. i \in 0 .. Len(stream) /\ Len(r) = i /\ i \in 1 .. i
      BY <1>2
    <3>3. r \in Seq(Items) /\ Ordered(r)
      BY <1>2, <3>2, BeginningOrdered
    <3> HIDE DEF r
    <3>4. stream' = [r EXCEPT ![i] = [r[i] EXCEPT !.cut = TRUE]]
      BY <3>1 DEF r
    <3>5. r[i] \in Items
      BY <3>2, <3>3
    <3>6. [r[i] EXCEPT !.cut = TRUE] \in Items
      BY <3>5 DEF Items
    <3>7. stream' \in Seq(Items) /\ Len(stream') = Len(r)
      BY <3>2, <3>3, <3>4, <3>6
    <3>8. \A k \in 1 .. Len(r) :
             /\ stream'[k].kind = r[k].kind
             /\ stream'[k].first = r[k].first /\ stream'[k].n = r[k].n
      BY <3>2, <3>3, <3>4, <3>5 DEF Items
    <3>9. QED
      BY <2>2, <3>3, <3>7, <3>8, SameDataOrdered DEF CutInItem
  <2>3. CASE Corrupt
    <3>1. PICK i \in DOMAIN stream :
            stream' = [stream EXCEPT ![i].good = FALSE]
      BY <2>3 DEF Corrupt
    <3>2. stream' = [stream EXCEPT ![i] = [stream[i] EXCEPT !.good = FALSE]]
      BY <3>1
    <3>3. stream[i] \in Items
      BY <1>2
    <3>4. [stream[i] EXCEPT !.good = FALSE] \in Items
      BY <3>3 DEF Items
    <3>5. stream' \in Seq(Items) /\ Len(stream') = Len(stream)
      BY <1>2, <3>2, <3>4
    <3>6. \A k \in 1 .. Len(stream) :
             /\ stream'[k].kind = stream[k].kind
             /\ stream'[k].first = stream[k].first
             /\ stream'[k].n = stream[k].n
      BY <1>2, <3>2, <3>3 DEF Items
    <3>7. QED
      BY <1>2, <2>3, <3>5, <3>6, SameDataOrdered DEF Corrupt
  <2>4. CASE WrongWord
    <3>1. PICK i \in DOMAIN stream :
            \E v \in {stream[i].v - 1, stream[i].v + 1, Memory + 1} :
              v > 0 /\ stream' = [stream EXCEPT ![i].v = v]
      BY <2>4 DEF WrongWord
    <3>2. PICK v \in {stream[i].v - 1, stream[i].v + 1, Memory + 1} :
            v > 0 /\ stream' = [stream EXCEPT ![i].v = v]
      BY <3>1
    <3>3. stream[i] \in Items
      BY <1>2
    <3>4. v \in Nat
      BY <3>2, <3>3, SizesAssumption DEF Items
    <3>5. stream' = [stream EXCEPT ![i] = [stream[i] EXCEPT !.v = v]]
      BY <3>2
    <3>6. [stream[i] EXCEPT !.v = v] \in Items
      BY <3>3, <3>4 DEF Items
    <3>7. stream' \in Seq(Items) /\ Len(stream') = Len(stream)
      BY <1>2, <3>5, <3>6
    <3>8. \A k \in 1 .. Len(stream) :
             /\ stream'[k].kind = stream[k].kind
             /\ stream'[k].first = stream[k].first
             /\ stream'[k].n = stream[k].n
      BY <1>2, <3>3, <3>5 DEF Items
    <3>9. QED
      BY <1>2, <2>4, <3>7, <3>8, SameDataOrdered DEF WrongWord
  <2>5. CASE EmptyBlock
    <3>1. Source(0) \in Items /\ Source(0).kind # "data"
      BY ItemTypes, 0 \in Nat
    <3>2. QED
      BY <1>2, <2>5, <3>1, WordInFrontOrdered DEF EmptyBlock
  <2>6. QED
    BY <2>1, <2>2, <2>3, <2>4, <2>5 DEF Wire
<1>4. TypeOK'
  <2>1. at' \in 1 .. Len(stream') + 1 /\ got' \in Seq(DOMAIN stream')
    <3>1. stream' \in Seq(Items)
      BY <1>3
    <3>2. QED
      BY <1>1, <1>2, <3>1
  <2>2. mishaps' \subseteq {"cut", "corrupt", "word", "empty block", "call"}
    BY <1>3 DEF IInv, TypeOK
  <2>3. QED
    BY <1>1, <1>3, <2>1, <2>2 DEF IInv, TypeOK
<1>5. Passed'
  BY <1>1, <1>2, NothingPassed
<1>6. Encoding'
  BY <1>1 DEF Encoding
<1>7. BuffersFit' /\ BlocksFitReader'
  <2>1. mishaps' # {}
    BY <1>3
  <2>2. BuffersFit'
    BY <1>1, <1>2 DEF BuffersFit
  <2>3. QED
    BY <2>1, <2>2 DEF BlocksFitReader
<1>8. QED
  BY <1>3, <1>4, <1>5, <1>6, <1>7 DEF IInv

-----------------------------------------------------------------------------
(* The steps of uncompress, which leave the stream alone.                  *)

(* What is left to show of a step of uncompress.                           *)
LEMMA DecodeFrame ==
  ASSUME IInv, UNCHANGED <<text, taken, stream, mishaps>>,
         phase' \notin {"start", "encode"}, TypeOK', Passed', BuffersFit'
  PROVE  IInv'
<1>1. Encoding' /\ Ordered(stream)'
  BY DEF IInv, Encoding
<1>2. BlocksFitReader'
  BY DEF IInv, BlocksFitReader, text
<1>3. QED
  BY <1>1, <1>2 DEF IInv

(* The reader stays where it is.                                           *)
LEMMA PassedStays ==
  ASSUME Passed, UNCHANGED <<stream, at, got>>,
         phase' \notin {"start", "encode", "wire"},
         phase' = "held" => IsData(stream, at)
  PROVE  Passed'
BY DEF Passed, IsData

(* It goes past a word.                                                    *)
LEMMA PassedWord ==
  ASSUME Passed, UNCHANGED <<stream, got>>, at \in Nat, at' = at + 1,
         ~IsData(stream, at), got \in Seq(DOMAIN stream),
         stream \in Seq(Items),
         phase' \notin {"start", "encode", "wire", "held"}
  PROVE  Passed'
<1>1. \A x \in DOMAIN got : got'[x] < at' /\ IsData(stream', got'[x])
  BY DEF Passed, IsData
<1>2. \A x, y \in DOMAIN got : x < y => got'[x] < got'[y]
  BY DEF Passed
<1>3. ASSUME NEW i \in 1 .. at' - 1, IsData(stream, i)
      PROVE  \E x \in DOMAIN got : got[x] = i
  <2>1. i \in 1 .. at - 1
    BY <1>3
  <2>2. QED
    BY <1>3, <2>1 DEF Passed
<1>4. QED
  BY <1>1, <1>2, <1>3 DEF Passed, IsData

(* It goes past data and writes them.                                      *)
LEMMA PassedData ==
  ASSUME Passed, UNCHANGED stream, got' = Append(got, at), at \in Nat,
         at' = at + 1, IsData(stream, at), got \in Seq(DOMAIN stream),
         stream \in Seq(Items),
         phase' \notin {"start", "encode", "wire", "held"}
  PROVE  Passed'
<1> DEFINE L == Len(got) + 1
           g == Append(got, at)
<1>1. /\ Len(got) \in Nat /\ DOMAIN got = 1 .. L - 1
      /\ DOMAIN g = 1 .. L /\ g[L] = at /\ \A x \in 1 .. L - 1 : g[x] = got[x]
      /\ \A x \in 1 .. L - 1 : got[x] \in 1 .. Len(stream)
      /\ Len(stream) \in Nat
  OBVIOUS
<1>2. \A x \in 1 .. L - 1 : got[x] < at /\ IsData(stream, got[x])
  BY <1>1 DEF Passed
<1> HIDE DEF g
<1>3. ASSUME NEW x \in DOMAIN g
      PROVE  g[x] < at + 1 /\ IsData(stream, g[x])
  <2>1. CASE x = L
    BY <1>1, <2>1
  <2>2. CASE x # L
    BY <1>1, <1>2, <1>3, <2>2
  <2>3. QED
    BY <2>1, <2>2
<1>4. ASSUME NEW x \in DOMAIN g, NEW y \in DOMAIN g, x < y
      PROVE  g[x] < g[y]
  <2>1. x \in 1 .. L - 1
    BY <1>1, <1>4
  <2>2. CASE y = L
    BY <1>1, <1>2, <2>1, <2>2
  <2>3. CASE y # L
    BY <1>1, <1>4, <2>1, <2>3 DEF Passed
  <2>4. QED
    BY <2>2, <2>3
<1>5. ASSUME NEW i \in 1 .. at' - 1, IsData(stream, i)
      PROVE  \E x \in DOMAIN g : g[x] = i
  <2>1. CASE i = at
    BY <1>1, <2>1
  <2>2. CASE i # at
    <3>1. i \in 1 .. at - 1
      BY <1>5, <2>2
    <3>2. PICK x \in DOMAIN got : got[x] = i
      BY <1>5, <3>1 DEF Passed
    <3>3. QED
      BY <1>1, <3>2
  <2>3. QED
    BY <2>1, <2>2
<1>6. got' = g
  BY DEF g
<1>7. QED
  BY <1>3, <1>4, <1>5, <1>6 DEF Passed, IsData

(* A step of uncompress that puts nothing into the buffers, which may grow.*)
LEMMA BuffersGrow ==
  ASSUME BuffersFit, UNCHANGED <<stream, got>>, TypeOK,
         wb' \in [c : Nat, uc : Nat], wb.c <= wb'.c, wb.uc <= wb'.uc,
         phase' # "encode", phase' = "held" => length' <= wb'.c
  PROVE  BuffersFit'
<1>1. ASSUME NEW x \in DOMAIN got
      PROVE  stream[got[x]].v <= wb'.c /\ stream[got[x]].n <= wb'.uc
  <2>1. /\ stream \in Seq(Items) /\ got \in Seq(DOMAIN stream)
        /\ wb \in [c : Nat, uc : Nat]
    BY DEF TypeOK
  <2>2. got[x] \in DOMAIN stream
    BY <1>1, <2>1
  <2>3. stream[got[x]].v \in Nat /\ stream[got[x]].n \in Nat
    <3>1. stream[got[x]] \in Items
      BY <2>1, <2>2
    <3>2. QED
      BY <3>1 DEF Items
  <2>4. stream[got[x]].v <= wb.c /\ stream[got[x]].n <= wb.uc
    BY <1>1 DEF BuffersFit, Within
  <2>5. wb.c \in Nat /\ wb.uc \in Nat /\ wb'.c \in Nat /\ wb'.uc \in Nat
    BY <2>1
  <2>6. QED
    BY <2>3, <2>4, <2>5
<1>2. QED
  BY <1>1 DEF BuffersFit, Within

(* The work buffers only grow, and to what is asked for.                   *)
LEMMA GrownGrows ==
  ASSUME wb \in [c : Nat, uc : Nat], NEW c \in Nat, NEW uc \in Nat
  PROVE  /\ Grown(c, uc) \in [c : Nat, uc : Nat]
         /\ wb.c <= Grown(c, uc).c /\ wb.uc <= Grown(c, uc).uc
         /\ c <= Grown(c, uc).c /\ uc <= Grown(c, uc).uc
BY DEF Grown, Buffers

(* uncompress starts, with the words detection has read or without.        *)
LEMMA DecodeStartKeeps == IInv /\ (StartDetected \/ StartByName) => IInv'
<1> SUFFICES ASSUME IInv, StartDetected \/ StartByName PROVE IInv'
  OBVIOUS
<1>1. /\ phase = "wire" /\ UNCHANGED <<text, taken, stream, mishaps>>
      /\ got' = got /\ wb' = Fresh(MaxInput(0))
      /\ phase' \in {"data", "unknown", "failed", "block"}
      /\ \/ Recognized /\ at' = 3
            /\ source' = stream[1].v /\ length' = stream[2].v
         \/ at' = at /\ source' = source /\ length' = length
  BY DEF StartDetected, StartByName, text, reader
<1>2. /\ at = 1 /\ got = <<>> /\ stream \in Seq(Items)
      /\ source \in Nat /\ length \in Nat
  BY <1>1 DEF IInv, Passed, TypeOK
<1>3. wb' \in [c : Nat, uc : Nat]
  BY <1>1, FreshBuffers
<1>4. /\ at' \in {1, 3} /\ at' <= Len(stream) + 1
      /\ source' \in Nat /\ length' \in Nat
      /\ \A i \in 1 .. at' - 1 : ~IsData(stream, i)
  <2>1. CASE Recognized /\ at' = 3
               /\ source' = stream[1].v /\ length' = stream[2].v
    <3>1. /\ 1 \in DOMAIN stream /\ 2 \in DOMAIN stream
          /\ stream[1].kind = "source" /\ stream[2].kind = "length"
      BY <2>1 DEF Recognized, Whole
    <3>2. stream[1] \in Items /\ stream[2] \in Items /\ Len(stream) >= 2
      BY <1>2, <3>1
    <3>3. \A i \in 1 .. at' - 1 : i = 1 \/ i = 2
      BY <2>1
    <3>4. QED
      BY <1>2, <2>1, <3>1, <3>2, <3>3 DEF Items, IsData
  <2>2. CASE at' = at /\ source' = source /\ length' = length
    BY <1>2, <2>2
  <2>3. QED
    BY <1>1, <2>1, <2>2
<1>5. TypeOK'
  <2>1. at' \in 1 .. Len(stream) + 1 /\ got' \in Seq(DOMAIN stream)
    BY <1>1, <1>2, <1>4
  <2>2. QED
    BY <1>1, <1>3, <1>4, <2>1 DEF IInv, TypeOK, text, Phases, Ended
<1>6. Passed'
  <2>1. DOMAIN got' = {}
    BY <1>1, <1>2
  <2>2. \A i \in 1 .. at' - 1 : ~IsData(stream', i)
    BY <1>1, <1>4
  <2>3. phase' \notin {"start", "encode", "wire", "held"}
    BY <1>1
  <2>4. QED
    BY <2>1, <2>2, <2>3 DEF Passed, IsData
<1>7. BuffersFit'
  BY <1>1, <1>2 DEF BuffersFit
<1>8. QED
  BY <1>1, <1>5, <1>6, <1>7, DecodeFrame

(* uncompress reads a word.                                                *)
LEMMA ReadWordKeeps == IInv /\ (ReadSource \/ ReadLength) => IInv'
<1> SUFFICES ASSUME IInv, ReadSource \/ ReadLength PROVE IInv'
  OBVIOUS
<1>1. /\ UNCHANGED <<text, taken, stream, mishaps>> /\ wb' = wb /\ got' = got
      /\ at \in DOMAIN stream /\ stream[at].kind # "data" /\ at' = at + 1
      /\ phase' \in {"part", "block", "data"}
      /\ source' \in {source, stream[at].v}
      /\ length' \in {length, stream[at].v}
  BY DEF ReadSource, ReadLength, Whole, Item
<1>2. /\ stream \in Seq(Items) /\ got \in Seq(DOMAIN stream)
      /\ source \in Nat /\ length \in Nat
  BY DEF IInv, TypeOK
<1>3. stream[at] \in Items /\ at \in Nat /\ at <= Len(stream)
  BY <1>1, <1>2
<1>4. source' \in Nat /\ length' \in Nat /\ at' \in 1 .. Len(stream) + 1
  <2>1. stream[at].v \in Nat
    BY <1>3 DEF Items
  <2>2. source' \in Nat /\ length' \in Nat
    BY <1>1, <1>2, <2>1
  <2>3. Len(stream) \in Nat
    BY <1>2
  <2>4. at' \in 1 .. Len(stream) + 1
    BY <1>1, <1>3, <2>3
  <2>5. QED
    BY <2>2, <2>4
<1>5. TypeOK'
  BY <1>1, <1>2, <1>4 DEF IInv, TypeOK, text, Phases
<1>6. Passed'
  BY <1>1, <1>2, <1>3, PassedWord DEF IInv, IsData
<1>7. BuffersFit'
  BY <1>1, NothingPut DEF IInv
<1>8. QED
  BY <1>1, <1>5, <1>6, <1>7, DecodeFrame

(* uncompress reads the data of a part into a buffer that has grown to     *)
(* their length.                                                           *)
LEMMA ReadDataKeeps == IInv /\ ReadData => IInv'
<1> SUFFICES ASSUME IInv, ReadData PROVE IInv'
  OBVIOUS
<1>1. /\ UNCHANGED <<text, taken, stream, mishaps>> /\ wb' = Grown(length, 0)
      /\ UNCHANGED <<at, got, source, length>>
      /\ phase' \in {"died", "held", "failed"}
      /\ phase' = "held" => IsData(stream, at)
  BY DEF ReadData, reader, Whole, IsData
<1>2. wb \in [c : Nat, uc : Nat] /\ length \in Nat
  BY DEF IInv, TypeOK
<1>3. /\ wb' \in [c : Nat, uc : Nat]
      /\ wb.c <= wb'.c /\ wb.uc <= wb'.uc /\ length' <= wb'.c
  BY <1>1, <1>2, GrownGrows
<1>4. TypeOK'
  BY <1>1, <1>3 DEF IInv, TypeOK, text, Phases, Ended
<1>5. Passed'
  BY <1>1, PassedStays DEF IInv
<1>6. BuffersFit'
  BY <1>1, <1>3, BuffersGrow DEF IInv
<1>7. QED
  BY <1>1, <1>4, <1>5, <1>6, DecodeFrame

(* uncompress writes a part from a buffer that has grown to its length.    *)
LEMMA WritePartKeeps == IInv /\ WritePart => IInv'
<1> SUFFICES ASSUME IInv, WritePart PROVE IInv'
  OBVIOUS
<1> DEFINE d == stream[at]
<1>1. /\ phase = "held" /\ UNCHANGED <<text, taken, stream, mishaps>>
      /\ d.v = length /\ d.n <= source /\ wb' = Grown(0, d.n)
      /\ got' = Append(got, at) /\ at' = at + 1
      /\ source' = source - d.n /\ length' = length
      /\ phase' \in {"part", "block"}
  BY DEF WritePart, Acceptable, Item
<1>2. /\ stream \in Seq(Items) /\ got \in Seq(DOMAIN stream)
      /\ source \in Nat /\ length \in Nat /\ wb \in [c : Nat, uc : Nat]
  BY DEF IInv, TypeOK
<1>3. IsData(stream, at) /\ length <= wb.c
  BY <1>1 DEF IInv, Passed, BuffersFit
<1>4. /\ at \in DOMAIN stream /\ at \in Nat /\ at <= Len(stream)
      /\ d \in Items /\ d.n \in Nat
  <2>1. at \in DOMAIN stream
    BY <1>3 DEF IsData
  <2>2. at \in Nat /\ at <= Len(stream) /\ d \in Items
    BY <1>2, <2>1
  <2>3. QED
    BY <2>1, <2>2 DEF Items
<1>5. /\ wb' \in [c : Nat, uc : Nat] /\ d.n <= wb'.uc
      /\ wb.c <= wb'.c /\ wb.uc <= wb'.uc
      /\ wb.c \in Nat /\ wb.uc \in Nat /\ wb'.c \in Nat /\ wb'.uc \in Nat
  <2>1. /\ wb' \in [c : Nat, uc : Nat] /\ d.n <= wb'.uc
        /\ wb.c <= wb'.c /\ wb.uc <= wb'.uc
    BY <1>1, <1>2, <1>4, GrownGrows
  <2>2. QED
    BY <1>2, <2>1
<1>6. TypeOK'
  <2>1. source' \in Nat /\ at' \in 1 .. Len(stream) + 1
    BY <1>1, <1>2, <1>4
  <2>2. got' \in Seq(DOMAIN stream)
    BY <1>1, <1>2, <1>4
  <2>3. QED
    BY <1>1, <1>2, <1>5, <2>1, <2>2 DEF IInv, TypeOK, text, Phases
<1>7. Passed'
  BY <1>1, <1>2, <1>3, <1>4, PassedData DEF IInv
<1>8. BuffersFit'
  <2>1. ASSUME NEW x \in DOMAIN got'
        PROVE  stream[got'[x]].v <= wb'.c /\ stream[got'[x]].n <= wb'.uc
    <3>1. CASE x = Len(got) + 1
      <4>1. got'[x] = at
        BY <1>1, <1>2, <3>1
      <4>2. stream[got'[x]] = d
        BY <4>1
      <4>3. d.v <= wb'.c
        <5>1. length <= wb.c /\ wb.c <= wb'.c /\ d.v = length
          BY <1>1, <1>3, <1>5
        <5>2. length \in Nat /\ wb.c \in Nat /\ wb'.c \in Nat
          BY <1>2, <1>5
        <5>3. QED
          BY <5>1, <5>2
      <4>4. QED
        BY <1>5, <4>2, <4>3
    <3>2. CASE x # Len(got) + 1
      <4>1. x \in DOMAIN got /\ got'[x] = got[x]
        BY <1>1, <1>2, <2>1, <3>2
      <4>2. stream[got[x]].v <= wb.c /\ stream[got[x]].n <= wb.uc
        BY <4>1 DEF IInv, BuffersFit, Within
      <4>3. got[x] \in DOMAIN stream
        BY <1>2, <4>1
      <4>4. stream[got[x]].v \in Nat /\ stream[got[x]].n \in Nat
        <5>1. stream[got[x]] \in Items
          BY <1>2, <4>3
        <5>2. QED
          BY <5>1 DEF Items
      <4>5. QED
        BY <1>5, <4>1, <4>2, <4>4
    <3>3. QED
      BY <3>1, <3>2
  <2>2. QED
    BY <1>1, <2>1 DEF BuffersFit, Within
<1>9. QED
  BY <1>1, <1>6, <1>7, <1>8, DecodeFrame

(* uncompress ends or gives up, and so does compress when a call fails.    *)
LEMMA EndsKeep ==
  IInv /\ (EndOfStream \/ Reject \/ NoMemoryToWrite \/ CallFails) => IInv'
<1> SUFFICES ASSUME IInv,
                    EndOfStream \/ Reject \/ NoMemoryToWrite \/ CallFails
             PROVE  IInv'
  OBVIOUS
<1>1. /\ UNCHANGED <<text, taken, wb, stream, at, got, source, length>>
      /\ mishaps' \in {mishaps, mishaps \cup {"call"}}
      /\ phase' \in {"done", "failed", "died"}
  BY DEF EndOfStream, Reject, NoMemoryToWrite, CallFails, EncodeFails,
         DecodeFails, reader
<1>2. TypeOK'
  BY <1>1 DEF IInv, TypeOK, text, Ended
<1>3. Passed'
  BY <1>1, PassedStays DEF IInv
<1>4. BuffersFit'
  BY <1>1, NothingPut DEF IInv
<1>5. Encoding' /\ Ordered(stream)'
  BY <1>1 DEF IInv, Encoding
<1>6. BlocksFitReader'
  <2>1. mishaps' = {} => mishaps = {}
    BY <1>1
  <2>2. QED
    BY <1>1, <2>1 DEF IInv, BlocksFitReader, text
<1>7. QED
  BY <1>2, <1>3, <1>4, <1>5, <1>6 DEF IInv

(* Every step keeps the invariant.                                         *)
LEMMA StepInvariant == IInv /\ [Next]_vars => IInv'
<1> SUFFICES ASSUME IInv, [Next]_vars PROVE IInv'
  OBVIOUS
<1>1. CASE Encode
  BY <1>1, StartEncodeKeeps, CompressBlockKeeps, HadoopBlockKeeps,
     EncodeEndsKeeps DEF Encode
<1>2. CASE Wire
  BY <1>2, WireKeeps
<1>3. CASE Decode
  BY <1>3, DecodeStartKeeps, ReadWordKeeps, ReadDataKeeps, WritePartKeeps,
     EndsKeep DEF Decode
<1>4. CASE CallFails
  BY <1>4, EndsKeep
<1>5. CASE UNCHANGED vars
  <2>1. TypeOK'
    BY <1>5 DEF IInv, TypeOK, vars, text, reader
  <2>2. Passed'
    BY <1>5 DEF IInv, Passed, IsData, vars, reader
  <2>3. Encoding' /\ Ordered(stream)'
    BY <1>5 DEF IInv, Encoding, vars, text
  <2>4. BuffersFit' /\ BlocksFitReader'
    BY <1>5 DEF IInv, BuffersFit, BlocksFitReader, Within, vars, text, reader
  <2>5. QED
    BY <2>1, <2>2, <2>3, <2>4 DEF IInv
<1>6. QED
  BY <1>1, <1>2, <1>3, <1>4, <1>5 DEF Next, Idle

-----------------------------------------------------------------------------
(* The theorems.                                                           *)

(* The inductive invariant holds in every run of compress, whatever may    *)
(* happen to a file, and uncompress (hadoop-snappy-format.c).              *)
THEOREM Invariant == Spec => []IInv
<1>1. Init => IInv
  BY InitInvariant
<1>2. IInv /\ [Next]_vars => IInv'
  BY StepInvariant
<1>3. QED
  BY <1>1, <1>2, PTL DEF Spec

(* Every variable has its type: what is read of a file is never behind its *)
(* end, and the length of what is still to come never wraps (line 205).    *)
THEOREM TypeCorrect == Spec => []TypeOK
<1>1. IInv => TypeOK
  BY DEF IInv
<1>2. QED
  BY <1>1, Invariant, PTL

(* compress and uncompress never write behind the end of a work buffer,    *)
(* for every -b and whatever the words of a file say (lines 87, 168-195).  *)
THEOREM BuffersSafe == Spec => []BuffersFit
<1>1. IInv => BuffersFit
  BY DEF IInv
<1>2. QED
  BY <1>1, Invariant, PTL

(* A block of snzip fits a buffer of the size given by -b, for every size: *)
(* the overhead taken off is enough (hadoop-snappy-format.c:43-58).        *)
THEOREM BlocksFit == Spec => []BlocksFitReader
<1>1. IInv => BlocksFitReader
  BY DEF IInv
<1>2. QED
  BY <1>1, Invariant, PTL

(* What uncompress writes is the text from its beginning and in order,     *)
(* whatever happened to the file and whichever call failed (lines          *)
(* 145-207).                                                               *)
THEOREM InOrder == Spec => []TextInOrder
<1>1. IInv => TextInOrder
  <2> SUFFICES ASSUME IInv, NEW x \in DOMAIN got
               PROVE  Written(x).first =
                        IF x = 1 THEN 0
                        ELSE Written(x - 1).first + Written(x - 1).n
    BY DEF TextInOrder
  <2> DEFINE j == got[x]
  <2>1. /\ stream \in Seq(Items) /\ got \in Seq(DOMAIN stream)
        /\ Passed /\ Ordered(stream) /\ at \in Nat
    <3>1. /\ stream \in Seq(Items) /\ got \in Seq(DOMAIN stream)
          /\ at \in 1 .. Len(stream) + 1
      BY DEF IInv, TypeOK
    <3>2. at \in Nat
      BY <3>1
    <3>3. QED
      BY <3>1, <3>2 DEF IInv
  <2>2. /\ DOMAIN got = 1 .. Len(got) /\ Len(got) \in Nat
        /\ DOMAIN stream = 1 .. Len(stream) /\ Len(stream) \in Nat
    BY <2>1
  <2>3. \A y \in DOMAIN got :
          /\ got[y] \in 1 .. Len(stream) /\ got[y] < at
          /\ IsData(stream, got[y])
    BY <2>1, <2>2 DEF Passed
  <2>4. \A y, z \in DOMAIN got : y < z => got[y] < got[z]
    BY <2>1 DEF Passed
  <2>5. ASSUME NEW k \in 1 .. j - 1, stream[k].kind = "data"
        PROVE  \E y \in 1 .. x - 1 : got[y] = k
    <3>1. k \in 1 .. at - 1 /\ IsData(stream, k)
      BY <2>1, <2>2, <2>3, <2>5 DEF IsData
    <3>2. PICK y \in DOMAIN got : got[y] = k
      BY <2>1, <3>1 DEF Passed
    <3>3. y < x
      BY <2>2, <2>3, <2>4, <2>5, <3>2
    <3>4. QED
      BY <2>2, <3>2, <3>3
  <2>6. CASE x = 1
    <3>1. \A k \in 1 .. j - 1 : stream[k].kind # "data"
      BY <2>5, <2>6
    <3>2. stream[j].first = 0
      BY <2>1, <2>2, <2>3, <3>1 DEF Ordered
    <3>3. QED
      BY <2>6, <3>2 DEF Written
  <2>7. CASE x # 1
    <3> DEFINE i == got[x - 1]
    <3>1. x - 1 \in DOMAIN got /\ x - 1 < x
      BY <2>2, <2>7
    <3>2. i < j /\ IsData(stream, i) /\ IsData(stream, j)
      BY <2>3, <2>4, <3>1
    <3>3. ASSUME NEW k \in i + 1 .. j - 1, stream[k].kind = "data"
          PROVE  FALSE
      <4>1. k \in 1 .. j - 1 /\ i < k
        BY <2>3, <3>1, <3>3
      <4>2. PICK y \in 1 .. x - 1 : got[y] = k
        BY <2>5, <3>3, <4>1
      <4>3. y = x - 1 \/ y < x - 1
        BY <2>2, <3>1, <4>2
      <4>4. got[y] <= i
        BY <2>2, <2>3, <2>4, <3>1, <4>2, <4>3
      <4>5. QED
        BY <2>3, <3>1, <4>1, <4>2, <4>4
    <3>4. Adjacent(stream, i, j)
      BY <3>2, <3>3 DEF Adjacent
    <3>5. stream[j].first = stream[i].first + stream[i].n
      BY <2>1, <2>2, <2>3, <3>1, <3>4 DEF Ordered
    <3>6. QED
      BY <2>7, <3>5 DEF Written
  <2>8. QED
    BY <2>6, <2>7
<1>2. QED
  BY <1>1, Invariant, PTL

-----------------------------------------------------------------------------
(* The grammar of a stream.                                                *)

(* Items that only lose data, or whose words change where they may.        *)
LEMMA ShapeKept ==
  ASSUME NEW s \in Seq(Items), NEW r \in Seq(Items), Len(r) <= Len(s),
         \A i \in DOMAIN r :
           /\ r[i].kind = s[i].kind /\ r[i].n = s[i].n
           /\ r[i].v = s[i].v \/ (writer = "snzip" /\ r[i].v > 0)
           /\ r[i].cut => i = Len(r),
         Parsed(s), Sums(s)
  PROVE  Parsed(r) /\ Sums(r)
<1>1. /\ DOMAIN s = 1 .. Len(s) /\ DOMAIN r = 1 .. Len(r)
      /\ Len(s) \in Nat /\ Len(r) \in Nat
  OBVIOUS
<1>2. /\ \A i : IsSource(r, i) <=> i \in DOMAIN r /\ IsSource(s, i)
      /\ \A i : IsLength(r, i) <=> i \in DOMAIN r /\ IsLength(s, i)
      /\ \A i : IsData(r, i) <=> i \in DOMAIN r /\ IsData(s, i)
  BY <1>1 DEF IsSource, IsLength, IsData
<1>3. ASSUME NEW i \in DOMAIN r
      PROVE  /\ IsLength(r, i) =>
                  IsSource(r, i - 1) \/ (IsData(r, i - 1) /\ IsSource(r, i - 3))
             /\ IsData(r, i) => IsLength(r, i - 1) /\ r[i].n > 0
             /\ IsSource(r, i) /\ IsLength(r, i + 1) => r[i].v > 0
             /\ r[i].cut => i = Len(r)
  <2>1. i \in DOMAIN s /\ i \in Nat /\ i <= Len(r)
    BY <1>1
  <2>2. /\ i - 1 \in DOMAIN s => i - 1 \in DOMAIN r
        /\ i - 3 \in DOMAIN s => i - 3 \in DOMAIN r
    BY <1>1, <2>1
  <2>3. /\ IsLength(s, i) =>
             IsSource(s, i - 1) \/ (IsData(s, i - 1) /\ IsSource(s, i - 3))
        /\ IsData(s, i) => IsLength(s, i - 1) /\ s[i].n > 0
        /\ IsSource(s, i) /\ IsLength(s, i + 1) => s[i].v > 0
    BY <2>1 DEF Parsed
  <2>4. /\ IsSource(s, i - 1) => i - 1 \in DOMAIN s
        /\ IsData(s, i - 1) => i - 1 \in DOMAIN s
        /\ IsLength(s, i - 1) => i - 1 \in DOMAIN s
        /\ IsSource(s, i - 3) => i - 3 \in DOMAIN s
    BY DEF IsSource, IsLength, IsData
  <2>5. IsSource(r, i) /\ IsLength(r, i + 1) => r[i].v > 0
    <3> SUFFICES ASSUME IsSource(r, i), IsLength(r, i + 1) PROVE r[i].v > 0
      OBVIOUS
    <3>1. s[i].v > 0
      BY <1>2, <2>3
    <3>2. QED
      BY <3>1
  <2>6. IsData(r, i) => IsLength(r, i - 1) /\ r[i].n > 0
    BY <1>2, <2>2, <2>3, <2>4
  <2>7. IsLength(r, i) =>
          IsSource(r, i - 1) \/ (IsData(r, i - 1) /\ IsSource(r, i - 3))
    BY <1>2, <2>2, <2>3, <2>4
  <2>8. QED
    BY <2>5, <2>6, <2>7
<1>4. ASSUME NEW i \in DOMAIN r,
             IsSource(r, i), IsData(r, i + 2), IsLength(r, i + 3)
      PROVE  /\ writer = "hadoop" /\ r[i].v > r[i + 2].n
             /\ IsData(r, i + 4) => r[i].v = r[i + 2].n + r[i + 4].n
  <2>1. i \in DOMAIN s
    BY <1>1
  <2>2. IsSource(s, i) /\ IsData(s, i + 2) /\ IsLength(s, i + 3)
    BY <1>2, <1>4
  <2>3. /\ writer = "hadoop" /\ s[i].v > s[i + 2].n
        /\ IsData(s, i + 4) => s[i].v = s[i + 2].n + s[i + 4].n
    BY <2>1, <2>2 DEF Sums
  <2>4. r[i].v = s[i].v
    BY <2>3
  <2>5. i + 2 \in DOMAIN r
    BY <1>4 DEF IsData
  <2>6. IsData(r, i + 4) =>
          i + 4 \in DOMAIN r /\ IsData(s, i + 4) /\ r[i + 4].n = s[i + 4].n
    BY <1>2
  <2>7. QED
    BY <2>3, <2>4, <2>5, <2>6
<1>5. Parsed(r)
  BY <1>3 DEF Parsed
<1>6. Sums(r)
  BY <1>4 DEF Sums
<1>7. QED
  BY <1>5, <1>6

(* A block of one part behind whole blocks.                                *)
LEMMA BlockAdded ==
  ASSUME NEW s \in Seq(Items), NEW r \in Seq(Items), Len(r) = Len(s) + 3,
         \A i \in DOMAIN s : r[i] = s[i] /\ ~s[i].cut,
         r[Len(s) + 1].kind = "source", ~r[Len(s) + 1].cut,
         r[Len(s) + 2].kind = "length", ~r[Len(s) + 2].cut,
         r[Len(s) + 3].kind = "data", ~r[Len(s) + 3].cut,
         r[Len(s) + 1].v > 0, r[Len(s) + 3].n > 0,
         Parsed(s), Sums(s)
  PROVE  Parsed(r) /\ Sums(r) /\ \A i \in DOMAIN r : ~r[i].cut
<1> DEFINE L == Len(s)
<1>1. /\ DOMAIN s = 1 .. L /\ DOMAIN r = 1 .. L + 3 /\ L \in Nat
  OBVIOUS
<1> HIDE DEF L
<1>2. /\ \A i \in 1 .. L : /\ IsSource(r, i) <=> IsSource(s, i)
                           /\ IsLength(r, i) <=> IsLength(s, i)
                           /\ IsData(r, i) <=> IsData(s, i)
      /\ IsSource(r, L + 1) /\ ~IsLength(r, L + 1) /\ ~IsData(r, L + 1)
      /\ ~IsSource(r, L + 2) /\ IsLength(r, L + 2) /\ ~IsData(r, L + 2)
      /\ ~IsSource(r, L + 3) /\ ~IsLength(r, L + 3) /\ IsData(r, L + 3)
      /\ \A i : i \notin 1 .. L + 3 => ~IsLength(r, i) /\ ~IsData(r, i)
      /\ \A i : i \notin 1 .. L =>
           ~IsSource(s, i) /\ ~IsLength(s, i) /\ ~IsData(s, i)
  BY <1>1 DEF IsSource, IsLength, IsData, L
<1>3. \A i \in DOMAIN r : ~r[i].cut
  <2>1. \A i \in 1 .. L + 3 :
          i \in 1 .. L \/ i = L + 1 \/ i = L + 2 \/ i = L + 3
    BY <1>1
  <2>2. QED
    BY <1>1, <2>1 DEF L
<1>4. ASSUME NEW i \in DOMAIN r
      PROVE  /\ IsLength(r, i) =>
                  IsSource(r, i - 1) \/ (IsData(r, i - 1) /\ IsSource(r, i - 3))
             /\ IsData(r, i) => IsLength(r, i - 1) /\ r[i].n > 0
             /\ IsSource(r, i) /\ IsLength(r, i + 1) => r[i].v > 0
  <2>1. CASE i \in 1 .. L
    <3>1. /\ IsLength(s, i) =>
               IsSource(s, i - 1) \/ (IsData(s, i - 1) /\ IsSource(s, i - 3))
          /\ IsData(s, i) => IsLength(s, i - 1) /\ s[i].n > 0
          /\ IsSource(s, i) /\ IsLength(s, i + 1) => s[i].v > 0
      BY <1>1, <2>1 DEF Parsed
    <3>2. i + 1 \in 1 .. L \/ i + 1 = L + 1
      BY <1>1, <2>1
    <3>3. r[i] = s[i]
      BY <1>1, <2>1
    <3>4. QED
      BY <1>2, <2>1, <3>1, <3>2, <3>3
  <2>2. CASE i = L + 1
    BY <1>1, <1>2, <2>2 DEF L
  <2>3. CASE i = L + 2
    <3>1. i - 1 = L + 1
      BY <1>1, <2>3
    <3>2. QED
      BY <1>2, <2>3, <3>1
  <2>4. CASE i = L + 3
    <3>1. i - 1 = L + 2
      BY <1>1, <2>4
    <3>2. r[i].n > 0
      BY <2>4 DEF L
    <3>3. QED
      BY <1>2, <2>4, <3>1, <3>2
  <2>5. QED
    BY <1>1, <2>1, <2>2, <2>3, <2>4
<1>5. ASSUME NEW i \in DOMAIN r,
             IsSource(r, i), IsData(r, i + 2), IsLength(r, i + 3)
      PROVE  /\ i \in DOMAIN s
             /\ IsSource(s, i) /\ IsData(s, i + 2) /\ IsLength(s, i + 3)
             /\ r[i].v = s[i].v /\ r[i + 2].n = s[i + 2].n
             /\ IsData(r, i + 4) => IsData(s, i + 4) /\ r[i + 4].n = s[i + 4].n
  <2>1. i + 3 \in 1 .. L + 3
    BY <1>1, <1>2, <1>5
  <2>2. i + 3 # L + 1 /\ i + 3 # L + 3
    BY <1>2, <1>5
  <2>3. i + 3 # L + 2
    <3>1. i + 3 = L + 2 => i + 2 = L + 1
      BY <1>1
    <3>2. QED
      BY <1>2, <1>5, <3>1
  <2>4. i + 3 \in 1 .. L
    BY <1>1, <2>1, <2>2, <2>3
  <2>5. i \in 1 .. L /\ i + 2 \in 1 .. L /\ (i + 4 \in 1 .. L \/ i + 4 = L + 1)
    BY <1>1, <2>4
  <2>6. QED
    BY <1>1, <1>2, <1>5, <2>4, <2>5
<1>6. Parsed(r)
  BY <1>3, <1>4 DEF Parsed
<1>7. Sums(r)
  BY <1>5 DEF Sums
<1>8. QED
  BY <1>3, <1>6, <1>7

(* A second part behind a block of one.                                    *)
LEMMA PartAdded ==
  ASSUME NEW s \in Seq(Items), NEW r \in Seq(Items), Len(r) = Len(s) + 2,
         \A i \in DOMAIN s : r[i] = s[i] /\ ~s[i].cut,
         r[Len(s) + 1].kind = "length", ~r[Len(s) + 1].cut,
         r[Len(s) + 2].kind = "data", ~r[Len(s) + 2].cut,
         IsSource(s, Len(s) - 2), IsData(s, Len(s)),
         r[Len(s) + 2].n > 0, writer = "hadoop",
         s[Len(s) - 2].v = s[Len(s)].n + r[Len(s) + 2].n,
         Parsed(s), Sums(s)
  PROVE  Parsed(r) /\ Sums(r) /\ \A i \in DOMAIN r : ~r[i].cut
<1> DEFINE L == Len(s)
<1>1. /\ DOMAIN s = 1 .. L /\ DOMAIN r = 1 .. L + 2 /\ L \in Nat
  OBVIOUS
<1>2. IsSource(s, L - 2) /\ IsData(s, L) /\ L >= 3
  <2>1. IsSource(s, L - 2) /\ IsData(s, L)
    OBVIOUS
  <2>2. L - 2 \in 1 .. L
    BY <1>1, <2>1 DEF IsSource
  <2>3. QED
    BY <1>1, <2>1, <2>2
<1>3. s[L].n \in Nat /\ r[L + 2].n \in Nat
  <2>1. s[L] \in Items /\ r[L + 2] \in Items
    BY <1>1, <1>2
  <2>2. QED
    BY <2>1 DEF Items
<1>4. /\ r[L + 2].n > 0 /\ s[L - 2].v = s[L].n + r[L + 2].n
      /\ ~r[L + 1].cut /\ ~r[L + 2].cut
  OBVIOUS
<1>5. r[L + 1].kind = "length" /\ r[L + 2].kind = "data"
  OBVIOUS
<1>6. \A i \in 1 .. L : r[i] = s[i] /\ ~s[i].cut
  BY <1>1
<1> HIDE DEF L
<1>7. /\ \A i \in 1 .. L : /\ IsSource(r, i) <=> IsSource(s, i)
                           /\ IsLength(r, i) <=> IsLength(s, i)
                           /\ IsData(r, i) <=> IsData(s, i)
      /\ ~IsSource(r, L + 1) /\ IsLength(r, L + 1) /\ ~IsData(r, L + 1)
      /\ ~IsSource(r, L + 2) /\ ~IsLength(r, L + 2) /\ IsData(r, L + 2)
      /\ \A i : i \notin 1 .. L + 2 => ~IsLength(r, i) /\ ~IsData(r, i)
      /\ \A i : i \notin 1 .. L =>
           ~IsSource(s, i) /\ ~IsLength(s, i) /\ ~IsData(s, i)
  BY <1>1, <1>5, <1>6 DEF IsSource, IsLength, IsData
<1>8. \A i \in DOMAIN r : ~r[i].cut
  <2>1. \A i \in 1 .. L + 2 : i \in 1 .. L \/ i = L + 1 \/ i = L + 2
    BY <1>1
  <2>2. QED
    BY <1>1, <1>4, <1>6, <2>1
<1>9. ASSUME NEW i \in DOMAIN r
      PROVE  /\ IsLength(r, i) =>
                  IsSource(r, i - 1) \/ (IsData(r, i - 1) /\ IsSource(r, i - 3))
             /\ IsData(r, i) => IsLength(r, i - 1) /\ r[i].n > 0
             /\ IsSource(r, i) /\ IsLength(r, i + 1) => r[i].v > 0
  <2>1. CASE i \in 1 .. L
    <3>1. /\ IsLength(s, i) =>
               IsSource(s, i - 1) \/ (IsData(s, i - 1) /\ IsSource(s, i - 3))
          /\ IsData(s, i) => IsLength(s, i - 1) /\ s[i].n > 0
          /\ IsSource(s, i) /\ IsLength(s, i + 1) => s[i].v > 0
      BY <1>1, <2>1 DEF Parsed
    <3>2. r[i] = s[i]
      BY <1>6, <2>1
    <3>3. i + 1 \in 1 .. L \/ i = L
      BY <1>1, <2>1
    <3>4. i = L => ~IsSource(r, i)
      BY <1>2, <1>7, <2>1 DEF IsSource, IsData
    <3>5. IsSource(r, i) /\ IsLength(r, i + 1) => r[i].v > 0
      BY <1>7, <2>1, <3>1, <3>2, <3>3, <3>4
    <3>6. QED
      BY <1>7, <2>1, <3>1, <3>2, <3>5
  <2>2. CASE i = L + 1
    <3>1. i - 1 = L /\ i - 3 = L - 2 /\ L \in 1 .. L /\ L - 2 \in 1 .. L
      BY <1>1, <1>2, <2>2
    <3>2. QED
      BY <1>2, <1>7, <2>2, <3>1
  <2>3. CASE i = L + 2
    <3>1. i - 1 = L + 1
      BY <1>1, <2>3
    <3>2. QED
      BY <1>4, <1>7, <2>3, <3>1
  <2>4. QED
    BY <1>1, <2>1, <2>2, <2>3
<1>10. ASSUME NEW i \in DOMAIN r,
              IsSource(r, i), IsData(r, i + 2), IsLength(r, i + 3)
       PROVE  /\ writer = "hadoop" /\ r[i].v > r[i + 2].n
              /\ IsData(r, i + 4) => r[i].v = r[i + 2].n + r[i + 4].n
  <2>1. i + 3 \in 1 .. L + 2 /\ i + 3 # L + 2
    BY <1>1, <1>7, <1>10
  <2>2. CASE i + 3 = L + 1
    <3>1. i = L - 2 /\ i + 2 = L /\ i + 4 = L + 2
      BY <1>1, <2>2
    <3>2. r[i] = s[L - 2] /\ r[i + 2] = s[L] /\ r[i + 4].n = r[L + 2].n
      <4>1. L - 2 \in 1 .. L /\ L \in 1 .. L
        BY <1>1, <1>2
      <4>2. QED
        BY <1>6, <3>1, <4>1
    <3>3. s[L - 2].v > s[L].n
      <4>1. PICK a, b : a = s[L].n /\ b = r[L + 2].n
        OBVIOUS
      <4>2. s[L - 2].v = a + b /\ b > 0 /\ a \in Nat /\ b \in Nat
        BY <1>3, <1>4, <4>1
      <4>3. a + b > a
        BY <4>2
      <4>4. QED
        BY <4>1, <4>2, <4>3
    <3>4. QED
      BY <1>4, <3>2, <3>3
  <2>3. CASE i + 3 # L + 1
    <3>1. i \in 1 .. L /\ i + 2 \in 1 .. L /\ i + 3 \in 1 .. L
          /\ (i + 4 \in 1 .. L \/ i + 4 = L + 1)
      BY <1>1, <2>1, <2>3
    <3>2. IsSource(s, i) /\ IsData(s, i + 2) /\ IsLength(s, i + 3)
      BY <1>7, <1>10, <3>1
    <3>3. /\ s[i].v > s[i + 2].n
          /\ IsData(s, i + 4) => s[i].v = s[i + 2].n + s[i + 4].n
      BY <1>1, <3>1, <3>2 DEF Sums
    <3>4. IsData(r, i + 4) => IsData(s, i + 4) /\ r[i + 4].n = s[i + 4].n
      BY <1>6, <1>7, <3>1
    <3>5. r[i].v = s[i].v /\ r[i + 2].n = s[i + 2].n
      BY <1>6, <3>1
    <3>6. QED
      BY <3>3, <3>4, <3>5
  <2>4. QED
    BY <2>2, <2>3
<1>11. Parsed(r)
  BY <1>8, <1>9 DEF Parsed
<1>12. Sums(r)
  BY <1>10 DEF Sums
<1>13. QED
  BY <1>8, <1>11, <1>12

(* The word of an empty block in front.                                    *)
LEMMA WordInFrontGrammar ==
  ASSUME NEW s \in Seq(Items), Parsed(s), Sums(s)
  PROVE  LET r == <<Source(0)>> \o s IN Parsed(r) /\ Sums(r)
<1> DEFINE r == <<Source(0)>> \o s
<1>1. /\ r \in Seq(Items) /\ Len(r) = Len(s) + 1 /\ Len(s) \in Nat
      /\ DOMAIN s = 1 .. Len(s) /\ DOMAIN r = 1 .. Len(s) + 1
  <2>1. Source(0) \in Items
    BY ItemTypes, 0 \in Nat
  <2>2. QED
    BY <2>1
<1>2. r[1] = Source(0) /\ \A i \in DOMAIN s : r[i + 1] = s[i]
  BY <1>1
<1>3. Source(0).kind = "source" /\ Source(0).cut = FALSE
  BY DEF Source
<1> HIDE DEF r
<1>4. \A i \in DOMAIN r : i = 1 \/ (i - 1 \in DOMAIN s /\ r[i] = s[i - 1])
  <2> SUFFICES ASSUME NEW i \in DOMAIN r, i # 1
               PROVE  i - 1 \in DOMAIN s /\ r[i] = s[i - 1]
    OBVIOUS
  <2>1. i - 1 \in DOMAIN s /\ (i - 1) + 1 = i
    BY <1>1
  <2>2. QED
    BY <1>2, <2>1
<1>5. /\ \A i \in Int : IsSource(r, i) <=> i = 1 \/ IsSource(s, i - 1)
      /\ \A i \in Int : IsLength(r, i) <=> IsLength(s, i - 1)
      /\ \A i \in Int : IsData(r, i) <=> IsData(s, i - 1)
  <2>1. \A i \in Int : i - 1 \in DOMAIN s <=> i \in DOMAIN r /\ i # 1
    BY <1>1
  <2>2. 1 \in DOMAIN r /\ 1 - 1 \notin DOMAIN s
    BY <1>1
  <2>3. \A i \in DOMAIN r : i # 1 => r[i] = s[i - 1]
    BY <1>4
  <2>4. r[1].kind = "source"
    BY <1>2, <1>3
  <2>5. QED
    BY <2>1, <2>2, <2>3, <2>4 DEF IsSource, IsLength, IsData
<1>6. ASSUME NEW i \in DOMAIN r
      PROVE  /\ IsLength(r, i) =>
                  IsSource(r, i - 1) \/ (IsData(r, i - 1) /\ IsSource(r, i - 3))
             /\ IsData(r, i) => IsLength(r, i - 1) /\ r[i].n > 0
             /\ IsSource(r, i) /\ IsLength(r, i + 1) => r[i].v > 0
             /\ r[i].cut => i = Len(r)
  <2>1. CASE i = 1
    <3>1. ~IsLength(s, 0) /\ ~IsData(s, 0) /\ ~IsSource(s, 0) /\ ~IsData(s, -2)
      BY <1>1 DEF IsLength, IsData, IsSource
    <3>2. ~IsLength(s, 1)
      <4>1. IsLength(s, 1) => 1 \in DOMAIN s
        BY DEF IsLength
      <4>2. IsLength(s, 1) =>
              IsSource(s, 1 - 1) \/ (IsData(s, 1 - 1) /\ IsSource(s, 1 - 3))
        BY <4>1 DEF Parsed
      <4>3. 1 - 1 = 0
        OBVIOUS
      <4>4. QED
        BY <3>1, <4>2, <4>3
    <3>3. ~IsLength(r, 1) /\ ~IsData(r, 1) /\ ~IsLength(r, 1 + 1)
      <4>1. 1 - 1 = 0 /\ (1 + 1) - 1 = 1 /\ 1 \in Int /\ 1 + 1 \in Int
        OBVIOUS
      <4>2. QED
        BY <1>5, <3>1, <3>2, <4>1
    <3>4. QED
      BY <1>2, <1>3, <2>1, <3>3
  <2>2. CASE i # 1
    <3> DEFINE j == i - 1
    <3>1. /\ j \in DOMAIN s /\ r[i] = s[j] /\ i \in Int
          /\ i - 1 \in Int /\ i - 3 \in Int /\ i + 1 \in Int
          /\ (i - 1) - 1 = j - 1 /\ (i - 3) - 1 = j - 3 /\ (i + 1) - 1 = j + 1
      BY <1>1, <1>4, <2>2
    <3>2. /\ IsLength(s, j) =>
               IsSource(s, j - 1) \/ (IsData(s, j - 1) /\ IsSource(s, j - 3))
          /\ IsData(s, j) => IsLength(s, j - 1) /\ s[j].n > 0
          /\ IsSource(s, j) /\ IsLength(s, j + 1) => s[j].v > 0
          /\ s[j].cut => j = Len(s)
      BY <3>1 DEF Parsed
    <3>3. /\ IsLength(r, i) <=> IsLength(s, j)
          /\ IsData(r, i) <=> IsData(s, j)
          /\ IsSource(r, i) <=> IsSource(s, j)
          /\ IsSource(s, j - 1) => IsSource(r, i - 1)
          /\ IsSource(s, j - 3) => IsSource(r, i - 3)
          /\ IsData(s, j - 1) => IsData(r, i - 1)
          /\ IsLength(s, j - 1) => IsLength(r, i - 1)
          /\ IsLength(r, i + 1) => IsLength(s, j + 1)
      BY <1>5, <2>2, <3>1
    <3>4. j = Len(s) => i = Len(r)
      BY <1>1, <3>1
    <3> HIDE DEF j
    <3>5. QED
      BY <3>1, <3>2, <3>3, <3>4
  <2>3. QED
    BY <2>1, <2>2
<1>7. ASSUME NEW i \in DOMAIN r,
             IsSource(r, i), IsData(r, i + 2), IsLength(r, i + 3)
      PROVE  /\ writer = "hadoop" /\ r[i].v > r[i + 2].n
             /\ IsData(r, i + 4) => r[i].v = r[i + 2].n + r[i + 4].n
  <2> DEFINE j == i - 1
  <2>1. /\ i \in Int /\ i + 2 \in Int /\ i + 3 \in Int /\ i + 4 \in Int
        /\ (i + 2) - 1 = j + 2 /\ (i + 3) - 1 = j + 3 /\ (i + 4) - 1 = j + 4
    BY <1>1
  <2>2. IsData(s, j + 2) /\ IsLength(s, j + 3)
    BY <1>5, <1>7, <2>1
  <2>3. i # 1
    <3> SUFFICES ASSUME i = 1 PROVE FALSE
      OBVIOUS
    <3>1. j + 3 = 3 /\ j + 2 = 2
      BY <2>1
    <3>2. IsLength(s, 3) /\ IsData(s, 2)
      BY <2>2, <3>1
    <3>3. 3 \in DOMAIN s
      BY <3>2 DEF IsLength
    <3>4. IsSource(s, 3 - 1) \/ (IsData(s, 3 - 1) /\ IsSource(s, 3 - 3))
      BY <3>2, <3>3 DEF Parsed
    <3>5. 3 - 1 = 2 /\ 3 - 3 = 0
      OBVIOUS
    <3>6. ~IsSource(s, 0) /\ ~IsSource(s, 2)
      BY <1>1, <3>2 DEF IsSource, IsData
    <3>7. QED
      BY <3>4, <3>5, <3>6
  <2>4. j \in DOMAIN s /\ r[i] = s[j] /\ IsSource(s, j)
    BY <1>4, <1>5, <1>7, <2>1, <2>3
  <2>5. /\ writer = "hadoop" /\ s[j].v > s[j + 2].n
        /\ IsData(s, j + 4) => s[j].v = s[j + 2].n + s[j + 4].n
    BY <2>2, <2>4 DEF Sums
  <2>6. r[i + 2] = s[j + 2]
    <3>1. j + 2 \in DOMAIN s /\ (j + 2) + 1 = i + 2
      BY <2>1, <2>2 DEF IsData
    <3>2. QED
      BY <1>2, <3>1
  <2>7. IsData(r, i + 4) => IsData(s, j + 4) /\ r[i + 4] = s[j + 4]
    <3>1. IsData(r, i + 4) => IsData(s, j + 4)
      BY <1>5, <2>1
    <3>2. IsData(s, j + 4) => j + 4 \in DOMAIN s
      BY DEF IsData
    <3>3. (j + 4) + 1 = i + 4
      BY <2>1
    <3>4. QED
      BY <1>2, <3>1, <3>2, <3>3
  <2> HIDE DEF j
  <2>8. QED
    BY <2>4, <2>5, <2>6, <2>7
<1>8. Parsed(r)
  BY <1>6 DEF Parsed
<1>9. Sums(r)
  BY <1>7 DEF Sums
<1>10. QED
  BY <1>8, <1>9 DEF r

(* It adds nothing to the text.                                            *)
LEMMA WordInFrontEnds ==
  ASSUME NEW s \in Seq(Items), NEW t \in Nat, EndsAt(s, t)
  PROVE  LET r == <<Source(0)>> \o s IN EndsAt(r, t)
<1> DEFINE r == <<Source(0)>> \o s
<1>1. /\ r \in Seq(Items) /\ Len(r) = Len(s) + 1 /\ Len(s) \in Nat
      /\ DOMAIN s = 1 .. Len(s) /\ DOMAIN r = 1 .. Len(s) + 1
  <2>1. Source(0) \in Items
    BY ItemTypes, 0 \in Nat
  <2>2. QED
    BY <2>1
<1>2. r[1] = Source(0) /\ \A i \in DOMAIN s : r[i + 1] = s[i]
  BY <1>1
<1>3. Source(0).kind = "source" /\ Source(0).cut = FALSE
  BY DEF Source
<1> HIDE DEF r
<1>4. \A i \in DOMAIN r : i = 1 \/ (i - 1 \in DOMAIN s /\ r[i] = s[i - 1])
  <2> SUFFICES ASSUME NEW i \in DOMAIN r, i # 1
               PROVE  i - 1 \in DOMAIN s /\ r[i] = s[i - 1]
    OBVIOUS
  <2>1. i - 1 \in DOMAIN s /\ (i - 1) + 1 = i
    BY <1>1
  <2>2. QED
    BY <1>2, <2>1
<1>5. EndsAt(r, t)
  <2>1. ASSUME \A k \in DOMAIN r : r[k].kind # "data"
        PROVE  t = 0
    <3>1. \A k \in DOMAIN s : k + 1 \in DOMAIN r
      BY <1>1
    <3>2. \A k \in DOMAIN s : s[k].kind # "data"
      BY <1>2, <2>1, <3>1
    <3>3. QED
      BY <3>2 DEF EndsAt
  <2>2. ASSUME NEW i \in DOMAIN r, IsData(r, i),
               \A k \in i + 1 .. Len(r) : r[k].kind # "data"
        PROVE  r[i].first + r[i].n = t
    <3> DEFINE j == i - 1
    <3>1. i # 1
      BY <1>2, <1>3, <2>2 DEF IsData
    <3>2. j \in DOMAIN s /\ r[i] = s[j]
      BY <1>4, <3>1
    <3>3. \A k \in j + 1 .. Len(s) :
            k \in DOMAIN s /\ k + 1 \in i + 1 .. Len(r)
      BY <1>1
    <3>4. \A k \in j + 1 .. Len(s) : s[k].kind # "data"
      BY <1>2, <2>2, <3>3
    <3>5. IsData(s, j)
      BY <2>2, <3>2 DEF IsData
    <3> HIDE DEF j
    <3>6. s[j].first + s[j].n = t
      BY <3>2, <3>4, <3>5 DEF EndsAt
    <3>7. QED
      BY <3>2, <3>6
  <2>3. QED
    BY <2>1, <2>2 DEF EndsAt
<1>6. QED
  BY <1>5 DEF r

(* What the writer makes is whole.                                         *)
LEMMA ItemsWhole ==
  ASSUME NEW n, NEW first, NEW c
  PROVE  /\ ~Source(n).cut /\ Source(n).good
         /\ Source(n).kind = "source" /\ Source(n).v = n
         /\ ~Length(c).cut /\ Length(c).good
         /\ Length(c).kind = "length" /\ Length(c).v = c
         /\ ~Data(first, n, c).cut /\ Data(first, n, c).good
         /\ Data(first, n, c).kind = "data" /\ Data(first, n, c).v = c
         /\ Data(first, n, c).n = n
BY DEF Source, Length, Data

(* A block of snzip behind its own.                                        *)
LEMMA OwnBlockAdded ==
  ASSUME NEW s \in Seq(Items), NEW r \in Seq(Items), Len(r) = Len(s) + 3,
         \A i \in DOMAIN s : r[i] = s[i], OwnBlocks(s),
         NEW n \in Nat, n <= MaxInput(blockSize),
         NEW c \in Nat, c <= MaxCompressedLength(MaxInput(blockSize)),
         NEW first \in Nat,
         r[Len(s) + 1] = Source(n), r[Len(s) + 2] = Length(c),
         r[Len(s) + 3] = Data(first, n, c)
  PROVE  OwnBlocks(r)
<1> DEFINE L == Len(s)
<1>1. /\ DOMAIN s = 1 .. L /\ DOMAIN r = 1 .. L + 3 /\ L \in Nat
      /\ r[L + 1] = Source(n) /\ r[L + 2] = Length(c)
      /\ r[L + 3] = Data(first, n, c)
  OBVIOUS
<1> HIDE DEF L
<1>2. SUFFICES ASSUME NEW i \in DOMAIN r
               PROVE  /\ ~r[i].cut /\ r[i].good
                      /\ IsSource(r, i) =>
                         /\ IsLength(r, i + 1) /\ IsData(r, i + 2)
                         /\ r[i].v = r[i + 2].n
                         /\ r[i].v <= MaxInput(blockSize)
                         /\ r[i + 1].v = r[i + 2].v
                         /\ r[i + 1].v <=
                              MaxCompressedLength(MaxInput(blockSize))
  BY DEF OwnBlocks
<1>3. CASE i \in 1 .. L
  <2>1. /\ ~s[i].cut /\ s[i].good /\ r[i] = s[i]
    BY <1>1, <1>3 DEF OwnBlocks
  <2>2. ASSUME IsSource(r, i)
        PROVE  /\ IsLength(r, i + 1) /\ IsData(r, i + 2)
               /\ r[i].v = r[i + 2].n
               /\ r[i].v <= MaxInput(blockSize)
               /\ r[i + 1].v = r[i + 2].v
               /\ r[i + 1].v <= MaxCompressedLength(MaxInput(blockSize))
    <3>1. IsSource(s, i)
      BY <1>1, <1>3, <2>1, <2>2 DEF IsSource
    <3>2. /\ IsLength(s, i + 1) /\ IsData(s, i + 2)
          /\ s[i].v = s[i + 2].n /\ s[i].v <= MaxInput(blockSize)
          /\ s[i + 1].v = s[i + 2].v
          /\ s[i + 1].v <= MaxCompressedLength(MaxInput(blockSize))
      BY <1>1, <1>3, <3>1 DEF OwnBlocks
    <3>3. i + 1 \in DOMAIN s /\ i + 2 \in DOMAIN s
      BY <3>2 DEF IsLength, IsData
    <3>4. r[i + 1] = s[i + 1] /\ r[i + 2] = s[i + 2]
      BY <3>3
    <3>5. i + 1 \in DOMAIN r /\ i + 2 \in DOMAIN r
      BY <1>1, <3>3
    <3>6. QED
      BY <2>1, <3>2, <3>4, <3>5 DEF IsLength, IsData
  <2>3. QED
    BY <2>1, <2>2
<1>4. CASE i = L + 1
  <2>1. i + 1 = L + 2 /\ i + 2 = L + 3
    BY <1>1, <1>4
  <2>2. i + 1 \in DOMAIN r /\ i + 2 \in DOMAIN r
    BY <1>1, <2>1
  <2>3. /\ ~r[i].cut /\ r[i].good /\ r[i].v = n
    BY <1>1, <1>4 DEF Source
  <2>4. /\ r[i + 1].kind = "length" /\ r[i + 1].v = c
        /\ r[i + 2].kind = "data" /\ r[i + 2].v = c /\ r[i + 2].n = n
    <3>1. r[i + 1] = Length(c) /\ r[i + 2] = Data(first, n, c)
      BY <1>1, <2>1
    <3>2. QED
      BY <3>1, ItemsWhole
  <2>5. QED
    BY <2>2, <2>3, <2>4 DEF IsLength, IsData
<1>5. CASE i = L + 2 \/ i = L + 3
  <2>1. r[i] = Length(c) \/ r[i] = Data(first, n, c)
    BY <1>1, <1>5
  <2>2. ~r[i].cut /\ r[i].good
    BY <2>1, ItemsWhole
  <2>3. r[i].kind # "source"
    BY <2>1, ItemsWhole
  <2>4. QED
    BY <2>2, <2>3 DEF IsSource
<1>6. QED
  BY <1>1, <1>3, <1>4, <1>5

(* The items of a part, and of a block of one, behind what is written.     *)
WithPart(s, first, n, c) == s \o Part(first, n, c)
WithBlock(s, v, first, n, c) == s \o <<Source(v)>> \o Part(first, n, c)
Longer(r, s, k) ==
  r \in Seq(Items) /\ Len(r) = Len(s) + k /\ \A i \in DOMAIN s : r[i] = s[i]
BlockBehind(r, s, v, first, n, c) ==
  /\ Longer(r, s, 3)
  /\ r[Len(s) + 1] = Source(v) /\ r[Len(s) + 2] = Length(c)
  /\ r[Len(s) + 3] = Data(first, n, c)

(* The items of a part.                                                    *)
LEMMA PartItems ==
  ASSUME NEW s \in Seq(Items), NEW first \in Nat, NEW n \in Nat, NEW c \in Nat
  PROVE  /\ Longer(WithPart(s, first, n, c), s, 2)
         /\ WithPart(s, first, n, c)[Len(s) + 1] = Length(c)
         /\ WithPart(s, first, n, c)[Len(s) + 2] = Data(first, n, c)
<1> DEFINE e == Length(c)
           d == Data(first, n, c)
<1>1. e \in Items /\ d \in Items
  BY ItemTypes
<1> HIDE DEF e, d
<1>2. /\ s \o <<e, d>> \in Seq(Items) /\ Len(s \o <<e, d>>) = Len(s) + 2
      /\ \A i \in DOMAIN s : (s \o <<e, d>>)[i] = s[i]
      /\ (s \o <<e, d>>)[Len(s) + 1] = e /\ (s \o <<e, d>>)[Len(s) + 2] = d
  BY <1>1
<1>3. WithPart(s, first, n, c) = s \o <<e, d>>
  BY DEF WithPart, Part, e, d
<1>4. QED
  BY <1>2, <1>3 DEF e, d, Longer

(* The items of a block of one part.                                       *)
LEMMA BlockItems ==
  ASSUME NEW s \in Seq(Items), NEW v \in Nat,
         NEW first \in Nat, NEW n \in Nat, NEW c \in Nat
  PROVE  BlockBehind(WithBlock(s, v, first, n, c), s, v, first, n, c)
<1> DEFINE w == Source(v)
           h == s \o <<w>>
           r == WithBlock(s, v, first, n, c)
<1>1. w \in Items
  BY ItemTypes
<1> HIDE DEF w
<1>2. /\ h \in Seq(Items) /\ Len(h) = Len(s) + 1
      /\ \A i \in DOMAIN s : h[i] = s[i]
      /\ h[Len(s) + 1] = w
  BY <1>1
<1>3. r = WithPart(h, first, n, c)
  BY DEF WithBlock, WithPart, w
<1> HIDE DEF h, r
<1>4. /\ Longer(r, h, 2) /\ r[Len(h) + 1] = Length(c)
      /\ r[Len(h) + 2] = Data(first, n, c)
  <2>1. h \in Seq(Items)
    BY <1>2
  <2>2. /\ Longer(WithPart(h, first, n, c), h, 2)
        /\ WithPart(h, first, n, c)[Len(h) + 1] = Length(c)
        /\ WithPart(h, first, n, c)[Len(h) + 2] = Data(first, n, c)
    BY <2>1, PartItems
  <2>3. QED
    BY <2>2, <1>3
<1>5. /\ DOMAIN s = 1 .. Len(s) /\ DOMAIN h = 1 .. Len(s) + 1
      /\ Len(s) \in Nat
  BY <1>2
<1>6. /\ \A i \in DOMAIN s : i \in DOMAIN h
      /\ Len(s) + 1 \in DOMAIN h
      /\ Len(h) + 1 = Len(s) + 2 /\ Len(h) + 2 = Len(s) + 3
      /\ Len(h) + 2 = (Len(s) + 1) + 2
  BY <1>2, <1>5
<1>7. /\ r \in Seq(Items) /\ Len(r) = Len(s) + 3
      /\ \A i \in DOMAIN s : r[i] = s[i]
      /\ r[Len(s) + 1] = w
      /\ r[Len(s) + 2] = Length(c) /\ r[Len(s) + 3] = Data(first, n, c)
  BY <1>2, <1>4, <1>6 DEF Longer
<1>8. Longer(r, s, 3)
  BY <1>7 DEF Longer
<1>9. QED
  BY <1>7, <1>8 DEF r, w, BlockBehind

-----------------------------------------------------------------------------
(* What is in hand of the stream.                                          *)

(* A turn of the loop of compress makes one whole block.                   *)
LEMMA CompressBlockGrammar ==
  IInv /\ IInv' /\ StreamInHand /\ CompressBlock => StreamInHand'
<1> SUFFICES ASSUME IInv, IInv', StreamInHand, CompressBlock
             PROVE  StreamInHand'
  OBVIOUS
<1>1. /\ phase = "encode" /\ phase' = phase /\ Chunk > 0
      /\ writer' = writer /\ blockSize' = blockSize /\ mishaps' = mishaps
  BY DEF CompressBlock, text
<1>2. PICK c \in CompressedSizes(Chunk) :
        stream' = stream \o <<Source(Chunk)>> \o Part(taken, Chunk, c)
  BY DEF CompressBlock
<1>3. PICK n : n = Chunk
  OBVIOUS
<1>4. PICK t : t = taken
  OBVIOUS
<1>5. /\ n \in Nat /\ n > 0 /\ n <= MaxInput(blockSize)
      /\ MaxInput(blockSize) \in Nat /\ t \in Nat
      /\ stream \in Seq(Items)
  <2>1. size \in Nat /\ taken \in 0 .. size /\ blockSize \in BlockSizes
        /\ stream \in Seq(Items)
    BY SizesAssumption DEF IInv, TypeOK
  <2>2. MaxInput(blockSize) \in Nat
    BY <2>1, SizesAreSizes
  <2>3. n \in Nat /\ n <= MaxInput(blockSize)
    BY <1>3, <2>1, <2>2 DEF Chunk, Minimum
  <2>4. QED
    BY <1>1, <1>3, <1>4, <2>1, <2>2, <2>3
<1>6. c \in Nat /\ c <= MaxCompressedLength(MaxInput(blockSize))
  <2>1. c \in {3, n + 2, MaxCompressedLength(n)}
    BY <1>2, <1>3 DEF CompressedSizes
  <2>2. /\ MaxCompressedLength(n) \in Nat
        /\ MaxCompressedLength(MaxInput(blockSize)) \in Nat
        /\ MaxCompressedLength(n) <= MaxCompressedLength(MaxInput(blockSize))
    BY <1>5, CompressedLengthGrows
  <2>3. c \in Nat /\ c <= MaxCompressedLength(n)
    BY <1>5, <2>1 DEF MaxCompressedLength
  <2>4. QED
    BY <2>2, <2>3
<1>7. PICK r : r = stream'
  OBVIOUS
<1>9. /\ Longer(r, stream, 3)
      /\ r[Len(stream) + 1] = Source(n) /\ r[Len(stream) + 2] = Length(c)
      /\ r[Len(stream) + 3] = Data(t, n, c)
  <2>1. r = WithBlock(stream, n, t, n, c)
    BY <1>2, <1>3, <1>4, <1>7 DEF WithBlock
  <2>2. stream \in Seq(Items) /\ n \in Nat /\ t \in Nat /\ c \in Nat
    BY <1>5, <1>6
  <2>3. BlockBehind(WithBlock(stream, n, t, n, c), stream, n, t, n, c)
    BY <2>2, BlockItems
  <2>4. QED
    BY <2>1, <2>3 DEF BlockBehind
<1>8. /\ mishaps = {} /\ \A i \in DOMAIN stream : ~stream[i].cut
      /\ Parsed(stream) /\ Sums(stream)
      /\ writer = "snzip" => OwnBlocks(stream)
  BY <1>1 DEF StreamInHand
<1>10. Parsed(r) /\ Sums(r) /\ \A i \in DOMAIN r : ~r[i].cut
  <2> DEFINE L == Len(stream)
  <2>1. /\ r[L + 1].kind = "source" /\ ~r[L + 1].cut
        /\ r[L + 2].kind = "length" /\ ~r[L + 2].cut
        /\ r[L + 3].kind = "data" /\ ~r[L + 3].cut
        /\ r[L + 1].v = n /\ r[L + 3].n = n
    BY <1>9, ItemsWhole
  <2>2. /\ stream \in Seq(Items) /\ r \in Seq(Items) /\ Len(r) = L + 3
        /\ \A i \in DOMAIN stream : r[i] = stream[i] /\ ~stream[i].cut
    BY <1>5, <1>8, <1>9 DEF Longer
  <2>3. r[L + 1].v > 0 /\ r[L + 3].n > 0
    BY <1>5, <2>1
  <2>4. Parsed(stream) /\ Sums(stream)
    BY <1>8
  <2>5. QED
    BY <2>1, <2>2, <2>3, <2>4, BlockAdded
<1>11. writer = "snzip" => OwnBlocks(r)
  BY <1>5, <1>6, <1>8, <1>9, OwnBlockAdded DEF Longer
<1>12. /\ Parsed(stream)' /\ Sums(stream)'
       /\ \A i \in DOMAIN stream' : ~stream'[i].cut
  BY <1>1, <1>7, <1>10 DEF Parsed, Sums
<1>13. writer' = "snzip" => OwnBlocks(stream)'
  BY <1>1, <1>7, <1>11 DEF OwnBlocks
<1>14. EndsAt(stream, taken)'
  BY <1>1 DEF IInv, Encoding
<1>15. QED
  BY <1>1, <1>8, <1>12, <1>13, <1>14 DEF StreamInHand

(* Hadoop's encoder makes one whole block, of one part or two.             *)
LEMMA HadoopBlockGrammar ==
  IInv /\ IInv' /\ StreamInHand /\ HadoopBlock => StreamInHand'
<1> SUFFICES ASSUME IInv, IInv', StreamInHand, HadoopBlock
             PROVE  StreamInHand'
  OBVIOUS
<1>1. /\ phase = "encode" /\ phase' = phase /\ writer = "hadoop"
      /\ taken < size
      /\ writer' = writer /\ blockSize' = blockSize /\ mishaps' = mishaps
  BY DEF HadoopBlock, text
<1>2. size \in Nat /\ taken \in Nat /\ stream \in Seq(Items)
  <2>1. size \in Nat /\ taken \in 0 .. size /\ stream \in Seq(Items)
    BY SizesAssumption DEF IInv, TypeOK
  <2>2. QED
    BY <2>1
<1>3. PICK n \in PartSizes \cup {size - taken}, m \in PartSizes \cup {0} :
        \E c \in {3, MaxCompressedLength(n)} :
          stream' = stream \o <<Source(n + m)>> \o Part(taken, n, c)
                      \o IF m = 0 THEN <<>> ELSE Part(taken + n, m, m + 2)
  BY DEF HadoopBlock
<1>4. PICK c \in {3, MaxCompressedLength(n)} :
        stream' = stream \o <<Source(n + m)>> \o Part(taken, n, c)
                    \o IF m = 0 THEN <<>> ELSE Part(taken + n, m, m + 2)
  BY <1>3
<1>5. n \in Nat /\ n > 0 /\ m \in Nat /\ c \in Nat
  <2>1. n \in Nat /\ n > 0 /\ m \in Nat
    BY <1>1, <1>2, SizesAssumption
  <2>2. QED
    BY <2>1 DEF MaxCompressedLength
<1>6. /\ mishaps = {} /\ \A i \in DOMAIN stream : ~stream[i].cut
      /\ Parsed(stream) /\ Sums(stream)
  BY <1>1 DEF StreamInHand
<1> DEFINE one == WithBlock(stream, n + m, taken, n, c)
           L == Len(stream)
<1>7. /\ Longer(one, stream, 3)
      /\ one[L + 1] = Source(n + m) /\ one[L + 2] = Length(c)
      /\ one[L + 3] = Data(taken, n, c)
  <2>1. /\ n + m \in Nat /\ taken \in Nat /\ n \in Nat /\ c \in Nat
        /\ stream \in Seq(Items)
    BY <1>2, <1>5
  <2>2. BlockBehind(WithBlock(stream, n + m, taken, n, c), stream,
                    n + m, taken, n, c)
    BY <2>1, BlockItems
  <2>3. QED
    BY <2>2 DEF BlockBehind
<1>8. stream' = one \o IF m = 0 THEN <<>> ELSE Part(taken + n, m, m + 2)
  BY <1>4 DEF WithBlock
<1> HIDE DEF one
<1>9. Parsed(one) /\ Sums(one) /\ \A i \in DOMAIN one : ~one[i].cut
  <2>1. /\ one[L + 1].kind = "source" /\ ~one[L + 1].cut
        /\ one[L + 2].kind = "length" /\ ~one[L + 2].cut
        /\ one[L + 3].kind = "data" /\ ~one[L + 3].cut
        /\ one[L + 1].v = n + m /\ one[L + 3].n = n
    BY <1>7, ItemsWhole
  <2>2. one[L + 1].v > 0 /\ one[L + 3].n > 0
    BY <1>5, <2>1
  <2>3. /\ stream \in Seq(Items) /\ one \in Seq(Items) /\ Len(one) = L + 3
        /\ \A i \in DOMAIN stream : one[i] = stream[i] /\ ~stream[i].cut
    BY <1>2, <1>6, <1>7 DEF Longer
  <2>4. Parsed(stream) /\ Sums(stream)
    BY <1>6
  <2>5. QED
    BY <2>1, <2>2, <2>3, <2>4, BlockAdded
<1>10. PICK r : r = stream'
  OBVIOUS
<1>11. Parsed(r) /\ Sums(r) /\ \A i \in DOMAIN r : ~r[i].cut
  <2>1. CASE m = 0
    <3>1. r = one
      BY <1>7, <1>8, <1>10, <2>1 DEF Longer
    <3>2. QED
      BY <1>9, <3>1
  <2>2. CASE m # 0
    <3>1. r = WithPart(one, taken + n, m, m + 2)
      BY <1>8, <1>10, <2>2 DEF WithPart
    <3>2. taken + n \in Nat /\ m + 2 \in Nat
      BY <1>2, <1>5
    <3>3. /\ Longer(r, one, 2)
          /\ r[Len(one) + 1] = Length(m + 2)
          /\ r[Len(one) + 2] = Data(taken + n, m, m + 2)
      <4>1. one \in Seq(Items) /\ m \in Nat
        BY <1>5, <1>7 DEF Longer
      <4> DEFINE b == WithPart(one, taken + n, m, m + 2)
      <4>2. /\ Longer(b, one, 2) /\ b[Len(one) + 1] = Length(m + 2)
            /\ b[Len(one) + 2] = Data(taken + n, m, m + 2)
        BY <3>2, <4>1, PartItems
      <4>3. QED
        BY <3>1, <4>2
    <3>4. /\ r[Len(one) + 1].kind = "length" /\ ~r[Len(one) + 1].cut
          /\ r[Len(one) + 2].kind = "data" /\ ~r[Len(one) + 2].cut
          /\ r[Len(one) + 2].n = m
      BY <3>3, ItemsWhole
    <3>5. /\ Len(one) - 2 \in DOMAIN one /\ Len(one) \in DOMAIN one
          /\ Len(one) - 2 = L + 1 /\ Len(one) = L + 3
      <4>1. L \in Nat
        BY <1>2
      <4>2. DOMAIN one = 1 .. L + 3
        BY <1>7, <4>1 DEF Longer
      <4>3. QED
        BY <1>7, <4>1, <4>2 DEF Longer
    <3>6. /\ one[L + 1].kind = "source" /\ one[L + 1].v = n + m
          /\ one[L + 3].kind = "data" /\ one[L + 3].n = n
      BY <1>7, ItemsWhole
    <3>7. /\ IsSource(one, Len(one) - 2) /\ IsData(one, Len(one))
          /\ one[Len(one) - 2].v = one[Len(one)].n + r[Len(one) + 2].n
      BY <3>4, <3>5, <3>6 DEF IsSource, IsData
    <3>8. r[Len(one) + 2].n > 0
      BY <1>5, <2>2, <3>4
    <3>9. /\ one \in Seq(Items) /\ r \in Seq(Items)
          /\ Len(r) = Len(one) + 2
          /\ \A i \in DOMAIN one : r[i] = one[i] /\ ~one[i].cut
      BY <1>7, <1>9, <3>3 DEF Longer
    <3>10. Parsed(one) /\ Sums(one)
      BY <1>9
    <3>11. QED
      BY <1>1, <3>4, <3>7, <3>8, <3>9, <3>10, PartAdded
  <2>3. QED
    BY <2>1, <2>2
<1>12. /\ Parsed(stream)' /\ Sums(stream)'
       /\ \A i \in DOMAIN stream' : ~stream'[i].cut
  BY <1>1, <1>10, <1>11 DEF Parsed, Sums
<1>13. EndsAt(stream, taken)'
  BY <1>1 DEF IInv, Encoding
<1>14. QED
  BY <1>1, <1>6, <1>12, <1>13 DEF StreamInHand

(* What happens to the stream on its way leaves it a stream of blocks.     *)
LEMMA WireGrammar == IInv /\ StreamInHand /\ Wire => StreamInHand'
<1> SUFFICES ASSUME IInv, StreamInHand, Wire
             PROVE  StreamInHand'
  OBVIOUS
<1>1. /\ phase = "wire" /\ phase' = phase /\ taken' = taken
      /\ writer' = writer /\ blockSize' = blockSize /\ size' = size
      /\ mishaps' # {} /\ mishaps \subseteq mishaps'
  <2>1. \E what : mishaps' = mishaps \cup {what}
    BY DEF Wire, CutBeforeItem, CutInItem, Corrupt, WrongWord, EmptyBlock
  <2>2. QED
    BY <2>1 DEF Wire, text
<1>2. PICK s : s = stream
  OBVIOUS
<1>3. PICK r : r = stream'
  OBVIOUS
<1>4. /\ s \in Seq(Items) /\ Parsed(s) /\ Sums(s)
      /\ DOMAIN s = 1 .. Len(s) /\ Len(s) \in Nat
  <2>1. s \in Seq(Items)
    BY <1>2 DEF IInv, TypeOK
  <2>2. Parsed(s) /\ Sums(s)
    BY <1>2 DEF StreamInHand
  <2>3. QED
    BY <2>1, <2>2
<1>5. \A i \in DOMAIN s : s[i] \in Items /\ (s[i].cut => i = Len(s))
  BY <1>4 DEF Parsed
<1>6. /\ Parsed(r) /\ Sums(r)
      /\ mishaps' \subseteq {"empty block"} => EndsAt(r, taken)
  <2>1. CASE CutBeforeItem
    <3>1. PICK i \in DOMAIN s : r = SubSeq(s, 1, i - 1)
      BY <1>2, <1>3, <2>1 DEF CutBeforeItem
    <3>2. /\ i - 1 \in 0 .. Len(s) /\ i - 1 < Len(s)
      BY <1>4
    <3>3. /\ r \in Seq(Items) /\ Len(r) = i - 1 /\ DOMAIN r = 1 .. i - 1
          /\ \A k \in 1 .. i - 1 : r[k] = s[k]
      BY <1>4, <3>1, <3>2
    <3>4. \A k \in DOMAIN r : ~r[k].cut
      BY <1>4, <1>5, <3>2, <3>3
    <3>5. Parsed(r) /\ Sums(r)
      BY <1>4, <3>2, <3>3, <3>4, ShapeKept
    <3>6. "cut" \in mishaps'
      BY <2>1 DEF CutBeforeItem
    <3>7. QED
      BY <3>5, <3>6
  <2>2. CASE CutInItem
    <3>1. PICK i \in DOMAIN s :
            r = [SubSeq(s, 1, i) EXCEPT ![i].cut = TRUE]
      BY <1>2, <1>3, <2>2 DEF CutInItem
    <3> DEFINE q == SubSeq(s, 1, i)
    <3>2. /\ i \in 1 .. Len(s) /\ q \in Seq(Items) /\ Len(q) = i
          /\ \A k \in 1 .. i : q[k] = s[k]
      BY <1>4
    <3> HIDE DEF q
    <3>3. r = [q EXCEPT ![i] = [q[i] EXCEPT !.cut = TRUE]]
      BY <3>1 DEF q
    <3>4. q[i] \in Items /\ [q[i] EXCEPT !.cut = TRUE] \in Items
      <4>1. i \in 1 .. i /\ q[i] = s[i]
        BY <3>2
      <4>2. q[i] \in Items
        BY <1>5, <4>1
      <4>3. QED
        BY <4>2 DEF Items
    <3>5. /\ r \in Seq(Items) /\ Len(r) = i /\ DOMAIN r = 1 .. i
          /\ \A k \in 1 .. i : k # i => r[k] = s[k]
          /\ r[i] = [q[i] EXCEPT !.cut = TRUE]
      <4> DEFINE e == [q[i] EXCEPT !.cut = TRUE]
      <4> HIDE DEF e
      <4>1. e \in Items
        BY <3>4 DEF e
      <4>2. r = [q EXCEPT ![i] = e] /\ i \in DOMAIN q
        BY <3>2, <3>3 DEF e
      <4>3. /\ r \in Seq(Items) /\ Len(r) = i /\ DOMAIN r = 1 .. i
        BY <3>2, <4>1, <4>2
      <4>4. (\A k \in 1 .. i : k # i => r[k] = q[k]) /\ r[i] = e
        BY <3>2, <4>2
      <4>5. QED
        BY <3>2, <4>3, <4>4 DEF e
    <3>6. r[i].kind = s[i].kind /\ r[i].n = s[i].n /\ r[i].v = s[i].v
      BY <3>2, <3>4, <3>5 DEF Items
    <3>7. \A k \in 1 .. i : k # i => ~r[k].cut
      BY <1>4, <1>5, <3>2, <3>5
    <3>8. \A k \in DOMAIN r :
            /\ r[k].kind = s[k].kind /\ r[k].n = s[k].n /\ r[k].v = s[k].v
            /\ r[k].cut => k = Len(r)
      BY <3>5, <3>6, <3>7
    <3>9. Len(r) <= Len(s)
      BY <1>4, <3>2, <3>5
    <3>10. Parsed(r) /\ Sums(r)
      BY <1>4, <3>5, <3>8, <3>9, ShapeKept
    <3>11. "cut" \in mishaps'
      BY <2>2 DEF CutInItem
    <3>12. QED
      BY <3>10, <3>11
  <2>3. CASE Corrupt
    <3>1. PICK i \in DOMAIN s : r = [s EXCEPT ![i].good = FALSE]
      BY <1>2, <1>3, <2>3 DEF Corrupt
    <3>2. r = [s EXCEPT ![i] = [s[i] EXCEPT !.good = FALSE]]
      BY <3>1
    <3>3. s[i] \in Items /\ [s[i] EXCEPT !.good = FALSE] \in Items
      BY <1>5 DEF Items
    <3>4. /\ r \in Seq(Items) /\ Len(r) = Len(s) /\ DOMAIN r = DOMAIN s
          /\ \A k \in DOMAIN s : k # i => r[k] = s[k]
          /\ r[i] = [s[i] EXCEPT !.good = FALSE]
      BY <1>4, <3>2, <3>3
    <3>5. /\ r[i].kind = s[i].kind /\ r[i].n = s[i].n /\ r[i].v = s[i].v
          /\ r[i].cut = s[i].cut
      BY <3>3, <3>4 DEF Items
    <3>6. \A k \in DOMAIN r :
            /\ r[k].kind = s[k].kind /\ r[k].n = s[k].n /\ r[k].v = s[k].v
            /\ r[k].cut => k = Len(r)
      BY <1>5, <3>4, <3>5
    <3>7. Len(r) <= Len(s)
      BY <1>4, <3>4
    <3>8. Parsed(r) /\ Sums(r)
      BY <1>4, <3>4, <3>6, <3>7, ShapeKept
    <3>9. "corrupt" \in mishaps'
      BY <2>3 DEF Corrupt
    <3>10. QED
      BY <3>8, <3>9
  <2>4. CASE WrongWord
    <3>1. PICK i \in DOMAIN stream :
            \E v \in {stream[i].v - 1, stream[i].v + 1, Memory + 1} :
              v > 0 /\ stream' = [stream EXCEPT ![i].v = v]
      BY <2>4 DEF WrongWord
    <3>2. PICK v \in {stream[i].v - 1, stream[i].v + 1, Memory + 1} :
            v > 0 /\ stream' = [stream EXCEPT ![i].v = v]
      BY <3>1
    <3>3. i \in DOMAIN s /\ s[i] \in Items /\ stream[i] = s[i]
      BY <1>2, <1>5
    <3>4. v \in Nat
      BY <3>2, <3>3, SizesAssumption DEF Items
    <3>5. r = [s EXCEPT ![i] = [s[i] EXCEPT !.v = v]]
      BY <1>2, <1>3, <3>2
    <3>6. [s[i] EXCEPT !.v = v] \in Items
      BY <3>3, <3>4 DEF Items
    <3>7. /\ r \in Seq(Items) /\ Len(r) = Len(s) /\ DOMAIN r = DOMAIN s
          /\ \A k \in DOMAIN s : k # i => r[k] = s[k]
          /\ r[i] = [s[i] EXCEPT !.v = v]
      <4> DEFINE e == [s[i] EXCEPT !.v = v]
      <4>1. r = [s EXCEPT ![i] = e] /\ e \in Items
        BY <3>5, <3>6
      <4> HIDE DEF e
      <4>2. r \in Seq(Items) /\ Len(r) = Len(s) /\ DOMAIN r = DOMAIN s
        BY <1>4, <3>3, <4>1
      <4>3. (\A k \in DOMAIN s : k # i => r[k] = s[k]) /\ r[i] = e
        BY <1>4, <3>3, <4>1
      <4>4. QED
        BY <4>2, <4>3 DEF e
    <3>8. /\ r[i].kind = s[i].kind /\ r[i].n = s[i].n /\ r[i].v = v
          /\ r[i].cut = s[i].cut
      BY <3>3, <3>7 DEF Items
    <3>9. writer = "snzip"
      BY <2>4 DEF WrongWord
    <3>10. \A k \in DOMAIN r :
             /\ r[k].kind = s[k].kind /\ r[k].n = s[k].n
             /\ r[k].v = s[k].v \/ (writer = "snzip" /\ r[k].v > 0)
             /\ r[k].cut => k = Len(r)
      BY <1>5, <3>2, <3>7, <3>8, <3>9
    <3>11. Len(r) <= Len(s)
      BY <1>4, <3>7
    <3>12. Parsed(r) /\ Sums(r)
      BY <1>4, <3>7, <3>10, <3>11, ShapeKept
    <3>13. "word" \in mishaps'
      BY <2>4 DEF WrongWord
    <3>14. QED
      BY <3>12, <3>13
  <2>5. CASE EmptyBlock
    <3>1. r = <<Source(0)>> \o s
      BY <1>2, <1>3, <2>5 DEF EmptyBlock
    <3> DEFINE q == <<Source(0)>> \o s
    <3>2. CASE EndsAt(s, taken)
      <4>1. PICK t : t = taken
        OBVIOUS
      <4>2. t \in Nat
        <5>1. size \in Nat /\ taken \in 0 .. size
          BY SizesAssumption DEF IInv, TypeOK
        <5>2. QED
          BY <4>1, <5>1
      <4>3. EndsAt(s, t)
        BY <3>2, <4>1
      <4>4. Parsed(q) /\ Sums(q) /\ EndsAt(q, t)
        BY <1>4, <4>2, <4>3, WordInFrontGrammar, WordInFrontEnds
      <4>5. q = r
        BY <3>1
      <4> HIDE DEF q
      <4>6. QED
        BY <4>1, <4>4, <4>5
    <3>3. CASE ~EndsAt(s, taken)
      <4>1. ~(mishaps \subseteq {"empty block"})
        BY <1>2, <3>3 DEF StreamInHand
      <4>2. ~(mishaps' \subseteq {"empty block"})
        BY <1>1, <4>1
      <4>3. Parsed(q) /\ Sums(q)
        BY <1>4, WordInFrontGrammar
      <4>4. q = r
        BY <3>1
      <4> HIDE DEF q
      <4>5. QED
        BY <4>2, <4>3, <4>4
    <3>4. QED
      BY <3>2, <3>3
  <2>6. QED
    BY <2>1, <2>2, <2>3, <2>4, <2>5 DEF Wire
<1>7. /\ Parsed(stream)' /\ Sums(stream)'
      /\ mishaps' \subseteq {"empty block"} => EndsAt(stream, taken)'
  BY <1>1, <1>3, <1>6 DEF Parsed, Sums
<1>8. RoomForText' => taken' = size'
  BY <1>1 DEF StreamInHand, RoomForText, MaxInput, Buffer
<1>9. QED
  BY <1>1, <1>7, <1>8 DEF StreamInHand

(* The other steps leave the stream alone.                                 *)
LEMMA SameStreamGrammar ==
  ASSUME StreamInHand, UNCHANGED <<text, taken, stream>>,
         mishaps' = mishaps \/ mishaps' = mishaps \cup {"call"},
         phase' \in {"start", "encode"} =>
           phase \in {"start", "encode"} /\ mishaps' = mishaps,
         phase' \notin {"start", "encode", "died", "failed"} /\ RoomForText =>
           taken = size
  PROVE  StreamInHand'
<1>1. /\ writer' = writer /\ blockSize' = blockSize /\ size' = size
      /\ taken' = taken /\ stream' = stream
  BY DEF text
<1>2. Parsed(stream)' /\ Sums(stream)'
  BY <1>1 DEF StreamInHand, Parsed, Sums
<1>3. mishaps' = {} => mishaps = {}
  OBVIOUS
<1>4. writer' = "snzip" /\ mishaps' = {} => OwnBlocks(stream)'
  BY <1>1, <1>3 DEF StreamInHand, OwnBlocks
<1>5. mishaps' \subseteq {"empty block"} => EndsAt(stream, taken)'
  <2>1. mishaps' \subseteq {"empty block"} => mishaps \subseteq {"empty block"}
    OBVIOUS
  <2>2. QED
    BY <1>1, <2>1 DEF StreamInHand
<1>6. RoomForText' => RoomForText
  BY <1>1 DEF RoomForText
<1>7. phase' \in {"start", "encode"} =>
        mishaps' = {} /\ \A i \in DOMAIN stream' : ~stream'[i].cut
  BY <1>1 DEF StreamInHand
<1>8. QED
  BY <1>1, <1>2, <1>4, <1>5, <1>6, <1>7 DEF StreamInHand

(* compress ends when all of the text was read, if its blocks have room    *)
(* for a byte.                                                             *)
LEMMA EncodeEndsGrammar == IInv /\ StreamInHand /\ EncodeEnds => StreamInHand'
<1> SUFFICES ASSUME IInv, StreamInHand, EncodeEnds
             PROVE  StreamInHand'
  OBVIOUS
<1>1. /\ UNCHANGED <<text, taken, stream>> /\ mishaps' = mishaps
      /\ phase' = "wire"
  BY DEF EncodeEnds
<1>2. RoomForText => taken = size
  <2> SUFFICES ASSUME RoomForText PROVE taken = size
    OBVIOUS
  <2>1. CASE writer = "snzip"
    <3>1. size \in Nat /\ taken \in 0 .. size /\ blockSize \in BlockSizes
      BY SizesAssumption DEF IInv, TypeOK
    <3>2. MaxInput(blockSize) \in Nat /\ MaxInput(blockSize) > 0
      BY <2>1, <3>1, SizesAreSizes DEF RoomForText
    <3>3. Minimum(size - taken, MaxInput(blockSize)) = 0
      BY <2>1 DEF EncodeEnds, Chunk
    <3> HIDE DEF MaxInput
    <3>4. size - taken = 0
      BY <3>1, <3>2, <3>3 DEF Minimum
    <3>5. QED
      BY <3>1, <3>4
  <2>2. CASE writer # "snzip"
    BY <2>2 DEF EncodeEnds
  <2>3. QED
    BY <2>1, <2>2
<1>3. QED
  BY <1>1, <1>2, SameStreamGrammar

(* Every step keeps what is in hand of the stream.                         *)
LEMMA StreamKept ==
  IInv /\ IInv' /\ StreamInHand /\ [Next]_vars => StreamInHand'
<1> SUFFICES ASSUME IInv, IInv', StreamInHand, [Next]_vars
             PROVE  StreamInHand'
  OBVIOUS
<1>1. CASE CompressBlock
  BY <1>1, CompressBlockGrammar
<1>2. CASE HadoopBlock
  BY <1>2, HadoopBlockGrammar
<1>3. CASE EncodeEnds
  BY <1>3, EncodeEndsGrammar
<1>4. CASE Wire
  BY <1>4, WireGrammar
<1>5. CASE StartEncode \/ EncodeFails
  <2>1. /\ UNCHANGED <<text, taken, stream>>
        /\ phase \in {"start", "encode"}
        /\ \/ mishaps' = mishaps /\ phase' \in {"encode", "died"}
           \/ mishaps' = mishaps \cup {"call"} /\ phase' = "failed"
    BY <1>5 DEF StartEncode, EncodeFails
  <2>2. QED
    BY <2>1, SameStreamGrammar
<1>6. CASE Decode \/ DecodeFails
  <2>1. /\ UNCHANGED <<text, taken, stream>>
        /\ phase \in {"wire", "block", "part", "data", "held"}
        /\ phase' \notin {"start", "encode"}
        /\ mishaps' = mishaps \/ mishaps' = mishaps \cup {"call"}
    BY <1>6 DEF Decode, StartDetected, StartByName, EndOfStream, ReadSource,
       ReadLength, ReadData, WritePart, Reject, NoMemoryToWrite, DecodeFails
  <2>2. RoomForText => taken = size
    BY <2>1 DEF StreamInHand
  <2>3. QED
    BY <2>1, <2>2, SameStreamGrammar
<1>7. CASE UNCHANGED vars
  <2>1. UNCHANGED <<text, taken, stream, mishaps, phase>>
    BY <1>7 DEF vars
  <2>2. phase' \notin {"start", "encode", "died", "failed"} /\ RoomForText =>
           taken = size
    BY <2>1 DEF StreamInHand
  <2>3. QED
    BY <2>1, <2>2, SameStreamGrammar
<1>8. QED
  BY <1>1, <1>2, <1>3, <1>4, <1>5, <1>6, <1>7
     DEF Next, Encode, CallFails, Idle

-----------------------------------------------------------------------------
(* Where in a block the reader is.                                         *)

(* An item of a stream is of one of the three kinds.                       *)
LEMMA OneKind ==
  ASSUME NEW s \in Seq(Items), NEW i \in DOMAIN s
  PROVE  /\ IsSource(s, i) \/ IsLength(s, i) \/ IsData(s, i)
         /\ i \in Nat /\ s[i] \in Items
<1>1. s[i] \in Items /\ i \in Nat
  OBVIOUS
<1>2. QED
  BY <1>1 DEF Items, IsSource, IsLength, IsData

(* The kinds exclude each other.                                           *)
LEMMA KindsDiffer ==
  ASSUME NEW s, NEW i
  PROVE  /\ IsSource(s, i) => ~IsLength(s, i) /\ ~IsData(s, i)
         /\ IsLength(s, i) => ~IsData(s, i)
BY DEF IsSource, IsLength, IsData

(* Behind a block without data, and behind data, there is the length of a  *)
(* part only where the block has a part to come.                           *)
LEMMA BehindEmptyBlock ==
  ASSUME NEW s \in Seq(Items), Parsed(s), NEW i, IsSource(s, i), s[i].v = 0,
         i + 1 \in DOMAIN s
  PROVE  IsSource(s, i + 1)
<1>1. i \in DOMAIN s /\ i \in Nat
  BY OneKind DEF IsSource
<1>2. IsLength(s, i + 1) => s[i].v > 0
  BY <1>1 DEF Parsed
<1>3. ~IsLength(s, i + 1)
  BY <1>2
<1>4. IsData(s, i + 1) => IsLength(s, (i + 1) - 1)
  BY DEF Parsed
<1>5. (i + 1) - 1 = i
  BY <1>1
<1>6. ~IsData(s, i + 1)
  BY <1>4, <1>5, KindsDiffer
<1>7. QED
  BY <1>3, <1>6, OneKind

(* Behind data that are not the last of a block there is more to come of   *)
(* it than they are.                                                       *)
LEMMA BehindData ==
  ASSUME NEW s \in Seq(Items), Parsed(s), Sums(s), NEW i, IsData(s, i),
         i + 1 \in DOMAIN s, ~IsSource(s, i + 1)
  PROVE  IsSource(s, i - 2) /\ s[i - 2].v > s[i].n
<1>1. i \in DOMAIN s /\ i \in Nat
  BY OneKind DEF IsData
<1>2. ~IsData(s, i + 1)
  <2>1. IsData(s, i + 1) => IsLength(s, (i + 1) - 1)
    BY DEF Parsed
  <2>2. (i + 1) - 1 = i
    BY <1>1
  <2>3. QED
    BY <2>1, <2>2, KindsDiffer
<1>3. IsLength(s, i + 1)
  BY <1>2, OneKind
<1>4. IsSource(s, (i + 1) - 1)
      \/ (IsData(s, (i + 1) - 1) /\ IsSource(s, (i + 1) - 3))
  BY <1>3 DEF Parsed
<1>5. (i + 1) - 1 = i /\ (i + 1) - 3 = i - 2
  BY <1>1
<1>6. IsSource(s, i - 2)
  BY <1>4, <1>5, KindsDiffer
<1>7. i - 2 \in DOMAIN s /\ (i - 2) + 2 = i /\ (i - 2) + 3 = i + 1
  BY <1>1, <1>6 DEF IsSource
<1>8. QED
  BY <1>3, <1>6, <1>7 DEF Sums

(* The second part of a block is what is left of it.                       *)
LEMMA SecondPart ==
  ASSUME NEW s \in Seq(Items), Sums(s), NEW i \in Int, NEW left \in Nat,
         IsData(s, i), IsSource(s, i - 2), left + s[i].n = s[i - 2].v,
         IsLength(s, i + 1)
  PROVE  /\ writer = "hadoop"
         /\ IsData(s, i + 2) => left = s[i + 2].n
<1> DEFINE j == i - 2
<1>1. j \in DOMAIN s /\ j + 2 = i /\ j + 3 = i + 1 /\ j + 4 = i + 2
  BY DEF IsSource
<1>2. IsSource(s, j) /\ IsData(s, j + 2) /\ IsLength(s, j + 3)
  BY <1>1
<1>3. /\ writer = "hadoop"
      /\ IsData(s, j + 4) => s[j].v = s[j + 2].n + s[j + 4].n
  BY <1>1, <1>2 DEF Sums
<1>4. /\ writer = "hadoop"
      /\ IsData(s, i + 2) => left + s[i].n = s[i].n + s[i + 2].n
  <2>1. s[j + 2] = s[i] /\ s[j + 4] = s[i + 2] /\ left + s[i].n = s[j].v
    BY <1>1
  <2>2. IsData(s, i + 2) => IsData(s, j + 4)
    BY <1>1
  <2> HIDE DEF j
  <2>3. QED
    BY <1>3, <2>1, <2>2
<1>5. s[i].n \in Nat /\ (IsData(s, i + 2) => s[i + 2].n \in Nat)
  <2>1. s[i] \in Items /\ (IsData(s, i + 2) => s[i + 2] \in Items)
    BY OneKind DEF IsData
  <2>2. QED
    BY <2>1 DEF Items
<1>6. ASSUME IsData(s, i + 2) PROVE left = s[i + 2].n
  <2>1. /\ left + s[i].n = s[i].n + s[i + 2].n
        /\ s[i].n \in Nat /\ s[i + 2].n \in Nat
    BY <1>4, <1>5, <1>6
  <2>2. QED
    BY <2>1
<1>7. QED
  BY <1>4, <1>6

(* The steps that do not read.                                             *)
LEMMA NotReadingBlock ==
  ASSUME phase' \notin {"block", "part", "data", "held"},
         phase' \in {"start", "encode", "wire"} => source' = 0,
         got' = <<>> \/ (got' = got /\ stream' = stream /\ BlockInHand)
  PROVE  BlockInHand'
<1>1. \A x \in DOMAIN got' : ~stream'[got'[x]].cut /\ stream'[got'[x]].good
  <2>1. CASE got' = <<>>
    BY <2>1
  <2>2. CASE got' = got /\ stream' = stream /\ BlockInHand
    BY <2>2 DEF BlockInHand
  <2>3. QED
    BY <2>1, <2>2
<1>2. QED
  BY <1>1 DEF BlockInHand

(* uncompress starts behind the two words detection has read, or in front  *)
(* of the first block.                                                     *)
LEMMA StartBlock ==
  ASSUME IInv, StreamInHand, BlockInHand, StartDetected \/ StartByName
  PROVE  BlockInHand'
<1>1. /\ phase = "wire" /\ stream' = stream /\ got' = got
      /\ at = 1 /\ got = <<>> /\ source = 0
      /\ stream \in Seq(Items) /\ Parsed(stream)
  BY DEF StartDetected, StartByName, reader, IInv, TypeOK, Passed, BlockInHand,
     StreamInHand
<1>2. CASE Recognized /\ StartDetected
  <2>1. /\ phase' = "data" /\ at' = 3
        /\ source' = stream[1].v /\ length' = stream[2].v
    BY <1>2 DEF StartDetected
  <2>2. IsSource(stream, 1) /\ IsLength(stream, 2)
    BY <1>2 DEF Recognized, Whole, IsSource, IsLength
  <2>3. at' - 1 = 2 /\ at' - 2 = 1
    BY <2>1
  <2>4. IsLength(stream, at - 1)' /\ BehindWord(at - 2)'
    BY <1>1, <2>1, <2>2, <2>3 DEF IsLength, IsSource, BehindWord
  <2>5. length' = stream'[at' - 1].v
    BY <1>1, <2>1, <2>3
  <2>6. \A x \in DOMAIN got' : ~stream'[got'[x]].cut /\ stream'[got'[x]].good
    BY <1>1
  <2>7. QED
    BY <2>1, <2>4, <2>5, <2>6 DEF BlockInHand
<1>3. CASE StartDetected /\ ~Recognized
  <2>1. phase' \in {"unknown", "failed"} /\ got' = <<>>
    BY <1>1, <1>3 DEF StartDetected
  <2>2. QED
    BY <2>1, NotReadingBlock
<1>4. CASE StartByName
  <2>1. phase' = "block" /\ at' = at /\ source' = source
    BY <1>4 DEF StartByName, reader
  <2>2. 1 \in DOMAIN stream => IsSource(stream, 1)
    <3> SUFFICES ASSUME 1 \in DOMAIN stream PROVE IsSource(stream, 1)
      OBVIOUS
    <3>1. ~IsSource(stream, 1 - 1) /\ ~IsData(stream, 1 - 1)
          /\ ~IsLength(stream, 1 - 1)
      BY <1>1 DEF IsSource, IsData, IsLength
    <3>2. /\ IsLength(stream, 1) =>
               IsSource(stream, 1 - 1)
               \/ (IsData(stream, 1 - 1) /\ IsSource(stream, 1 - 3))
          /\ IsData(stream, 1) => IsLength(stream, 1 - 1)
      BY <1>1 DEF Parsed
    <3>3. QED
      BY <1>1, <3>1, <3>2, OneKind
  <2>3. at' \in DOMAIN stream' => IsSource(stream, at)'
    BY <1>1, <2>1, <2>2 DEF IsSource
  <2>4. \A x \in DOMAIN got' : ~stream'[got'[x]].cut /\ stream'[got'[x]].good
    BY <1>1
  <2>5. QED
    BY <1>1, <2>1, <2>3, <2>4 DEF BlockInHand
<1>5. QED
  BY <1>2, <1>3, <1>4

(* It reads the word of a block.                                           *)
LEMMA ReadSourceBlock ==
  ASSUME IInv, StreamInHand, BlockInHand, ReadSource
  PROVE  BlockInHand'
<1>1. /\ stream' = stream /\ got' = got /\ at' = at + 1
      /\ source' = stream[at].v
      /\ phase' = IF stream[at].v > 0 THEN "part" ELSE "block"
      /\ IsSource(stream, at)
  BY DEF ReadSource, Item, Whole, IsSource
<1>2. /\ stream \in Seq(Items) /\ Parsed(stream) /\ at \in Nat
      /\ stream[at].v \in Nat
  <2>1. stream \in Seq(Items) /\ Parsed(stream)
    BY DEF IInv, TypeOK, StreamInHand
  <2>2. at \in Nat /\ stream[at] \in Items
    BY <1>1, <2>1, OneKind DEF IsSource
  <2>3. QED
    BY <2>1, <2>2 DEF Items
<1>3. phase' = "part" => source' > 0 /\ BehindWord(at - 1)'
  <2>1. at' - 1 = at
    BY <1>1, <1>2
  <2>2. IsSource(stream', at' - 1) /\ source' = stream'[at' - 1].v
    BY <1>1, <2>1
  <2>3. BehindWord(at - 1)'
    BY <2>2 DEF BehindWord, IsSource
  <2>4. QED
    BY <1>1, <2>3
<1>4. phase' = "block" =>
        source' = 0 /\ (at' \in DOMAIN stream' => IsSource(stream, at)')
  <2> SUFFICES ASSUME phase' = "block"
               PROVE  /\ source' = 0
                      /\ at' \in DOMAIN stream' => IsSource(stream, at)'
    OBVIOUS
  <2>1. stream[at].v = 0
    BY <1>1, <1>2
  <2>2. at + 1 \in DOMAIN stream => IsSource(stream, at + 1)
    BY <1>1, <1>2, <2>1, BehindEmptyBlock
  <2>3. QED
    BY <1>1, <2>1, <2>2 DEF IsSource
<1>5. \A x \in DOMAIN got' : ~stream'[got'[x]].cut /\ stream'[got'[x]].good
  BY <1>1 DEF BlockInHand
<1>6. phase' \in {"part", "block"}
  BY <1>1
<1>7. QED
  BY <1>3, <1>4, <1>5, <1>6 DEF BlockInHand

(* It reads the word of a part, and the data.                              *)
LEMMA ReadLengthBlock ==
  ASSUME IInv, BlockInHand, ReadLength \/ ReadData
  PROVE  BlockInHand'
<1>1. stream \in Seq(Items) /\ stream' = stream /\ got' = got
      /\ source' = source
  BY DEF ReadLength, ReadData, reader, IInv, TypeOK
<1>2. \A x \in DOMAIN got' : ~stream'[got'[x]].cut /\ stream'[got'[x]].good
  BY <1>1 DEF BlockInHand
<1>3. CASE ReadLength
  <2>1. /\ phase = "part" /\ phase' = "data" /\ at' = at + 1
        /\ length' = stream[at].v /\ IsLength(stream, at)
    BY <1>3 DEF ReadLength, Whole, Item, IsLength
  <2>2. at' - 1 = at /\ at' - 2 = at - 1
    <3>1. at \in Nat
      BY <1>1, <2>1, OneKind DEF IsLength
    <3>2. QED
      BY <2>1, <3>1
  <2>3. BehindWord(at - 1) \/ BehindPart(at - 1)
    BY <2>1 DEF BlockInHand
  <2>4. BehindWord(at - 2)' \/ BehindPart(at - 2)'
    BY <1>1, <2>2, <2>3 DEF BehindWord, BehindPart, IsSource, IsData
  <2>5. IsLength(stream, at - 1)' /\ length' = stream'[at' - 1].v
    BY <1>1, <2>1, <2>2 DEF IsLength
  <2>6. QED
    BY <1>2, <2>1, <2>4, <2>5 DEF BlockInHand
<1>4. CASE ReadData
  <2>1. /\ phase = "data" /\ phase' \in {"held", "died", "failed"}
        /\ at' = at /\ length' = length
        /\ phase' = "held" => Whole(at, "data")
    BY <1>4 DEF ReadData, reader
  <2>2. CASE phase' = "held"
    <3>1. /\ IsLength(stream, at - 1) /\ length = stream[at - 1].v
          /\ BehindWord(at - 2) \/ BehindPart(at - 2)
      BY <2>1 DEF BlockInHand
    <3>2. BehindWord(at - 2)' \/ BehindPart(at - 2)'
      BY <1>1, <2>1, <3>1 DEF BehindWord, BehindPart, IsSource, IsData
    <3>3. IsLength(stream, at - 1)' /\ length' = stream'[at' - 1].v
      BY <1>1, <2>1, <3>1 DEF IsLength
    <3>4. ~stream'[at'].cut
      BY <1>1, <2>1, <2>2 DEF Whole
    <3>5. QED
      BY <1>2, <2>2, <3>2, <3>3, <3>4 DEF BlockInHand
  <2>3. CASE phase' # "held"
    <3>1. phase' \in {"died", "failed"}
      BY <2>1, <2>3
    <3>2. QED
      BY <1>2, <3>1 DEF BlockInHand
  <2>4. QED
    BY <2>2, <2>3
<1>5. QED
  BY <1>3, <1>4

(* It writes a part: then it is behind the first part of its block, or in  *)
(* front of the next block.                                                *)
LEMMA WritePartBlock ==
  ASSUME IInv, StreamInHand, BlockInHand, WritePart
  PROVE  BlockInHand'
<1> DEFINE d == stream[at]
<1>1. /\ phase = "held" /\ stream' = stream
      /\ got' = Append(got, at) /\ at' = at + 1
      /\ source' = source - d.n /\ d.good /\ d.n <= source
      /\ phase' = IF source' > 0 THEN "part" ELSE "block"
  BY DEF WritePart, Acceptable, Item
<1>2. /\ stream \in Seq(Items) /\ got \in Seq(DOMAIN stream)
      /\ source \in Nat /\ Parsed(stream) /\ Sums(stream)
  BY DEF IInv, TypeOK, StreamInHand
<1>3. /\ IsData(stream, at) /\ ~d.cut
      /\ IsLength(stream, at - 1)
      /\ BehindWord(at - 2) \/ BehindPart(at - 2)
  BY <1>1 DEF IInv, Passed, BlockInHand
<1>4. at \in DOMAIN stream /\ at \in Nat /\ d.n \in Nat
  <2>1. at \in DOMAIN stream /\ at \in Nat /\ d \in Items
    BY <1>2, <1>3, OneKind DEF IsData
  <2>2. QED
    BY <2>1 DEF Items
<1>5. source' \in Nat /\ source' + d.n = source
  BY <1>1, <1>2, <1>4
<1>6. \A x \in DOMAIN got' : ~stream'[got'[x]].cut /\ stream'[got'[x]].good
  <2> SUFFICES ASSUME NEW x \in DOMAIN got'
               PROVE  ~stream[got'[x]].cut /\ stream[got'[x]].good
    BY <1>1
  <2>1. got'[x] = at \/ (x \in DOMAIN got /\ got'[x] = got[x])
    BY <1>1, <1>2
  <2>2. QED
    BY <1>1, <1>3, <2>1 DEF BlockInHand
(* Behind a second part nothing of the block is left.                      *)
<1>7. BehindPart(at - 2) => source' = 0
  <2> SUFFICES ASSUME BehindPart(at - 2) PROVE source' = 0
    OBVIOUS
  <2>1. /\ IsData(stream, at - 2) /\ IsSource(stream, (at - 2) - 2)
        /\ source + stream[at - 2].n = stream[(at - 2) - 2].v
    BY DEF BehindPart
  <2>2. (at - 2) + 1 = at - 1 /\ (at - 2) + 2 = at /\ at - 2 \in Int
    BY <1>4
  <2>3. source = d.n
    BY <1>2, <1>3, <2>1, <2>2, SecondPart
  <2>4. QED
    BY <1>4, <1>5, <2>3
<1>8. phase' = "part" => source' > 0 /\ BehindPart(at - 1)'
  <2> SUFFICES ASSUME phase' = "part" PROVE source' > 0 /\ BehindPart(at - 1)'
    OBVIOUS
  <2>1. source' > 0
    BY <1>1
  <2>2. BehindWord(at - 2)
    BY <1>3, <1>5, <1>7, <2>1
  <2>3. IsSource(stream, at - 2) /\ source' + d.n = stream[at - 2].v
    BY <1>5, <2>2 DEF BehindWord
  <2>4. at' - 1 = at /\ (at' - 1) - 2 = at - 2
    BY <1>1, <1>4
  <2>5. /\ IsData(stream', at' - 1) /\ IsSource(stream', (at' - 1) - 2)
        /\ source' + stream'[at' - 1].n = stream'[(at' - 1) - 2].v
    BY <1>1, <1>3, <2>3, <2>4
  <2>6. QED
    BY <2>1, <2>5 DEF BehindPart, IsData, IsSource
<1>9. phase' = "block" =>
        source' = 0 /\ (at' \in DOMAIN stream' => IsSource(stream, at)')
  <2> SUFFICES ASSUME phase' = "block"
               PROVE  /\ source' = 0
                      /\ at' \in DOMAIN stream' => IsSource(stream, at)'
    OBVIOUS
  <2>1. source' = 0
    BY <1>1, <1>5
  <2>2. ASSUME at + 1 \in DOMAIN stream, ~IsSource(stream, at + 1)
        PROVE  FALSE
    <3>1. IsSource(stream, at - 2) /\ stream[at - 2].v > d.n
      BY <1>2, <1>3, <2>2, BehindData
    <3>2. ~IsData(stream, at - 2)
      BY <3>1, KindsDiffer
    <3>3. BehindWord(at - 2)
      BY <1>3, <3>2 DEF BehindPart
    <3>4. source = stream[at - 2].v
      BY <3>3 DEF BehindWord
    <3>5. QED
      BY <1>2, <1>4, <1>5, <2>1, <3>1, <3>4
  <2>3. QED
    BY <1>1, <2>1, <2>2 DEF IsSource
<1>10. phase' \in {"part", "block"}
  BY <1>1
<1>11. QED
  BY <1>6, <1>8, <1>9, <1>10 DEF BlockInHand

(* Every step keeps the place of the reader.                               *)
LEMMA BlockKept ==
  IInv /\ StreamInHand /\ BlockInHand /\ [Next]_vars => BlockInHand'
<1> SUFFICES ASSUME IInv, StreamInHand, BlockInHand, [Next]_vars
             PROVE  BlockInHand'
  OBVIOUS
<1>1. CASE Encode \/ Wire \/ EncodeFails
  <2>1. /\ phase \in {"start", "encode", "wire"}
        /\ phase' \in {"start", "encode", "wire", "died", "failed"}
        /\ got' = got /\ source' = source
    BY <1>1 DEF Encode, StartEncode, CompressBlock, HadoopBlock, EncodeEnds,
       Wire, EncodeFails, reader
  <2>2. got = <<>> /\ source = 0
    BY <2>1 DEF IInv, Passed, BlockInHand
  <2>3. QED
    BY <2>1, <2>2, NotReadingBlock
<1>2. CASE StartDetected \/ StartByName
  BY <1>2, StartBlock
<1>3. CASE ReadSource
  BY <1>3, ReadSourceBlock
<1>4. CASE ReadLength \/ ReadData
  BY <1>4, ReadLengthBlock
<1>5. CASE WritePart
  BY <1>5, WritePartBlock
<1>6. CASE EndOfStream \/ Reject \/ NoMemoryToWrite \/ DecodeFails
  <2>1. /\ phase' \in {"done", "failed", "died"}
        /\ got' = got /\ stream' = stream
    BY <1>6 DEF EndOfStream, Reject, NoMemoryToWrite, DecodeFails, reader
  <2>2. QED
    BY <2>1, NotReadingBlock
<1>7. CASE UNCHANGED vars
  <2>1. UNCHANGED <<phase, at, source, length, got, stream>>
    BY <1>7 DEF vars, reader
  <2>2. QED
    BY <2>1 DEF BlockInHand, BehindWord, BehindPart, IsSource, IsLength, IsData
<1>8. QED
  BY <1>1, <1>2, <1>3, <1>4, <1>5, <1>6, <1>7 DEF Next, Decode, CallFails, Idle

-----------------------------------------------------------------------------
(* What uncompress promises.                                               *)

(* At the end of the file every item was passed, but for a word the file   *)
(* may end in.                                                             *)
LEMMA WholeKept ==
  IInv /\ StreamInHand /\ BlockInHand /\ SuccessIsWhole /\ [Next]_vars
  => SuccessIsWhole'
<1> SUFFICES ASSUME IInv, StreamInHand, BlockInHand, SuccessIsWhole,
                    [Next]_vars, phase' = "done"
             PROVE  SuccessIsWhole'
  BY DEF SuccessIsWhole
<1>1. EndOfStream \/ UNCHANGED vars
  BY DEF Next, Idle, Encode, StartEncode, CompressBlock, HadoopBlock,
     EncodeEnds, Wire, Decode, StartDetected, StartByName, ReadSource,
     ReadLength, ReadData, WritePart, Reject, NoMemoryToWrite, CallFails,
     EncodeFails, DecodeFails
<1>2. CASE EndOfStream
  <2>1. /\ phase = "block" /\ ~Whole(at, "source") /\ stream' = stream
        /\ source' = source /\ got' = got
    BY <1>2 DEF EndOfStream, reader
  <2>2. /\ source = 0 /\ (at \in DOMAIN stream => IsSource(stream, at))
        /\ \A x \in DOMAIN got : ~stream[got[x]].cut /\ stream[got[x]].good
    BY <2>1 DEF BlockInHand
  <2>3. /\ stream \in Seq(Items) /\ at \in 1 .. Len(stream) + 1
        /\ \A i \in DOMAIN stream : stream[i].cut => i = Len(stream)
        /\ \A i \in 1 .. at - 1 :
             IsData(stream, i) => \E x \in DOMAIN got : got[x] = i
    BY DEF IInv, TypeOK, StreamInHand, Parsed, Passed
  <2>4. at \in DOMAIN stream => at = Len(stream)
    <3>1. at \in DOMAIN stream => stream[at].cut
      BY <2>1, <2>2 DEF Whole, IsSource
    <3>2. QED
      BY <2>3, <3>1
  <2>5. ASSUME NEW i \in DOMAIN stream, stream[i].kind = "data"
        PROVE  /\ ~stream[i].cut /\ stream[i].good
               /\ \E x \in DOMAIN got : got[x] = i
    <3>1. i # at
      BY <2>2, <2>5 DEF IsSource
    <3>2. i \in 1 .. at - 1
      BY <2>3, <2>4, <3>1
    <3>3. PICK x \in DOMAIN got : got[x] = i
      BY <2>3, <2>5, <3>2 DEF IsData
    <3>4. QED
      BY <2>2, <3>3
  <2>6. QED
    BY <2>1, <2>2, <2>5 DEF SuccessIsWhole
<1>3. CASE UNCHANGED vars
  BY <1>3 DEF SuccessIsWhole, vars, reader
<1>4. QED
  BY <1>1, <1>2, <1>3

(* A file of snzip that nothing happened to, in the hands of a reader with *)
(* buffers no smaller: where it is, there is the next item it wants.       *)
LEMMA OwnSizes ==
  ASSUME IInv, Own
  PROVE  /\ MaxInput(blockSize) \in Nat /\ MaxInput(0) \in Nat
         /\ MaxInput(blockSize) <= MaxInput(0)
         /\ MaxCompressedLength(MaxInput(blockSize)) \in Nat
         /\ MaxCompressedLength(MaxInput(0)) \in Nat
         /\ MaxCompressedLength(MaxInput(blockSize))
              <= MaxCompressedLength(MaxInput(0))
<1>1. blockSize \in BlockSizes
  BY DEF IInv, TypeOK
<1>2. MaxInput(blockSize) \in Nat /\ MaxInput(0) \in Nat
  BY <1>1, SizesAreSizes
<1>3. MaxInput(blockSize) <= MaxInput(0)
  BY DEF Own
<1>4. QED
  BY <1>2, <1>3, CompressedLengthGrows

(* It is behind the word of a block, and there is the word of its part.    *)
LEMMA OwnWord ==
  ASSUME IInv, StreamInHand, BlockInHand, Own, phase = "part"
  PROVE  Whole(at, "length")
<1>1. /\ stream \in Seq(Items) /\ OwnBlocks(stream) /\ source \in Nat
      /\ source > 0 /\ (BehindWord(at - 1) \/ BehindPart(at - 1))
      /\ at \in Nat
  <2>1. /\ stream \in Seq(Items) /\ OwnBlocks(stream) /\ source \in Nat
        /\ at \in 1 .. Len(stream) + 1
    BY DEF IInv, TypeOK, StreamInHand, Own
  <2>2. source > 0 /\ (BehindWord(at - 1) \/ BehindPart(at - 1))
    BY DEF BlockInHand
  <2>3. QED
    BY <2>1, <2>2
<1>2. ~BehindPart(at - 1)
  <2> SUFFICES ASSUME BehindPart(at - 1) PROVE FALSE
    OBVIOUS
  <2> DEFINE j == (at - 1) - 2
  <2>1. /\ IsSource(stream, j)
        /\ source + stream[at - 1].n = stream[j].v /\ IsData(stream, at - 1)
    BY DEF BehindPart
  <2>2. j + 2 = at - 1
    BY <1>1
  <2>3. stream[j].v = stream[j + 2].n
    BY <1>1, <2>1 DEF OwnBlocks, IsSource
  <2>4. stream[at - 1].n \in Nat
    <3>1. stream[at - 1] \in Items
      BY <1>1, <2>1, OneKind DEF IsData
    <3>2. QED
      BY <3>1 DEF Items
  <2>5. source + stream[at - 1].n = stream[at - 1].n
    BY <2>1, <2>2, <2>3
  <2>6. PICK n : n = stream[at - 1].n
    OBVIOUS
  <2>7. source + n = n /\ n \in Nat
    BY <2>4, <2>5, <2>6
  <2>8. source \in Nat /\ source > 0
    BY <1>1
  <2>9. QED
    BY <2>7, <2>8
<1>3. IsSource(stream, at - 1)
  BY <1>1, <1>2 DEF BehindWord
<1>4. IsLength(stream, (at - 1) + 1)
  BY <1>1, <1>3 DEF OwnBlocks, IsSource
<1>5. (at - 1) + 1 = at
  BY <1>1
<1>6. IsLength(stream, at)
  BY <1>4, <1>5
<1>7. QED
  BY <1>1, <1>6 DEF Whole, IsLength, OwnBlocks

(* It is behind the word of a part, whose data fit.                        *)
LEMMA OwnPart ==
  ASSUME IInv, StreamInHand, BlockInHand, Own, phase \in {"data", "held"}
  PROVE  /\ Whole(at, "data") /\ Acceptable
         /\ length <= MaxCompressedLength(MaxInput(0))
         /\ Item.n <= MaxInput(0)
<1>1. /\ stream \in Seq(Items) /\ OwnBlocks(stream) /\ Sums(stream)
      /\ source \in Nat /\ at \in Nat /\ writer = "snzip"
  <2>1. /\ stream \in Seq(Items) /\ OwnBlocks(stream) /\ Sums(stream)
        /\ source \in Nat /\ at \in 1 .. Len(stream) + 1 /\ writer = "snzip"
    BY DEF IInv, TypeOK, StreamInHand, Own
  <2>2. QED
    BY <2>1
<1>2. /\ IsLength(stream, at - 1) /\ length = stream[at - 1].v
      /\ BehindWord(at - 2) \/ BehindPart(at - 2)
  BY DEF BlockInHand
<1>3. ~BehindPart(at - 2)
  <2> SUFFICES ASSUME BehindPart(at - 2) PROVE FALSE
    OBVIOUS
  <2>1. /\ IsData(stream, at - 2) /\ IsSource(stream, (at - 2) - 2)
        /\ source + stream[at - 2].n = stream[(at - 2) - 2].v
    BY DEF BehindPart
  <2>2. (at - 2) + 1 = at - 1 /\ at - 2 \in Int
    BY <1>1
  <2>3. writer = "hadoop"
    BY <1>1, <1>2, <2>1, <2>2, SecondPart
  <2>4. QED
    BY <1>1, <2>3
<1> DEFINE j == at - 2
<1>4. IsSource(stream, j) /\ source = stream[j].v
  BY <1>2, <1>3 DEF BehindWord
<1>5. j + 1 = at - 1 /\ j + 2 = at
  BY <1>1
<1>6. /\ IsLength(stream, j + 1) /\ IsData(stream, j + 2)
      /\ stream[j].v = stream[j + 2].n /\ stream[j].v <= MaxInput(blockSize)
      /\ stream[j + 1].v = stream[j + 2].v
      /\ stream[j + 1].v <= MaxCompressedLength(MaxInput(blockSize))
  BY <1>1, <1>4 DEF OwnBlocks, IsSource
<1> HIDE DEF j
<1>7. IsData(stream, at) /\ ~stream[at].cut /\ stream[at].good
  BY <1>1, <1>5, <1>6 DEF OwnBlocks, IsData
<1>8. /\ stream[at].v = length /\ stream[at].n = source
      /\ source <= MaxInput(blockSize)
      /\ length <= MaxCompressedLength(MaxInput(blockSize))
  BY <1>2, <1>4, <1>5, <1>6
<1>9. length \in Nat
  BY DEF IInv, TypeOK
<1>10. source <= MaxInput(0) /\ length <= MaxCompressedLength(MaxInput(0))
  <2>1. PICK a, b, c, d : /\ a = MaxInput(blockSize) /\ b = MaxInput(0)
                          /\ c = MaxCompressedLength(MaxInput(blockSize))
                          /\ d = MaxCompressedLength(MaxInput(0))
    OBVIOUS
  <2>2. /\ a \in Nat /\ b \in Nat /\ c \in Nat /\ d \in Nat
        /\ a <= b /\ c <= d /\ source <= a /\ length <= c
    BY <1>8, <2>1, OwnSizes
  <2>3. source <= b /\ length <= d
    BY <1>1, <1>9, <2>2
  <2>4. QED
    BY <2>1, <2>3
<1>11. QED
  BY <1>1, <1>7, <1>8, <1>10 DEF Whole, IsData, Acceptable, Item

(* Its first two words are those of a block that fits the buffer.          *)
LEMMA OwnRecognized ==
  ASSUME IInv, StreamInHand, Own, phase = "wire"
  PROVE  Recognized
<1>1. /\ stream \in Seq(Items) /\ OwnBlocks(stream) /\ Parsed(stream)
      /\ EndsAt(stream, size) /\ size > 0
  BY DEF IInv, TypeOK, StreamInHand, Own
<1>2. stream # <<>>
  <2>1. stream = <<>> => DOMAIN stream = {}
    OBVIOUS
  <2>2. DOMAIN stream = {} => size = 0
    BY <1>1 DEF EndsAt
  <2>3. QED
    BY <1>1, <2>1, <2>2
<1>3. 1 \in DOMAIN stream
  BY <1>1, <1>2
<1>4. IsSource(stream, 1)
  <2>1. /\ ~IsSource(stream, 0) /\ ~IsData(stream, 0) /\ ~IsLength(stream, 0)
    BY <1>1 DEF IsSource, IsData, IsLength
  <2>2. 1 - 1 = 0
    OBVIOUS
  <2>3. /\ IsLength(stream, 1) =>
             IsSource(stream, 1 - 1)
             \/ (IsData(stream, 1 - 1) /\ IsSource(stream, 1 - 3))
        /\ IsData(stream, 1) => IsLength(stream, 1 - 1)
    BY <1>1, <1>3 DEF Parsed
  <2>4. ~IsLength(stream, 1) /\ ~IsData(stream, 1)
    BY <2>1, <2>2, <2>3
  <2>5. QED
    BY <1>1, <1>3, <2>4, OneKind
<1>5. /\ IsLength(stream, 1 + 1)
      /\ stream[1 + 1].v <= MaxCompressedLength(MaxInput(blockSize))
  BY <1>1, <1>3, <1>4 DEF OwnBlocks
<1>6. 1 + 1 = 2
  OBVIOUS
<1>7. IsLength(stream, 2) /\ stream[2] \in Items
  BY <1>1, <1>5, <1>6, OneKind DEF IsLength
<1>8. stream[2].v <= MaxCompressedLength(MaxInput(0))
  <2>1. PICK c, d, v : /\ c = MaxCompressedLength(MaxInput(blockSize))
                       /\ d = MaxCompressedLength(MaxInput(0))
                       /\ v = stream[2].v
    OBVIOUS
  <2>2. c \in Nat /\ d \in Nat /\ c <= d /\ v <= c
    BY <1>5, <1>6, <2>1, OwnSizes
  <2>3. v \in Nat
    BY <1>7, <2>1 DEF Items
  <2>4. v <= d
    BY <2>2, <2>3
  <2>5. QED
    BY <2>1, <2>4
<1>9. ~stream[1].cut /\ ~stream[2].cut
  BY <1>1, <1>3, <1>7 DEF OwnBlocks, IsLength
<1>10. QED
  BY <1>4, <1>7, <1>8, <1>9 DEF Recognized, Whole, IsSource, IsLength

(* Buffers that have room already do not grow.                             *)
LEMMA RoomEnough ==
  ASSUME NEW c \in Nat, NEW uc \in Nat, NEW n \in Nat, wb = Fresh(n),
         c <= MaxCompressedLength(n), uc <= n
  PROVE  Grown(c, uc) = wb
<1>1. PICK m : m = MaxCompressedLength(n)
  OBVIOUS
<1>2. m \in Nat
  BY <1>1, CompressedLengthGrows
<1>3. wb = Buffers(m, n) /\ wb.c = m /\ wb.uc = n
  BY <1>1 DEF Fresh, Buffers
<1>4. ~(c > wb.c) /\ ~(uc > wb.uc)
  BY <1>1, <1>2, <1>3
<1>5. QED
  BY <1>3, <1>4 DEF Grown

(* Every step keeps the buffers of such a reader, and none makes it fail.  *)
LEMMA OwnKept ==
  /\ IInv /\ StreamInHand /\ BlockInHand /\ OwnInHand /\ FindsOwnFiles
  /\ [Next]_vars
  => OwnInHand' /\ FindsOwnFiles'
<1> SUFFICES ASSUME IInv, StreamInHand, BlockInHand, OwnInHand,
                    FindsOwnFiles, [Next]_vars, Own'
             PROVE  /\ Reading' => wb' = Fresh(MaxInput(0))
                    /\ phase' \notin {"unknown", "failed", "died"}
  BY DEF OwnInHand, FindsOwnFiles, Own, Fresh, Buffers, MaxCompressedLength,
     MaxInput, Buffer, Wrapped, Fits, RoomForText
<1>1. UNCHANGED text /\ mishaps \subseteq mishaps'
  BY DEF Next, Idle, vars, Encode, StartEncode, CompressBlock, HadoopBlock,
     EncodeEnds, Wire, CutBeforeItem, CutInItem, Corrupt, WrongWord,
     EmptyBlock, Decode, StartDetected, StartByName, EndOfStream, ReadSource,
     ReadLength, ReadData, WritePart, Reject, NoMemoryToWrite, CallFails,
     EncodeFails, DecodeFails
<1>2. Own /\ mishaps' = {}
  BY <1>1 DEF Own, text, RoomForText, Fits
<1>3. /\ Reading => wb = Fresh(MaxInput(0))
      /\ phase \notin {"unknown", "failed", "died"}
      /\ MaxInput(0) \in Nat
  BY <1>2, OwnSizes DEF OwnInHand, FindsOwnFiles, Own
<1>4. CASE Wire \/ CallFails
  <2>1. mishaps' # {}
    BY <1>4 DEF Wire, CutBeforeItem, CutInItem, Corrupt, WrongWord,
       EmptyBlock, CallFails, EncodeFails, DecodeFails
  <2>2. QED
    BY <1>2, <2>1
<1>5. CASE StartEncode
  <2>1. writer = "snzip" /\ Fits(Fresh(MaxInput(0)))
    BY <1>2 DEF Own
  <2>2. wb' = Fresh(MaxInput(blockSize))
        /\ phase' = IF Fits(wb') THEN "encode" ELSE "died"
    BY <1>5, <2>1 DEF StartEncode
  <2>3. Fits(Fresh(MaxInput(blockSize)))
    <3>1. PICK a, b, c, d : /\ a = MaxInput(blockSize) /\ b = MaxInput(0)
                            /\ c = MaxCompressedLength(MaxInput(blockSize))
                            /\ d = MaxCompressedLength(MaxInput(0))
      OBVIOUS
    <3>2. /\ a \in Nat /\ b \in Nat /\ c \in Nat /\ d \in Nat
          /\ a <= b /\ c <= d
      BY <1>2, <3>1, OwnSizes
    <3>3. d <= Memory /\ b <= Memory
      BY <2>1, <3>1 DEF Fits, Fresh, Buffers
    <3>4. c <= Memory /\ a <= Memory
      BY <3>2, <3>3, SizesAssumption
    <3>5. QED
      BY <3>1, <3>4 DEF Fits, Fresh, Buffers
  <2>4. phase' = "encode"
    BY <2>2, <2>3
  <2>5. QED
    BY <2>4 DEF Reading
<1>6. CASE CompressBlock \/ HadoopBlock \/ EncodeEnds
  BY <1>6 DEF CompressBlock, HadoopBlock, EncodeEnds, Reading
<1>7. CASE StartDetected \/ StartByName
  <2>1. phase = "wire" /\ wb' = Fresh(MaxInput(0))
    BY <1>7 DEF StartDetected, StartByName
  <2>2. Recognized
    BY <1>2, <2>1, OwnRecognized
  <2>3. phase' \in {"data", "block"}
    BY <1>7, <2>2 DEF StartDetected, StartByName
  <2>4. QED
    BY <2>1, <2>3
<1>8. CASE EndOfStream
  BY <1>8 DEF EndOfStream, Reading
<1>9. CASE ReadSource \/ ReadLength
  <2>1. /\ phase \in {"block", "part"} /\ wb' = wb
        /\ phase' \in {"part", "block", "data"}
    BY <1>9 DEF ReadSource, ReadLength
  <2>2. QED
    BY <1>3, <2>1 DEF Reading
<1>10. CASE ReadData
  <2>1. /\ phase = "data" /\ wb' = Grown(length, 0)
        /\ phase' = IF ~Fits(wb') THEN "died"
                    ELSE IF Whole(at, "data") THEN "held" ELSE "failed"
    BY <1>10 DEF ReadData
  <2>2. /\ Whole(at, "data") /\ length <= MaxCompressedLength(MaxInput(0))
        /\ length \in Nat /\ wb = Fresh(MaxInput(0))
    BY <1>2, <1>3, <2>1, OwnPart DEF Reading, IInv, TypeOK
  <2>3. wb' = wb
    <3>1. PICK n : n = MaxInput(0)
      OBVIOUS
    <3>2. n \in Nat /\ wb = Fresh(n) /\ length <= MaxCompressedLength(n)
      BY <1>3, <2>2, <3>1
    <3>3. 0 \in Nat /\ 0 <= n
      BY <3>2
    <3>4. Grown(length, 0) = wb
      BY <2>2, <3>2, <3>3, RoomEnough
    <3>5. QED
      BY <2>1, <3>4
  <2>4. Fits(wb')
    BY <1>2, <2>2, <2>3 DEF Own
  <2>5. phase' = "held"
    BY <2>1, <2>2, <2>4
  <2>6. QED
    BY <2>2, <2>3, <2>5
<1>11. CASE WritePart \/ Reject \/ NoMemoryToWrite
  <2>1. phase = "part" => Whole(at, "length")
    BY <1>2, OwnWord
  <2>2. phase = "held" =>
          Acceptable /\ Item.n <= MaxInput(0) /\ wb = Fresh(MaxInput(0))
    BY <1>2, <1>3, OwnPart DEF Reading
  <2>3. ~Reject
    BY <2>1, <2>2 DEF Reject
  <2>4. phase = "held"
    BY <1>11, <2>3 DEF WritePart, NoMemoryToWrite
  <2>5. Grown(0, Item.n) = wb
    <3>1. PICK n : n = MaxInput(0)
      OBVIOUS
    <3>2. PICK uc : uc = Item.n
      OBVIOUS
    <3>3. uc \in Nat
      <4>1. stream \in Seq(Items) /\ IsData(stream, at)
        BY <2>4 DEF IInv, TypeOK, Passed
      <4>2. stream[at] \in Items
        BY <4>1, OneKind DEF IsData
      <4>3. QED
        BY <3>2, <4>2 DEF Item, Items
    <3>4. n \in Nat /\ wb = Fresh(n) /\ uc <= n
      BY <1>3, <2>2, <2>4, <3>1, <3>2
    <3>5. 0 \in Nat /\ 0 <= MaxCompressedLength(n)
      BY <3>4, CompressedLengthGrows
    <3>6. Grown(0, uc) = wb
      BY <3>3, <3>4, <3>5, RoomEnough
    <3>7. QED
      BY <3>2, <3>6
  <2>6. Fits(Grown(0, Item.n))
    BY <1>2, <2>2, <2>4, <2>5 DEF Own
  <2>7. WritePart
    BY <1>11, <2>3, <2>6 DEF NoMemoryToWrite
  <2>8. wb' = wb /\ phase' \in {"part", "block"}
    BY <2>5, <2>7 DEF WritePart
  <2>9. QED
    BY <2>2, <2>4, <2>8
<1>12. CASE UNCHANGED vars
  BY <1>3, <1>12 DEF Reading, vars
<1>13. QED
  BY <1>4, <1>5, <1>6, <1>7, <1>8, <1>9, <1>10, <1>11, <1>12
     DEF Next, Encode, Decode, Idle

(* Before the first step nothing is in hand.                               *)
LEMMA GrammarInvariant == Init => GInv
<1> SUFFICES ASSUME Init PROVE GInv
  OBVIOUS
<1>1. IInv
  BY InitInvariant
<1>2. /\ phase = "start" /\ stream = <<>> /\ mishaps = {} /\ taken = 0
      /\ at = 1 /\ source = 0 /\ got = <<>>
  BY DEF Init
<1>3. DOMAIN stream = {} /\ DOMAIN got = {}
  BY <1>2
<1>4. StreamInHand
  <2>1. Parsed(stream) /\ Sums(stream) /\ OwnBlocks(stream)
    BY <1>3 DEF Parsed, Sums, OwnBlocks
  <2>2. EndsAt(stream, taken)
    BY <1>2, <1>3 DEF EndsAt
  <2>3. QED
    BY <1>2, <1>3, <2>1, <2>2 DEF StreamInHand
<1>5. BlockInHand
  BY <1>2, <1>3 DEF BlockInHand
<1>6. OwnInHand /\ SuccessIsWhole /\ FindsOwnFiles
  BY <1>2 DEF OwnInHand, Reading, SuccessIsWhole, FindsOwnFiles
<1>7. QED
  BY <1>1, <1>4, <1>5, <1>6 DEF GInv

(* What uncompress has of the block in hand: nothing, or its first part.   *)
LEMMA BlockInHandAccounts ==
  IInv /\ StreamInHand /\ BlockInHand => BlockAccounts
<1> SUFFICES ASSUME IInv, StreamInHand, BlockInHand,
                    phase \in {"part", "data", "held"}
             PROVE  \E i \in DOMAIN stream :
                      /\ Announced(i)
                      /\ \A j \in DOMAIN stream : Announced(j) => j <= i
                      /\ LET of == {x \in DOMAIN got : got[x] > i} IN
                         source + (IF of = {} THEN 0
                                   ELSE Reached
                                        - Written(CHOOSE x \in of :
                                            \A y \in of : x <= y).first)
                           = stream[i].v
  BY DEF BlockAccounts
<1>1. /\ stream \in Seq(Items) /\ got \in Seq(DOMAIN stream) /\ source \in Nat
      /\ at \in Nat /\ at <= Len(stream) + 1
      /\ DOMAIN stream = 1 .. Len(stream) /\ Len(stream) \in Nat
      /\ DOMAIN got = 1 .. Len(got) /\ Len(got) \in Nat
  <2>1. /\ stream \in Seq(Items) /\ got \in Seq(DOMAIN stream)
        /\ source \in Nat /\ at \in 1 .. Len(stream) + 1
    BY DEF IInv, TypeOK
  <2>2. QED
    BY <2>1
<1>2. /\ \A x \in DOMAIN got : got[x] < at /\ IsData(stream, got[x])
      /\ \A x, y \in DOMAIN got : x < y => got[x] < got[y]
      /\ \A i \in 1 .. at - 1 :
           IsData(stream, i) => \E x \in DOMAIN got : got[x] = i
  BY DEF IInv, Passed
<1>3. \A x \in DOMAIN got : got[x] \in DOMAIN stream /\ got[x] \in Nat
  BY <1>1
(* Behind its word: nothing has come yet.                                  *)
<1>4. ASSUME NEW i, BehindWord(i), i < at,
             \A k \in i + 1 .. at - 1 :
               ~IsSource(stream, k) /\ ~IsData(stream, k)
      PROVE  /\ i \in DOMAIN stream /\ Announced(i)
             /\ \A j \in DOMAIN stream : Announced(j) => j <= i
             /\ {x \in DOMAIN got : got[x] > i} = {}
             /\ source = stream[i].v
  <2>1. IsSource(stream, i) /\ source = stream[i].v
    BY <1>4 DEF BehindWord
  <2>2. i \in DOMAIN stream /\ i \in Nat /\ Announced(i)
    BY <1>1, <1>4, <2>1 DEF IsSource, Announced
  <2>3. ASSUME NEW j \in DOMAIN stream, Announced(j), ~(j <= i) PROVE FALSE
    <3>1. j \in i + 1 .. at - 1
      BY <1>1, <2>2, <2>3 DEF Announced
    <3>2. QED
      BY <1>4, <2>3, <3>1 DEF Announced, IsSource
  <2>4. ASSUME NEW x \in DOMAIN got, got[x] > i PROVE FALSE
    <3>1. got[x] \in i + 1 .. at - 1
      BY <1>1, <1>2, <1>3, <2>2, <2>4
    <3>2. QED
      BY <1>2, <1>4, <2>4, <3>1
  <2>5. QED
    BY <2>1, <2>2, <2>3, <2>4
(* Behind its first part: that, the last that was written, has come.       *)
<1>5. ASSUME NEW p, BehindPart(p), p < at,
             \A k \in p + 1 .. at - 1 :
               ~IsSource(stream, k) /\ ~IsData(stream, k)
      PROVE  /\ p - 2 \in DOMAIN stream /\ Announced(p - 2)
             /\ \A j \in DOMAIN stream : Announced(j) => j <= p - 2
             /\ Len(got) \in DOMAIN got /\ got[Len(got)] = p
             /\ {x \in DOMAIN got : got[x] > p - 2} = {Len(got)}
             /\ source + stream[p].n = stream[p - 2].v
  <2>1. /\ IsData(stream, p) /\ IsSource(stream, p - 2)
        /\ source + stream[p].n = stream[p - 2].v
    BY <1>5 DEF BehindPart
  <2>2. p \in DOMAIN stream /\ p - 2 \in DOMAIN stream /\ p \in Nat
    BY <1>1, <2>1 DEF IsSource, IsData
  <2>3. IsLength(stream, p - 1)
    BY <2>1, <2>2 DEF StreamInHand, Parsed
  <2>4. ~IsSource(stream, p - 1) /\ ~IsData(stream, p - 1)
        /\ ~IsSource(stream, p)
    BY <2>1, <2>3, KindsDiffer
  <2>5. Announced(p - 2)
    BY <1>1, <1>5, <2>1, <2>2 DEF IsSource, Announced
  <2>6. ASSUME NEW j \in DOMAIN stream, Announced(j), ~(j <= p - 2)
        PROVE  FALSE
    <3>1. j = p - 1 \/ j = p \/ j \in p + 1 .. at - 1
      <4>1. j \in Nat /\ p \in Nat /\ at \in Nat
        BY <1>1, <2>2
      <4>2. j < at /\ ~(j <= p - 2)
        BY <2>6 DEF Announced
      <4>3. QED
        BY <4>1, <4>2
    <3>2. IsSource(stream, j)
      BY <2>6 DEF Announced, IsSource
    <3>3. QED
      BY <1>5, <2>4, <3>1, <3>2
  <2>7. \A x \in DOMAIN got : got[x] > p - 2 => got[x] = p
    <3> SUFFICES ASSUME NEW x \in DOMAIN got, got[x] > p - 2 PROVE got[x] = p
      OBVIOUS
    <3>1. got[x] = p - 1 \/ got[x] = p \/ got[x] \in p + 1 .. at - 1
      <4>1. PICK k : k = got[x]
        OBVIOUS
      <4>2. k \in Nat /\ p \in Nat /\ at \in Nat /\ k < at /\ k > p - 2
        BY <1>1, <1>2, <1>3, <2>2, <4>1
      <4>3. k = p - 1 \/ k = p \/ k \in p + 1 .. at - 1
        BY <4>2
      <4>4. QED
        BY <4>1, <4>3
    <3>2. QED
      BY <1>2, <1>5, <2>4, <3>1
  <2>8. PICK x \in DOMAIN got : got[x] = p
    <3>1. p \in 1 .. at - 1
      BY <1>1, <1>5, <2>2
    <3>2. QED
      BY <1>2, <2>1, <3>1
  <2>9. x = Len(got)
    <3> SUFFICES ASSUME x # Len(got) PROVE FALSE
      OBVIOUS
    <3>1. Len(got) \in DOMAIN got /\ x < Len(got)
      BY <1>1, <2>8
    <3>2. got[x] < got[Len(got)]
      BY <1>2, <2>8, <3>1
    <3>3. got[Len(got)] > p - 2 /\ got[Len(got)] # p
      BY <1>3, <2>2, <2>8, <3>1, <3>2
    <3>4. QED
      BY <2>7, <3>1, <3>3
  <2>10. ASSUME NEW y \in DOMAIN got, got[y] > p - 2 PROVE y = x
    <3>1. got[y] = got[x]
      BY <2>7, <2>8, <2>10
    <3>2. ~(x < y) /\ ~(y < x)
      BY <1>2, <1>3, <2>8, <2>10, <3>1
    <3>3. QED
      BY <1>1, <2>8, <2>10, <3>2
  <2>11. {z \in DOMAIN got : got[z] > p - 2} = {x}
    <3>1. got[x] > p - 2
      BY <2>2, <2>8
    <3>2. QED
      BY <2>8, <2>10, <3>1
  <2>12. QED
    BY <2>1, <2>2, <2>5, <2>6, <2>8, <2>9, <2>11
<1>6. CASE \E i : /\ BehindWord(i) /\ i < at
                  /\ \A k \in i + 1 .. at - 1 :
                       ~IsSource(stream, k) /\ ~IsData(stream, k)
  <2>1. PICK i : /\ BehindWord(i) /\ i < at
                 /\ \A k \in i + 1 .. at - 1 :
                      ~IsSource(stream, k) /\ ~IsData(stream, k)
    BY <1>6
  <2>2. /\ i \in DOMAIN stream /\ Announced(i)
        /\ \A j \in DOMAIN stream : Announced(j) => j <= i
        /\ {x \in DOMAIN got : got[x] > i} = {}
        /\ source = stream[i].v
    BY <1>4, <2>1
  <2>3. source + 0 = stream[i].v
    BY <1>1, <2>2
  <2>4. QED
    BY <2>2, <2>3
<1>7. CASE \E p : /\ BehindPart(p) /\ p < at
                  /\ \A k \in p + 1 .. at - 1 :
                       ~IsSource(stream, k) /\ ~IsData(stream, k)
  <2>1. PICK p : /\ BehindPart(p) /\ p < at
                 /\ \A k \in p + 1 .. at - 1 :
                      ~IsSource(stream, k) /\ ~IsData(stream, k)
    BY <1>7
  <2>2. /\ p - 2 \in DOMAIN stream /\ Announced(p - 2)
        /\ \A j \in DOMAIN stream : Announced(j) => j <= p - 2
        /\ Len(got) \in DOMAIN got /\ got[Len(got)] = p
        /\ {x \in DOMAIN got : got[x] > p - 2} = {Len(got)}
        /\ source + stream[p].n = stream[p - 2].v
    BY <1>5, <2>1
  <2> DEFINE of == {x \in DOMAIN got : got[x] > p - 2}
  <2>3. of = {Len(got)}
    BY <2>2
  <2>4. Len(got) \in of /\ \A y \in of : Len(got) <= y
    BY <1>1, <2>3
  <2>5. (CHOOSE x \in of : \A y \in of : x <= y) = Len(got)
    <3> HIDE DEF of
    <3>1. \E x \in of : \A y \in of : x <= y
      BY <2>4
    <3>2. (CHOOSE x \in of : \A y \in of : x <= y) \in of
      BY <3>1
    <3>3. QED
      BY <2>3, <3>2
  <2>6. got # <<>> /\ Reached = stream[p].first + stream[p].n
        /\ Written(Len(got)).first = stream[p].first
    BY <2>2 DEF Reached, Written
  <2>7. stream[p].first \in Nat /\ stream[p].n \in Nat
    <3>1. stream[p] \in Items
      BY <1>1, <2>2
    <3>2. QED
      BY <3>1 DEF Items
  <2>8. Reached - Written(CHOOSE x \in of : \A y \in of : x <= y).first
          = stream[p].n
    <3>1. PICK f, n : f = stream[p].first /\ n = stream[p].n
      OBVIOUS
    <3>2. Reached = f + n /\ f \in Nat /\ n \in Nat
      BY <2>6, <2>7, <3>1
    <3>3. Written(CHOOSE x \in of : \A y \in of : x <= y).first = f
      BY <2>5, <2>6, <3>1
    <3>4. (f + n) - f = n
      BY <3>2
    <3> HIDE DEF of
    <3>5. QED
      BY <3>1, <3>2, <3>3, <3>4
  <2>9. source + (IF of = {} THEN 0
                  ELSE Reached
                       - Written(CHOOSE x \in of : \A y \in of : x <= y).first)
          = stream[p - 2].v
    BY <2>2, <2>4, <2>8
  <2>10. QED
    BY <2>2, <2>9
<1>8. CASE phase = "part"
  <2>1. BehindWord(at - 1) \/ BehindPart(at - 1)
    BY <1>8 DEF BlockInHand
  <2>2. at - 1 < at /\ (at - 1) + 1 .. at - 1 = {}
    BY <1>1
  <2>3. QED
    BY <1>6, <1>7, <2>1, <2>2
<1>9. CASE phase \in {"data", "held"}
  <2>1. IsLength(stream, at - 1) /\ (BehindWord(at - 2) \/ BehindPart(at - 2))
    BY <1>9 DEF BlockInHand
  <2>2. at - 2 < at /\ \A k \in (at - 2) + 1 .. at - 1 : k = at - 1
    BY <1>1
  <2>3. ~IsSource(stream, at - 1) /\ ~IsData(stream, at - 1)
    BY <2>1, KindsDiffer
  <2>4. QED
    BY <1>6, <1>7, <2>1, <2>2, <2>3
<1>10. QED
  BY <1>8, <1>9

(* What was written when uncompress has succeeded reaches to the end of    *)
(* the text, where the stream does.                                        *)
LEMMA SuccessReaches == GInv => RoundTrip
<1>1. SUFFICES ASSUME GInv, phase = "done", mishaps \subseteq {"empty block"},
                       RoomForText
                PROVE  Reached = size
  BY DEF RoundTrip
<1>2. /\ stream \in Seq(Items) /\ got \in Seq(DOMAIN stream)
      /\ \A x, y \in DOMAIN got : x < y => got[x] < got[y]
      /\ \A x \in DOMAIN got : IsData(stream, got[x])
  BY <1>1 DEF GInv, IInv, TypeOK, Passed
<1>3. EndsAt(stream, size)
  BY <1>1 DEF GInv, StreamInHand
<1>4. \A i \in DOMAIN stream :
        stream[i].kind = "data" => \E x \in DOMAIN got : got[x] = i
  BY <1>1 DEF GInv, SuccessIsWhole
<1>5. CASE got = <<>>
  <2>1. \A i \in DOMAIN stream : stream[i].kind # "data"
    <3>1. DOMAIN got = {}
      BY <1>5
    <3>2. QED
      BY <1>4, <3>1
  <2>2. size = 0
    BY <1>3, <2>1 DEF EndsAt
  <2>3. QED
    BY <1>5, <2>2 DEF Reached
<1>6. CASE got # <<>>
  <2> DEFINE l == Len(got)
             g == got[l]
  <2>1. /\ l \in DOMAIN got /\ DOMAIN got = 1 .. l /\ l \in Nat
        /\ g \in DOMAIN stream /\ IsData(stream, g) /\ g \in Nat
        /\ DOMAIN stream = 1 .. Len(stream)
    <3>1. got \in Seq(DOMAIN stream) /\ got # <<>>
      BY <1>2, <1>6
    <3>2. l \in DOMAIN got /\ DOMAIN got = 1 .. l /\ l \in Nat
      BY <3>1
    <3>3. g \in DOMAIN stream /\ IsData(stream, g)
      BY <1>2, <3>2
    <3>4. stream \in Seq(Items)
      BY <1>2
    <3>5. DOMAIN stream = 1 .. Len(stream) /\ Len(stream) \in Nat
      BY <3>4
    <3>6. QED
      BY <3>2, <3>3, <3>5
  <2>2. \A x \in DOMAIN got : got[x] <= g /\ got[x] \in Nat
    <3> SUFFICES ASSUME NEW x \in DOMAIN got
                 PROVE  got[x] <= g /\ got[x] \in Nat
      OBVIOUS
    <3>1. got[x] \in DOMAIN stream
      BY <1>2
    <3>2. got[x] \in Nat
      BY <2>1, <3>1
    <3>3. x \in 1 .. l /\ l \in Nat
      BY <2>1
    <3>4. CASE x = l
      BY <2>1, <3>2, <3>4
    <3>5. CASE x # l
      <4>1. x < l
        BY <3>3, <3>5
      <4>2. got[x] < g
        BY <1>2, <2>1, <4>1
      <4>3. QED
        BY <2>1, <3>2, <4>2
    <3>6. QED
      BY <3>4, <3>5
  <2>3. \A k \in g + 1 .. Len(stream) : stream[k].kind # "data"
    <3> SUFFICES ASSUME NEW k \in g + 1 .. Len(stream),
                        stream[k].kind = "data"
                 PROVE  FALSE
      OBVIOUS
    <3>1. Len(stream) \in Nat
      BY <1>2
    <3>2. k \in DOMAIN stream /\ k > g /\ k \in Nat
      BY <2>1, <3>1
    <3>3. PICK x \in DOMAIN got : got[x] = k
      BY <1>4, <3>2
    <3>4. k <= g
      BY <2>2, <3>3
    <3>5. QED
      BY <2>1, <3>2, <3>4
  <2>4. stream[g].first + stream[g].n = size
    BY <1>3, <2>1, <2>3 DEF EndsAt
  <2>5. QED
    BY <1>6, <2>4 DEF Reached, Written
<1>7. QED
  BY <1>5, <1>6

(* The invariant of the blocks of a stream, and of where the reader is in  *)
(* one, holds in every run (hadoop-snappy-format.c:145-207).               *)
THEOREM BlocksKept == Spec => []GInv
<1>1. Init => GInv
  BY GrammarInvariant
<1>2. GInv /\ [Next]_vars => GInv'
  <2> SUFFICES ASSUME GInv, [Next]_vars PROVE GInv'
    OBVIOUS
  <2>1. /\ IInv /\ StreamInHand /\ BlockInHand /\ OwnInHand
        /\ SuccessIsWhole /\ FindsOwnFiles
    BY DEF GInv
  <2>2. IInv'
    BY <2>1, StepInvariant
  <2>3. StreamInHand' /\ BlockInHand'
    BY <2>1, <2>2, StreamKept, BlockKept
  <2>4. SuccessIsWhole' /\ OwnInHand' /\ FindsOwnFiles'
    BY <2>1, WholeKept, OwnKept
  <2>5. QED
    BY <2>2, <2>3, <2>4 DEF GInv
<1>3. QED
  BY <1>1, <1>2, PTL DEF Spec

(* What came of the block in hand and what is to come of it always add up  *)
(* to the length its word gives, whatever happened to the file (lines      *)
(* 158-205).                                                               *)
THEOREM BlocksAddUp == Spec => []BlockAccounts
<1>1. GInv => BlockAccounts
  BY BlockInHandAccounts DEF GInv
<1>2. QED
  BY <1>1, BlocksKept, PTL

(* uncompress succeeds only when all data of the file were whole and came  *)
(* out, and none is missing from a block, whatever happened to the file    *)
(* (lines 148-207).                                                        *)
THEOREM OnlyWholeFilesSucceed == Spec => []SuccessIsWhole
<1>1. GInv => SuccessIsWhole
  BY DEF GInv
<1>2. QED
  BY <1>1, BlocksKept, PTL

(* A text of any size comes back from a file nothing was lost of, for      *)
(* every -b whose blocks have room for a byte, and from the files of       *)
(* Hadoop (lines 43-58, 145-207).                                          *)
THEOREM TextComesBack == Spec => []RoundTrip
<1>1. GInv => RoundTrip
  BY SuccessReaches
<1>2. QED
  BY <1>1, BlocksKept, PTL

(* A file of snzip is recognized and comes out whatever its size, when its *)
(* blocks are no larger than by default and no call fails (snzip.c:182).   *)
THEOREM OwnFilesAreFound == Spec => []FindsOwnFiles
<1>1. GInv => FindsOwnFiles
  BY DEF GInv
<1>2. QED
  BY <1>1, BlocksKept, PTL

-----------------------------------------------------------------------------
(* The way to the end.                                                     *)

(* How many more stages there are, and how much is left to do in this one: *)
(* text to be read, kinds of mishaps there are, items to be read. A step   *)
(* is closer to the end when it leads to a later stage or leaves less to   *)
(* do.                                                                     *)
Stage ==
  IF phase = "start" THEN 4 ELSE IF phase = "encode" THEN 3
  ELSE IF phase = "wire" THEN 2 ELSE IF phase \in Ended THEN 0 ELSE 1
Mishaps == {"cut", "corrupt", "word", "empty block", "call"}
ToDo ==
  IF phase = "encode" THEN size - taken
  ELSE IF phase = "wire" THEN Cardinality(Mishaps \ mishaps)
  ELSE 2 * (Len(stream) + 1 - at) + (IF phase = "held" THEN 0 ELSE 1)
Closer ==
  /\ Stage \in Nat /\ ToDo \in Nat /\ Stage' \in Nat /\ ToDo' \in Nat
  /\ Stage' < Stage \/ (Stage' = Stage /\ ToDo' < ToDo)

(* Each mishap that is new leaves fewer that are not.                      *)
LEMMA FewerMishaps ==
  ASSUME NEW S, NEW T, S \subseteq T
  PROVE  /\ Cardinality(Mishaps \ S) \in Nat /\ Cardinality(Mishaps \ T) \in Nat
         /\ Mishaps \cap (T \ S) # {} =>
              Cardinality(Mishaps \ T) < Cardinality(Mishaps \ S)
<1>1. IsFiniteSet(Mishaps)
  <2>1. /\ IsFiniteSet({}) /\ IsFiniteSet({} \cup {"cut"})
        /\ IsFiniteSet({"cut"} \cup {"corrupt"})
    BY FS_EmptySet, FS_AddElement, FS_Singleton
  <2>2. {"cut"} \cup {"corrupt"} = {"cut", "corrupt"}
    OBVIOUS
  <2>3. IsFiniteSet({"cut", "corrupt"} \cup {"word"})
    BY <2>1, <2>2, FS_AddElement
  <2>4. IsFiniteSet(({"cut", "corrupt"} \cup {"word"}) \cup {"empty block"})
    BY <2>3, FS_AddElement
  <2>5. IsFiniteSet((({"cut", "corrupt"} \cup {"word"}) \cup {"empty block"}) \cup {"call"})
    BY <2>4, FS_AddElement
  <2>6. Mishaps = ((({"cut", "corrupt"} \cup {"word"}) \cup {"empty block"}) \cup {"call"})
    BY DEF Mishaps
  <2> QED
    BY <2>5, <2>6
<1> PICK A, B : A = Mishaps \ S /\ B = Mishaps \ T
  OBVIOUS
<1>2. A \in SUBSET Mishaps /\ B \in SUBSET A
  OBVIOUS
<1>3. IsFiniteSet(A)
  BY <1>1, <1>2, FS_Subset
<1>4. /\ IsFiniteSet(B) /\ Cardinality(B) <= Cardinality(A)
      /\ Cardinality(A) = Cardinality(B) => A = B
  BY <1>2, <1>3, FS_Subset
<1>5. Cardinality(A) \in Nat /\ Cardinality(B) \in Nat
  BY <1>3, <1>4, FS_CardinalityType
<1>6. Mishaps \cap (T \ S) # {} => A # B
  OBVIOUS
<1> QED
  BY <1>4, <1>5, <1>6

(* To have taken more leaves less.                                         *)
LEMMA LessLeft == \A s, t, u \in Int : u > t => s - u < s - t
OBVIOUS

(* The measure is made of natural numbers, before and after a step.        *)
LEMMA MeasureTypes ==
  TypeOK => /\ size \in Nat /\ taken \in Nat /\ taken <= size
            /\ at \in Nat /\ Len(stream) \in Nat /\ at <= Len(stream) + 1
            /\ Stage \in Nat /\ ToDo \in Nat
<1> SUFFICES ASSUME TypeOK
             PROVE  /\ size \in Nat /\ taken \in Nat /\ taken <= size
                    /\ at \in Nat /\ Len(stream) \in Nat /\ at <= Len(stream) + 1
                    /\ Stage \in Nat /\ ToDo \in Nat
  OBVIOUS
<1>1. size \in Nat /\ taken \in Nat /\ taken <= size
  <2>1. size \in TextSizes /\ taken \in 0 .. size
    BY DEF TypeOK
  <2> QED
    BY <2>1, SizesAssumption
<1>2. at \in Nat /\ Len(stream) \in Nat /\ at <= Len(stream) + 1
  <2>1. stream \in Seq(Items) /\ at \in 1 .. Len(stream) + 1
    BY DEF TypeOK
  <2> QED
    BY <2>1
<1>3. Stage \in Nat
  BY DEF Stage
<1>4. Cardinality(Mishaps \ mishaps) \in Nat
  BY FewerMishaps
<1>5. ToDo \in Nat
  BY <1>1, <1>2, <1>4 DEF ToDo
<1> QED
  BY <1>1, <1>2, <1>3, <1>5

LEMMA MeasureIsNumber == TypeOK => Stage \in Nat /\ ToDo \in Nat
BY MeasureTypes

(* Every action of Next makes the measure smaller, or changes nothing.     *)
LEMMA StepCloser == TypeOK /\ TypeOK' /\ Next => vars' = vars \/ Closer
<1> SUFFICES ASSUME TypeOK, TypeOK', Next, vars' # vars PROVE Closer
  OBVIOUS
<1>0. /\ size \in Nat /\ taken \in Nat /\ taken <= size
      /\ at \in Nat /\ Len(stream) \in Nat
  BY MeasureTypes
<1>1. Stage \in Nat /\ ToDo \in Nat /\ Stage' \in Nat /\ ToDo' \in Nat
  <2>1. TypeOK => Stage \in Nat /\ ToDo \in Nat
    BY MeasureIsNumber
  <2>2. (TypeOK => Stage \in Nat /\ ToDo \in Nat)'
    BY MeasureIsNumber, PTL
  <2> QED
    BY <2>1, <2>2
<1> SUFFICES Stage' < Stage \/ (Stage' = Stage /\ ToDo' < ToDo)
  BY <1>1 DEF Closer
<1>2. CASE StartEncode \/ EncodeEnds \/ EncodeFails \/ StartDetected \/ StartByName
  BY <1>2 DEF StartEncode, EncodeEnds, EncodeFails, StartDetected, StartByName,
              Stage, Ended
<1>3. CASE CompressBlock \/ HadoopBlock
  <2>1. phase = "encode" /\ UNCHANGED <<phase, size>>
    BY <1>3 DEF CompressBlock, HadoopBlock, text
  <2>3. taken' \in Int /\ taken' > taken
    <3>1. CASE CompressBlock
      <4> PICK n : n = Chunk
        OBVIOUS
      <4>1. n > 0 /\ taken' = taken + n
        BY <3>1 DEF CompressBlock
      <4>2. n \in Int
        <5>1. MaxInput(blockSize) \in Nat
          BY SizesAreSizes DEF TypeOK
        <5> QED
          BY <1>0, <5>1 DEF Chunk, Minimum
      <4> QED
        BY <1>0, <4>1, <4>2
    <3>2. CASE HadoopBlock
      <4> PICK n \in PartSizes \cup {size - taken}, m \in PartSizes \cup {0} :
            taken' = taken + n + m
        BY <3>2 DEF HadoopBlock
      <4>1. taken < size
        BY <3>2 DEF HadoopBlock
      <4>2. n \in Nat \ {0} /\ m \in Nat
        BY <1>0, <4>1, SizesAssumption
      <4> QED
        BY <1>0, <4>2
    <3> QED
      BY <1>3, <3>1, <3>2
  <2>4. Stage' = Stage
    BY <2>1 DEF Stage
  <2>5. ToDo = size - taken /\ ToDo' = size - taken'
    BY <2>1 DEF ToDo
  <2>6. size - taken' < size - taken
    <3>1. size \in Int /\ taken \in Int
      BY <1>0
    <3>2. taken' \in Int
      BY <2>3
    <3>3. taken' > taken
      BY <2>3
    <3> QED
      BY <3>1, <3>2, <3>3, LessLeft
  <2> QED
    BY <2>4, <2>5, <2>6
<1>4. CASE Wire
  <2>1. /\ phase = "wire" /\ UNCHANGED phase /\ mishaps' # mishaps
        /\ \E x \in Mishaps : mishaps' = mishaps \cup {x}
    BY <1>4 DEF Wire, CutBeforeItem, CutInItem, Corrupt, WrongWord, EmptyBlock,
                Mishaps
  <2>2. mishaps \subseteq mishaps' /\ Mishaps \cap (mishaps' \ mishaps) # {}
    BY <2>1
  <2>3. Cardinality(Mishaps \ mishaps') < Cardinality(Mishaps \ mishaps)
    BY <2>2, FewerMishaps
  <2> QED
    BY <2>1, <2>3 DEF Stage, ToDo
<1>5. CASE \/ EndOfStream \/ Reject \/ DecodeFails \/ NoMemoryToWrite
  <2>1. phase \in {"block", "part", "data", "held"} /\ phase' \in Ended
    BY <1>5 DEF EndOfStream, Reject, DecodeFails, NoMemoryToWrite, Ended
  <2> QED
    BY <2>1 DEF Stage, Ended
<1>6. CASE ReadSource \/ ReadLength \/ WritePart
  <2>1. /\ phase \in {"block", "part", "held"} /\ at' = at + 1 /\ stream' = stream
        /\ phase' \in {"block", "part", "data"}
    BY <1>6 DEF ReadSource, ReadLength, WritePart
  <2> QED
    BY <1>0, <2>1 DEF Stage, ToDo, Ended
<1>7. CASE ReadData
  <2>1. /\ phase = "data" /\ phase' \in Ended \cup {"held"}
        /\ UNCHANGED <<at, stream>>
    BY <1>7 DEF ReadData, reader, Ended
  <2> QED
    BY <1>0, <2>1 DEF Stage, ToDo, Ended
<1> QED
  BY <1>2, <1>3, <1>4, <1>5, <1>6, <1>7
     DEF Next, Encode, Decode, CallFails, Idle

(* Every step of compress and of uncompress leads closer to the end,       *)
(* whatever the sizes, the stream and the calls that fail: no turn of a    *)
(* loop leaves all as it was (hadoop-snappy-format.c:43-58, 145-207). So   *)
(* both come to an end if only they go on.                                 *)
THEOREM EveryStepIsCloser == Spec => [][Closer]_vars
<1>1. TypeOK /\ TypeOK' /\ [Next]_vars => [Closer]_vars
  BY StepCloser
<1>2. QED
  BY <1>1, TypeCorrect, PTL DEF Spec

=============================================================================
