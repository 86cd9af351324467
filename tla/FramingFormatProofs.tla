------------------------- MODULE FramingFormatProofs -------------------------
(***************************************************************************)
(* Proofs about the framing formats, for every block size, length field,   *)
(* number and size of texts, and whatever happens to the stream.           *)
(***************************************************************************)
EXTENDS FramingFormat, SequenceTheorems, FiniteSetTheorems, TLAPS

(* A chunk that uncompress passes: data that fit their checksum, or a      *)
(* skippable chunk that is there completely.                               *)
Passed(c) ==
  /\ IsData(c) => Sound(c) /\ c.len >= ChecksumLen
  /\ ~IsData(c) => c.id >= 128 /\ ~c.cut

Empties == {"emptyStored", "emptyCompressed"}

(* Where the decoder is: nothing is read before the stream is closed, and  *)
(* what is behind the reader has been passed.                              *)
Reading ==
  /\ phase \in {"encode", "wire"} => at = 1 /\ got = <<>>
  /\ phase \in {"decode", "done"} => \A i \in 1 .. at - 1 : Passed(stream[i])
  /\ \A x \in DOMAIN got :
       got[x] \in 1 .. at - 1 /\ IsData(Block(x)) /\ Sound(Block(x))
  /\ phase = "encode" => edits = {}

(* Data chunks without data come from elsewhere.                           *)
Filled ==
  \A i \in DOMAIN stream :
    IsData(stream[i]) /\ stream[i].n = 0 /\ stream[i].len >= ChecksumLen
    => edits \cap Empties # {}

ReachesEnd ==
  phase = "done" /\ edits \cap Empties = {} => at = Len(stream) + 1

(* The inductive invariant.                                                *)
IInv == TypeOK /\ LengthFits /\ Reading /\ Filled /\ ReachesEnd

-----------------------------------------------------------------------------
(* Chunks.                                                                 *)

(* The assumptions about the constants, one by one.                        *)
LEMMA Constants ==
  /\ MaxBlock \in Nat /\ MaxBlock > 0 /\ LengthValues \in Nat
  /\ MaxBlock + 4 < LengthValues /\ Streams \in Nat /\ TextSizes \subseteq Nat
  BY FramingAssumption DEF ChecksumLen

(* Every length a block can need is a value of the length bytes.           *)
LEMMA LengthFieldFits ==
  ASSUME NEW n \in Nat, n <= MaxBlock + ChecksumLen
  PROVE  LengthField(n) = n
<1>1. n < LengthValues /\ LengthValues \in Nat
  BY FramingAssumption DEF ChecksumLen
<1> HIDE DEF LengthValues
<1> QED
  BY <1>1 DEF LengthField

(* What the encoder makes of a block (framing2-format.c:72-104).           *)
LEMMA DataChunkFacts ==
  ASSUME NEW t \in Nat, NEW first \in Nat, NEW n \in 1 .. MaxBlock,
         NEW c \in CompressedSizes(n)
  PROVE  LET d == DataChunk(t, first, n, c) IN
         /\ d \in Chunks /\ d.len = d.size /\ d.n = n /\ IsData(d)
         /\ d.text = t /\ d.first = first
<1>1. n \in Nat /\ c \in Nat /\ n \div 8 \in 0 .. n /\ MaxBlock \in Nat
  BY Constants DEF CompressedSizes
<1> DEFINE stored == c >= n - n \div 8
           len == (IF stored THEN n ELSE c) + ChecksumLen
<1>2. len \in Nat /\ len <= MaxBlock + ChecksumLen
  BY <1>1 DEF ChecksumLen
<1>3. LengthField(len) = len
  BY <1>2, LengthFieldFits
<1> DEFINE id == IF stored THEN Uncompressed ELSE Compressed
<1>4. DataChunk(t, first, n, c) = [Chunk(id, len, t, first, n) EXCEPT !.size = len]
  BY <1>3 DEF DataChunk
<1>5. id \in {Compressed, Uncompressed}
  OBVIOUS
<1> HIDE DEF len, id
<1>6. DataChunk(t, first, n, c) =
        [id |-> id, len |-> len, text |-> t, first |-> first, n |-> n,
         size |-> len, cut |-> FALSE, good |-> TRUE]
  BY <1>4 DEF Chunk
<1> QED
  BY <1>1, <1>2, <1>5, <1>6 DEF Chunks, IsData, Compressed, Uncompressed

(* Chunks of other encoders have the types and lengths they are given.     *)
LEMMA ForeignFacts ==
  /\ StreamHeader \in Chunks /\ StreamHeader.len = StreamHeader.size
  /\ ~IsData(StreamHeader)
  /\ \A kind \in DOMAIN Foreign :
       /\ Foreign[kind] \in Chunks
       /\ Foreign[kind].len = Foreign[kind].size
       /\ /\ IsData(Foreign[kind]) /\ Foreign[kind].len >= ChecksumLen
          => kind \in Empties
<1>1. Chunk(StreamId, 6, 0, 0, 0) \in Chunks
      /\ Chunk(StreamId, 6, 0, 0, 0).len = 6
      /\ Chunk(StreamId, 6, 0, 0, 0).size = 6
  BY DEF Chunk, Chunks, StreamId
<1>2. /\ StreamHeader \in Chunks /\ StreamHeader.len = StreamHeader.size
      /\ ~IsData(StreamHeader)
  BY <1>1 DEF StreamHeader, Chunk, IsData, StreamId, Compressed, Uncompressed
<1>3. DOMAIN Foreign =
        {"skippable", "reserved", "short", "emptyStored", "emptyCompressed"}
  BY DEF Foreign
<1>4. ASSUME NEW kind \in DOMAIN Foreign
      PROVE  /\ Foreign[kind] \in Chunks
             /\ Foreign[kind].len = Foreign[kind].size
             /\ /\ IsData(Foreign[kind]) /\ Foreign[kind].len >= ChecksumLen
                => kind \in Empties
  <2>1. CASE kind = "skippable"
    BY <2>1 DEF Foreign, Chunk, Chunks, IsData, Compressed, Uncompressed,
       ChecksumLen, Empties
  <2>2. CASE kind = "reserved"
    BY <2>2 DEF Foreign, Chunk, Chunks, IsData, Compressed, Uncompressed,
       ChecksumLen, Empties
  <2>3. CASE kind = "short"
    BY <2>3 DEF Foreign, Chunk, Chunks, IsData, Compressed, Uncompressed,
       ChecksumLen, Empties
  <2>4. CASE kind = "emptyStored"
    BY <2>4 DEF Foreign, Chunk, Chunks, IsData, Compressed, Uncompressed,
       ChecksumLen, Empties
  <2>5. CASE kind = "emptyCompressed"
    BY <2>5 DEF Foreign, Chunk, Chunks, IsData, Compressed, Uncompressed,
       ChecksumLen, Empties
  <2> QED
    BY <1>3, <1>4, <2>1, <2>2, <2>3, <2>4, <2>5
<1> QED
  BY <1>2, <1>4

-----------------------------------------------------------------------------
(* The invariant holds of the first states (the context zeroed by main()). *)
LEMMA InitIInv == Init => IInv
<1> SUFFICES ASSUME Init PROVE IInv
  OBVIOUS
<1>1. <<>> \in Seq(Chunks) /\ <<>> \in Seq(Nat) /\ Len(<<>>) = 0
      /\ DOMAIN <<>> = 1 .. 0
  BY EmptySeq
<1>2. /\ size \in [1 .. Streams -> Nat] /\ 0 \in 0 .. Streams
      /\ 1 \in 1 .. Len(stream) + 1
  <2>1. size \in [1 .. Streams -> TextSizes] /\ stream = <<>>
    BY DEF Init
  <2>2. size \in [1 .. Streams -> Nat]
    BY <2>1, Constants
  <2>3. 0 \in 0 .. Streams
    BY Constants
  <2>4. Len(stream) = 0
    BY <1>1, <2>1
  <2> QED
    BY <2>2, <2>3, <2>4
<1>3. TypeOK
  <2>1. oerr \in BOOLEAN /\ cur = 0 /\ taken = 0 /\ phase = "encode" /\ at = 1
    BY DEF Init
  <2>2. stream = <<>> /\ got = <<>> /\ edits = {}
    BY DEF Init
  <2> QED
    BY <1>1, <1>2, <2>1, <2>2 DEF TypeOK
<1>4. LengthFits /\ Reading /\ Filled /\ ReachesEnd
  BY <1>1 DEF Init, LengthFits, Reading, Filled, ReachesEnd
<1> QED
  BY <1>3, <1>4 DEF IInv

(* One chunk more at the end of the stream.                                *)
LEMMA AppendChunk ==
  ASSUME IInv, phase = "encode", NEW c \in Chunks, c.len = c.size,
         IsData(c) => c.n # 0, stream' = Append(stream, c),
         UNCHANGED <<size, edits, phase, decoder>>,
         cur' \in 0 .. Streams, taken' \in Nat, oerr' \in BOOLEAN,
         cur' > 0 => taken' <= size[cur']
  PROVE  IInv'
<1>1. stream \in Seq(Chunks) /\ at = 1 /\ got = <<>> /\ edits = {}
      /\ UNCHANGED <<at, got>>
  BY DEF IInv, TypeOK, Reading, decoder
<1>2. /\ stream' \in Seq(Chunks) /\ Len(stream') = Len(stream) + 1
      /\ Len(stream) \in Nat /\ DOMAIN stream' = 1 .. Len(stream) + 1
      /\ DOMAIN stream = 1 .. Len(stream)
      /\ \A i \in DOMAIN stream : stream'[i] = stream[i]
      /\ stream'[Len(stream) + 1] = c
  BY <1>1, AppendProperties, LenProperties
<1>3. TypeOK'
  BY <1>1, <1>2 DEF IInv, TypeOK
<1>4. LengthFits' /\ Filled'
  BY <1>1, <1>2 DEF IInv, LengthFits, Filled
<1>5. Reading' /\ ReachesEnd'
  BY <1>1 DEF Reading, ReachesEnd, IInv
<1> QED
  BY <1>3, <1>4, <1>5 DEF IInv

(* What the encoder adds to the stream keeps the invariant.                *)
LEMMA EncodeStep ==
  ASSUME IInv, Encode
  PROVE  IInv'
<1>1. ASSUME UNCHANGED <<size, stream, edits, decoder>>, phase = "encode",
             phase' \in {"encode", "wire", "stopped"},
             cur' \in 0 .. Streams, taken' \in Nat, oerr' \in BOOLEAN,
             cur' > 0 => taken' <= size[cur']
      PROVE  IInv'
  BY <1>1 DEF IInv, TypeOK, LengthFits, Reading, Filled, ReachesEnd, decoder,
     Block
<1>2. CASE BeginText
  <2>1. /\ cur \in 0 .. Streams /\ cur < Streams /\ Streams \in Nat
        /\ size \in [1 .. Streams -> Nat] /\ cur' = cur + 1 /\ taken' = 0
        /\ UNCHANGED <<size, edits, phase, decoder>> /\ phase = "encode"
    BY <1>2, Constants DEF BeginText, IInv, TypeOK
  <2>2. /\ cur' \in 0 .. Streams /\ taken' \in Nat
        /\ cur' > 0 => taken' <= size[cur']
    BY <2>1
  <2>0. oerr' \in BOOLEAN
    BY <1>2, Zenon DEF BeginText, IInv, TypeOK
  <2>3. CASE stream' = Append(stream, StreamHeader)
    BY <2>0, <2>1, <2>2, <2>3, AppendChunk, ForeignFacts
  <2>4. CASE UNCHANGED stream
    BY <1>1, <2>0, <2>1, <2>2, <2>4
  <2> QED
    BY <1>2, <2>3, <2>4 DEF BeginText
<1>3. CASE CompressBlock
  <2> DEFINE n == Minimum(Left, MaxBlock)
  <2>1. /\ cur \in 1 .. Streams /\ taken \in Nat /\ size[cur] \in Nat
        /\ taken <= size[cur] /\ Left = size[cur] - taken /\ Left > 0
    <3>1. Left > 0
      BY <1>3 DEF CompressBlock
    <3>2. cur # 0 /\ Left = size[cur] - taken
      BY <3>1 DEF Left
    <3>3. /\ cur \in 0 .. Streams /\ taken \in Nat
          /\ size \in [1 .. Streams -> Nat] /\ (cur > 0 => taken <= size[cur])
      BY DEF IInv, TypeOK
    <3> QED
      BY <3>1, <3>2, <3>3, Constants
  <2>2. n \in 1 .. MaxBlock /\ n <= Left
    BY <2>1, Constants DEF Minimum
  <2>3. /\ taken' = taken + n
        /\ UNCHANGED <<size, cur, edits, phase, decoder>> /\ phase = "encode"
    BY <1>3 DEF CompressBlock
  <2> HIDE DEF n
  <2>4. /\ cur' \in 0 .. Streams /\ taken' \in Nat
        /\ cur' > 0 => taken' <= size[cur']
    BY <2>1, <2>2, <2>3
  <2>5. CASE /\ \E c \in CompressedSizes(n) :
                  stream' = Append(stream, DataChunk(cur, taken, n, c))
             /\ UNCHANGED oerr
    <3>1. PICK c \in CompressedSizes(n) :
            stream' = Append(stream, DataChunk(cur, taken, n, c))
      BY <2>5
    <3> DEFINE d == DataChunk(cur, taken, n, c)
    <3>2. d \in Chunks /\ d.len = d.size /\ d.n = n
      BY <2>1, <2>2, DataChunkFacts
    <3>3. oerr' \in BOOLEAN
      BY <2>5, Zenon DEF IInv, TypeOK
    <3>4. n # 0
      BY <2>2, Constants
    <3> HIDE DEF d
    <3> QED
      BY <2>3, <2>4, <3>1, <3>2, <3>3, <3>4, AppendChunk DEF d
  <2>6. CASE oerr' = TRUE /\ UNCHANGED stream
    BY <1>1, <2>3, <2>4, <2>6
  <2> QED
    BY <1>3, <2>5, <2>6 DEF CompressBlock, n
<1>4. CASE EncodeEnds \/ EncodeFails
  BY <1>1, <1>4 DEF EncodeEnds, EncodeFails, encoder, IInv, TypeOK
<1> QED
  BY <1>2, <1>3, <1>4 DEF Encode

(* A chunk put into a stream after its first i chunks.                     *)
LEMMA InsertedChunk ==
  ASSUME NEW s \in Seq(Chunks), NEW i \in 1 .. Len(s), NEW c \in Chunks
  PROVE  LET r == SubSeq(s, 1, i) \o <<c>> \o SubSeq(s, i + 1, Len(s)) IN
         /\ r \in Seq(Chunks) /\ Len(r) = Len(s) + 1
         /\ \A j \in 1 .. i : r[j] = s[j]
         /\ r[i + 1] = c
         /\ \A j \in i + 1 .. Len(s) : r[j + 1] = s[j]
<1>1. Len(s) \in Nat /\ \A j \in 1 .. Len(s) : s[j] \in Chunks
  BY LenProperties, ElementOfSeq
<1> DEFINE front == SubSeq(s, 1, i)
           back == SubSeq(s, i + 1, Len(s))
           new == <<c>>
           r == SubSeq(s, 1, i) \o <<c>> \o SubSeq(s, i + 1, Len(s))
<1>2. /\ front \in Seq(Chunks) /\ Len(front) = i
      /\ \A j \in 1 .. i : front[j] = s[j]
  <2>1. \A j \in 1 .. i : s[j] \in Chunks
    BY <1>1
  <2> QED
    BY <1>1, <2>1, SubSeqProperties
<1>3. /\ back \in Seq(Chunks) /\ Len(back) = Len(s) - i
      /\ \A j \in 1 .. Len(s) - i : back[j] = s[i + j]
  <2>1. \A j \in i + 1 .. Len(s) : s[j] \in Chunks
    BY <1>1
  <2>2. i + 1 \in Int /\ Len(s) \in Int
    BY <1>1
  <2>3. /\ back \in Seq(Chunks)
        /\ Len(back) = IF i + 1 <= Len(s)
                       THEN Len(s) - (i + 1) + 1 ELSE 0
        /\ \A j \in 1 .. Len(s) - (i + 1) + 1 :
             back[j] = s[(i + 1) + j - 1]
    BY <2>1, <2>2, SubSeqProperties
  <2> HIDE DEF back
  <2>4. /\ Len(s) - (i + 1) + 1 = Len(s) - i
        /\ i + 1 <= Len(s) \/ Len(s) - i = 0
    BY <1>1
  <2>5. Len(back) = Len(s) - i
    BY <2>3, <2>4
  <2>6. ASSUME NEW j \in 1 .. Len(s) - i PROVE back[j] = s[i + j]
    <3>1. (i + 1) + j - 1 = i + j
      BY <1>1
    <3>2. back[j] = s[(i + 1) + j - 1]
      BY <2>3, <2>4
    <3> QED
      BY <3>1, <3>2
  <2> QED
    BY <2>3, <2>5, <2>6
<1>4. new \in Seq(Chunks) /\ Len(new) = 1 /\ new[1] = c
  OBVIOUS
<1> HIDE DEF front, back, new, r
<1>5. /\ front \o new \in Seq(Chunks) /\ Len(front \o new) = i + 1
      /\ \A j \in 1 .. i + 1 : (front \o new)[j] =
           IF j <= i THEN front[j] ELSE new[j - i]
  <2>1. /\ front \o new \in Seq(Chunks)
        /\ Len(front \o new) = Len(front) + Len(new)
        /\ \A j \in 1 .. Len(front) + Len(new) : (front \o new)[j] =
             IF j <= Len(front) THEN front[j] ELSE new[j - Len(front)]
    BY <1>2, <1>4, ConcatProperties
  <2> QED
    BY <1>2, <1>4, <2>1
<1>6. /\ r \in Seq(Chunks) /\ Len(r) = Len(s) + 1
      /\ \A j \in 1 .. Len(s) + 1 : r[j] =
           IF j <= i + 1 THEN (front \o new)[j] ELSE back[j - (i + 1)]
  <2> DEFINE both == front \o new
  <2>1. r = both \o back
    BY DEF front, back, new, r
  <2>2. both \in Seq(Chunks) /\ Len(both) = i + 1
    BY <1>5
  <2> HIDE DEF both
  <2>3. /\ both \o back \in Seq(Chunks)
        /\ Len(both \o back) = Len(both) + Len(back)
        /\ \A j \in 1 .. Len(both) + Len(back) : (both \o back)[j] =
             IF j <= Len(both) THEN both[j] ELSE back[j - Len(both)]
    BY <1>3, <2>2, ConcatProperties
  <2>4. Len(both) + Len(back) = Len(s) + 1
    BY <1>1, <1>3, <2>2
  <2> QED
    BY <2>1, <2>2, <2>3, <2>4 DEF both
<1>7. ASSUME NEW j \in 1 .. i PROVE r[j] = s[j]
  <2>1. j \in 1 .. Len(s) + 1 /\ j <= i + 1 /\ j <= i /\ j \in 1 .. i + 1
    BY <1>1
  <2>2. r[j] = (front \o new)[j]
    BY <1>6, <2>1
  <2>3. (front \o new)[j] = front[j]
    BY <1>5, <2>1
  <2> QED
    BY <1>2, <2>2, <2>3
<1>8. r[i + 1] = c
  <2>1. ~(i + 1 <= i) /\ (i + 1) - i = 1 /\ i + 1 \in 1 .. i + 1
        /\ i + 1 \in 1 .. Len(s) + 1 /\ i + 1 <= i + 1
    BY <1>1
  <2>2. r[i + 1] = (front \o new)[i + 1]
    BY <1>6, <2>1
  <2>3. (front \o new)[i + 1] = new[1]
    BY <1>5, <2>1
  <2> QED
    BY <1>4, <2>2, <2>3
<1>9. ASSUME NEW j \in i + 1 .. Len(s) PROVE r[j + 1] = s[j]
  <2>1. /\ ~(j + 1 <= i + 1) /\ (j + 1) - (i + 1) = j - i
        /\ j - i \in 1 .. Len(s) - i /\ i + (j - i) = j
        /\ j + 1 \in 1 .. Len(s) + 1
    BY <1>1
  <2>2. r[j + 1] = back[j - i]
    BY <1>6, <2>1
  <2>3. back[j - i] = s[i + (j - i)]
    BY <1>3, <2>1
  <2> QED
    BY <2>1, <2>2, <2>3
<1> QED
  BY <1>6, <1>7, <1>8, <1>9 DEF r

(* The chunks of a stream that was edited are old ones or foreign ones.    *)
LEMMA WireStep ==
  ASSUME IInv, Wire
  PROVE  IInv'
<1>1. /\ stream \in Seq(Chunks) /\ Len(stream) \in Nat
      /\ DOMAIN stream = 1 .. Len(stream)
      /\ \A i \in 1 .. Len(stream) : stream[i] \in Chunks
  BY LenProperties, ElementOfSeq DEF IInv, TypeOK
<1>2. /\ phase = "wire" /\ at = 1 /\ got = <<>>
      /\ UNCHANGED <<size, cur, taken, oerr, phase, at, got>>
  BY DEF Wire, IInv, Reading, encoder, decoder
<1>3. ASSUME stream' \in Seq(Chunks), edits \subseteq edits',
             edits' \subseteq DOMAIN Foreign
                              \cup {"cut", "cut in chunk", "corrupt"},
             \A i \in 1 .. Len(stream') :
               /\ stream'[i].len = stream'[i].size
               /\ /\ IsData(stream'[i]) /\ stream'[i].n = 0
                  /\ stream'[i].len >= ChecksumLen
                  => edits' \cap Empties # {}
      PROVE  IInv'
  <2>1. Len(stream') \in Nat /\ DOMAIN stream' = 1 .. Len(stream')
    BY <1>3, LenProperties
  <2>2. TypeOK'
    <3>1. 1 \in 1 .. Len(stream') + 1
      BY <2>1
    <3> QED
      BY <1>2, <1>3, <3>1 DEF IInv, TypeOK
  <2>3. LengthFits' /\ Filled'
    BY <1>3, <2>1 DEF LengthFits, Filled
  <2>4. Reading' /\ ReachesEnd'
    BY <1>2 DEF Reading, ReachesEnd
  <2> QED
    BY <2>2, <2>3, <2>4 DEF IInv
<1>4. ASSUME NEW i \in 1 .. Len(stream)
      PROVE  /\ stream[i].len = stream[i].size
             /\ /\ IsData(stream[i]) /\ stream[i].n = 0
                /\ stream[i].len >= ChecksumLen
                => edits \cap Empties # {}
  BY <1>1 DEF IInv, LengthFits, Filled
<1>5. CASE InsertForeign
  <2>1. PICK kind \in DOMAIN Foreign, i \in 1 .. Len(stream) :
          /\ stream' = SubSeq(stream, 1, i) \o <<Foreign[kind]>>
                         \o SubSeq(stream, i + 1, Len(stream))
          /\ edits' = edits \cup {kind}
    BY <1>5 DEF InsertForeign
  <2>2. Foreign[kind] \in Chunks
    BY ForeignFacts
  <2>3. /\ stream' \in Seq(Chunks) /\ Len(stream') = Len(stream) + 1
        /\ \A j \in 1 .. i : stream'[j] = stream[j]
        /\ stream'[i + 1] = Foreign[kind]
        /\ \A j \in i + 1 .. Len(stream) : stream'[j + 1] = stream[j]
    <3>1. PICK s \in Seq(Chunks) : s = stream
      BY <1>1
    <3>2. PICK c \in Chunks : c = Foreign[kind]
      BY <2>2
    <3>3. PICK r : r = stream'
      OBVIOUS
    <3>4. /\ i \in 1 .. Len(s)
          /\ r = SubSeq(s, 1, i) \o <<c>> \o SubSeq(s, i + 1, Len(s))
      BY <2>1, <3>1, <3>2, <3>3, Zenon
    <3>5. /\ r \in Seq(Chunks) /\ Len(r) = Len(s) + 1
          /\ \A j \in 1 .. i : r[j] = s[j]
          /\ r[i + 1] = c
          /\ \A j \in i + 1 .. Len(s) : r[j + 1] = s[j]
      BY <3>4, InsertedChunk
    <3> QED
      BY <3>1, <3>2, <3>3, <3>5, Zenon
  <2>7. ASSUME NEW j \in 1 .. Len(stream')
        PROVE  \/ stream'[j] = Foreign[kind]
               \/ \E k \in 1 .. Len(stream) : stream'[j] = stream[k]
    <3>1. CASE j <= i
      BY <1>1, <2>3, <3>1
    <3>2. CASE j > i + 1
      <4>1. j - 1 \in i + 1 .. Len(stream) /\ j - 1 \in 1 .. Len(stream)
            /\ (j - 1) + 1 = j
        BY <1>1, <2>3, <3>2
      <4> QED
        BY <2>3, <4>1
    <3> QED
      BY <1>1, <2>3, <3>1, <3>2
  <2>8. ASSUME NEW j \in 1 .. Len(stream')
        PROVE  /\ stream'[j].len = stream'[j].size
               /\ /\ IsData(stream'[j]) /\ stream'[j].n = 0
                  /\ stream'[j].len >= ChecksumLen
                  => edits' \cap Empties # {}
    <3>1. CASE stream'[j] = Foreign[kind]
      BY <2>1, <3>1, ForeignFacts
    <3>2. CASE \E k \in 1 .. Len(stream) : stream'[j] = stream[k]
      BY <1>4, <2>1, <3>2
    <3> QED
      BY <2>7, <3>1, <3>2
  <2>9. /\ edits \subseteq edits'
        /\ edits' \subseteq DOMAIN Foreign
                            \cup {"cut", "cut in chunk", "corrupt"}
    BY <2>1 DEF IInv, TypeOK
  <2> QED
    BY <1>3, <2>3, <2>8, <2>9
<1>6. CASE CutAtChunk
  <2>1. /\ stream' = SubSeq(stream, 1, Len(stream) - 1)
        /\ edits' = edits \cup {"cut"}
    BY <1>6 DEF CutAtChunk
  <2>2. /\ stream' \in Seq(Chunks) /\ Len(stream') <= Len(stream)
        /\ Len(stream') \in Nat
        /\ \A j \in 1 .. Len(stream') : stream'[j] = stream[j]
    <3>1. \A j \in 1 .. Len(stream) - 1 : stream[j] \in Chunks
      BY <1>1
    <3>2. Len(stream) > 0
      BY <1>1, <1>6, EmptySeq DEF CutAtChunk
    <3> QED
      BY <1>1, <2>1, <3>1, <3>2, SubSeqProperties
  <2>3. ASSUME NEW j \in 1 .. Len(stream')
        PROVE  j \in 1 .. Len(stream) /\ stream'[j] = stream[j]
    BY <1>1, <2>2
  <2>4. /\ edits \subseteq edits'
        /\ edits' \subseteq DOMAIN Foreign
                            \cup {"cut", "cut in chunk", "corrupt"}
    BY <2>1 DEF IInv, TypeOK
  <2> QED
    BY <1>3, <1>4, <2>2, <2>3, <2>4
<1>7. ASSUME NEW i \in 1 .. Len(stream), NEW c \in Chunks,
             stream' = [stream EXCEPT ![i] = c],
             c.id = stream[i].id, c.len = stream[i].len,
             c.size = stream[i].size, c.n = stream[i].n,
             NEW e \in {"cut in chunk", "corrupt"}, edits' = edits \cup {e}
      PROVE  IInv'
  <2>1. /\ stream' \in Seq(Chunks) /\ Len(stream') = Len(stream)
        /\ \A j \in 1 .. Len(stream) : stream'[j] = IF j = i THEN c ELSE stream[j]
    BY <1>1, <1>7, ExceptSeq
  <2>2. ASSUME NEW j \in 1 .. Len(stream')
        PROVE  /\ stream'[j].len = stream'[j].size
               /\ /\ IsData(stream'[j]) /\ stream'[j].n = 0
                  /\ stream'[j].len >= ChecksumLen
                  => edits' \cap Empties # {}
    <3>1. j \in 1 .. Len(stream) /\ edits \subseteq edits'
      BY <1>7, <2>1
    <3>2. CASE j = i
      BY <1>4, <1>7, <2>1, <3>1, <3>2 DEF IsData
    <3>3. CASE j # i
      BY <1>4, <2>1, <3>1, <3>3
    <3> QED
      BY <3>2, <3>3
  <2>3. /\ edits \subseteq edits'
        /\ edits' \subseteq DOMAIN Foreign
                            \cup {"cut", "cut in chunk", "corrupt"}
    BY <1>7 DEF IInv, TypeOK
  <2> QED
    BY <1>3, <2>1, <2>2, <2>3
<1>8. CASE CutInChunk
  <2>1. Len(stream) \in 1 .. Len(stream)
    <3>1. Len(stream) # 0
      BY <1>1, <1>8, EmptySeq DEF CutInChunk
    <3> QED
      BY <1>1, <3>1
  <2> DEFINE c == [stream[Len(stream)] EXCEPT !.cut = TRUE]
  <2>2. /\ c \in Chunks /\ c.id = stream[Len(stream)].id
        /\ c.len = stream[Len(stream)].len /\ c.size = stream[Len(stream)].size
        /\ c.n = stream[Len(stream)].n
    <3>1. \A x \in Chunks :
            /\ [x EXCEPT !.cut = TRUE] \in Chunks
            /\ [x EXCEPT !.cut = TRUE].id = x.id
            /\ [x EXCEPT !.cut = TRUE].len = x.len
            /\ [x EXCEPT !.cut = TRUE].size = x.size
            /\ [x EXCEPT !.cut = TRUE].n = x.n
      BY Zenon DEF Chunks
    <3> QED
      BY <1>1, <2>1, <3>1
  <2>3. /\ stream' = [stream EXCEPT ![Len(stream)] = c]
        /\ edits' = edits \cup {"cut in chunk"}
    BY <1>8 DEF CutInChunk
  <2> HIDE DEF c
  <2> QED
    BY <1>7, <2>1, <2>2, <2>3
<1>9. CASE Corrupt
  <2>1. PICK i \in 1 .. Len(stream) :
          /\ stream' = [stream EXCEPT ![i].good = FALSE]
          /\ edits' = edits \cup {"corrupt"}
    BY <1>9 DEF Corrupt
  <2> DEFINE c == [stream[i] EXCEPT !.good = FALSE]
  <2>2. /\ c \in Chunks /\ c.id = stream[i].id /\ c.len = stream[i].len
        /\ c.size = stream[i].size /\ c.n = stream[i].n
    <3>1. \A x \in Chunks :
            /\ [x EXCEPT !.good = FALSE] \in Chunks
            /\ [x EXCEPT !.good = FALSE].id = x.id
            /\ [x EXCEPT !.good = FALSE].len = x.len
            /\ [x EXCEPT !.good = FALSE].size = x.size
            /\ [x EXCEPT !.good = FALSE].n = x.n
      BY Zenon DEF Chunks
    <3> QED
      BY <1>1, <3>1
  <2>3. stream' = [stream EXCEPT ![i] = c]
    BY <2>1
  <2> HIDE DEF c
  <2> QED
    BY <1>7, <2>1, <2>2, <2>3
<1> QED
  BY <1>5, <1>6, <1>8, <1>9 DEF Wire

(* The reader stays where it is, or goes over one chunk that passes.       *)
LEMMA DecodeStep ==
  ASSUME IInv, Decode
  PROVE  IInv'
<1>1. /\ stream \in Seq(Chunks) /\ Len(stream) \in Nat /\ got \in Seq(Nat)
      /\ DOMAIN stream = 1 .. Len(stream) /\ at \in 1 .. Len(stream) + 1
      /\ UNCHANGED <<size, cur, taken, oerr, stream, edits>>
  BY LenProperties DEF IInv, TypeOK, Decode, StartDecode, WriteData, SkipChunk,
     RejectChunk, EndOfStream, DecodeFails, encoder
<1>2. UNCHANGED <<LengthFits, Filled>>
  BY <1>1 DEF LengthFits, Filled
<1>3. ASSUME phase' \in {"wire", "decode", "done", "failed", "stopped"},
             at' \in 1 .. Len(stream) + 1, got' \in Seq(Nat),
             Reading', ReachesEnd'
      PROVE  IInv'
  BY <1>1, <1>2, <1>3 DEF IInv, TypeOK
<1>4. CASE StartDecode
  <2>1. CASE /\ stream # <<>> /\ stream[1].id = StreamId /\ Sound(stream[1])
             /\ phase' = "decode" /\ at' = 2 /\ UNCHANGED got
    <3>1. got = <<>> /\ phase = "wire"
      BY <1>4 DEF StartDecode, IInv, Reading
    <3>2. Len(stream) # 0
      BY <1>1, <2>1, EmptySeq
    <3>3. Passed(stream[1])
      BY <2>1 DEF Passed, IsData, Sound, StreamId, Compressed, Uncompressed
    <3>4. Reading'
      BY <1>1, <2>1, <3>1, <3>3 DEF Reading
    <3> QED
      BY <1>1, <1>3, <2>1, <3>2, <3>4 DEF ReachesEnd
  <2>2. CASE phase' = "failed" /\ UNCHANGED <<at, got>>
    BY <1>1, <1>3, <1>4, <2>2
    DEF StartDecode, IInv, Reading, ReachesEnd
  <2> QED
    BY <1>4, <2>1, <2>2 DEF StartDecode
<1>5. ASSUME More, Passed(Current), at' = at + 1, UNCHANGED phase,
             \/ UNCHANGED got
             \/ got' = Append(got, at) /\ IsData(Current)
      PROVE  IInv'
  <2>1. at' \in 1 .. Len(stream) + 1 /\ at \in Nat /\ phase = "decode"
    BY <1>1, <1>5 DEF More
  <2>2. \A i \in 1 .. at' - 1 : Passed(stream[i])
    <3> TAKE i \in 1 .. at' - 1
    <3>1. CASE i = at
      BY <1>5, <3>1 DEF Current
    <3>2. CASE i \in 1 .. at - 1
      BY <2>1, <3>2 DEF IInv, Reading
    <3>3. i = at \/ i \in 1 .. at - 1
      BY <1>5, <2>1
    <3> QED
      BY <3>1, <3>2, <3>3
  <2>3. got' \in Seq(Nat)
        /\ \A x \in DOMAIN got' : /\ got'[x] \in 1 .. at' - 1
                                  /\ IsData(stream[got'[x]])
                                  /\ Sound(stream[got'[x]])
    <3>1. \A x \in DOMAIN got : /\ got[x] \in 1 .. at - 1
                                /\ IsData(stream[got[x]])
                                /\ Sound(stream[got[x]])
      BY DEF IInv, Reading, Block
    <3>2. CASE UNCHANGED got
      BY <1>1, <1>5, <2>1, <3>1, <3>2
    <3>3. CASE got' = Append(got, at) /\ IsData(Current)
      <4>1. /\ got' \in Seq(Nat) /\ Len(got') = Len(got) + 1 /\ Len(got) \in Nat
            /\ DOMAIN got = 1 .. Len(got) /\ DOMAIN got' = 1 .. Len(got) + 1
            /\ \A x \in 1 .. Len(got) : got'[x] = got[x]
            /\ got'[Len(got) + 1] = at
        BY <1>1, <2>1, <3>3, AppendProperties, LenProperties
      <4>2. ASSUME NEW x \in DOMAIN got'
            PROVE  /\ got'[x] \in 1 .. at' - 1
                   /\ IsData(stream[got'[x]]) /\ Sound(stream[got'[x]])
        <5>1. CASE x \in 1 .. Len(got)
          BY <1>5, <2>1, <3>1, <4>1, <5>1
        <5>2. CASE x = Len(got) + 1
          <6>1. got'[x] = at /\ at \in 1 .. at' - 1
            BY <1>1, <1>5, <2>1, <4>1, <5>2
          <6> QED
            BY <1>5, <3>3, <6>1 DEF Current, Passed
        <5> QED
          BY <4>1, <5>1, <5>2
      <4> QED
        BY <4>1, <4>2
    <3> QED
      BY <1>5, <3>2, <3>3
  <2>4. Reading'
    BY <1>1, <1>5, <2>1, <2>2, <2>3 DEF Reading, Block
  <2> QED
    BY <1>3, <1>5, <2>1, <2>3, <2>4 DEF ReachesEnd
<1>6. ASSUME phase = "decode", phase' \in {"done", "failed", "stopped"},
             UNCHANGED <<at, got>>,
             phase' = "done" /\ edits \cap Empties = {} => at = Len(stream) + 1
      PROVE  IInv'
  <2>1. Reading' /\ ReachesEnd'
    BY <1>1, <1>6 DEF IInv, Reading, ReachesEnd, Block
  <2> QED
    BY <1>1, <1>3, <1>6, <2>1
<1>7. CASE WriteData
  <2>1. /\ More /\ IsData(Current) /\ Current.len >= ChecksumLen
        /\ Sound(Current) /\ phase = "decode" /\ at \in 1 .. Len(stream)
    BY <1>1, <1>7 DEF WriteData, More
  <2>2. CASE got' = Append(got, at) /\ at' = at + 1 /\ UNCHANGED phase
    BY <1>5, <2>1, <2>2 DEF Passed
  <2>3. CASE Current.n = 0 /\ phase' = "done" /\ UNCHANGED decoder
    <3>1. edits \cap Empties # {}
      BY <1>1, <2>1, <2>3 DEF IInv, Filled, Current
    <3> QED
      BY <1>6, <2>1, <2>3, <3>1 DEF decoder
  <2> QED
    BY <1>7, <2>2, <2>3 DEF WriteData
<1>8. CASE SkipChunk
  <2>1. More /\ Current.id >= 128 /\ ~Current.cut
        /\ at' = at + 1 /\ UNCHANGED <<phase, got>>
    BY <1>8 DEF SkipChunk
  <2>2. Passed(Current)
    BY <2>1 DEF Passed, IsData, Compressed, Uncompressed
  <2> QED
    BY <1>5, <2>1, <2>2
<1>9. CASE RejectChunk \/ DecodeFails
  BY <1>6, <1>9 DEF RejectChunk, DecodeFails, More, decoder
<1>10. CASE EndOfStream
  <2>1. at = Len(stream) + 1
    BY <1>1, <1>10 DEF EndOfStream
  <2> QED
    BY <1>6, <1>10, <2>1 DEF EndOfStream, decoder
<1> QED
  BY <1>4, <1>7, <1>8, <1>9, <1>10 DEF Decode

(* The invariant is inductive.                                             *)
LEMMA IInvStep == IInv /\ [Next]_vars => IInv'
<1> SUFFICES ASSUME IInv, [Next]_vars PROVE IInv'
  OBVIOUS
<1>1. CASE UNCHANGED vars
  BY <1>1 DEF vars, encoder, decoder, IInv, TypeOK, LengthFits, Reading,
     Filled, ReachesEnd, Block
<1> QED
  BY <1>1, EncodeStep, WireStep, DecodeStep DEF Next, Idle

(* The inductive invariant holds in every state of every run: the reader   *)
(* has passed sound chunks only (framing2-format.c:108-252).               *)
THEOREM Invariant == Spec => []IInv
BY InitIInv, IInvStep, PTL DEF Spec

(* The state of both sides keeps its type.                                 *)
THEOREM TypeCorrect == Spec => []TypeOK
<1>1. IInv => TypeOK
  BY DEF IInv
<1> QED
  BY <1>1, Invariant, PTL

(* No block is too long for the length bytes, whatever the encoder of the  *)
(* library makes of it (framing2-format.c:78-96, framing-format.c:77-95).  *)
THEOREM LengthsFit == Spec => []LengthFits
<1>1. IInv => LengthFits
  BY DEF IInv
<1> QED
  BY <1>1, Invariant, PTL

(* No byte of a block is written before its checksum was found right       *)
(* (framing2-format.c:193-225, framing-format.c:190-222).                  *)
THEOREM Soundness == Spec => []OnlySoundData
<1>1. IInv => OnlySoundData
  BY DEF IInv, Reading, OnlySoundData
<1> QED
  BY <1>1, Invariant, PTL

(* Damage does not go unnoticed: when uncompress succeeds, and no chunk    *)
(* without data made it stop, it has found every chunk of the file sound   *)
(* (framing2-format.c:176-247).                                            *)
THEOREM Reported == Spec => []DamageReported
<1>1. IInv => DamageReported
  <2> SUFFICES ASSUME IInv, phase = "done", edits \cap Empties = {},
                      NEW i \in DOMAIN stream
               PROVE  Passed(stream[i])
    BY DEF DamageReported, Passed, Empties
  <2>1. Len(stream) \in Nat /\ DOMAIN stream = 1 .. Len(stream)
    BY LenProperties DEF IInv, TypeOK
  <2>2. at = Len(stream) + 1 /\ \A j \in 1 .. at - 1 : Passed(stream[j])
    BY DEF IInv, Reading, ReachesEnd
  <2>3. i \in 1 .. at - 1
    BY <2>1, <2>2
  <2> QED
    BY <2>2, <2>3
<1> QED
  BY <1>1, Invariant, PTL

-----------------------------------------------------------------------------
(* What uncompress writes is the texts from their beginning, in order, and *)
(* all of them when it succeeds.                                           *)
(*                                                                         *)
(* The argument is about the data chunks of the stream that hold something *)
(* (Full).  Each goes on in the texts where the one before it ended, with  *)
(* whatever lies between them (OrderedIn): compress writes them so, and    *)
(* nothing that happens to the stream makes it otherwise, as chunks are    *)
(* cut off at its end and chunks of other encoders put between.  The       *)
(* reader has written exactly the full chunks it has passed.               *)

Full(c) == IsData(c) /\ c.n > 0

NoneFull(s, i, j) == \A x \in i .. j : ~Full(s[x])

(* What follows chunk c in the texts is byte p of text t.                  *)
GoesOn(c, t, p) ==
  \/ t = c.text /\ p = c.first + c.n
  \/ /\ t > c.text /\ p = 0 /\ c.first + c.n = size[c.text]
     /\ \A u \in c.text + 1 .. t - 1 : size[u] = 0

(* The first k chunks of s hold the texts up to byte p of text t.          *)
Leads(s, k, t, p) ==
  \/ NoneFull(s, 1, k) /\ p = 0 /\ StartsText(t)
  \/ \E i \in 1 .. k :
       Full(s[i]) /\ NoneFull(s, i + 1, k) /\ GoesOn(s[i], t, p)

OrderedIn(s) ==
  \A j \in 1 .. Len(s) : Full(s[j]) => Leads(s, j - 1, s[j].text, s[j].first)

(* When putc() has lost nothing, what is written is in order, and up to    *)
(* where compress is in the texts while nothing is cut off; else compress  *)
(* will fail.                                                              *)
Mild == edits \subseteq {"skippable"}
InOrderSoFar ==
  /\ ~oerr => OrderedIn(stream)
  /\ ~oerr /\ Mild /\ cur > 0 => Leads(stream, Len(stream), cur, taken)
  /\ cur = 0 => taken = 0 /\ (phase = "encode" => stream = <<>>)
  /\ oerr => phase \in {"encode", "stopped"}
  /\ phase \notin {"encode", "stopped"} =>
       cur = Streams /\ (cur > 0 => taken = size[cur])

(* A stream that has met nothing but skippable chunks is one uncompress    *)
(* can read to its end.                                                    *)
Fine(c) ==
  /\ c.good /\ ~c.cut
  /\ IF IsData(c) THEN c.n > 0 /\ c.len >= ChecksumLen ELSE c.id >= 128
Readable ==
  Mild => /\ \A i \in 1 .. Len(stream) : Fine(stream[i])
          /\ ~oerr /\ cur > 0 => stream # <<>> /\ stream[1].id = StreamId
          /\ phase # "failed"

(* uncompress has written the full chunks it has passed, in order.         *)
WrittenSoFar ==
  /\ \A x \in DOMAIN got : Full(Block(x))
  /\ NoneFull(stream, (IF got = <<>> THEN 0 ELSE got[Len(got)]) + 1, at - 1)
  /\ TextInOrder

-----------------------------------------------------------------------------
(* Chunks that lead to a place in the texts.                               *)

SameData(c, d) ==
  c.id = d.id /\ c.text = d.text /\ c.first = d.first /\ c.n = d.n

(* Chunks that hold the same lead to the same.                             *)
LEMMA FullSame ==
  ASSUME NEW c, NEW d, SameData(c, d)
  PROVE  /\ Full(c) <=> Full(d)
         /\ \A t, p : GoesOn(c, t, p) <=> GoesOn(d, t, p)
BY DEF SameData, Full, IsData, GoesOn

(* Only what the chunks hold decides.                                      *)
LEMMA LeadsSame ==
  ASSUME NEW s, NEW r, NEW k \in Int, \A x \in 1 .. k : SameData(s[x], r[x]),
         NEW t, NEW p, Leads(s, k, t, p)
  PROVE  Leads(r, k, t, p)
<1>1. \A x \in 1 .. k : /\ Full(r[x]) <=> Full(s[x])
                        /\ GoesOn(r[x], t, p) <=> GoesOn(s[x], t, p)
  BY FullSame
<1>2. CASE NoneFull(s, 1, k) /\ p = 0 /\ StartsText(t)
  BY <1>1, <1>2 DEF Leads, NoneFull
<1>3. ASSUME NEW i \in 1 .. k, Full(s[i]), NoneFull(s, i + 1, k),
             GoesOn(s[i], t, p)
      PROVE  Leads(r, k, t, p)
  <2>1. Full(r[i]) /\ GoesOn(r[i], t, p)
    BY <1>1, <1>3
  <2>2. NoneFull(r, i + 1, k)
    <3>1. \A x \in i + 1 .. k : x \in 1 .. k
      OBVIOUS
    <3> QED
      BY <1>1, <1>3, <3>1 DEF NoneFull
  <2> QED
    BY <2>1, <2>2 DEF Leads
<1> QED
  BY <1>2, <1>3 DEF Leads

(* A chunk that holds nothing may come between.                            *)
LEMMA LeadsInserted ==
  ASSUME NEW s, NEW r, NEW k \in Nat, NEW i \in 0 .. k,
         \A x \in 1 .. i : r[x] = s[x], ~Full(r[i + 1]),
         \A x \in i + 1 .. k : r[x + 1] = s[x],
         NEW t, NEW p, Leads(s, k, t, p)
  PROVE  Leads(r, k + 1, t, p)
<1>1. ASSUME NEW m \in 0 .. k, NoneFull(s, m + 1, k)
      PROVE  NoneFull(r, (IF m <= i THEN m ELSE m + 1) + 1, k + 1)
  <2>1. ASSUME NEW x \in (IF m <= i THEN m ELSE m + 1) + 1 .. k + 1
        PROVE  ~Full(r[x])
    <3>1. CASE x = i + 1
      BY <3>1
    <3>2. CASE x <= i
      <4>1. x \in 1 .. i /\ x \in m + 1 .. k
        BY <2>1, <3>2
      <4> QED
        BY <1>1, <4>1 DEF NoneFull
    <3>3. CASE x > i + 1
      <4>1. x - 1 \in i + 1 .. k /\ x - 1 \in m + 1 .. k /\ (x - 1) + 1 = x
        BY <2>1, <3>3
      <4>2. r[(x - 1) + 1] = s[x - 1]
        BY <4>1
      <4> QED
        BY <1>1, <4>1, <4>2 DEF NoneFull
    <3> QED
      BY <3>1, <3>2, <3>3
  <2> QED
    BY <2>1 DEF NoneFull
<1>2. CASE NoneFull(s, 1, k) /\ p = 0 /\ StartsText(t)
  <2>1. NoneFull(r, 1, k + 1)
    <3>1. NoneFull(s, 0 + 1, k) /\ 0 \in 0 .. k
      BY <1>2
    <3>2. NoneFull(r, (IF 0 <= i THEN 0 ELSE 0 + 1) + 1, k + 1)
      BY <1>1, <3>1
    <3> QED
      BY <3>2
  <2> QED
    BY <1>2, <2>1 DEF Leads
<1>3. ASSUME NEW m \in 1 .. k, Full(s[m]), NoneFull(s, m + 1, k),
             GoesOn(s[m], t, p)
      PROVE  Leads(r, k + 1, t, p)
  <2> DEFINE y == IF m <= i THEN m ELSE m + 1
  <2>1. y \in 1 .. k + 1 /\ r[y] = s[m]
    <3>1. CASE m <= i
      BY <3>1
    <3>2. CASE m > i
      <4>1. m \in i + 1 .. k /\ y = m + 1
        BY <3>2
      <4> QED
        BY <4>1
    <3> QED
      BY <3>1, <3>2
  <2>2. NoneFull(r, y + 1, k + 1)
    BY <1>1, <1>3
  <2> HIDE DEF y
  <2> QED
    BY <1>3, <2>1, <2>2 DEF Leads
<1> QED
  BY <1>2, <1>3 DEF Leads

(* A chunk that holds something leads on to its end.                       *)
LEMMA LeadsAppended ==
  ASSUME NEW s, NEW k \in Nat, Full(s[k + 1])
  PROVE  Leads(s, k + 1, s[k + 1].text, s[k + 1].first + s[k + 1].n)
<1>1. k + 1 \in 1 .. k + 1 /\ NoneFull(s, (k + 1) + 1, k + 1)
  BY DEF NoneFull
<1>2. GoesOn(s[k + 1], s[k + 1].text, s[k + 1].first + s[k + 1].n)
  BY DEF GoesOn
<1> QED
  BY <1>1, <1>2 DEF Leads

(* One that holds nothing leaves everything as it is.                      *)
LEMMA LeadsPassed ==
  ASSUME NEW s, NEW k \in Nat, ~Full(s[k + 1]), NEW t, NEW p, Leads(s, k, t, p)
  PROVE  Leads(s, k + 1, t, p)
<1>1. ASSUME NEW m \in 1 .. k + 1, NoneFull(s, m, k)
      PROVE  NoneFull(s, m, k + 1)
  <2>1. \A x \in m .. k + 1 : x = k + 1 \/ x \in m .. k
    OBVIOUS
  <2> QED
    BY <1>1, <2>1 DEF NoneFull
<1>2. CASE NoneFull(s, 1, k) /\ p = 0 /\ StartsText(t)
  BY <1>1, <1>2 DEF Leads
<1>3. ASSUME NEW i \in 1 .. k, Full(s[i]), NoneFull(s, i + 1, k),
             GoesOn(s[i], t, p)
      PROVE  Leads(s, k + 1, t, p)
  <2>1. NoneFull(s, i + 1, k + 1) /\ i \in 1 .. k + 1
    BY <1>1, <1>3
  <2> QED
    BY <1>3, <2>1 DEF Leads
<1> QED
  BY <1>2, <1>3 DEF Leads

(* The next text begins where the last one has ended.                      *)
LEMMA LeadsToNextText ==
  ASSUME NEW s, NEW k \in Nat, NEW t \in Nat, NEW p \in Nat, Leads(s, k, t, p),
         t > 0, p = size[t], \A i \in 1 .. k : Full(s[i]) => s[i].text \in Nat
  PROVE  Leads(s, k, t + 1, 0)
<1>1. CASE NoneFull(s, 1, k) /\ p = 0 /\ StartsText(t)
  <2>1. StartsText(t + 1)
    <3>1. \A u \in 1 .. (t + 1) - 1 : u = t \/ u \in 1 .. t - 1
      OBVIOUS
    <3> QED
      BY <1>1, <3>1 DEF StartsText
  <2> QED
    BY <1>1, <2>1 DEF Leads
<1>2. ASSUME NEW i \in 1 .. k, Full(s[i]), NoneFull(s, i + 1, k),
             GoesOn(s[i], t, p)
      PROVE  Leads(s, k, t + 1, 0)
  <2>1. s[i].text \in Nat
    BY <1>2
  <2>2. CASE t = s[i].text /\ p = s[i].first + s[i].n
    <3>1. GoesOn(s[i], t + 1, 0)
      BY <2>1, <2>2 DEF GoesOn
    <3> QED
      BY <1>2, <3>1 DEF Leads
  <2>3. CASE /\ t > s[i].text /\ p = 0 /\ s[i].first + s[i].n = size[s[i].text]
             /\ \A u \in s[i].text + 1 .. t - 1 : size[u] = 0
    <3>1. \A u \in s[i].text + 1 .. (t + 1) - 1 :
            u = t \/ u \in s[i].text + 1 .. t - 1
      BY <2>1
    <3>2. \A u \in s[i].text + 1 .. (t + 1) - 1 : size[u] = 0
      BY <2>3, <3>1
    <3>3. t + 1 > s[i].text
      BY <2>1, <2>3
    <3>4. GoesOn(s[i], t + 1, 0)
      BY <2>3, <3>2, <3>3 DEF GoesOn
    <3> QED
      BY <1>2, <3>4 DEF Leads
  <2> QED
    BY <1>2, <2>2, <2>3 DEF GoesOn
<1> QED
  BY <1>1, <1>2 DEF Leads

(* One chunk more.                                                         *)
LEMMA LeadsLonger ==
  ASSUME NEW s \in Seq(Chunks), NEW c \in Chunks, NEW k \in 0 .. Len(s),
         NEW t, NEW p, Leads(s, k, t, p)
  PROVE  Leads(Append(s, c), k, t, p)
<1>1. Len(s) \in Nat /\ \A x \in 1 .. Len(s) : Append(s, c)[x] = s[x]
  BY AppendProperties
<1> DEFINE r == Append(s, c)
<1>2. k \in Int /\ \A x \in 1 .. k : SameData(s[x], r[x])
  BY <1>1 DEF SameData
<1> HIDE DEF r
<1>3. Leads(r, k, t, p)
  BY <1>2, LeadsSame
<1> QED
  BY <1>3 DEF r

-----------------------------------------------------------------------------
(* Compression.                                                            *)

Layers == InOrderSoFar /\ Readable /\ WrittenSoFar

(* What the invariant says about the types.                                *)
LEMMA TypeFacts ==
  ASSUME IInv
  PROVE  /\ stream \in Seq(Chunks) /\ Len(stream) \in Nat
         /\ DOMAIN stream = 1 .. Len(stream)
         /\ \A i \in 1 .. Len(stream) :
              /\ stream[i] \in Chunks /\ stream[i].len = stream[i].size
              /\ stream[i].text \in Nat /\ stream[i].first \in Nat
              /\ stream[i].n \in Nat
         /\ got \in Seq(Nat) /\ Len(got) \in Nat /\ DOMAIN got = 1 .. Len(got)
         /\ at \in 1 .. Len(stream) + 1
         /\ cur \in 0 .. Streams /\ Streams \in Nat /\ taken \in Nat
<1>1. /\ stream \in Seq(Chunks) /\ Len(stream) \in Nat
      /\ DOMAIN stream = 1 .. Len(stream)
      /\ got \in Seq(Nat) /\ Len(got) \in Nat /\ DOMAIN got = 1 .. Len(got)
      /\ at \in 1 .. Len(stream) + 1
      /\ cur \in 0 .. Streams /\ Streams \in Nat /\ taken \in Nat
  BY Constants, LenProperties DEF IInv, TypeOK
<1>2. \A i \in 1 .. Len(stream) : stream[i] \in Chunks
  BY <1>1, ElementOfSeq
<1>3. \A c \in Chunks : c.text \in Nat /\ c.first \in Nat /\ c.n \in Nat
  BY DEF Chunks
<1>4. \A i \in 1 .. Len(stream) : stream[i].len = stream[i].size
  BY <1>1 DEF IInv, LengthFits
<1> QED
  BY <1>1, <1>2, <1>3, <1>4

(* At first there is nothing to say anything about.                        *)
LEMMA InitLayers == Init => Layers
<1> SUFFICES ASSUME Init PROVE Layers
  OBVIOUS
<1>1. /\ stream = <<>> /\ got = <<>> /\ Len(stream) = 0 /\ Len(got) = 0
      /\ DOMAIN got = 1 .. 0 /\ at = 1 /\ cur = 0 /\ taken = 0 /\ ~oerr
      /\ phase = "encode"
  BY EmptySeq DEF Init
<1> QED
  BY <1>1 DEF Layers, InOrderSoFar, OrderedIn, Readable, WrittenSoFar,
     NoneFull, TextInOrder

(* While compress is at work uncompress has written nothing.               *)
LEMMA NothingWritten ==
  ASSUME got = <<>>, at = 1
  PROVE  WrittenSoFar
<1>1. DOMAIN got = 1 .. 0 /\ Len(got) = 0 /\ 1 .. at - 1 = {}
  BY EmptySeq
<1> QED
  BY <1>1 DEF WrittenSoFar, NoneFull, TextInOrder

(* At the end of a text all of it has been read.                           *)
LEMMA NothingLeft ==
  ASSUME IInv, Left = 0, cur > 0
  PROVE  taken = size[cur]
<1>1. cur \in 1 .. Streams /\ taken \in Nat
  <2>1. cur \in 0 .. Streams /\ Streams \in Nat /\ taken \in Nat
    BY TypeFacts
  <2> QED
    BY <2>1
<1>2. size[cur] \in Nat
  BY <1>1 DEF IInv, TypeOK
<1>3. size[cur] - taken = 0
  BY DEF Left
<1> QED
  BY <1>1, <1>2, <1>3

(* A chunk that goes on where the stream has come to.                      *)
LEMMA AppendLayers ==
  ASSUME IInv, Layers, phase = "encode", NEW c \in Chunks, Fine(c),
         stream' = Append(stream, c), UNCHANGED <<size, edits, phase, decoder, oerr>>,
         cur' > 0, ~oerr /\ stream = <<>> => c.id = StreamId,
         ~oerr => /\ Full(c) => Leads(stream, Len(stream), c.text, c.first)
                  /\ Leads(stream', Len(stream'), cur', taken')
  PROVE  Layers'
<1>1. /\ stream' \in Seq(Chunks) /\ Len(stream') = Len(stream) + 1
      /\ \A j \in 1 .. Len(stream) : stream'[j] = stream[j]
      /\ stream'[Len(stream) + 1] = c /\ Len(stream) \in Nat
  BY TypeFacts, AppendProperties
<1>2. at = 1 /\ got = <<>> /\ edits = {} /\ UNCHANGED <<at, got>>
  BY DEF IInv, Reading, decoder
<1>3. WrittenSoFar'
  BY <1>2, NothingWritten, EmptySeq DEF WrittenSoFar, NoneFull, TextInOrder
<1>4. Readable'
  <2>1. \A i \in 1 .. Len(stream') : Fine(stream'[i])
    <3>1. \A i \in 1 .. Len(stream) : Fine(stream[i])
      BY <1>2 DEF Layers, Readable, Mild
    <3>2. \A i \in 1 .. Len(stream') : i = Len(stream) + 1 \/ i \in 1 .. Len(stream)
      BY <1>1
    <3> QED
      BY <1>1, <3>1, <3>2
  <2>2. ~oerr => stream' # <<>> /\ stream'[1].id = StreamId
    <3>1. stream' # <<>>
      BY <1>1, EmptySeq
    <3>2. CASE stream = <<>>
      BY <1>1, <3>2, EmptySeq
    <3>3. CASE stream # <<>>
      <4>1. 1 \in 1 .. Len(stream)
        BY <1>1, <3>3, TypeFacts, EmptySeq
      <4>2. cur > 0
        BY <3>3, TypeFacts DEF Layers, InOrderSoFar
      <4> QED
        BY <1>1, <1>2, <3>1, <4>1, <4>2 DEF Layers, Readable, Mild
    <3> QED
      BY <3>1, <3>2, <3>3
  <2> QED
    BY <2>1, <2>2 DEF Readable, Fine
<1>5. ~oerr => OrderedIn(stream')
  <2> SUFFICES ASSUME ~oerr, NEW j \in 1 .. Len(stream'), Full(stream'[j])
               PROVE  Leads(stream', j - 1, stream'[j].text, stream'[j].first)
    BY DEF OrderedIn
  <2>1. CASE j \in 1 .. Len(stream)
    <3>1. Leads(stream, j - 1, stream'[j].text, stream'[j].first)
      BY <1>1, <2>1 DEF Layers, InOrderSoFar, OrderedIn
    <3>2. j - 1 \in 0 .. Len(stream) /\ stream \in Seq(Chunks)
      BY <1>1, <2>1, TypeFacts
    <3>3. Leads(Append(stream, c), j - 1, stream'[j].text, stream'[j].first)
      BY <3>1, <3>2, LeadsLonger
    <3> QED
      BY <3>3
  <2>2. CASE j = Len(stream) + 1
    <3>1. Leads(stream, Len(stream), c.text, c.first) /\ stream'[j] = c
      BY <1>1, <2>2
    <3>2. Leads(stream', Len(stream), c.text, c.first)
      BY <1>1, <3>1, TypeFacts, LeadsLonger
    <3> QED
      BY <1>1, <2>2, <3>1, <3>2
  <2> QED
    BY <1>1, <2>1, <2>2
<1>6. InOrderSoFar'
  <2>1. (OrderedIn(stream))' <=> OrderedIn(stream')
    BY DEF OrderedIn, Leads, GoesOn, StartsText
  <2>2. Leads(stream, Len(stream), cur, taken)' <=> Leads(stream', Len(stream'), cur', taken')
    BY DEF Leads, GoesOn, StartsText
  <2> QED
    BY <1>2, <1>5, <2>1, <2>2 DEF InOrderSoFar, Layers
<1> QED
  BY <1>3, <1>4, <1>6 DEF Layers

(* compress goes on, or fails, without a chunk.                            *)
LEMMA EncodeSame ==
  ASSUME IInv, Layers, phase = "encode",
         UNCHANGED <<size, stream, edits, decoder>>,
         phase' \in {"encode", "wire", "stopped"}, cur' \in Nat,
         oerr' => phase' \in {"encode", "stopped"},
         \/ oerr' /\ cur' > 0
         \/ UNCHANGED <<cur, taken, oerr>>,
         phase' = "wire" => cur' = Streams /\ (cur' > 0 => taken' = size[cur'])
  PROVE  Layers'
<1>1. at = 1 /\ got = <<>> /\ UNCHANGED <<at, got>> /\ edits = {}
  BY DEF IInv, Reading, decoder
<1>2. WrittenSoFar'
  BY <1>1, NothingWritten, EmptySeq DEF WrittenSoFar, NoneFull, TextInOrder
<1>3. Readable'
  BY <1>1 DEF Layers, Readable, Mild, Fine
<1>4. CASE oerr' /\ cur' > 0
  BY <1>2, <1>3, <1>4 DEF Layers, InOrderSoFar
<1>5. CASE UNCHANGED <<cur, taken, oerr>>
  <2>1. /\ OrderedIn(stream)' <=> OrderedIn(stream)
        /\ Leads(stream, Len(stream), cur, taken)'
             <=> Leads(stream, Len(stream), cur, taken)
        /\ Mild' <=> Mild
    BY <1>5 DEF OrderedIn, Leads, GoesOn, StartsText, Mild
  <2>2. InOrderSoFar'
    BY <1>5, <2>1 DEF Layers, InOrderSoFar
  <2> QED
    BY <1>2, <1>3, <2>2 DEF Layers
<1> QED
  BY <1>4, <1>5

(* The header of the next text.                                            *)
LEMMA BeginTextLayers ==
  ASSUME IInv, Layers, BeginText
  PROVE  Layers'
<1>1. /\ phase = "encode" /\ Left = 0 /\ ~oerr /\ cur' = cur + 1 /\ taken' = 0
      /\ UNCHANGED <<size, edits, phase, decoder>>
  BY DEF BeginText
<1>2. /\ stream \in Seq(Chunks) /\ Len(stream) \in Nat /\ cur \in Nat
      /\ taken \in Nat
      /\ cur > 0 => taken = size[cur]
      /\ \A i \in 1 .. Len(stream) : stream[i].text \in Nat
  BY <1>1, TypeFacts, NothingLeft
<1>3. CASE oerr' = TRUE /\ UNCHANGED stream
  <2>1. cur' \in Nat /\ cur' > 0
    BY <1>1, <1>2
  <2> QED
    BY <1>1, <1>3, <2>1, EncodeSame
<1>4. CASE stream' = Append(stream, StreamHeader) /\ UNCHANGED oerr
  <2>1. /\ StreamHeader \in Chunks /\ Fine(StreamHeader) /\ ~Full(StreamHeader)
        /\ StreamHeader.id = StreamId
    BY ForeignFacts DEF StreamHeader, Chunk, Fine, Full, IsData, StreamId,
       Compressed, Uncompressed
  <2>2. /\ Len(stream') = Len(stream) + 1 /\ stream'[Len(stream) + 1] = StreamHeader
        /\ stream' \in Seq(Chunks)
    BY <1>2, <1>4, <2>1, AppendProperties
  <2>3. Leads(stream, Len(stream), cur + 1, 0)
    <3>1. CASE cur = 0
      <4>1. Len(stream) = 0 /\ 1 .. Len(stream) = {} /\ 1 .. (cur + 1) - 1 = {}
        BY <1>1, <3>1, EmptySeq DEF Layers, InOrderSoFar
      <4> QED
        BY <4>1 DEF Leads, NoneFull, StartsText
    <3>2. CASE cur > 0
      <4>1. edits = {}
        BY <1>1 DEF IInv, Reading
      <4>2. Leads(stream, Len(stream), cur, taken)
        BY <1>1, <3>2, <4>1 DEF Layers, InOrderSoFar, Mild
      <4>3. /\ taken = size[cur]
            /\ \A i \in 1 .. Len(stream) :
                 Full(stream[i]) => stream[i].text \in Nat
        BY <1>2, <3>2
      <4> QED
        BY <1>2, <3>2, <4>2, <4>3, LeadsToNextText
    <3> QED
      BY <1>2, <3>1, <3>2
  <2>4. Leads(stream', Len(stream), cur + 1, 0)
    <3>1. Len(stream) \in 0 .. Len(stream)
      BY <1>2
    <3> QED
      BY <1>2, <1>4, <2>1, <2>3, <3>1, LeadsLonger
  <2>5. Leads(stream', Len(stream) + 1, cur + 1, 0)
    <3>1. ~Full(stream'[Len(stream) + 1])
      BY <2>1, <2>2
    <3> QED
      BY <1>2, <2>4, <3>1, LeadsPassed
  <2>6. cur' > 0
    BY <1>1, <1>2
  <2> QED
    BY <1>1, <1>4, <2>1, <2>2, <2>5, <2>6, AppendLayers
<1> QED
  BY <1>3, <1>4 DEF BeginText

(* A block takes the stream on to where compress is after it.              *)
LEMMA CompressBlockLayers ==
  ASSUME IInv, Layers, CompressBlock
  PROVE  Layers'
<1> DEFINE n == Minimum(Left, MaxBlock)
<1>1. /\ phase = "encode" /\ Left > 0 /\ taken' = taken + n
      /\ UNCHANGED <<size, cur, edits, phase, decoder>>
  BY DEF CompressBlock
<1>2. /\ stream \in Seq(Chunks) /\ Len(stream) \in Nat /\ cur \in Nat /\ cur > 0
      /\ taken \in Nat /\ edits = {}
  BY <1>1, TypeFacts DEF IInv, Reading, Left
<1>3. n \in 1 .. MaxBlock
  <2>1. Left \in Nat
    BY <1>1, <1>2 DEF IInv, TypeOK, Left
  <2> QED
    BY <1>1, <2>1, Constants DEF Minimum
<1> HIDE DEF n
<1>4. CASE oerr' = TRUE /\ UNCHANGED stream
  BY <1>1, <1>2, <1>4, EncodeSame
<1>5. ASSUME NEW c \in CompressedSizes(n),
             stream' = Append(stream, DataChunk(cur, taken, n, c)),
             UNCHANGED oerr
      PROVE  Layers'
  <2> DEFINE d == DataChunk(cur, taken, n, c)
  <2>1. /\ d \in Chunks /\ d.n = n /\ IsData(d) /\ d.text = cur
        /\ d.first = taken
    BY <1>2, <1>3, <1>5, DataChunkFacts
  <2>2. d.good /\ ~d.cut /\ d.len >= ChecksumLen
    <3>1. n \in Nat /\ c \in Nat /\ n <= MaxBlock /\ n - n \div 8 <= MaxBlock
          /\ MaxBlock \in Nat
      BY <1>3, <1>5, Constants DEF CompressedSizes
    <3> DEFINE len == (IF c >= n - n \div 8 THEN n ELSE c) + ChecksumLen
    <3>2. len \in Nat /\ len <= MaxBlock + ChecksumLen /\ len >= ChecksumLen
      BY <3>1 DEF ChecksumLen
    <3>3. LengthField(len) = len
      BY <3>2, LengthFieldFits
    <3> QED
      BY <3>2, <3>3 DEF DataChunk, Chunk
  <2> HIDE DEF d
  <2>3. Fine(d) /\ Full(d)
    BY <1>3, <2>1, <2>2, Constants DEF Fine, Full
  <2>4. /\ stream' = Append(stream, d) /\ Len(stream') = Len(stream) + 1
        /\ stream'[Len(stream) + 1] = d
    BY <1>2, <1>5, <2>1, AppendProperties DEF d
  <2>5. ~oerr => Leads(stream, Len(stream), d.text, d.first)
    BY <1>2, <2>1 DEF Layers, InOrderSoFar, Mild
  <2>6. Leads(stream', Len(stream'), cur', taken')
    <3>1. Full(stream'[Len(stream) + 1])
      BY <2>3, <2>4
    <3> QED
      BY <1>1, <1>2, <2>1, <2>4, <3>1, LeadsAppended
  <2>7. ~oerr => stream # <<>>
    BY <1>2 DEF Layers, Readable, Mild
  <2> QED
    BY <1>1, <1>2, <1>5, <2>1, <2>3, <2>4, <2>5, <2>6, <2>7, AppendLayers
<1> QED
  BY <1>1, <1>4, <1>5 DEF CompressBlock, n

(* Every step of compress.                                                 *)
LEMMA EncodeLayers ==
  ASSUME IInv, Layers, Encode
  PROVE  Layers'
<1>1. cur \in Nat /\ cur \in 0 .. Streams
  BY TypeFacts
<1>2. CASE EncodeEnds
  <2>1. /\ phase = "encode" /\ (cur = Streams \/ oerr) /\ Left = 0
        /\ phase' = IF oerr THEN "stopped" ELSE "wire"
        /\ UNCHANGED <<size, stream, edits, decoder, cur, taken, oerr>>
    BY <1>2 DEF EncodeEnds, encoder
  <2>2. cur > 0 => taken = size[cur]
    BY <1>1, <2>1, NothingLeft
  <2> QED
    BY <1>1, <2>1, <2>2, EncodeSame
<1>3. CASE EncodeFails
  <2>1. /\ phase = "encode" /\ phase' = "stopped"
        /\ UNCHANGED <<size, stream, edits, decoder, cur, taken, oerr>>
    BY <1>3 DEF EncodeFails, encoder
  <2> QED
    BY <1>1, <2>1, EncodeSame
<1> QED
  BY <1>2, <1>3, BeginTextLayers, CompressBlockLayers DEF Encode

-----------------------------------------------------------------------------
(* On its way.                                                             *)

(* What is left of a stream, or holds the same data, is still in order.    *)
LEMMA OrderedSame ==
  ASSUME NEW s, NEW r, Len(s) \in Nat, Len(r) \in Nat, Len(r) <= Len(s),
         \A x \in 1 .. Len(r) : SameData(s[x], r[x]), OrderedIn(s)
  PROVE  OrderedIn(r)
<1> SUFFICES ASSUME NEW j \in 1 .. Len(r), Full(r[j])
             PROVE  Leads(r, j - 1, r[j].text, r[j].first)
  BY DEF OrderedIn
<1>1. /\ Full(s[j]) /\ s[j].text = r[j].text /\ s[j].first = r[j].first
  BY FullSame DEF SameData
<1>2. j \in 1 .. Len(s) /\ j - 1 \in Int
      /\ \A x \in 1 .. j - 1 : x \in 1 .. Len(r)
  OBVIOUS
<1>3. Leads(s, j - 1, r[j].text, r[j].first)
  BY <1>1, <1>2 DEF OrderedIn
<1> QED
  BY <1>2, <1>3, LeadsSame

(* So is one that has got a chunk that holds nothing.                      *)
LEMMA OrderedInserted ==
  ASSUME NEW s, NEW r, Len(s) \in Nat, Len(r) = Len(s) + 1,
         NEW i \in 1 .. Len(s), \A x \in 1 .. i : r[x] = s[x],
         ~Full(r[i + 1]), \A x \in i + 1 .. Len(s) : r[x + 1] = s[x],
         OrderedIn(s)
  PROVE  OrderedIn(r)
<1> SUFFICES ASSUME NEW j \in 1 .. Len(r), Full(r[j])
             PROVE  Leads(r, j - 1, r[j].text, r[j].first)
  BY DEF OrderedIn
<1>1. CASE j <= i
  <2>1. j \in 1 .. i /\ j \in 1 .. Len(s) /\ j - 1 \in Int
        /\ \A x \in 1 .. j - 1 : x \in 1 .. i
    BY <1>1
  <2>2. r[j] = s[j] /\ \A x \in 1 .. j - 1 : SameData(s[x], r[x])
    BY <2>1 DEF SameData
  <2>3. Leads(s, j - 1, r[j].text, r[j].first)
    BY <2>1, <2>2 DEF OrderedIn
  <2> QED
    BY <2>1, <2>2, <2>3, LeadsSame
<1>2. CASE j > i + 1
  <2>1. j - 1 \in i + 1 .. Len(s) /\ j - 1 \in 1 .. Len(s)
        /\ j - 2 \in Nat /\ i \in 0 .. j - 2 /\ (j - 1) + 1 = j
        /\ (j - 1) - 1 = j - 2 /\ (j - 2) + 1 = j - 1
        /\ \A x \in i + 1 .. j - 2 : x \in i + 1 .. Len(s)
    BY <1>2
  <2>2. r[j] = s[j - 1]
    BY <2>1
  <2>3. Leads(s, j - 2, r[j].text, r[j].first)
    BY <2>1, <2>2 DEF OrderedIn
  <2>4. \A x \in i + 1 .. j - 2 : r[x + 1] = s[x]
    BY <2>1
  <2>5. Leads(r, (j - 2) + 1, r[j].text, r[j].first)
    BY <2>1, <2>3, <2>4, LeadsInserted
  <2> QED
    BY <2>1, <2>5
<1> QED
  BY <1>1, <1>2

(* Damage to a chunk leaves what it was to hold.                           *)
LEMMA ChangedChunk ==
  ASSUME NEW s \in Seq(Chunks), NEW i \in 1 .. Len(s), NEW c \in Chunks,
         SameData(s[i], c)
  PROVE  LET r == [s EXCEPT ![i] = c] IN
         /\ Len(r) \in Nat /\ Len(r) <= Len(s)
         /\ \A j \in 1 .. Len(r) : SameData(s[j], r[j])
<1> DEFINE r == [s EXCEPT ![i] = c]
<1>1. /\ Len(r) = Len(s)
      /\ \A j \in 1 .. Len(s) : r[j] = IF j = i THEN c ELSE s[j]
  BY ExceptSeq
<1> HIDE DEF r
<1>2. Len(r) \in Nat /\ Len(r) <= Len(s)
  <2>1. Len(s) \in Nat
    BY LenProperties
  <2> QED
    BY <1>1, <2>1
<1>3. \A j \in 1 .. Len(r) : SameData(s[j], r[j])
  BY <1>1 DEF SameData
<1> QED
  BY <1>2, <1>3 DEF r

(* Skippable chunks change nothing, anything else ends the promise that    *)
(* everything comes back.                                                  *)
LEMMA WireLayers ==
  ASSUME IInv, Layers, Wire
  PROVE  Layers'
<1>1. /\ phase = "wire" /\ at = 1 /\ got = <<>> /\ ~oerr
      /\ UNCHANGED <<size, cur, taken, oerr, phase, at, got>>
  BY DEF Wire, IInv, Reading, encoder, decoder, Layers, InOrderSoFar
<1>2. /\ stream \in Seq(Chunks) /\ Len(stream) \in Nat
      /\ \A i \in 1 .. Len(stream) : stream[i] \in Chunks
  BY TypeFacts
<1>3. OrderedIn(stream)
  BY <1>1 DEF Layers, InOrderSoFar
<1>4. ASSUME OrderedIn(stream'),
             Mild' =>
               /\ cur > 0 => Leads(stream', Len(stream'), cur, taken)
               /\ \A i \in 1 .. Len(stream') : Fine(stream'[i])
               /\ cur > 0 => stream' # <<>> /\ stream'[1].id = StreamId
      PROVE  Layers'
  <2>1. WrittenSoFar'
    BY <1>1, NothingWritten, EmptySeq DEF WrittenSoFar, NoneFull, TextInOrder
  <2>2. Readable'
    BY <1>1, <1>4 DEF Readable, Fine
  <2>3. /\ OrderedIn(stream)' <=> OrderedIn(stream')
        /\ Leads(stream, Len(stream), cur, taken)'
             <=> Leads(stream', Len(stream'), cur, taken)
    BY <1>1 DEF OrderedIn, Leads, GoesOn, StartsText
  <2>4. InOrderSoFar'
    BY <1>1, <1>4, <2>3 DEF Layers, InOrderSoFar
  <2> QED
    BY <2>1, <2>2, <2>4 DEF Layers
<1>5. ASSUME NEW e, e # "skippable", edits' = edits \cup {e},
             Len(stream') \in Nat, Len(stream') <= Len(stream),
             \A x \in 1 .. Len(stream') : SameData(stream[x], stream'[x])
      PROVE  Layers'
  <2>1. OrderedIn(stream')
    BY <1>2, <1>3, <1>5, OrderedSame
  <2>2. ~Mild'
    BY <1>5 DEF Mild
  <2> QED
    BY <1>4, <2>1, <2>2
<1>6. CASE InsertForeign
  <2>1. PICK kind \in DOMAIN Foreign, i \in 1 .. Len(stream) :
          /\ stream' = SubSeq(stream, 1, i) \o <<Foreign[kind]>>
                         \o SubSeq(stream, i + 1, Len(stream))
          /\ edits' = edits \cup {kind}
    BY <1>6 DEF InsertForeign
  <2>2. /\ Foreign[kind] \in Chunks /\ ~Full(Foreign[kind])
        /\ kind = "skippable" => Fine(Foreign[kind])
    <3>1. Foreign[kind].n = 0
      <4>1. DOMAIN Foreign =
              {"skippable", "reserved", "short", "emptyStored", "emptyCompressed"}
        BY DEF Foreign
      <4>2. /\ Foreign["skippable"].n = 0 /\ Foreign["reserved"].n = 0
            /\ Foreign["short"].n = 0 /\ Foreign["emptyStored"].n = 0
            /\ Foreign["emptyCompressed"].n = 0
        BY DEF Foreign, Chunk
      <4> QED
        BY <4>1, <4>2
    <3>2. ~Full(Foreign[kind])
      BY <3>1 DEF Full
    <3>3. /\ Foreign["skippable"].id = 128 /\ Foreign["skippable"].good
          /\ ~Foreign["skippable"].cut
      BY Zenon DEF Foreign, Chunk
    <3>4. Fine(Foreign["skippable"])
      BY <3>3 DEF Fine, IsData, Compressed, Uncompressed
    <3> QED
      BY <3>2, <3>4, ForeignFacts
  <2>3. /\ stream' \in Seq(Chunks) /\ Len(stream') = Len(stream) + 1
        /\ \A j \in 1 .. i : stream'[j] = stream[j]
        /\ stream'[i + 1] = Foreign[kind]
        /\ \A j \in i + 1 .. Len(stream) : stream'[j + 1] = stream[j]
    <3>1. PICK s \in Seq(Chunks) : s = stream
      BY <1>2
    <3>2. PICK c \in Chunks : c = Foreign[kind]
      BY <2>2
    <3>3. PICK r : r = stream'
      OBVIOUS
    <3>4. /\ i \in 1 .. Len(s)
          /\ r = SubSeq(s, 1, i) \o <<c>> \o SubSeq(s, i + 1, Len(s))
      BY <2>1, <3>1, <3>2, <3>3, Zenon
    <3>5. /\ r \in Seq(Chunks) /\ Len(r) = Len(s) + 1
          /\ \A j \in 1 .. i : r[j] = s[j]
          /\ r[i + 1] = c
          /\ \A j \in i + 1 .. Len(s) : r[j + 1] = s[j]
      BY <3>4, InsertedChunk
    <3> QED
      BY <3>1, <3>2, <3>3, <3>5, Zenon
  <2>4. OrderedIn(stream')
    BY <1>2, <1>3, <2>2, <2>3, OrderedInserted
  <2>5. ASSUME Mild'
        PROVE  /\ cur > 0 => Leads(stream', Len(stream'), cur, taken)
               /\ \A j \in 1 .. Len(stream') : Fine(stream'[j])
               /\ cur > 0 => stream' # <<>> /\ stream'[1].id = StreamId
    <3>1. Mild /\ kind = "skippable"
      BY <2>1, <2>5 DEF Mild
    <3>2. ASSUME cur > 0 PROVE Leads(stream', Len(stream'), cur, taken)
      <4>1. Leads(stream, Len(stream), cur, taken)
        BY <1>1, <3>1, <3>2 DEF Layers, InOrderSoFar
      <4>2. Leads(stream', Len(stream) + 1, cur, taken)
        <5>1. i \in 0 .. Len(stream)
          OBVIOUS
        <5> QED
          BY <1>2, <2>2, <2>3, <4>1, <5>1, LeadsInserted
      <4> QED
        BY <2>3, <4>2
    <3>3. ASSUME NEW j \in 1 .. Len(stream') PROVE Fine(stream'[j])
      <4>1. \A k \in 1 .. Len(stream) : Fine(stream[k])
        BY <3>1 DEF Layers, Readable
      <4>2. CASE j <= i
        BY <1>2, <2>3, <4>1, <4>2
      <4>3. CASE j = i + 1
        BY <2>2, <2>3, <3>1, <4>3
      <4>4. CASE j > i + 1
        <5>1. j - 1 \in i + 1 .. Len(stream) /\ j - 1 \in 1 .. Len(stream)
              /\ (j - 1) + 1 = j
          BY <1>2, <2>3, <4>4
        <5> QED
          BY <2>3, <4>1, <5>1
      <4> QED
        BY <1>2, <2>3, <4>2, <4>3, <4>4
    <3>4. ASSUME cur > 0 PROVE stream' # <<>> /\ stream'[1].id = StreamId
      <4>1. stream[1].id = StreamId /\ 1 \in 1 .. i
        BY <1>1, <1>2, <3>1, <3>4 DEF Layers, Readable
      <4>2. Len(stream') # 0
        BY <1>2, <2>3
      <4> QED
        BY <2>3, <4>1, <4>2, EmptySeq
    <3> QED
      BY <3>2, <3>3, <3>4
  <2> QED
    BY <1>4, <2>4, <2>5
<1>7. CASE CutAtChunk
  <2>1. /\ stream' = SubSeq(stream, 1, Len(stream) - 1)
        /\ edits' = edits \cup {"cut"}
    BY <1>7 DEF CutAtChunk
  <2>2. /\ Len(stream') <= Len(stream) /\ Len(stream') \in Nat
        /\ \A j \in 1 .. Len(stream') : stream'[j] = stream[j]
    <3>1. \A j \in 1 .. Len(stream) - 1 : stream[j] \in Chunks
      BY <1>2
    <3>2. Len(stream) > 0
      BY <1>2, <1>7, EmptySeq DEF CutAtChunk
    <3> QED
      BY <1>2, <2>1, <3>1, <3>2, SubSeqProperties
  <2>3. \A j \in 1 .. Len(stream') : SameData(stream[j], stream'[j])
    BY <2>2 DEF SameData
  <2> QED
    BY <1>5, <2>1, <2>2, <2>3
<1>8. ASSUME NEW i \in 1 .. Len(stream), NEW c \in Chunks,
             stream' = [stream EXCEPT ![i] = c], SameData(stream[i], c),
             NEW e, e # "skippable", edits' = edits \cup {e}
      PROVE  Layers'
  <2>1. /\ Len(stream') \in Nat /\ Len(stream') <= Len(stream)
        /\ \A j \in 1 .. Len(stream') : SameData(stream[j], stream'[j])
    BY <1>2, <1>8, ChangedChunk
  <2> QED
    BY <1>5, <1>8, <2>1
<1>9. CASE CutInChunk
  <2>1. Len(stream) \in 1 .. Len(stream)
    <3>1. Len(stream) # 0
      BY <1>2, <1>9, EmptySeq DEF CutInChunk
    <3> QED
      BY <1>2, <3>1
  <2> DEFINE c == [stream[Len(stream)] EXCEPT !.cut = TRUE]
  <2>2. c \in Chunks /\ SameData(stream[Len(stream)], c)
    <3>1. \A x \in Chunks :
            /\ [x EXCEPT !.cut = TRUE] \in Chunks
            /\ SameData(x, [x EXCEPT !.cut = TRUE])
      BY Zenon DEF Chunks, SameData
    <3> QED
      BY <1>2, <2>1, <3>1
  <2>3. /\ stream' = [stream EXCEPT ![Len(stream)] = c]
        /\ edits' = edits \cup {"cut in chunk"}
    BY <1>9 DEF CutInChunk
  <2> HIDE DEF c
  <2> QED
    BY <1>8, <2>1, <2>2, <2>3
<1>10. CASE Corrupt
  <2>1. PICK i \in 1 .. Len(stream) :
          /\ stream' = [stream EXCEPT ![i].good = FALSE]
          /\ edits' = edits \cup {"corrupt"}
    BY <1>10 DEF Corrupt
  <2> DEFINE c == [stream[i] EXCEPT !.good = FALSE]
  <2>2. c \in Chunks /\ SameData(stream[i], c)
    <3>1. \A x \in Chunks :
            /\ [x EXCEPT !.good = FALSE] \in Chunks
            /\ SameData(x, [x EXCEPT !.good = FALSE])
      BY Zenon DEF Chunks, SameData
    <3> QED
      BY <1>2, <3>1
  <2>3. stream' = [stream EXCEPT ![i] = c]
    BY <2>1
  <2> HIDE DEF c
  <2> QED
    BY <1>8, <2>1, <2>2, <2>3
<1> QED
  BY <1>6, <1>7, <1>9, <1>10 DEF Wire

-----------------------------------------------------------------------------
(* Decompression.                                                          *)

(* uncompress changes nothing but where it is and what it has written.     *)
LEMMA DecodeSame ==
  ASSUME IInv, Layers, phase \in {"wire", "decode"},
         phase' \in {"decode", "done", "failed", "stopped"},
         UNCHANGED <<size, cur, taken, oerr, stream, edits>>,
         Mild => phase' # "failed", WrittenSoFar'
  PROVE  Layers'
<1>1. ~oerr /\ phase \notin {"encode", "stopped"}
  BY DEF Layers, InOrderSoFar
<1>2. /\ OrderedIn(stream)' <=> OrderedIn(stream)
      /\ Leads(stream, Len(stream), cur, taken)'
           <=> Leads(stream, Len(stream), cur, taken)
      /\ Mild' <=> Mild
  BY DEF OrderedIn, Leads, GoesOn, StartsText, Mild
<1>3. InOrderSoFar'
  BY <1>1, <1>2 DEF Layers, InOrderSoFar
<1>4. Readable'
  BY DEF Layers, Readable, Mild, Fine
<1> QED
  BY <1>3, <1>4 DEF Layers

(* A full chunk goes on in the texts where the last one written has ended. *)
LEMMA WriteInOrder ==
  ASSUME IInv, Layers, ~oerr, at \in 1 .. Len(stream), Full(stream[at]),
         UNCHANGED <<size, stream>>, got' = Append(got, at), at' = at + 1
  PROVE  WrittenSoFar'
<1> DEFINE c == stream[at]
<1>1. /\ got \in Seq(Nat) /\ Len(got) \in Nat /\ DOMAIN got = 1 .. Len(got)
      /\ at \in Nat
  BY TypeFacts
<1>2. /\ got' \in Seq(Nat) /\ Len(got') = Len(got) + 1
      /\ DOMAIN got' = 1 .. Len(got) + 1 /\ got'[Len(got) + 1] = at
      /\ \A x \in 1 .. Len(got) : got'[x] = got[x]
  BY <1>1, AppendProperties, LenProperties
<1>3. /\ \A x \in 1 .. Len(got) : Full(Block(x))
      /\ NoneFull(stream, (IF got = <<>> THEN 0 ELSE got[Len(got)]) + 1, at - 1)
      /\ TextInOrder
  BY <1>1 DEF Layers, WrittenSoFar
<1>4. /\ \A x \in 1 .. Len(got) : Block(x)' = Block(x)
      /\ \A x : x = Len(got) + 1 => Block(x)' = c
  BY <1>2 DEF Block
<1>5. Leads(stream, at - 1, c.text, c.first)
  BY DEF Layers, InOrderSoFar, OrderedIn
<1>6. got = <<>> => c.first = 0 /\ StartsText(c.text)
  <2> SUFFICES ASSUME got = <<>> PROVE c.first = 0 /\ StartsText(c.text)
    OBVIOUS
  <2>1. NoneFull(stream, 1, at - 1)
    BY <1>3
  <2> QED
    BY <1>5, <2>1 DEF Leads, NoneFull
<1>7. got # <<>> => Follows(Block(Len(got)), c)
  <2> SUFFICES ASSUME got # <<>> PROVE Follows(Block(Len(got)), c)
    OBVIOUS
  <2> DEFINE last == got[Len(got)]
  <2>1. Len(got) \in 1 .. Len(got)
    BY <1>1, EmptySeq
  <2>2. last \in 1 .. at - 1 /\ Full(stream[last])
    BY <1>1, <1>3, <2>1 DEF IInv, Reading, Block
  <2>3. NoneFull(stream, last + 1, at - 1)
    BY <1>3
  <2> HIDE DEF last
  <2>4. PICK i \in 1 .. at - 1 :
          Full(stream[i]) /\ NoneFull(stream, i + 1, at - 1)
          /\ GoesOn(stream[i], c.text, c.first)
    BY <1>5, <2>2 DEF Leads, NoneFull
  <2>5. i = last
    <3>1. ~(last \in i + 1 .. at - 1) /\ ~(i \in last + 1 .. at - 1)
      BY <2>2, <2>3, <2>4 DEF NoneFull
    <3> QED
      BY <1>1, <2>2, <3>1
  <2>6. Block(Len(got)) = stream[i]
    BY <2>5 DEF Block, last
  <2> QED
    BY <2>4, <2>6 DEF GoesOn, Follows
<1>8. \A x \in DOMAIN got' : Full(Block(x)')
  <2>1. \A x \in 1 .. Len(got) + 1 : x \in 1 .. Len(got) \/ x = Len(got) + 1
    BY <1>1
  <2> QED
    BY <1>2, <1>3, <1>4, <2>1
<1>9. NoneFull(stream, at + 1, (at + 1) - 1)
  <2>1. at + 1 .. (at + 1) - 1 = {}
    BY <1>1
  <2> QED
    BY <2>1 DEF NoneFull
<1>10. Block(1)'.first = 0 /\ StartsText(Block(1)'.text)
  <2>1. CASE got = <<>>
    <3>1. Len(got) = 0
      BY <2>1, EmptySeq
    <3>2. Block(1)' = c
      <4>1. 1 = Len(got) + 1
        BY <3>1
      <4> QED
        BY <1>4, <4>1
    <3> QED
      BY <1>6, <2>1, <3>2
  <2>2. CASE got # <<>>
    <3>1. 1 \in 1 .. Len(got)
      BY <1>1, <2>2, EmptySeq
    <3>2. Block(1)' = Block(1)
      BY <1>4, <3>1
    <3> QED
      BY <1>3, <2>2, <3>2 DEF TextInOrder
  <2> QED
    BY <2>1, <2>2
<1>11. ASSUME NEW x \in 1 .. Len(got)
       PROVE  Follows(Block(x)', Block(x + 1)')
  <2>1. Block(x)' = Block(x)
    BY <1>4
  <2>2. CASE x = Len(got)
    <3>1. got # <<>>
      BY <1>1, EmptySeq
    <3> QED
      BY <1>4, <1>7, <2>1, <2>2, <3>1
  <2>3. CASE x < Len(got)
    <3>1. x \in 1 .. Len(got) - 1 /\ x + 1 \in 1 .. Len(got)
      BY <1>1, <2>3
    <3>2. Block(x + 1)' = Block(x + 1) /\ Follows(Block(x), Block(x + 1))
      BY <1>3, <1>4, <3>1 DEF TextInOrder
    <3> QED
      BY <2>1, <3>2
  <2>4. x = Len(got) \/ x < Len(got)
    <3>1. Len(got) \in Nat
      BY <1>1
    <3> QED
      BY <3>1
  <2> QED
    BY <2>2, <2>3, <2>4
<1>12. TextInOrder'
  <2>1. Len(got') - 1 = Len(got)
    BY <1>1, <1>2
  <2> QED
    BY <1>10, <1>11, <2>1 DEF TextInOrder, StartsText, Follows
<1>13. NoneFull(stream, (IF got = <<>> THEN 0 ELSE got[Len(got)]) + 1, at - 1)'
  <2>1. Len(got') # 0 /\ got'[Len(got')] = at
    BY <1>1, <1>2
  <2>2. got' # <<>>
    BY <2>1, EmptySeq
  <2> QED
    BY <1>9, <2>1, <2>2 DEF NoneFull, Full, IsData
<1>14. (\A x \in DOMAIN got : Full(Block(x)))'
  BY <1>8 DEF Full, IsData
<1> QED
  BY <1>12, <1>13, <1>14 DEF WrittenSoFar

(* Reading over a chunk that holds nothing.                                *)
LEMMA PassEmpty ==
  ASSUME IInv, WrittenSoFar, at \in 1 .. Len(stream), ~Full(stream[at]),
         UNCHANGED <<size, stream, got>>, at' = at + 1
  PROVE  WrittenSoFar'
<1>1. at \in Nat
  BY TypeFacts
<1> DEFINE m == (IF got = <<>> THEN 0 ELSE got[Len(got)]) + 1
<1>2. NoneFull(stream, m, at - 1) /\ m \in Int
  <2>1. got # <<>> => got[Len(got)] \in Nat
    <3>1. got # <<>> => Len(got) \in DOMAIN got
      BY TypeFacts, EmptySeq
    <3> QED
      BY <3>1, TypeFacts, ElementOfSeq
  <2> QED
    BY <2>1 DEF WrittenSoFar
<1> HIDE DEF m
<1>3. NoneFull(stream, m, (at + 1) - 1)
  <2>1. \A x \in m .. (at + 1) - 1 : x = at \/ x \in m .. at - 1
    BY <1>1, <1>2
  <2> QED
    BY <1>2, <2>1 DEF NoneFull
<1>4. NoneFull(stream, (IF got = <<>> THEN 0 ELSE got[Len(got)]) + 1, at - 1)'
  BY <1>3 DEF m, NoneFull, Full, IsData
<1>5. (\A x \in DOMAIN got : Full(Block(x)))' /\ TextInOrder'
  BY DEF WrittenSoFar, Full, IsData, Block, TextInOrder, StartsText, Follows
<1> QED
  BY <1>4, <1>5 DEF WrittenSoFar

(* Nothing changes without a chunk.                                        *)
LEMMA StayInOrder ==
  ASSUME WrittenSoFar, UNCHANGED <<size, stream, got, at>>
  PROVE  WrittenSoFar'
BY DEF WrittenSoFar, NoneFull, Full, IsData, Block, TextInOrder, StartsText,
   Follows

(* Every step of uncompress.                                               *)
LEMMA DecodeLayers ==
  ASSUME IInv, Layers, Decode
  PROVE  Layers'
<1>1. /\ Len(stream) \in Nat /\ at \in 1 .. Len(stream) + 1 /\ WrittenSoFar
      /\ \A i \in 1 .. Len(stream) :
           stream[i].len = stream[i].size /\ stream[i].n \in Nat
      /\ UNCHANGED <<size, cur, taken, oerr, stream, edits>>
  BY TypeFacts DEF Layers, Decode, StartDecode, WriteData, SkipChunk,
     RejectChunk, EndOfStream, DecodeFails, encoder
<1>2. ASSUME Mild, NEW i \in 1 .. Len(stream)
      PROVE  /\ Sound(stream[i])
             /\ IsData(stream[i]) => stream[i].len >= ChecksumLen
             /\ ~IsData(stream[i]) => stream[i].id >= 128
  BY <1>1, <1>2 DEF Layers, Readable, Fine, Sound
<1>3. CASE StartDecode
  <2>1. phase = "wire" /\ UNCHANGED got
    BY <1>3 DEF StartDecode
  <2>2. got = <<>> /\ at = 1 /\ ~oerr /\ cur = Streams
    BY <2>1 DEF IInv, Reading, Layers, InOrderSoFar
  <2>3. CASE /\ stream # <<>> /\ stream[1].id = StreamId /\ Sound(stream[1])
             /\ phase' = "decode" /\ at' = 2
    <3>1. 1 \in 1 .. Len(stream) /\ ~Full(stream[1])
      <4>1. Len(stream) # 0
        BY <1>1, <2>3, TypeFacts, EmptySeq
      <4>2. ~IsData(stream[1])
        BY <2>3 DEF IsData, StreamId, Compressed, Uncompressed
      <4> QED
        BY <1>1, <4>1, <4>2 DEF Full
    <3>2. WrittenSoFar'
      BY <1>1, <2>1, <2>2, <2>3, <3>1, PassEmpty
    <3> QED
      BY <1>1, <2>1, <2>3, <3>2, DecodeSame
  <2>4. CASE /\ ~(stream # <<>> /\ stream[1].id = StreamId /\ Sound(stream[1]))
             /\ phase' = "failed" /\ UNCHANGED at
    <3>1. ~Mild
      <4> SUFFICES ASSUME Mild PROVE FALSE
        OBVIOUS
      <4>1. cur > 0
        BY <2>2, Constants, FramingAssumption
      <4>2. stream # <<>> /\ stream[1].id = StreamId
        BY <2>2, <4>1 DEF Layers, Readable
      <4>3. 1 \in 1 .. Len(stream)
        BY <1>1, <4>2, TypeFacts, EmptySeq
      <4> QED
        BY <1>2, <2>4, <4>2, <4>3
    <3>2. WrittenSoFar'
      BY <1>1, <2>1, <2>4, StayInOrder
    <3> QED
      BY <1>1, <2>1, <2>4, <3>1, <3>2, DecodeSame
  <2> QED
    BY <1>3, <2>3, <2>4 DEF StartDecode
<1>4. ASSUME phase = "decode", phase' \in {"done", "failed", "stopped"},
             UNCHANGED decoder, Mild => phase' # "failed"
      PROVE  Layers'
  <2>1. WrittenSoFar'
    BY <1>1, <1>4, StayInOrder DEF decoder
  <2> QED
    BY <1>1, <1>4, <2>1, DecodeSame
<1>5. CASE WriteData
  <2>1. /\ phase = "decode" /\ at \in 1 .. Len(stream) /\ IsData(stream[at])
        /\ ~oerr
    BY <1>1, <1>5 DEF WriteData, More, Current, Layers, InOrderSoFar
  <2>2. CASE stream[at].n = 0
    <3>1. phase' = "done" /\ UNCHANGED decoder
      BY <1>5, <2>2 DEF WriteData, Current
    <3> QED
      BY <1>4, <2>1, <3>1
  <2>3. CASE stream[at].n # 0
    <3>1. got' = Append(got, at) /\ at' = at + 1 /\ phase' = "decode"
      BY <1>5, <2>1, <2>3 DEF WriteData, Current
    <3>2. Full(stream[at])
      BY <1>1, <2>1, <2>3 DEF Full
    <3>3. WrittenSoFar'
      BY <1>1, <2>1, <3>1, <3>2, WriteInOrder
    <3> QED
      BY <1>1, <2>1, <3>1, <3>3, DecodeSame
  <2> QED
    BY <2>2, <2>3
<1>6. CASE SkipChunk
  <2>1. /\ phase = "decode" /\ phase' = "decode" /\ at \in 1 .. Len(stream)
        /\ at' = at + 1 /\ UNCHANGED got /\ stream[at].id >= 128
    BY <1>1, <1>6 DEF SkipChunk, More, Current
  <2>2. ~Full(stream[at])
    BY <2>1 DEF Full, IsData, Compressed, Uncompressed
  <2>3. WrittenSoFar'
    BY <1>1, <2>1, <2>2, PassEmpty
  <2> QED
    BY <1>1, <2>1, <2>3, DecodeSame
<1>7. CASE RejectChunk
  <2>1. /\ phase = "decode" /\ phase' = "failed" /\ at \in 1 .. Len(stream)
        /\ UNCHANGED decoder
        /\ IF IsData(stream[at])
           THEN stream[at].len < ChecksumLen \/ ~Sound(stream[at])
           ELSE stream[at].id < 128 \/ stream[at].cut
        /\ stream[at].len \in Int /\ stream[at].id \in Int
    <3>1. stream[at] \in Chunks => stream[at].len \in Int /\ stream[at].id \in Int
      BY DEF Chunks
    <3>2. at \in 1 .. Len(stream)
      BY <1>1, <1>7 DEF RejectChunk, More
    <3> QED
      BY <1>7, <3>1, <3>2, TypeFacts DEF RejectChunk, More, Current
  <2>2. ~Mild
    BY <1>2, <2>1 DEF Sound, ChecksumLen
  <2> QED
    BY <1>4, <2>1, <2>2
<1>8. CASE EndOfStream
  BY <1>4, <1>8 DEF EndOfStream
<1>9. CASE DecodeFails
  BY <1>4, <1>9 DEF DecodeFails
<1> QED
  BY <1>3, <1>5, <1>6, <1>7, <1>8, <1>9 DEF Decode

-----------------------------------------------------------------------------
(* The theorems.                                                           *)

(* The layers are kept by every step, given the invariant.                 *)
LEMMA LayersStep == IInv /\ Layers /\ [Next]_vars => Layers'
<1> SUFFICES ASSUME IInv, Layers, [Next]_vars PROVE Layers'
  OBVIOUS
<1>1. CASE UNCHANGED vars
  <2>1. UNCHANGED <<size, cur, taken, oerr, stream, edits, phase, at, got>>
    BY <1>1 DEF vars, encoder, decoder
  <2>2. WrittenSoFar'
    BY <2>1, StayInOrder DEF Layers
  <2>3. InOrderSoFar'
    BY <2>1 DEF Layers, InOrderSoFar, OrderedIn, Leads, NoneFull, Full, IsData,
       GoesOn, StartsText, Mild
  <2>4. Readable'
    BY <2>1 DEF Layers, Readable, Mild, Fine
  <2> QED
    BY <2>2, <2>3, <2>4 DEF Layers
<1> QED
  BY <1>1, EncodeLayers, WireLayers, DecodeLayers DEF Next, Idle

LEMMA LayersHold == Spec => []Layers
BY InitLayers, LayersStep, Invariant, PTL DEF Spec

(* What uncompress writes is the texts from their beginning, each byte     *)
(* once and in order, whatever happens to the stream on its way: chunks    *)
(* inserted, data damaged, the end cut off (framing2-format.c:120-252).    *)
THEOREM WritesInOrder == Spec => []TextInOrder
<1>1. Layers => TextInOrder
  BY DEF Layers, WrittenSoFar
<1> QED
  BY <1>1, LayersHold, PTL

(* A stream that has met nothing but skippable chunks is not refused, and  *)
(* all of every text has come out when uncompress succeeds, whichever call *)
(* has failed (framing2-format.c:54-117 and 120-252, test/test.sh:41-46).  *)
THEOREM EverythingComesBack == Spec => []RoundTrip
<1>1. IInv /\ Layers => RoundTrip
  <2> SUFFICES ASSUME IInv, Layers, Mild
               PROVE  phase # "failed" /\ (phase = "done" => Complete)
    BY DEF RoundTrip, Mild
  <2>1. phase # "failed"
    BY DEF Layers, Readable
  <2> SUFFICES ASSUME phase = "done" PROVE Complete
    BY <2>1
  <2>2. /\ ~oerr /\ cur = Streams /\ Streams \in Nat /\ Streams > 0
        /\ taken = size[Streams] /\ Len(stream) \in Nat
        /\ at = Len(stream) + 1
    <3>1. ~oerr /\ cur = Streams /\ (cur > 0 => taken = size[cur])
      BY DEF Layers, InOrderSoFar
    <3>2. edits \cap Empties = {}
      BY DEF Mild, Empties
    <3>3. at = Len(stream) + 1
      BY <3>2 DEF IInv, ReachesEnd
    <3> QED
      BY <3>1, <3>3, FramingAssumption, TypeFacts
  <2>3. Leads(stream, Len(stream), Streams, size[Streams])
    BY <2>2 DEF Layers, InOrderSoFar
  <2>4. NoneFull(stream, (IF got = <<>> THEN 0 ELSE got[Len(got)]) + 1, Len(stream))
    <3>1. (Len(stream) + 1) - 1 = Len(stream)
      BY <2>2
    <3> QED
      BY <2>2, <3>1 DEF Layers, WrittenSoFar
  <2>5. CASE got = <<>>
    <3>1. size[Streams] = 0 /\ StartsText(Streams)
      BY <2>3, <2>4, <2>5 DEF Leads, NoneFull
    <3>2. \A t \in 1 .. Streams : t = Streams \/ t \in 1 .. Streams - 1
      BY <2>2
    <3> QED
      BY <2>5, <3>1, <3>2 DEF Complete, StartsText
  <2>6. CASE got # <<>>
    <3> DEFINE last == got[Len(got)]
    <3>1. Len(got) \in DOMAIN got /\ Len(got) \in Nat
      BY <2>6, TypeFacts, EmptySeq
    <3>2. last \in 1 .. Len(stream) /\ Full(stream[last])
      <4>1. (Len(stream) + 1) - 1 = Len(stream)
        BY <2>2
      <4> QED
        BY <2>2, <3>1, <4>1 DEF IInv, Reading, Layers, WrittenSoFar, Block
    <3>3. NoneFull(stream, last + 1, Len(stream))
      BY <2>4, <2>6
    <3> HIDE DEF last
    <3>4. PICK i \in 1 .. Len(stream) :
            Full(stream[i]) /\ NoneFull(stream, i + 1, Len(stream))
            /\ GoesOn(stream[i], Streams, size[Streams])
      BY <2>3, <3>2 DEF Leads, NoneFull
    <3>5. i = last
      <4>1. /\ ~(last \in i + 1 .. Len(stream))
            /\ ~(i \in last + 1 .. Len(stream))
        BY <3>2, <3>3, <3>4 DEF NoneFull
      <4> QED
        BY <2>2, <3>2, <4>1
    <3>6. Block(Len(got)) = stream[i]
      BY <3>5 DEF Block, last
    <3>7. stream[i].text \in Nat
      BY TypeFacts
    <3>8. /\ stream[i].first + stream[i].n = size[stream[i].text]
          /\ \A t \in stream[i].text + 1 .. Streams : size[t] = 0
      <4>1. CASE Streams = stream[i].text
                 /\ size[Streams] = stream[i].first + stream[i].n
        <5>1. stream[i].text + 1 .. Streams = {}
          BY <2>2, <3>7, <4>1
        <5> QED
          BY <4>1, <5>1
      <4>2. CASE /\ Streams > stream[i].text /\ size[Streams] = 0
                 /\ stream[i].first + stream[i].n = size[stream[i].text]
                 /\ \A u \in stream[i].text + 1 .. Streams - 1 : size[u] = 0
        <5>1. \A t \in stream[i].text + 1 .. Streams :
                t = Streams \/ t \in stream[i].text + 1 .. Streams - 1
          BY <2>2, <3>7
        <5> QED
          BY <4>2, <5>1
      <4> QED
        BY <3>4, <4>1, <4>2 DEF GoesOn
    <3> QED
      BY <2>6, <3>6, <3>8 DEF Complete
  <2> QED
    BY <2>5, <2>6
<1> QED
  BY <1>1, LayersHold, Invariant, PTL

-----------------------------------------------------------------------------
(* The way to the end.                                                     *)

(* How many more stages there are, how many texts are left to compress,    *)
(* and how much is left to do then: text to be read, kinds of edits there  *)
(* are, chunks to be read. A step is closer to the end when it makes the   *)
(* first of these numbers that it changes smaller.                         *)
Stage ==
  IF phase = "encode" THEN 3 ELSE IF phase = "wire" THEN 2
  ELSE IF phase = "decode" THEN 1 ELSE 0
TextsLeft == IF phase = "encode" THEN Streams - cur ELSE 0
Edits ==
  {"skippable", "reserved", "short", "emptyStored", "emptyCompressed"}
    \cup {"cut", "cut in chunk", "corrupt"}
ToDo ==
  IF phase = "encode" THEN Left
  ELSE IF phase = "wire" THEN Cardinality(Edits \ edits)
  ELSE Len(stream) + 1 - at
Closer ==
  /\ Stage \in Nat /\ TextsLeft \in Nat /\ ToDo \in Nat
  /\ Stage' \in Nat /\ TextsLeft' \in Nat /\ ToDo' \in Nat
  /\ \/ Stage' < Stage
     \/ Stage' = Stage /\ TextsLeft' < TextsLeft
     \/ Stage' = Stage /\ TextsLeft' = TextsLeft /\ ToDo' < ToDo

(* Each edit that is new leaves fewer that are not.                        *)
LEMMA FewerEdits ==
  ASSUME NEW S, NEW T, S \subseteq T
  PROVE  /\ Cardinality(Edits \ S) \in Nat /\ Cardinality(Edits \ T) \in Nat
         /\ Edits \cap (T \ S) # {} =>
              Cardinality(Edits \ T) < Cardinality(Edits \ S)
<1>1. IsFiniteSet(Edits)
  <2> DEFINE two == {"skippable", "reserved"}
             four == two \cup {"short"} \cup {"emptyStored"}
             six == four \cup {"emptyCompressed"} \cup {"cut"}
             eight == six \cup {"cut in chunk"} \cup {"corrupt"}
  <2>1. IsFiniteSet({"skippable"} \cup {"reserved"})
    BY FS_AddElement, FS_Singleton
  <2>2. {"skippable"} \cup {"reserved"} = two
    OBVIOUS
  <2>3. IsFiniteSet(two)
    BY <2>1, <2>2
  <2>4. Edits = eight
    BY DEF Edits
  <2> HIDE DEF two
  <2>5. IsFiniteSet(four)
    BY <2>3, FS_AddElement
  <2> HIDE DEF four
  <2>6. IsFiniteSet(six)
    BY <2>5, FS_AddElement
  <2> HIDE DEF six
  <2>7. IsFiniteSet(eight)
    BY <2>6, FS_AddElement
  <2> QED
    BY <2>4, <2>7
<1> PICK A, B : A = Edits \ S /\ B = Edits \ T
  OBVIOUS
<1>2. A \in SUBSET Edits /\ B \in SUBSET A
  OBVIOUS
<1>3. IsFiniteSet(A)
  BY <1>1, <1>2, FS_Subset
<1>4. /\ IsFiniteSet(B) /\ Cardinality(B) <= Cardinality(A)
      /\ Cardinality(A) = Cardinality(B) => A = B
  BY <1>2, <1>3, FS_Subset
<1>5. Cardinality(A) \in Nat /\ Cardinality(B) \in Nat
  BY <1>3, <1>4, FS_CardinalityType
<1>6. Edits \cap (T \ S) # {} => A # B
  OBVIOUS
<1> QED
  BY <1>4, <1>5, <1>6

(* To have taken more leaves less.                                         *)
LEMMA LessLeft == \A s, t, u \in Int : u > t => s - u < s - t
OBVIOUS

(* The measure is made of natural numbers, before and after a step.        *)
LEMMA MeasureTypes ==
  TypeOK => /\ Streams \in Nat /\ cur \in Nat /\ cur <= Streams
            /\ Left \in Nat /\ taken \in Nat /\ (cur > 0 => size[cur] \in Nat)
            /\ at \in Nat /\ Len(stream) \in Nat /\ at <= Len(stream) + 1
            /\ Stage \in Nat /\ TextsLeft \in Nat /\ ToDo \in Nat
<1> SUFFICES ASSUME TypeOK
             PROVE  /\ Streams \in Nat /\ cur \in Nat /\ cur <= Streams
                    /\ Left \in Nat /\ taken \in Nat /\ (cur > 0 => size[cur] \in Nat)
                    /\ at \in Nat /\ Len(stream) \in Nat /\ at <= Len(stream) + 1
                    /\ Stage \in Nat /\ TextsLeft \in Nat /\ ToDo \in Nat
  OBVIOUS
<1>0. /\ size \in [1 .. Streams -> Nat] /\ taken \in Nat
      /\ cur > 0 => taken <= size[cur]
  BY Zenon DEF TypeOK
<1>1. Streams \in Nat /\ cur \in Nat /\ cur <= Streams
  <2>1. cur \in 0 .. Streams
    BY DEF TypeOK
  <2> QED
    BY <2>1, Constants
<1>2. Left \in Nat /\ (cur > 0 => size[cur] \in Nat)
  <2>1. CASE cur = 0
    BY <2>1 DEF Left
  <2>2. CASE cur > 0
    <3>1. size[cur] \in Nat /\ taken \in Nat /\ taken <= size[cur]
      BY <1>0, <1>1, <2>2
    <3> QED
      BY <2>2, <3>1 DEF Left
  <2> QED
    BY <1>1, <2>1, <2>2
<1>3. at \in Nat /\ Len(stream) \in Nat /\ at <= Len(stream) + 1
  <2>1. stream \in Seq(Chunks) /\ at \in 1 .. Len(stream) + 1
    BY DEF TypeOK
  <2> QED
    BY <2>1
<1>4. Stage \in Nat /\ TextsLeft \in Nat
  BY <1>1 DEF Stage, TextsLeft
<1>5. Cardinality(Edits \ edits) \in Nat
  BY FewerEdits
<1>6. ToDo \in Nat
  BY <1>2, <1>3, <1>5 DEF ToDo
<1> QED
  BY <1>0, <1>1, <1>2, <1>3, <1>4, <1>6

LEMMA MeasureIsNumber == TypeOK => Stage \in Nat /\ TextsLeft \in Nat /\ ToDo \in Nat
BY MeasureTypes

(* Every action of Next makes the measure smaller, or changes nothing.     *)
LEMMA StepCloser == TypeOK /\ TypeOK' /\ Next => vars' = vars \/ Closer
<1> SUFFICES ASSUME TypeOK, TypeOK', Next, vars' # vars PROVE Closer
  OBVIOUS
<1>0. /\ Streams \in Nat /\ cur \in Nat /\ cur <= Streams /\ Left \in Nat
      /\ at \in Nat /\ Len(stream) \in Nat
  BY MeasureTypes
<1>1. /\ Stage \in Nat /\ TextsLeft \in Nat /\ ToDo \in Nat
      /\ Stage' \in Nat /\ TextsLeft' \in Nat /\ ToDo' \in Nat
  <2>1. (TypeOK => Stage \in Nat /\ TextsLeft \in Nat /\ ToDo \in Nat)'
    BY MeasureIsNumber, PTL
  <2> QED
    BY <2>1, MeasureIsNumber
<1> SUFFICES \/ Stage' < Stage
             \/ Stage' = Stage /\ TextsLeft' < TextsLeft
             \/ Stage' = Stage /\ TextsLeft' = TextsLeft /\ ToDo' < ToDo
  BY <1>1 DEF Closer
<1>2. CASE BeginText
  BY <1>0, <1>2 DEF BeginText, Stage, TextsLeft
<1>3. CASE CompressBlock
  <2> PICK n : n = Minimum(Left, MaxBlock)
    OBVIOUS
  <2>1. /\ phase = "encode" /\ Left > 0 /\ taken' = taken + n
        /\ UNCHANGED <<size, cur, phase>>
    BY <1>3 DEF CompressBlock
  <2>2. n \in Int /\ n > 0
    BY <1>0, <2>1, Constants DEF Minimum
  <2>3. cur > 0 /\ size[cur] \in Int
    BY <1>0, <2>1, MeasureTypes DEF Left
  <2>4. Stage' = Stage /\ TextsLeft' = TextsLeft
    BY <2>1 DEF Stage, TextsLeft
  <2>5. ToDo = size[cur] - taken /\ ToDo' = size[cur] - taken'
    BY <2>1, <2>3, <1>0 DEF ToDo, Left
  <2>6. taken \in Int
    BY MeasureTypes
  <2>7. taken' \in Int
    BY <2>1, <2>2, <2>6
  <2>8. taken' > taken
    BY <2>1, <2>2, <2>6
  <2>9. size[cur] \in Int
    BY <2>3
  <2>10. size[cur] - taken' < size[cur] - taken
    BY <2>6, <2>7, <2>8, <2>9, LessLeft
  <2> QED
    BY <2>4, <2>5, <2>10
<1>4. CASE EncodeEnds \/ EncodeFails
  BY <1>4 DEF EncodeEnds, EncodeFails, Stage
<1>5. CASE Wire
  <2>1. /\ phase = "wire" /\ UNCHANGED phase /\ edits' # edits
        /\ \E x \in Edits : edits' = edits \cup {x}
    BY <1>5 DEF Wire, InsertForeign, CutAtChunk, CutInChunk, Corrupt, Foreign, Edits
  <2>2. edits \subseteq edits' /\ Edits \cap (edits' \ edits) # {}
    BY <2>1
  <2>3. Cardinality(Edits \ edits') < Cardinality(Edits \ edits)
    BY <2>2, FewerEdits
  <2> QED
    BY <2>1, <2>3 DEF Stage, TextsLeft, ToDo
<1>6. CASE StartDecode
  BY <1>6 DEF StartDecode, Stage
<1>7. CASE RejectChunk \/ EndOfStream \/ DecodeFails
  BY <1>7 DEF RejectChunk, EndOfStream, DecodeFails, More, Stage
<1>8. CASE WriteData \/ SkipChunk
  <2>1. \/ phase = "decode" /\ phase' = "done"
        \/ phase = "decode" /\ at' = at + 1 /\ UNCHANGED <<phase, stream>>
    BY <1>8 DEF WriteData, SkipChunk, More
  <2> QED
    BY <1>0, <2>1 DEF Stage, TextsLeft, ToDo
<1> QED
  BY <1>2, <1>3, <1>4, <1>5, <1>6, <1>7, <1>8 DEF Next, Encode, Decode, Idle

(* Every step leads closer to the end, whatever chunks the stream has:     *)
(* each turn of the loop of compress takes some of the text, and           *)
(* uncompress passes a chunk or is done (framing2-format.c:65-107,         *)
(* 178-237).                                                               *)
THEOREM EveryStepIsCloser == Spec => [][Closer]_vars
<1>1. TypeOK /\ TypeOK' /\ [Next]_vars => [Closer]_vars
  BY StepCloser
<1>2. QED
  BY <1>1, TypeCorrect, PTL DEF Spec

=============================================================================
