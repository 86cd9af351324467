-------------------------- MODULE HadoopSnappyFormat --------------------------
(***************************************************************************)
(* The hadoop-snappy format: compress and uncompress of                    *)
(* hadoop-snappy-format.c, the work buffer they use, and the detection of  *)
(* the format, which has no magic (snzip.c:178-191).                       *)
(*                                                                         *)
(* A file is a sequence of blocks, a block a word with the length of its   *)
(* text and one or more parts, a part a word with its compressed length    *)
(* and its data.  Words and data are the items of the stream.  A data item *)
(* records which bytes of the text it holds; cut says that the file ends   *)
(* within an item, good that snappy accepts the data.                      *)
(*                                                                         *)
(* A definition Mut... is a plausible bug in the one after it.             *)
(***************************************************************************)
EXTENDS Integers, Sequences, FiniteSets

CONSTANTS
  Default,     \* SNAPPY_BUFFER_SIZE_DEFAULT
  SizeValues,  \* how many values size_t has
  Memory,      \* the largest size malloc and realloc have memory for
  BlockSizes,  \* the arguments of -b; 0 without it
  TextSizes,   \* bound: the sizes of the text
  PartSizes,   \* bound: the sizes of the parts Hadoop's encoder makes
  MaxBlocks,   \* bound: how many blocks snzip makes of a text
  MaxEdits,    \* bound: how many things happen to the stream on its way
  Faults       \* which calls may fail: "read", "write"

VARIABLES
  writer,     \* who compresses: "snzip", or "hadoop", whose blocks have parts
  blockSize,  \* the argument of -b
  size,       \* the size of the text
  taken,      \* how much of it has been read
  wb,         \* the capacities of the work buffer
  stream,     \* the items written
  mishaps,    \* history: what went wrong with the stream and with calls
  phase,      \* where the process is
  at,         \* the item uncompress reads next
  source,     \* source_len
  length,     \* compressed_len
  got         \* the data items it has written

text == <<writer, blockSize, size>>
reader == <<at, source, length, got>>
vars == <<text, taken, wb, stream, mishaps, phase, reader>>

-----------------------------------------------------------------------------
(* Sizes.                                                                  *)

ASSUME SizesAssumption ==
  /\ SizeValues \in Nat /\ SizeValues > 32 /\ Default \in 1 .. SizeValues - 1
  /\ Memory \in 0 .. SizeValues - 1
  /\ BlockSizes \subseteq -SizeValues .. SizeValues - 1
  /\ TextSizes \subseteq Nat /\ PartSizes \subseteq Nat \ {0}
  /\ MaxBlocks \in Nat /\ MaxEdits \in Nat

(* Arithmetic in size_t: what is less than 0 wraps around.                 *)
Wrapped(n) == IF n < 0 THEN n + SizeValues ELSE n
Buffer(b) == IF b = 0 THEN Default ELSE Wrapped(b)

MutMaxInputInt(b) ==
  LET buffer == IF b = 0 THEN Default ELSE b IN buffer - (buffer \div 6 + 32)

(* hadoop_snappy_max_input_size(); a size below the overhead wraps around. *)
MaxInput(b) == Wrapped(Buffer(b) - (Buffer(b) \div 6 + 32))

(* snappy_max_compressed_length() of the library, and (bound) of the sizes *)
(* its encoder may return a small, a middle and the largest one.           *)
MaxCompressedLength(n) == 32 + n + n \div 6
CompressedSizes(n) == {3, n + 2, MaxCompressedLength(n)}

Source(n) == [kind |-> "source", v |-> n, first |-> 0, n |-> 0,
              cut |-> FALSE, good |-> TRUE]
Length(c) == [Source(c) EXCEPT !.kind = "length"]
Data(first, n, c) ==
  [Source(c) EXCEPT !.kind = "data", !.first = first, !.n = n]
Part(first, n, c) == <<Length(c), Data(first, n, c)>>

(* work_buffer_init() and work_buffer_resize(), which call exit(1) when    *)
(* memory runs out; a capacity of 0 stands for "leave it".                 *)
Buffers(c, uc) == [c |-> c, uc |-> uc]
Fits(b) == b.c <= Memory /\ b.uc <= Memory
Fresh(n) == Buffers(MaxCompressedLength(n), n)
MutGrown(c, uc) ==
  Buffers(wb.c, IF c > wb.c THEN c ELSE IF uc > wb.uc THEN uc ELSE wb.uc)
Grown(c, uc) ==
  Buffers(IF c > wb.c THEN c ELSE wb.c, IF uc > wb.uc THEN uc ELSE wb.uc)

-----------------------------------------------------------------------------
(* Compression.                                                            *)

Init ==
  /\ writer \in {"snzip", "hadoop"}
  /\ blockSize \in BlockSizes /\ size \in TextSizes
  /\ MaxInput(blockSize) > 0 => size <= MaxBlocks * MaxInput(blockSize)
  /\ taken = 0 /\ wb = Buffers(0, 0)
  /\ stream = <<>> /\ mishaps = {} /\ phase = "start"
  /\ at = 1 /\ source = 0 /\ length = 0 /\ got = <<>>

StartEncode ==
  /\ phase = "start"
  /\ wb' = IF writer = "snzip" THEN Fresh(MaxInput(blockSize)) ELSE wb
  /\ phase' = IF Fits(wb') THEN "encode" ELSE "died"
  /\ UNCHANGED <<text, taken, stream, mishaps, reader>>

Minimum(m, n) == IF m <= n THEN m ELSE n
Chunk == Minimum(size - taken, MaxInput(blockSize))

(* One turn of the loop of compress: fread, two words, the data.           *)
CompressBlock ==
  /\ phase = "encode" /\ writer = "snzip" /\ Chunk > 0
  /\ taken' = taken + Chunk
  /\ \E c \in CompressedSizes(Chunk) :
       stream' = stream \o <<Source(Chunk)>> \o Part(taken, Chunk, c)
  /\ UNCHANGED <<text, wb, mishaps, phase, reader>>

(* Hadoop's own encoder: a block of one or two parts.                      *)
HadoopBlock ==
  /\ phase = "encode" /\ writer = "hadoop" /\ taken < size
  /\ \E n \in PartSizes \cup {size - taken}, m \in PartSizes \cup {0} :
       /\ taken + n + m <= size
       /\ taken' = taken + n + m
       /\ \E c \in {3, MaxCompressedLength(n)} :
            stream' = stream \o <<Source(n + m)>> \o Part(taken, n, c)
                        \o IF m = 0 THEN <<>> ELSE Part(taken + n, m, m + 2)
  /\ UNCHANGED <<text, wb, mishaps, phase, reader>>

MutEndsAtShortBlock ==
  /\ phase = "encode"
  /\ IF writer = "snzip" THEN Chunk < MaxInput(blockSize) ELSE taken = size
  /\ phase' = "wire"
  /\ UNCHANGED <<text, taken, wb, stream, mishaps, reader>>

(* fread() returns 0: at the end of the text, and when it was asked for 0. *)
EncodeEnds ==
  /\ phase = "encode"
  /\ IF writer = "snzip" THEN Chunk = 0 ELSE taken = size
  /\ phase' = "wire"
  /\ UNCHANGED <<text, taken, wb, stream, mishaps, reader>>

EncodeFails ==
  /\ phase = "encode" /\ writer = "snzip"
  /\ "read" \in Faults \/ ("write" \in Faults /\ Chunk > 0)
  /\ phase' = "failed" /\ mishaps' = mishaps \cup {"call"}
  /\ UNCHANGED <<text, taken, wb, stream, reader>>

-----------------------------------------------------------------------------
(* What may happen to the stream on its way.  Damage that snappy does not  *)
(* see is not among it: the format has no checksum.                        *)

CutBeforeItem ==
  /\ \E i \in DOMAIN stream : stream' = SubSeq(stream, 1, i - 1)
  /\ mishaps' = mishaps \cup {"cut"}

CutInItem ==
  /\ \E i \in DOMAIN stream :
       stream' = [SubSeq(stream, 1, i) EXCEPT ![i].cut = TRUE]
  /\ mishaps' = mishaps \cup {"cut"}

Corrupt ==
  /\ \E i \in DOMAIN stream :
       /\ stream[i].kind = "data"
       /\ stream' = [stream EXCEPT ![i].good = FALSE]
  /\ mishaps' = mishaps \cup {"corrupt"}

(* A word does not fit what follows: the parts of the block, or the data   *)
(* of the part.                                                            *)
WrongWord ==
  /\ writer = "snzip"
  /\ \E i \in DOMAIN stream :
       \E v \in {stream[i].v - 1, stream[i].v + 1, Memory + 1} :
         /\ stream[i].kind # "data" /\ v > 0 /\ v # stream[i].v
         /\ stream' = [stream EXCEPT ![i].v = v]
  /\ mishaps' = mishaps \cup {"word"}

(* A block without data in front, as Hadoop writes for an empty file.      *)
EmptyBlock ==
  /\ writer = "hadoop"
  /\ stream' = <<Source(0)>> \o stream
  /\ mishaps' = mishaps \cup {"empty block"}

Wire ==
  /\ phase = "wire" /\ Cardinality(mishaps) < MaxEdits
  /\ CutBeforeItem \/ CutInItem \/ Corrupt \/ WrongWord \/ EmptyBlock
  /\ mishaps' # mishaps
  /\ UNCHANGED <<text, taken, wb, phase, reader>>

-----------------------------------------------------------------------------
(* Decompression.                                                          *)

Item == stream[at]
Whole(i, kind) ==
  i \in DOMAIN stream /\ stream[i].kind = kind /\ ~stream[i].cut

MutRecognizedSmaller ==
  /\ Whole(1, "source") /\ Whole(2, "length")
  /\ stream[2].v < MaxCompressedLength(MaxInput(0))

(* The format is taken for this one when its second word is no larger than *)
(* a compressed block of the default size.  What getc() returns at the end *)
(* of the file, or another word, may be so too: then the data are wrong.   *)
Recognized ==
  /\ Whole(1, "source") /\ Whole(2, "length")
  /\ stream[2].v <= MaxCompressedLength(MaxInput(0))

(* uncompress starts with the two words detection has read.                *)
StartDetected ==
  /\ phase = "wire"
  /\ wb' = Fresh(MaxInput(0))
  /\ IF Recognized
     THEN /\ phase' = "data" /\ at' = 3
          /\ source' = stream[1].v /\ length' = stream[2].v
     ELSE /\ \/ phase' = "unknown"
             \/ ~Whole(2, "length") /\ phase' = "failed"
          /\ UNCHANGED <<at, source, length>>
  /\ UNCHANGED <<text, taken, stream, mishaps, got>>

(* With -t hadoop-snappy it starts at the beginning of the file.           *)
StartByName ==
  /\ phase = "wire"
  /\ wb' = Fresh(MaxInput(0))
  /\ phase' = "block"
  /\ UNCHANGED <<text, taken, stream, mishaps, reader>>

MutEndAnywhere ==
  /\ phase \in {"block", "part"}
  /\ ~Whole(at, "source") /\ ~Whole(at, "length")
  /\ phase' = "done"
  /\ UNCHANGED <<text, taken, wb, stream, mishaps, reader>>

MutEndUnnoticed == phase = "block" /\ ~Whole(at, "source") /\ UNCHANGED vars

(* The head of the outer loop.  fread() of the word fails with feof(infp)  *)
(* at the end of the file, also when it ends within the word.              *)
EndOfStream ==
  /\ phase = "block" /\ ~Whole(at, "source")
  /\ phase' = "done"
  /\ UNCHANGED <<text, taken, wb, stream, mishaps, reader>>

ReadSource ==
  /\ phase = "block" /\ Whole(at, "source")
  /\ source' = Item.v /\ at' = at + 1
  /\ phase' = IF Item.v > 0 THEN "part" ELSE "block"
  /\ UNCHANGED <<text, taken, wb, stream, mishaps, length, got>>

ReadLength ==
  /\ phase = "part" /\ Whole(at, "length")
  /\ length' = Item.v /\ at' = at + 1
  /\ phase' = "data"
  /\ UNCHANGED <<text, taken, wb, stream, mishaps, source, got>>

(* The data of a part are read into the buffer for compressed data.        *)
ReadData ==
  /\ phase = "data"
  /\ wb' = Grown(length, 0)
  /\ phase' = IF ~Fits(wb') THEN "died"
              ELSE IF Whole(at, "data") THEN "held" ELSE "failed"
  /\ UNCHANGED <<text, taken, stream, mishaps, reader>>

(* They are uncompressed and written, unless snappy does not accept them   *)
(* or they are more than the block announced.  No part is empty here:      *)
(* fwrite() of one would return 0.                                         *)
Acceptable == Item.good /\ Item.v = length /\ Item.n <= source
MutWriteUnlimited ==
  /\ phase = "held" /\ Item.good /\ Item.v = length
  /\ wb' = Grown(0, Item.n) /\ Fits(wb')
  /\ got' = Append(got, at) /\ at' = at + 1
  /\ source' = Wrapped(source - Item.n)
  /\ phase' = IF source' > 0 THEN "part" ELSE "block"
  /\ UNCHANGED <<text, taken, stream, mishaps, length>>

MutWriteOnlyGood ==
  /\ phase = "held" /\ Item.n <= source
  /\ wb' = Grown(0, Item.n) /\ Fits(wb')
  /\ got' = IF Acceptable THEN Append(got, at) ELSE got
  /\ at' = at + 1
  /\ source' = source - Item.n
  /\ phase' = IF source' > 0 THEN "part" ELSE "block"
  /\ UNCHANGED <<text, taken, stream, mishaps, length>>

WritePart ==
  /\ phase = "held" /\ Acceptable
  /\ wb' = Grown(0, Item.n) /\ Fits(wb')
  /\ got' = Append(got, at) /\ at' = at + 1
  /\ source' = source - Item.n
  /\ phase' = IF source' > 0 THEN "part" ELSE "block"
  /\ UNCHANGED <<text, taken, stream, mishaps, length>>

(* The ways uncompress gives up.  A word that is read as one of another    *)
(* kind leads to data snappy does not accept, or to the end of the file.   *)
Reject ==
  /\ \/ phase = "part" /\ ~Whole(at, "length")
     \/ phase = "held" /\ ~Acceptable
  /\ phase' = "failed"
  /\ UNCHANGED <<text, taken, wb, stream, mishaps, reader>>

DecodeFails ==
  /\ \/ phase \in {"block", "part", "data"} /\ "read" \in Faults
     \/ phase = "held" /\ Acceptable /\ "write" \in Faults
  /\ phase' = "failed" /\ mishaps' = mishaps \cup {"call"}
  /\ UNCHANGED <<text, taken, wb, stream, reader>>

NoMemoryToWrite ==
  /\ phase = "held" /\ Acceptable /\ ~Fits(Grown(0, Item.n))
  /\ phase' = "died"
  /\ UNCHANGED <<text, taken, wb, stream, mishaps, reader>>

Encode == StartEncode \/ CompressBlock \/ HadoopBlock \/ EncodeEnds
Decode ==
  \/ StartDetected \/ StartByName \/ EndOfStream \/ ReadSource \/ ReadLength
  \/ ReadData \/ WritePart \/ Reject \/ NoMemoryToWrite
CallFails == EncodeFails \/ DecodeFails
Ended == {"done", "failed", "died", "unknown"}
Idle == phase \in Ended /\ UNCHANGED vars

Next == Encode \/ Wire \/ Decode \/ CallFails \/ Idle

Spec == Init /\ [][Next]_vars

(* Neither side waits for anything but its file, and neither depends on a  *)
(* call that fails to come to its end.                                     *)
FairSpec == Spec /\ WF_vars(Encode \/ Decode)

-----------------------------------------------------------------------------
(* Properties.                                                             *)

Items == [kind : {"source", "length", "data"}, v : Nat, first : Nat, n : Nat,
          cut : BOOLEAN, good : BOOLEAN]
Phases == {"start", "encode", "wire", "block", "part", "data", "held"}

(* The type invariant.                                                     *)
TypeOK ==
  /\ writer \in {"snzip", "hadoop"} /\ blockSize \in BlockSizes
  /\ size \in TextSizes /\ taken \in 0 .. size
  /\ wb \in [c : Nat, uc : Nat]
  /\ stream \in Seq(Items)
  /\ mishaps \subseteq {"cut", "corrupt", "word", "empty block", "call"}
  /\ phase \in Phases \cup Ended
  /\ at \in 1 .. Len(stream) + 1 /\ got \in Seq(DOMAIN stream)
  /\ source \in Nat /\ length \in Nat

(* Nothing is written behind the end of a work buffer: all that compress   *)
(* and uncompress have put into one fits it, whatever sizes the words of   *)
(* the file give (hadoop-snappy-format.c:87-88, 168-195).                  *)
Within(item) == item.v <= wb.c /\ item.n <= wb.uc
BuffersFit ==
  /\ phase = "encode" /\ writer = "snzip" =>
       \A i \in DOMAIN stream : stream[i].kind = "data" => Within(stream[i])
  /\ phase = "held" => length <= wb.c
  /\ \A x \in DOMAIN got : Within(stream[got[x]])

(* What is written is the text from its beginning, each byte once and in   *)
(* order, whatever happened to the stream (hadoop-snappy-format.c:145-207).*)
Written(x) == stream[got[x]]
Reached == IF got = <<>> THEN 0
           ELSE Written(Len(got)).first + Written(Len(got)).n
TextInOrder ==
  \A x \in DOMAIN got :
    Written(x).first =
      IF x = 1 THEN 0 ELSE Written(x - 1).first + Written(x - 1).n

(* No block yields more than it announces: what is still to come of the    *)
(* block in hand, and what came of it, is its length (lines 185, 205).     *)
Announced(i) == stream[i].kind = "source" /\ i < at
BlockAccounts ==
  phase \in {"part", "data", "held"} =>
    \E i \in DOMAIN stream :
      /\ Announced(i) /\ \A j \in DOMAIN stream : Announced(j) => j <= i
      /\ LET of == {x \in DOMAIN got : got[x] > i} IN
         source + (IF of = {} THEN 0
                   ELSE Reached - Written(CHOOSE x \in of :
                                            \A y \in of : x <= y).first)
           = stream[i].v

(* A file that nothing was lost of comes out complete when uncompress      *)
(* succeeds, if the format was detected and if it was named.  The blocks   *)
(* of an argument of -b that is the overhead have no room for a byte, and  *)
(* compress takes that for the end of the text (line 57).                  *)
RoomForText == writer = "snzip" => MaxInput(blockSize) > 0
RoundTrip ==
  phase = "done" /\ mishaps \subseteq {"empty block"} /\ RoomForText =>
    Reached = size

(* Success means that all blocks there were came out, with no data missing *)
(* from any.  A file may end in front of a block or in its first word,     *)
(* which the reader does not tell from the end (lines 148-155, 162, 173).  *)
SuccessIsWhole ==
  phase = "done" =>
    /\ source = 0
    /\ \A i \in DOMAIN stream :
         stream[i].kind = "data" =>
           ~stream[i].cut /\ stream[i].good /\ \E x \in DOMAIN got : got[x] = i

(* A file that snzip has written with blocks no larger than by default is  *)
(* recognized, and uncompressed when no call fails (snzip.c:182-188).      *)
FindsOwnFiles ==
  /\ writer = "snzip" /\ mishaps = {} /\ size > 0 /\ RoomForText
  /\ MaxInput(blockSize) <= MaxInput(0) /\ Fits(Fresh(MaxInput(0)))
  => phase \notin {"unknown", "failed", "died"}

(* A reader whose buffer has the size given by -b, or the default, has     *)
(* room for what snzip makes of a block (README.md:197-205).               *)
BlocksFitReader ==
  writer = "snzip" /\ mishaps = {} =>
    \A i \in DOMAIN stream :
      stream[i].kind # "source" => stream[i].v <= Buffer(blockSize)

(* Both come to an end.                                                    *)
Terminates == <>(phase \in Ended)

-----------------------------------------------------------------------------
(* The inductive invariant.                                                *)

(* The data of a stream hold a text from its beginning and in order, and   *)
(* (EndsAt) all of it up to t.                                             *)
IsData(s, i) == i \in DOMAIN s /\ s[i].kind = "data"
Adjacent(s, i, j) ==
  IsData(s, i) /\ IsData(s, j) /\ i < j
  /\ \A k \in i + 1 .. j - 1 : s[k].kind # "data"
Ordered(s) ==
  /\ \A j \in DOMAIN s :
       IsData(s, j) /\ (\A k \in 1 .. j - 1 : s[k].kind # "data")
       => s[j].first = 0
  /\ \A i, j \in DOMAIN s :
       Adjacent(s, i, j) => s[j].first = s[i].first + s[i].n
EndsAt(s, t) ==
  /\ (\A k \in DOMAIN s : s[k].kind # "data") => t = 0
  /\ \A i \in DOMAIN s :
       IsData(s, i) /\ (\A k \in i + 1 .. Len(s) : s[k].kind # "data")
       => s[i].first + s[i].n = t

(* The reader has written exactly the data it has passed, in their order.  *)
Passed ==
  /\ phase \in {"start", "encode", "wire"} => at = 1 /\ got = <<>>
  /\ \A x \in DOMAIN got : got[x] < at /\ IsData(stream, got[x])
  /\ \A x, y \in DOMAIN got : x < y => got[x] < got[y]
  /\ \A i \in 1 .. at - 1 :
       IsData(stream, i) => \E x \in DOMAIN got : got[x] = i
  /\ phase = "held" => IsData(stream, at)

Encoding ==
  /\ phase = "start" => taken = 0 /\ stream = <<>>
  /\ phase \in {"start", "encode"} => EndsAt(stream, taken)
  /\ phase = "encode" /\ writer = "snzip" =>
       wb = Fresh(MaxInput(blockSize)) /\ Fits(wb)

IInv ==
  /\ TypeOK /\ Passed /\ Encoding /\ Ordered(stream)
  /\ BuffersFit /\ BlocksFitReader

(* The grammar of a stream: a block is its word and parts, a part a word   *)
(* and data; a block has two parts at most; the file ends in its last item *)
(* only.                                                                   *)
IsSource(s, i) == i \in DOMAIN s /\ s[i].kind = "source"
IsLength(s, i) == i \in DOMAIN s /\ s[i].kind = "length"
Parsed(s) ==
  \A i \in DOMAIN s :
    /\ IsLength(s, i) =>
         IsSource(s, i - 1) \/ (IsData(s, i - 1) /\ IsSource(s, i - 3))
    /\ IsData(s, i) => IsLength(s, i - 1) /\ s[i].n > 0
    /\ IsSource(s, i) /\ IsLength(s, i + 1) => s[i].v > 0
    /\ s[i].cut => i = Len(s)

(* The word of a block of two parts is what they add up to, as nothing     *)
(* happens to the words of Hadoop's encoder; snzip makes one part of all.  *)
Sums(s) ==
  \A i \in DOMAIN s :
    IsSource(s, i) /\ IsData(s, i + 2) /\ IsLength(s, i + 3) =>
      /\ writer = "hadoop" /\ s[i].v > s[i + 2].n
      /\ IsData(s, i + 4) => s[i].v = s[i + 2].n + s[i + 4].n

(* What snzip writes when nothing happens to it: whole blocks of one part  *)
(* that fit the buffers.                                                   *)
OwnBlocks(s) ==
  \A i \in DOMAIN s :
    /\ ~s[i].cut /\ s[i].good
    /\ IsSource(s, i) =>
         /\ IsLength(s, i + 1) /\ IsData(s, i + 2)
         /\ s[i].v = s[i + 2].n /\ s[i].v <= MaxInput(blockSize)
         /\ s[i + 1].v = s[i + 2].v
         /\ s[i + 1].v <= MaxCompressedLength(MaxInput(blockSize))

StreamInHand ==
  /\ Parsed(stream) /\ Sums(stream)
  /\ phase \in {"start", "encode"} =>
       mishaps = {} /\ \A i \in DOMAIN stream : ~stream[i].cut
  /\ writer = "snzip" /\ mishaps = {} => OwnBlocks(stream)
  /\ mishaps \subseteq {"empty block"} => EndsAt(stream, taken)
  /\ phase \notin {"start", "encode", "died", "failed"} /\ RoomForText =>
       taken = size

(* Where in a block the reader is: behind its word, or behind its first    *)
(* part, with as much of the block to come.                                *)
BehindWord(i) == IsSource(stream, i) /\ source = stream[i].v
BehindPart(i) ==
  /\ IsData(stream, i) /\ IsSource(stream, i - 2)
  /\ source + stream[i].n = stream[i - 2].v
BlockInHand ==
  /\ phase \in {"start", "encode", "wire", "block"} => source = 0
  /\ phase = "block" => (at \in DOMAIN stream => IsSource(stream, at))
  /\ phase = "part" =>
       source > 0 /\ (BehindWord(at - 1) \/ BehindPart(at - 1))
  /\ phase \in {"data", "held"} =>
       /\ IsLength(stream, at - 1) /\ length = stream[at - 1].v
       /\ BehindWord(at - 2) \/ BehindPart(at - 2)
  /\ phase = "held" => ~stream[at].cut
  /\ \A x \in DOMAIN got : ~stream[got[x]].cut /\ stream[got[x]].good

(* The reader of a file snzip wrote needs no more room than it begins with.*)
Reading == phase \in {"block", "part", "data", "held"}
Own ==
  /\ writer = "snzip" /\ mishaps = {} /\ size > 0 /\ RoomForText
  /\ MaxInput(blockSize) <= MaxInput(0) /\ Fits(Fresh(MaxInput(0)))
OwnInHand == Own /\ Reading => wb = Fresh(MaxInput(0))

GInv ==
  /\ IInv /\ StreamInHand /\ BlockInHand /\ OwnInHand
  /\ SuccessIsWhole /\ FindsOwnFiles

=============================================================================
