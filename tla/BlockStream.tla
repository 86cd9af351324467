----------------------------- MODULE BlockStream -----------------------------
(***************************************************************************)
(* What the five formats that write a text block by block have in common:  *)
(* snzip, snappy-java, snappy-in-java, iwa and comment-43.  The modules    *)
(* named after them hold what compress and uncompress of each do,          *)
(* BlockFormats puts them together.                                        *)
(*                                                                         *)
(* A stream is a sequence of items: a header, blocks and an end mark, as   *)
(* the format has them.  An item records what its length bytes say and     *)
(* how long its data are, which bytes of the text it holds, whether the    *)
(* file ends within it and what became of its data.  All numbers are those *)
(* of the code: only the sizes tried are few.                              *)
(***************************************************************************)
EXTENDS Integers, Sequences, FiniteSets

CONSTANTS
  Formats,     \* the formats to look at
  Memory,      \* the largest size malloc and realloc have memory for
  BlockSizes,  \* the arguments of -b; 0 without it
  TextSizes,   \* bound: the sizes of the text
  MaxBlocks,   \* bound: how many blocks of the smallest default size, or of
               \* the size given, a text may have
  MaxEdits,    \* bound: how many things happen to the stream on its way
  Faults       \* which calls may fail: "read", "putc", "write"

VARIABLES
  format,     \* the format in use
  blockSize,  \* the argument of -b
  size,       \* the size of the text
  taken,      \* how much of it has been read
  wb,         \* the capacities of the buffers in use
  oerr,       \* the error flag of outfp while compressing
  stream,     \* the items written
  mishaps,    \* history: what went wrong with the stream and with calls
  phase,      \* where the process is
  at,         \* the item uncompress reads next
  got         \* the blocks it has written

text == <<format, blockSize, size>>
writer == <<taken, oerr>>
reader == <<at, got>>
vars == <<text, writer, wb, stream, mishaps, phase, reader>>

AllFormats == {"snzip", "snappy-java", "snappy-in-java", "iwa", "comment-43"}

(* Formats whose blocks have a checksum, or a type in front.               *)
Checked == {"snappy-in-java", "comment-43"}
Typed == {"snappy-in-java", "iwa", "comment-43"}

ASSUME BlockAssumption ==
  /\ Formats \subseteq AllFormats
  /\ Memory \in Nat /\ Memory > 2 * 2^27
  /\ BlockSizes \subseteq Nat /\ TextSizes \subseteq Nat
  /\ MaxBlocks \in Nat /\ MaxEdits \in Nat

-----------------------------------------------------------------------------
(* Items and buffers.                                                      *)

(* snappy_max_compressed_length() of the library, and (bound) of the sizes *)
(* its encoder may return the smallest, that of a text it finds nothing in *)
(* and the largest: one byte becomes a length, a tag and the byte.         *)
MaxCompressedLength(n) == 32 + n + n \div 6
CompressedSizes(n) ==
  IF n = 1 THEN {3} ELSE {4, n + 2, MaxCompressedLength(n)}

(* snappy-in-java and comment-43 store a block unless compression saves an *)
(* eighth of it.                                                           *)
Stored(n, c) == c >= n - n \div 8

Item(kind, len, first) ==
  [kind |-> kind, len |-> len, size |-> len, first |-> first, n |-> 0,
   stored |-> FALSE, data |-> "good", cut |-> FALSE]
Block(len, width, first, n) ==
  [Item("block", len, first) EXCEPT !.size = width, !.n = n]
StoredBlock(len, width, first, n) ==
  [Block(len, width, first, n) EXCEPT !.stored = TRUE]

Buffers(c, uc) == [c |-> c, uc |-> uc]
Fits(b) == b.c <= Memory /\ b.uc <= Memory

(* work_buffer_init(), which calls exit(1) when memory runs out.           *)
Fresh(n) == Buffers(MaxCompressedLength(n), n)

Minimum(m, n) == IF m <= n THEN m ELSE n
Chunk == Minimum(size - taken, wb.uc)

-----------------------------------------------------------------------------
(* Compression: the steps compress of each format is made of.              *)

Init ==
  /\ format \in Formats /\ blockSize \in BlockSizes /\ size \in TextSizes
  /\ size <= MaxBlocks * (IF blockSize = 0 \/ format \in {"iwa", "comment-43"}
                          THEN 32768 ELSE blockSize)
  /\ taken = 0 /\ oerr = FALSE /\ wb = Buffers(0, 0)
  /\ stream = <<>> /\ mishaps = {} /\ phase = "start"
  /\ at = 1 /\ got = <<>>

(* Items are written by putc(), whose failure shows in ferror(outfp) only, *)
(* and their data by fwrite(), whose failure is noticed.                   *)
Emit(items) ==
  \/ stream' = stream \o items /\ UNCHANGED <<oerr, mishaps>>
  \/ /\ "putc" \in Faults /\ items # <<>>
     /\ oerr' = TRUE /\ mishaps' = mishaps \cup {"call"} /\ UNCHANGED stream

(* The header is written and the buffers are allocated.                    *)
Begin(header, buffers) ==
  /\ wb' = buffers
  /\ phase' = IF Fits(buffers) THEN "encode" ELSE "died"
  /\ Emit(header)
  /\ UNCHANGED <<text, taken, reader>>

(* compress gives up before it has written anything.                       *)
Refuse ==
  /\ phase' = "refused"
  /\ UNCHANGED <<text, writer, wb, stream, mishaps, reader>>

Encoding(f) == phase = "encode" /\ format = f
HasInput == taken < size

(* One turn of the loop: fread, compress, write.                           *)
Put(item) ==
  /\ taken' = taken + Chunk
  /\ Emit(<<item>>)
  /\ UNCHANGED <<text, wb, phase, reader>>

(* fread() has returned 0 at the end of the text.                          *)
Finish(items) ==
  /\ ~HasInput
  /\ phase' = "wire"
  /\ Emit(items)
  /\ UNCHANGED <<text, taken, wb, reader>>

(* ... where ferror(outfp) is looked at too.                               *)
FinishChecked(items) ==
  /\ ~HasInput
  /\ Emit(items)
  /\ phase' = IF oerr' THEN "failed" ELSE "wire"
  /\ UNCHANGED <<text, taken, wb, reader>>

EncodeFails ==
  /\ phase = "encode"
  /\ "read" \in Faults \/ ("write" \in Faults /\ HasInput)
  /\ phase' = "failed" /\ mishaps' = mishaps \cup {"call"}
  /\ UNCHANGED <<text, writer, wb, stream, reader>>

-----------------------------------------------------------------------------
(* What may happen to the stream on its way.                               *)

CutBeforeItem ==
  /\ \E i \in DOMAIN stream : stream' = SubSeq(stream, 1, i - 1)
  /\ mishaps' = mishaps \cup {"cut"}

CutInItem ==
  /\ \E i \in DOMAIN stream :
       /\ stream[i].kind # "end" \/ format = "comment-43"
       /\ stream' = [SubSeq(stream, 1, i) EXCEPT ![i].cut = TRUE]
  /\ mishaps' = mishaps \cup {"cut"}

(* snappy does not accept the data any more ("broken"), or makes another   *)
(* text of the same length of them ("altered"), as of all stored data.     *)
Corrupt ==
  /\ \E i \in DOMAIN stream, d \in {"broken", "altered"} :
       /\ \/ stream[i].kind = "header" /\ d = "broken"
          \/ stream[i].kind = "block" /\ (stream[i].stored => d = "altered")
       /\ stream' = [stream EXCEPT ![i].data = d]
  /\ mishaps' = mishaps \cup {"corrupt"}

(* The length bytes of a block, or the block size in the header of snzip.  *)
OtherLengths(item) ==
  {v \in {item.len - 1, item.len + 1, Memory + 1} :
     /\ \/ item.kind = "block"
        \/ item.kind = "header" /\ format = "snzip" /\ v <= 255
     /\ v >= 0 /\ (format \in Typed => v <= 65535)}
WrongLength ==
  /\ \E i \in DOMAIN stream : \E v \in OtherLengths(stream[i]) :
       stream' = [stream EXCEPT ![i].len = v]
  /\ mishaps' = mishaps \cup {"length"}

(* Another file of the same text is appended (cat of several files).       *)
EndOf(item) == item.first + item.n
Later(item) == [item EXCEPT !.first = @ + EndOf(stream[Len(stream)])]
Concatenate ==
  /\ stream # <<>>
  /\ stream' = stream \o [i \in DOMAIN stream |-> Later(stream[i])]
  /\ mishaps' = mishaps \cup {"concatenated"}

(* What another encoder may have written: a block without data, compressed *)
(* (to its length, in iwa one of four bytes) or stored, a block that is to *)
(* be skipped, and one of a type nobody knows.                             *)
ChecksumLen == IF format = "comment-43" THEN 4 ELSE 0
EmptyLen == (IF format = "iwa" THEN 4 ELSE 1) + ChecksumLen
ForeignAt(p) ==
  {Block(EmptyLen, EmptyLen, p, 0)} \cup
  (IF format \in Typed THEN {Item("unknown", 9, p)} ELSE {}) \cup
  (IF format \in Checked
   THEN {StoredBlock(ChecksumLen, ChecksumLen, p, 0)} ELSE {}) \cup
  (IF format = "comment-43" THEN {Item("skippable", 9, p)} ELSE {})
InsertForeign ==
  /\ \E i \in DOMAIN stream : \E item \in ForeignAt(EndOf(stream[i])) :
       stream' = SubSeq(stream, 1, i) \o <<item>>
                   \o SubSeq(stream, i + 1, Len(stream))
  /\ mishaps' = mishaps \cup {"foreign"}

Wire ==
  /\ phase = "wire" /\ Cardinality(mishaps) < MaxEdits
  /\ \/ CutBeforeItem \/ CutInItem \/ Corrupt \/ WrongLength
     \/ Concatenate \/ InsertForeign
  /\ mishaps' # mishaps
  /\ UNCHANGED <<text, writer, wb, phase, reader>>

-----------------------------------------------------------------------------
(* Decompression: the steps uncompress of each format is made of.          *)

Decoding(f, p) == phase = p /\ format = f
AtEnd == at > Len(stream)
This == stream[at]
Found(kind) == ~AtEnd /\ This.kind = kind /\ ~This.cut
HeaderFine == Found("header") /\ This.data = "good"

(* Data the length bytes fit and that snappy accepts; a checksum finds out *)
(* the data that are not those that were written.                          *)
Acceptable(item) == item.len = item.size /\ item.data # "broken"
Verified(item) == item.len = item.size /\ item.data = "good"

(* uncompress starts at the beginning of the file, or behind the magic,    *)
(* which detection has read then.  The name of iwa has to be given.        *)
StartDecode ==
  /\ phase = "wire"
  /\ phase' \in {"header"} \cup (IF format = "iwa" THEN {} ELSE {"detected"})
  /\ UNCHANGED <<text, writer, wb, stream, mishaps, reader>>

Opening(f) == format = f /\ phase \in {"header", "detected"}

(* The header was fine, the buffers are allocated.                         *)
Opened(buffers) ==
  /\ wb' = buffers /\ at' = at + 1
  /\ phase' = IF Fits(buffers) THEN "blocks" ELSE "died"
  /\ UNCHANGED <<text, writer, stream, mishaps, got>>

(* The data of a block have been read into the buffer for them.            *)
Hold(buffers) ==
  /\ wb' = buffers
  /\ phase' = "held"
  /\ UNCHANGED <<text, writer, stream, mishaps, reader>>

(* They have been uncompressed and written.                                *)
Written(buffers) ==
  /\ wb' = buffers
  /\ got' = Append(got, at) /\ at' = at + 1 /\ phase' = "blocks"
  /\ UNCHANGED <<text, writer, stream, mishaps>>

Turn(p) ==
  /\ phase' = p
  /\ UNCHANGED <<text, writer, wb, stream, mishaps, reader>>

(* An item of which nothing is written.                                    *)
Pass(p) ==
  /\ phase' = p /\ at' = at + 1
  /\ UNCHANGED <<text, writer, wb, stream, mishaps, got>>

(* The loop is left for an error.                                          *)
DecodeFails ==
  /\ \/ phase \in {"header", "blocks", "between"} /\ "read" \in Faults
     \/ phase = "held" /\ "write" \in Faults
  /\ phase' = "failed" /\ mishaps' = mishaps \cup {"call"}
  /\ UNCHANGED <<text, writer, wb, stream, reader>>

=============================================================================
