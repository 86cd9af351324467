----------------------------- MODULE BlockFormats -----------------------------
(***************************************************************************)
(* The formats that write a text block by block, put together: a text is   *)
(* compressed, something may happen to the stream on its way, and it is    *)
(* uncompressed in the same format.                                        *)
(***************************************************************************)
EXTENDS SnzipFormat, SnappyJavaFormat, SnappyInJavaFormat, IwaFormat,
        Comment43Format

Encode ==
  \/ SnzipCompress \/ SnappyJavaCompress \/ InJavaCompress
  \/ IwaCompress \/ CommentCompress
Decode ==
  \/ StartDecode
  \/ SnzipUncompress \/ SnappyJavaUncompress \/ InJavaUncompress
  \/ IwaUncompress \/ CommentUncompress
CallFails == EncodeFails \/ DecodeFails
Ended == {"done", "failed", "died", "refused"}
Idle == phase \in Ended /\ UNCHANGED vars

Next == Encode \/ Wire \/ Decode \/ CallFails \/ Idle

Spec == Init /\ [][Next]_vars

(* Neither side waits for anything but its file, and neither depends on a  *)
(* call that fails to come to its end.                                     *)
FairSpec == Spec /\ WF_vars(Encode \/ Decode)

-----------------------------------------------------------------------------
(* Properties.                                                             *)

Items ==
  [kind : {"header", "block", "end", "skippable", "unknown"}, len : Nat,
   size : Nat, first : Nat, n : Nat, stored : BOOLEAN,
   data : {"good", "altered", "broken"}, cut : BOOLEAN]
Phases == {"start", "encode", "wire", "header", "detected", "blocks", "held",
           "between", "overread"}

(* The type invariant.                                                     *)
TypeOK ==
  /\ format \in Formats /\ blockSize \in BlockSizes /\ size \in TextSizes
  /\ taken \in 0 .. size /\ oerr \in BOOLEAN
  /\ wb \in [c : Nat, uc : Nat]
  /\ stream \in Seq(Items)
  /\ mishaps \subseteq
       {"cut", "corrupt", "length", "concatenated", "foreign", "call"}
  /\ phase \in Phases \cup Ended
  /\ at \in 1 .. Len(stream) + 1 /\ got \in Seq(DOMAIN stream)

(* The data read have the length the file gives, and the text made of them *)
(* the length snappy gives: neither is longer than its buffer              *)
(* (snzip-format.c:225-251, snappy-java-format.c:192-216,                  *)
(* snappy-in-java-format.c:203-245, iwa-format.c:131-146,                  *)
(* comment-43-format.c:205-261), but for one read: that of a block of iwa  *)
(* of whose length a byte is missing (iwa-format.c:131-142).               *)
Block_(x) == stream[got[x]]
BuffersFit ==
  /\ phase = "held" => This.len <= wb.c
  /\ phase = "overread" => format = "iwa" /\ (This.cut \/ "call" \in mishaps)
  /\ \A x \in DOMAIN got : Block_(x).n <= (IF Block_(x).stored THEN wb.c ELSE wb.uc)

(* What is written is the text from its beginning, each byte once and in   *)
(* order, whatever happened to the stream, if the writer lost no item.     *)
TextInOrder ==
  ~oerr => \A x \in DOMAIN got :
             Block_(x).first = IF x = 1 THEN 0 ELSE EndOf(Block_(x - 1))

(* A block whose checksum is wrong, or of which something is missing, is   *)
(* never written, nor one snappy refuses (snappy-in-java-format.c:266-275, *)
(* comment-43-format.c:261-288).                                           *)
OnlySoundData ==
  \A x \in DOMAIN got :
    /\ ~Block_(x).cut /\ Acceptable(Block_(x))
    /\ format \in Checked => Verified(Block_(x))

(* When uncompress succeeds the text has come out, and that of a second    *)
(* file behind the first, which snzip passes over (README.md:242-243); for *)
(* the formats with an end mark (snzip-format.c:207, comment-43-format.c:  *)
(* 171) also when the file was cut.  A failed putc() is noticed by iwa and *)
(* comment-43 (iwa-format.c:83, comment-43-format.c:143); a failed getc()  *)
(* by all but the two of Java and, between two streams, comment-43, which  *)
(* leaves out the second then (comment-43-format.c:170-173).               *)
Reached == IF got = <<>> THEN 0 ELSE EndOf(Block_(Len(got)))
EndMarked == {"snzip", "comment-43"}
IgnoresCalls == {"snappy-java", "snappy-in-java"} \cup (IF oerr THEN {"snzip"} ELSE {})
LeftAtError == format = "comment-43" /\ "call" \in mishaps
RoundTrip ==
  /\ phase = "done" /\ mishaps \cap {"foreign", "length"} = {}
  /\ "cut" \in mishaps => format \in EndMarked
  /\ "call" \in mishaps => format \notin IgnoresCalls
  => \/ /\ Reached = size
        /\ "concatenated" \in mishaps =>
             format = "snzip" \/ "cut" \in mishaps \/ LeftAtError
     \/ Reached = 2 * size /\ "concatenated" \in mishaps

(* Success means that every block of the file came out, but for what is    *)
(* behind an end mark in snzip, behind an empty block in iwa               *)
(* (iwa-format.c:150), and behind a read error where a block would begin   *)
(* in the formats of Java (snappy-java-format.c:175,                       *)
(* snappy-in-java-format.c:190) and where a second stream would in         *)
(* comment-43 (comment-43-format.c:170-173).                               *)
ReadErrorEnds ==
  /\ "call" \in mishaps
  /\ \/ format \in {"snappy-java", "snappy-in-java"}
     \/ format = "comment-43" /\ at > 1 /\ stream[at - 1].kind = "end"
SuccessIsWhole ==
  phase = "done" =>
    \A i \in DOMAIN stream :
      \/ stream[i].kind \in {"header", "end", "skippable"}
      \/ \E x \in DOMAIN got : got[x] = i
      \/ format = "snzip" /\ \E j \in 1 .. i : EndMark(stream[j])
      \/ /\ format = "iwa"
         /\ \E j \in 1 .. i : stream[j].kind = "block" /\ stream[j].n = 0
      \/ ReadErrorEnds /\ i >= at

(* What uncompress has read of a file in comment-43 when it succeeds is    *)
(* one stream or several, each a header, blocks and an end-of-stream       *)
(* block, and nothing is between them, nor behind them unless it was a     *)
(* read error that ended the file (comment-43-format.c:168-173, 222-315).  *)
StreamsAreFramed ==
  phase = "done" /\ format = "comment-43" =>
    /\ at > 1 /\ stream[at - 1].kind = "end"
    /\ AtEnd \/ "call" \in mishaps
    /\ \A i \in 1 .. at - 1 :
         stream[i].kind = "header" <=> i = 1 \/ stream[i - 1].kind = "end"

(* What snzip has written it can read, if nothing happens to it and no     *)
(* call fails: but for block sizes that are no power of two in snzip, and  *)
(* a last block of a single byte in iwa.  Only snappy-java takes a block   *)
(* size there may be no memory for (snappy-java-format.c:81).              *)
IsPowerOfTwo(b) == \E n \in 1 .. MaxShift : 2^n = b
Readable ==
  /\ format = "snzip" => blockSize = 0 \/ IsPowerOfTwo(blockSize)
  /\ format = "snappy-java" => Fits(Fresh(blockSize))
  /\ format = "iwa" => size % IwaTextMax # 1
ReadsOwnFiles ==
  Readable /\ mishaps = {} => phase \notin {"failed", "died"}

(* Both come to an end.                                                    *)
Terminates == <>(phase \in Ended)

-----------------------------------------------------------------------------
(* The inductive invariant (BlockFormatsProofs).                           *)

(* Where in the text the item p begins, when no item was lost.             *)
Position(p) == IF p = 1 THEN 0 ELSE EndOf(stream[p - 1])

(* The items of a stream: only blocks hold text, only two formats store    *)
(* it, and the length of a block is one its length bytes can say.          *)
ItemFine(item) ==
  /\ item.kind # "block" => item.n = 0
  /\ item.stored => format \in Checked /\ item.n <= item.size
  /\ format \in Checked => item.len <= 65535
  /\ format = "iwa" => item.len <= IwaDataMax
ItemsInHand == \A i \in DOMAIN stream : ItemFine(stream[i])

WriterInHand ==
  /\ phase = "start" => stream = <<>> /\ taken = 0
  /\ ~oerr => \A i \in DOMAIN stream : stream[i].first = Position(i)
  /\ ~oerr /\ phase \in {"start", "encode"} => Position(Len(stream) + 1) = taken

(* An item behind which uncompress has come has been written, or holds     *)
(* nothing to write.                                                       *)
Dealt(i) ==
  \/ stream[i].kind \in {"header", "end", "skippable"}
  \/ \E x \in DOMAIN got : got[x] = i
ReaderInHand ==
  /\ phase \in {"start", "encode", "wire", "header", "detected", "refused"} =>
       at = 1 /\ got = <<>>
  /\ phase = "held" => Found("block")
  /\ ~oerr => Reached = Position(at)
  /\ \A i \in 1 .. at - 1 : Dealt(i)

(* The buffers of the formats whose buffers do not depend on the file.     *)
Reading == phase \in {"blocks", "held", "between"}
BuffersInHand ==
  Reading =>
    /\ format = "snappy-in-java" => wb = Fresh(InJavaMax)
    /\ format = "iwa" => wb = Buffers(IwaDataMax, IwaTextMax)
    /\ format = "comment-43" => wb.c = BlockDataMax

(* The states of comment-43 are those of the items read.                   *)
FramedSoFar ==
  format = "comment-43" /\ Reading =>
    /\ at > 1
    /\ phase = "between" <=> stream[at - 1].kind = "end"
    /\ \A i \in 1 .. at - 1 :
         stream[i].kind = "header" <=> i = 1 \/ stream[i - 1].kind = "end"

IInv ==
  /\ TypeOK /\ ItemsInHand /\ WriterInHand /\ ReaderInHand /\ BuffersInHand
  /\ FramedSoFar /\ BuffersFit /\ OnlySoundData /\ TextInOrder
  /\ SuccessIsWhole /\ StreamsAreFramed

-----------------------------------------------------------------------------
(* What a file is that was not given a block of another encoder, and what  *)
(* one is that nothing happened to (BlockFormatsProofs).                   *)

(* Only the error flag of outfp, a read error that is taken for the end of *)
(* the file and one in a length of iwa outlive a call that fails.          *)
CallsInHand ==
  /\ oerr => "call" \in mishaps
  /\ "call" \in mishaps =>
       \/ oerr \/ phase = "failed"
       \/ phase = "done" /\ ReadErrorEnds
       \/ phase \in {"overread", "died"} /\ format = "iwa"
  /\ oerr /\ format \in {"iwa", "comment-43"} => phase \in {"encode", "failed", "died"}
  /\ phase \in {"start", "encode"} => mishaps \subseteq {"call"}

(* The blocks are not empty, an end mark is behind all of the text, or of  *)
(* the text twice, and what was not cut is as long as the text.            *)
Sent == (Phases \cup {"done"}) \ {"start", "encode"}
Copies == IF "concatenated" \in mishaps THEN 2 ELSE 1
BlockIsNotEmpty(item) ==
  item.kind = "block" =>
    item.n > 0 /\ ("length" \notin mishaps /\ format = "snzip" => item.len > 0)
EndsText(i) ==
  stream[i].kind = "end" =>
    /\ phase \notin {"start", "encode"}
    /\ stream[i].first = size \/ (stream[i].first = 2 * size /\ Copies = 2)
    /\ Copies = 1 => i = Len(stream)
TextInHand ==
  ~oerr /\ "foreign" \notin mishaps =>
    /\ \A i \in DOMAIN stream : BlockIsNotEmpty(stream[i]) /\ EndsText(i)
    /\ phase \in Sent /\ "cut" \notin mishaps =>
         Position(Len(stream) + 1) = Copies * size

(* Where uncompress has stopped when it succeeds.                          *)
StoppedAtEnd ==
  phase = "done" =>
    IF format = "snzip" THEN AtEndMark
    ELSE \/ AtEnd \/ ReadErrorEnds
         \/ format = "iwa" /\ ~AtEnd /\ This.kind = "block" /\ This.n = 0

(* The text of a block, the least length of its data, and the items that   *)
(* compress writes.                                                        *)
TextBlock ==
  CASE format = "snzip" -> IF blockSize = 0 THEN 2^DefaultShift ELSE blockSize
    [] format = "snappy-java" -> IF blockSize = 0 THEN JavaBlockSize ELSE blockSize
    [] format = "snappy-in-java" -> IF blockSize = 0 THEN InJavaBlockSize ELSE blockSize
    [] format = "iwa" -> IwaTextMax
    [] format = "comment-43" -> RawMax
LeastLen == CASE format = "iwa" -> 4 [] format = "comment-43" -> 5 [] OTHER -> 1
OwnHeader(item) ==
  /\ item.kind = "header" /\ item.data = "good" /\ ~item.cut
  /\ format = "snzip" => item.len \in 1 .. MaxShift /\ 2^item.len = TextBlock
OwnBlock(item) ==
  /\ item.kind = "block" /\ Verified(item) /\ ~item.cut
  /\ item.n \in 1 .. TextBlock
  /\ item.len \in LeastLen .. MaxCompressedLength(TextBlock)
OwnItem(i) ==
  IF i = 1 /\ format # "iwa" THEN OwnHeader(stream[i])
  ELSE IF i = Len(stream) /\ phase # "encode" /\ format \in EndMarked
       THEN stream[i].kind = "end" /\ ~stream[i].cut
       ELSE OwnBlock(stream[i])

(* The buffers of compress; the blocks of iwa are full ones but the last.  *)
WriterSizes ==
  phase = "encode" =>
    /\ wb = Fresh(TextBlock)
    /\ format = "snzip" => TextBlock <= 2^MaxShift
    /\ format = "snappy-in-java" => TextBlock <= InJavaMax
    /\ format = "iwa" => taken % IwaTextMax = 0 \/ taken = size

(* A file nothing has happened to, and the buffers it is read with.        *)
OwnFile ==
  /\ \A i \in DOMAIN stream : OwnItem(i)
  /\ format = "snappy-in-java" => TextBlock <= InJavaMax
  /\ format # "iwa" => stream # <<>>
  /\ format \in EndMarked /\ phase # "encode" => Len(stream) > 1
OwnReader ==
  /\ format # "iwa" => at > 1
  /\ format = "snzip" => wb = Fresh(TextBlock)
  /\ format = "snappy-java" => Fits(wb)
  /\ format = "comment-43" => wb.uc >= RawMax
  /\ format \in EndMarked /\ phase # "between" => at <= Len(stream)
  /\ phase = "between" => AtEnd
OwnInHand ==
  Readable /\ mishaps = {} =>
    /\ phase \notin {"failed", "died", "overread"}
    /\ phase \notin {"start", "refused"} => OwnFile
    /\ Reading => OwnReader

FInv ==
  /\ IInv /\ CallsInHand /\ WriterSizes /\ TextInHand /\ StoppedAtEnd
  /\ OwnInHand

-----------------------------------------------------------------------------
(* What the documents say.                                                 *)

(* The error message of compress: "The block size must be power of two"    *)
(* (snzip-format.c:81), and what the header can say (line 52: "nth power   *)
(* of two"): a file is only made with such blocks.                         *)
BlockSizeIsPowerOfTwo ==
  format = "snzip" /\ phase \in {"encode", "wire"} =>
    blockSize = 0 \/ IsPowerOfTwo(blockSize)

(* The manual lists iwa among the formats that can be compressed and       *)
(* uncompressed (README.md:220-222): a file compressed in it can be        *)
(* uncompressed.                                                           *)
IwaFilesCanBeRead == format = "iwa" /\ mishaps = {} => phase # "failed"

=============================================================================
