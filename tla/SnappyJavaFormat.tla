--------------------------- MODULE SnappyJavaFormat ---------------------------
(***************************************************************************)
(* The snappy-java format: compress and uncompress of                      *)
(* snappy-java-format.c.                                                   *)
(***************************************************************************)
EXTENDS BlockStream

JavaBlockSize == 32 * 1024  \* DEFAULT_BLOCK_SIZE

SnappyJavaBegin ==
  /\ phase = "start" /\ format = "snappy-java"
  /\ Begin(<<Item("header", 0, 0)>>,
           Fresh(IF blockSize = 0 THEN JavaBlockSize ELSE blockSize))

(* The length in four bytes; no length is as large as 2^31 here.           *)
SnappyJavaBlock ==
  /\ Encoding("snappy-java") /\ HasInput
  /\ \E c \in CompressedSizes(Chunk) : Put(Block(c, c, taken, Chunk))

SnappyJavaEnd == Encoding("snappy-java") /\ Finish(<<>>)

SnappyJavaOpen ==
  /\ Opening("snappy-java")
  /\ IF HeaderFine THEN Opened(Fresh(JavaBlockSize)) ELSE Turn("failed")

(* No byte where a length would begin, after a read error also.            *)
SnappyJavaDone ==
  /\ Decoding("snappy-java", "blocks")
  /\ \/ AtEnd /\ UNCHANGED mishaps
     \/ "read" \in Faults /\ mishaps' = mishaps \cup {"call"}
  /\ phase' = "done"
  /\ UNCHANGED <<text, writer, wb, stream, reader>>

(* work_buffer_resize() of the buffer for compressed data, which calls     *)
(* exit(1) when memory runs out.  The magic of a second file is a length   *)
(* no machine has memory for.                                              *)
Grown(c, uc) ==
  Buffers(IF c > wb.c THEN c ELSE wb.c, IF uc > wb.uc THEN uc ELSE wb.uc)

SnappyJavaRead ==
  /\ Decoding("snappy-java", "blocks") /\ ~AtEnd
  /\ IF This.kind = "header" \/ ~Fits(Grown(This.len, 0)) THEN Turn("died")
     ELSE IF Found("block") /\ This.len > 0 THEN Hold(Grown(This.len, 0))
     ELSE Turn("failed")

SnappyJavaWrite ==
  /\ Decoding("snappy-java", "held")
  /\ IF ~Acceptable(This) THEN Turn("failed")
     ELSE IF Fits(Grown(0, This.n)) THEN Written(Grown(0, This.n))
     ELSE Turn("died")

SnappyJavaCompress == SnappyJavaBegin \/ SnappyJavaBlock \/ SnappyJavaEnd
SnappyJavaUncompress ==
  SnappyJavaOpen \/ SnappyJavaDone \/ SnappyJavaRead \/ SnappyJavaWrite

=============================================================================
