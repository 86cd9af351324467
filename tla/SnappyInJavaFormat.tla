-------------------------- MODULE SnappyInJavaFormat --------------------------
(***************************************************************************)
(* The snappy-in-java format: compress and uncompress of                   *)
(* snappy-in-java-format.c.                                                *)
(* A definition Mut... is a plausible bug in the one after it.             *)
(***************************************************************************)
EXTENDS BlockStream

InJavaBlockSize == 2^15  \* DEFAULT_BLOCK_SIZE
InJavaMax == 65535       \* MAX_BLOCK_SIZE

(* compress gives up at larger blocks, before it has written the header.   *)
InJavaBegin ==
  /\ phase = "start" /\ format = "snappy-in-java"
  /\ IF blockSize > InJavaMax THEN Refuse
     ELSE Begin(<<Item("header", 0, 0)>>,
                Fresh(IF blockSize = 0 THEN InJavaBlockSize ELSE blockSize))

(* write_block(): a flag, the length in two bytes, the checksum, the data. *)
InJavaItem(n, c) ==
  IF Stored(n, c) THEN StoredBlock(n % 2^16, n, taken, n)
                  ELSE Block(c % 2^16, c, taken, n)
InJavaBlock ==
  /\ Encoding("snappy-in-java") /\ HasInput
  /\ \E c \in CompressedSizes(Chunk) : Put(InJavaItem(Chunk, c))

InJavaEnd == Encoding("snappy-in-java") /\ Finish(<<>>)

InJavaOpen ==
  /\ Opening("snappy-in-java")
  /\ IF HeaderFine THEN Opened(Fresh(InJavaMax)) ELSE Turn("failed")

(* No byte where a flag would be, after a read error also.                 *)
InJavaDone ==
  /\ Decoding("snappy-in-java", "blocks")
  /\ \/ AtEnd /\ UNCHANGED mishaps
     \/ "read" \in Faults /\ mishaps' = mishaps \cup {"call"}
  /\ phase' = "done"
  /\ UNCHANGED <<text, writer, wb, stream, reader>>

(* An unknown flag, the end of the file in the nine bytes or the data, and *)
(* a length of 0, for which fread() returns 0, are errors.                 *)
InJavaRead ==
  /\ Decoding("snappy-in-java", "blocks") /\ ~AtEnd
  /\ IF Found("block") /\ This.len > 0 THEN Hold(wb) ELSE Turn("failed")

MutWriteUnverified ==
  /\ Decoding("snappy-in-java", "held")
  /\ IF Acceptable(This) /\ (This.stored \/ This.n <= wb.uc)
     THEN Written(wb) ELSE Turn("failed")

MutWriteSkips ==
  /\ Decoding("snappy-in-java", "held")
  /\ IF Verified(This) /\ (This.stored \/ This.n <= wb.uc)
     THEN Written(wb) ELSE Pass("blocks")

(* check_and_write_block() after the block has been uncompressed, if it is *)
(* compressed.                                                             *)
InJavaWrite ==
  /\ Decoding("snappy-in-java", "held")
  /\ IF Verified(This) /\ (This.stored \/ This.n <= wb.uc)
     THEN Written(wb) ELSE Turn("failed")

InJavaCompress == InJavaBegin \/ InJavaBlock \/ InJavaEnd
InJavaUncompress == InJavaOpen \/ InJavaDone \/ InJavaRead \/ InJavaWrite

=============================================================================
