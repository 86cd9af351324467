--------------------------- MODULE Comment43Format ---------------------------
(***************************************************************************)
(* The comment-43 format: compress and uncompress of comment-43-format.c.  *)
(* The phases "header", "blocks" and "between" are INITIAL_STATE,          *)
(* PROCESSING_STATE and END_OF_STREAM_STATE; a block is held in            *)
(* PROCESSING_STATE.  -b is not looked at.                                 *)
(* A definition Mut... is a plausible bug in the one after it.             *)
(***************************************************************************)
EXTENDS BlockStream

RawMax == 32 * 1024      \* max_raw_data_len
BlockDataMax == 65535    \* UINT16_MAX, the data of a block_data_t

CommentBegin ==
  /\ phase = "start" /\ format = "comment-43"
  /\ Begin(<<Item("header", 6, 0)>>, Fresh(RawMax))

(* The type, the length in two bytes, which counts the checksum, the       *)
(* checksum, the data.                                                     *)
CommentItem(n, c) ==
  LET len == (IF Stored(n, c) THEN n ELSE c) + 4 IN
  [Block(len % 2^16, len, taken, n) EXCEPT !.stored = Stored(n, c)]
CommentBlock ==
  /\ Encoding("comment-43") /\ HasInput
  /\ \E c \in CompressedSizes(Chunk) : Put(CommentItem(Chunk, c))

CommentEnd ==
  Encoding("comment-43") /\ FinishChecked(<<Item("end", 0, taken)>>)

(* INITIAL_STATE; after detection uncompress starts in PROCESSING_STATE.   *)
CommentOpen ==
  /\ Opening("comment-43")
  /\ IF HeaderFine
     THEN Opened(Buffers(BlockDataMax, MaxCompressedLength(BlockDataMax)))
     ELSE Turn("failed")

MutDoneAnywhere ==
  /\ format = "comment-43" /\ phase \in {"blocks", "between"}
  /\ \/ AtEnd /\ UNCHANGED mishaps
     \/ "read" \in Faults /\ mishaps' = mishaps \cup {"call"}
  /\ phase' = "done"
  /\ UNCHANGED <<text, writer, wb, stream, reader>>

(* END_OF_STREAM_STATE, the only one the file may end in: no byte where    *)
(* the type of a block would be, after a read error also.                  *)
CommentDone ==
  /\ Decoding("comment-43", "between")
  /\ \/ AtEnd /\ UNCHANGED mishaps
     \/ "read" \in Faults /\ mishaps' = mishaps \cup {"call"}
  /\ phase' = "done"
  /\ UNCHANGED <<text, writer, wb, stream, reader>>

CommentNextStream ==
  /\ Decoding("comment-43", "between") /\ ~AtEnd
  /\ IF HeaderFine THEN Pass("blocks") ELSE Turn("failed")

(* PROCESSING_STATE.                                                       *)
CommentRead ==
  /\ Decoding("comment-43", "blocks")
  /\ Found("block") /\ This.len > 4
  /\ Hold(wb)

MutCommentSkipTwo ==
  /\ Decoding("comment-43", "blocks")
  /\ Found("skippable")
  /\ at' = at + 2
  /\ UNCHANGED <<text, writer, wb, stream, mishaps, phase, got>>

MutCommentSkipStays ==
  /\ Decoding("comment-43", "blocks")
  /\ Found("skippable") /\ Turn("blocks")

CommentSkip ==
  /\ Decoding("comment-43", "blocks")
  /\ Found("skippable") /\ Pass("blocks")

CommentEndOfStream ==
  /\ Decoding("comment-43", "blocks")
  /\ Found("end") /\ Pass("between")

(* The end of the file, a header, a block too short or of unknown type.    *)
CommentReject ==
  /\ Decoding("comment-43", "blocks")
  /\ ~Found("skippable") /\ ~Found("end")
  /\ Found("block") => This.len <= 4
  /\ Turn("failed")

(* fwrite() of a block without bytes returns 0, which is taken for an      *)
(* error.                                                                  *)
CommentWrite ==
  /\ Decoding("comment-43", "held")
  /\ IF Verified(This) /\ This.n <= wb.uc /\ This.n > 0
     THEN Written(wb) ELSE Turn("failed")

CommentCompress == CommentBegin \/ CommentBlock \/ CommentEnd
CommentUncompress ==
  \/ CommentOpen \/ CommentDone \/ CommentNextStream \/ CommentRead
  \/ CommentSkip \/ CommentEndOfStream \/ CommentReject \/ CommentWrite

=============================================================================
