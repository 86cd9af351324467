----------------------------- MODULE SnzipFormat -----------------------------
(***************************************************************************)
(* The snzip format: compress and uncompress of snzip-format.c.            *)
(* A definition Mut... is a plausible bug in the one after it.             *)
(***************************************************************************)
EXTENDS BlockStream

DefaultShift == 16  \* SNZ_DEFAULT_BLOCK_SIZE
MaxShift == 27      \* SNZ_MAX_BLOCK_SIZE

(* The loop that looks for nshift: when it ends without having found it,   *)
(* nshift is one more than the largest.                                    *)
Shift(b) ==
  IF b = 0 THEN DefaultShift
  ELSE IF \E n \in 1 .. MaxShift : 2^n = b
       THEN CHOOSE n \in 1 .. MaxShift : 2^n = b
       ELSE MaxShift + 1

(* The block sizes compress gives up at.  The test for a power of two asks *)
(* whether nshift is the largest, not whether it is beyond it.             *)
Refused(b) == b > 2^MaxShift \/ (b # 0 /\ Shift(b) = MaxShift)

SnzipBegin ==
  /\ phase = "start" /\ format = "snzip"
  /\ IF Refused(blockSize) THEN Refuse
     ELSE Begin(<<Item("header", Shift(blockSize), 0)>>,
                Fresh(IF blockSize = 0 THEN 2^DefaultShift ELSE blockSize))

(* The length of a block, in one to five bytes of seven bits each, all but *)
(* the last with the eighth bit set (lines 107-133).                       *)
VarintLen(n) ==
  CASE n < 2^7                -> 1
    [] n >= 2^7  /\ n < 2^14  -> 2
    [] n >= 2^14 /\ n < 2^21  -> 3
    [] n >= 2^21 /\ n < 2^28  -> 4
    [] n >= 2^28              -> 5
MutVarint(n) ==
  [i \in 1 .. VarintLen(n) |->
     LET bits == n \div 128^(i - 1) IN
     IF i < VarintLen(n) - 1 THEN (bits % 128) + 128 ELSE bits % 256]
Varint(n) ==
  [i \in 1 .. VarintLen(n) |->
     LET bits == n \div 128^(i - 1) IN
     IF i < VarintLen(n) THEN (bits % 128) + 128 ELSE bits % 256]

(* What the reader makes of them: it stops at the first byte without the   *)
(* eighth bit (lines 204-214).  The bits are shifted in an int, which the  *)
(* fifth byte may go beyond: what is left of it has a sign, which becomes  *)
(* the upper 32 bits of a size_t (2147483647 is 2^31 - 1).                 *)
Digit(bytes, i) ==
  IF i \in DOMAIN bytes /\ \A j \in 1 .. i - 1 : bytes[j] >= 128
  THEN (bytes[i] % 128) * 128^(i - 1)
  ELSE 0
Ints == 2^32
AsSize(d) ==
  IF d <= 2147483647 THEN d
  ELSE LET int == d % Ints
       IN  IF int <= 2147483647 THEN int ELSE int + (Ints - 1) * Ints
VarintValue(bytes) ==
  Digit(bytes, 1) + Digit(bytes, 2) + Digit(bytes, 3) + Digit(bytes, 4)
    + AsSize(Digit(bytes, 5))

SnzipBlock ==
  /\ Encoding("snzip") /\ HasInput
  /\ \E c \in CompressedSizes(Chunk) :
       Put(Block(VarintValue(Varint(c)), c, taken, Chunk))

SnzipEnd == Encoding("snzip") /\ Finish(<<Item("end", 0, taken)>>)

(* Detection does not take a file with block size 0 for one of snzip.      *)
SnzipOpen ==
  /\ Opening("snzip")
  /\ IF /\ HeaderFine /\ This.len <= MaxShift
        /\ phase = "detected" => This.len > 0
     THEN Opened(Fresh(2^This.len))
     ELSE Turn("failed")

EndMark(item) == item.kind = "end" \/ (item.kind = "block" /\ item.len = 0)
AtEndMark == ~AtEnd /\ EndMark(This)

MutEndAtEof ==
  /\ Decoding("snzip", "blocks")
  /\ ~AtEnd => EndMark(This)
  /\ Turn("done")

(* A length of 0 ends the file, whatever comes after it.                   *)
SnzipDone ==
  /\ Decoding("snzip", "blocks")
  /\ AtEndMark
  /\ Turn("done")

MutReadUnlimited ==
  /\ Decoding("snzip", "blocks")
  /\ ~AtEndMark
  /\ IF Found("block") THEN Hold(wb) ELSE Turn("failed")

(* Bytes that are no block lead to data snappy does not accept.            *)
SnzipRead ==
  /\ Decoding("snzip", "blocks")
  /\ ~AtEndMark
  /\ IF Found("block") /\ This.len <= wb.c THEN Hold(wb) ELSE Turn("failed")

SnzipWrite ==
  /\ Decoding("snzip", "held")
  /\ IF Acceptable(This) /\ This.n <= wb.uc THEN Written(wb) ELSE Turn("failed")

SnzipCompress == SnzipBegin \/ SnzipBlock \/ SnzipEnd
SnzipUncompress == SnzipOpen \/ SnzipDone \/ SnzipRead \/ SnzipWrite

=============================================================================
