------------------------------- MODULE Crc32c -------------------------------
(***************************************************************************)
(* The checksum of the framing, snappy-in-java and comment-43 formats:     *)
(* crc32.c, crc32_sse4_2.c and the calls in crc32.h.                       *)
(*                                                                         *)
(* A register of 32 bits is the set of the positions of the bits that are  *)
(* one, a byte a set of positions from 0 to 7; << and >> move positions, ^ *)
(* is the symmetric difference.  A buffer has its address, its length and  *)
(* its bytes.                                                              *)
(*                                                                         *)
(* A definition Mut... is a plausible bug in the one after it.             *)
(***************************************************************************)
EXTENDS Integers, Sequences, FiniteSetsExt

CONSTANTS
  Builds,   \* what has been compiled: "x86_64" and "i386" with
            \* crc32_sse4_2.c, "portable" without
  Texts     \* bound: the bytes that the buffers hold

ASSUME TextsAssumption == Texts \subseteq Seq(SUBSET (0 .. 7))

VARIABLES
  build,   \* what has been compiled
  cpu,     \* sse4_2_is_available()
  func,    \* crc32c_func: "select", "sse4_2" or "NULL"
  buf,     \* the buffer of the call
  crc,     \* the register
  pos,     \* how many bytes of the buffer have gone into it
  left,    \* how many are to come in the loop the call is in
  load,    \* history: where the last read was, and how wide
  phase

machine == <<build, cpu>>
vars == <<machine, func, buf, crc, pos, left, load, phase>>

-----------------------------------------------------------------------------
(* The polynomial and its tables.                                          *)

(* 0x1EDC6F41 with its bits reversed: 0x82F63B78.                          *)
Polynomial == {3, 4, 5, 6, 8, 9, 11, 12, 13, 17, 18, 20, 21, 22, 23, 25, 31}
Xor(a, b) == SymDiff(a, b)
Right(r, n) == {i - n : i \in {j \in r : j >= n}}
Byte(r, j) == {i \in 0 .. 7 : i + 8 * j \in r}

(* Division by one bit, of a register of any width, and by n bits.        *)
Step(r) == IF 0 \in r THEN Xor(Right(r, 1), Polynomial) ELSE Right(r, 1)
Divided(r, n) ==
  LET rest[i \in Nat] == IF i = 0 THEN r ELSE Step(rest[i - 1]) IN rest[n]

(* The entry for byte b of the table that moves it through k bytes.        *)
Entry(k, b) == Divided(b, 8 * k)

crc32Table(b) == Entry(1, b)
O32(b) == Entry(1, b)
O40(b) == Entry(2, b)
O48(b) == Entry(3, b)
O56(b) == Entry(4, b)
MutO64(b) == Entry(4, b)
O64(b) == Entry(5, b)
O72(b) == Entry(6, b)
O80(b) == Entry(7, b)
O88(b) == Entry(8, b)

-----------------------------------------------------------------------------
(* A call.                                                                 *)

Buffers ==
  {[addr |-> a, len |-> Len(t), text |-> t] : a \in 0 .. 3, t \in Texts}
NoBuffer == [addr |-> 0, len |-> 0, text |-> <<>>]
Content(i) == buf.text[i + 1]

(* The n bytes at pos as a number, the first the lowest.                   *)
Word(n) == {i \in 0 .. 8 * n - 1 : i % 8 \in Content(pos + (i \div 8))}

Init ==
  /\ build \in Builds /\ cpu \in BOOLEAN
  /\ func = (IF build = "portable" THEN "NULL" ELSE "select")
  /\ buf = NoBuffer /\ crc = {} /\ pos = 0 /\ left = 0
  /\ load = [at |-> 0, width |-> 1] /\ phase = "idle"

(* masked_crc32c(): the register starts with all bits set.                 *)
Call ==
  /\ phase = "idle"
  /\ buf' \in Buffers
  /\ crc' = 0 .. 31 /\ phase' = "call"
  /\ UNCHANGED <<machine, func, pos, left, load>>

(* select_crc32c_func(), the function pointer's first value, sets it and   *)
(* calls calculate_crc32c() again.                                         *)
Select ==
  /\ phase = "call" /\ func = "select"
  /\ func' = IF cpu THEN "sse4_2" ELSE "NULL"
  /\ UNCHANGED <<machine, buf, crc, pos, left, load, phase>>

MutInitBytes == buf.addr % 4
InitBytes == 4 - (buf.addr % 4)
RunningLength == ((buf.len - InitBytes) \div 8) * 8
EndBytes == buf.len - InitBytes - RunningLength

(* calculate_crc32c() and what multitable_crc32c() finds out.              *)
Dispatch ==
  /\ phase = "call" /\ func # "select"
  /\ \/ func = "sse4_2" /\ phase' = "sse4_2" /\ UNCHANGED left
     \/ func = "NULL" /\ buf.len < 4 /\ phase' = "single" /\ left' = buf.len
     \/ func = "NULL" /\ buf.len >= 4 /\ phase' = "head" /\ left' = InitBytes
  /\ UNCHANGED <<machine, func, buf, crc, pos, load>>

(* The loops: one byte through a table, or eight.                          *)
Take(n, width) ==
  /\ pos' = pos + n /\ load' = [at |-> pos + n - width, width |-> width]
  /\ UNCHANGED <<machine, func, buf, phase>>
OneByte ==
  /\ left > 0 /\ left' = left - 1
  /\ crc' = Xor(O32(Byte(Xor(crc, Content(pos)), 0)), Right(crc, 8))
  /\ Take(1, 1)
Loop(this, next, n) ==
  /\ phase = this /\ left = 0
  /\ phase' = next /\ left' = n
  /\ UNCHANGED <<machine, func, buf, crc, pos, load>>

SingleTable ==
  /\ phase = "single" /\ left > 0 /\ left' = left - 1
  /\ crc' = Xor(crc32Table(Byte(Xor(crc, Content(pos)), 0)), Right(crc, 8))
  /\ Take(1, 1)
SingleEnds == Loop("single", "return", 0)

HeadByte == phase = "head" /\ OneByte
HeadEnds == Loop("head", "slices", RunningLength)

(* Two words of four bytes, the first of which goes into the register.     *)
Slice ==
  /\ phase = "slices" /\ left > 0 /\ left' = left - 8
  /\ LET low == Xor(crc, {i \in Word(8) : i < 32})
         high == Right(Word(8), 32)
         term1 == Xor(O88(Byte(low, 0)), O80(Byte(low, 1)))
         term2 == Right(low, 16)
         half == Xor(Xor(term1, O72(Byte(term2, 0))), O64(Byte(term2, 1)))
         term3 == Xor(O56(Byte(high, 0)), O48(Byte(high, 1)))
         term4 == Right(high, 16)
     IN crc' = Xor(Xor(Xor(half, term3), O40(Byte(term4, 0))), O32(Byte(term4, 1)))
  /\ Take(8, 4)
SlicesEnd == Loop("slices", "tail", EndBytes)

TailByte == phase = "tail" /\ OneByte
TailEnds == Loop("tail", "return", 0)

(* The instruction crc32 (external) for n bytes: they and the register are *)
(* divided as one number.                                                  *)
Instruction(n) == Divided(Xor(crc, Word(n)), 8 * n)

(* calculate_crc32c_sse4_2(): as many of the widest words as there are,    *)
(* then one of each narrower one the length has a bit for.                 *)
Rest == buf.len - pos
SseWidth ==
  IF build = "x86_64" /\ Rest >= 8 THEN 8
  ELSE IF Rest >= 4 THEN 4 ELSE IF Rest >= 2 THEN 2 ELSE 1
Sse ==
  /\ phase = "sse4_2" /\ Rest > 0
  /\ crc' = Instruction(SseWidth) /\ Take(SseWidth, SseWidth)
  /\ UNCHANGED left
SseEnds ==
  /\ Rest = 0 /\ Loop("sse4_2", "return", 0)

(* masked_crc32c() takes the complement; the caller goes on to other work. *)
Result == (0 .. 31) \ crc
Return ==
  /\ phase = "return"
  /\ buf' = NoBuffer /\ crc' = {} /\ pos' = 0
  /\ load' = [at |-> 0, width |-> 1] /\ phase' = "idle"
  /\ UNCHANGED <<machine, func, left>>

Multitable == HeadByte \/ HeadEnds \/ Slice \/ SlicesEnd \/ TailByte \/ TailEnds
Next ==
  \/ Call \/ Select \/ Dispatch \/ SingleTable \/ SingleEnds \/ Multitable
  \/ Sse \/ SseEnds \/ Return

Spec == Init /\ [][Next]_vars

-----------------------------------------------------------------------------
(* Properties.                                                             *)

(* The definition of the checksum: the buffer goes through the register    *)
(* bit by bit, each byte's lowest bit first.                               *)
Input(i) == IF i % 8 \in Content(i \div 8) THEN {0} ELSE {}
Register[i \in Nat] ==
  IF i = 0 THEN 0 .. 31 ELSE Step(Xor(Register[i - 1], Input(i - 1)))
Remainder == (0 .. 31) \ Register[8 * buf.len]

(* Whatever the address and the length of the buffer, the processor and    *)
(* the number of the call, the checksum returned is the remainder          *)
(* (crc32.c:675-744, 861-890; crc32_sse4_2.c:35-67).                       *)
ReturnsRemainder == phase = "return" => pos = buf.len /\ Result = Remainder

(* No read goes past the end of the buffer, and those of more than a byte  *)
(* are aligned where the processor may ask for it (crc32.c:683, 696, 710,  *)
(* 742).                                                                   *)
LoadsInBuffer ==
  phase \notin {"idle", "call"} =>
    /\ pos <= buf.len /\ left <= buf.len
    /\ func = "NULL" => (buf.addr + load.at) % load.width = 0

=============================================================================
