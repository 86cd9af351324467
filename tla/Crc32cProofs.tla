----------------------------- MODULE Crc32cProofs -----------------------------
(***************************************************************************)
(* Proofs about the checksum: for buffers of every length, at every        *)
(* address, with any bytes, the loops read the whole buffer, and nothing   *)
(* behind it, with words that are aligned where the processor may ask for  *)
(* it, and what they read becomes the remainder.                           *)
(*                                                                         *)
(* The remainder is that of a division bit by bit.  Two facts carry the    *)
(* way from there to the tables: a step of the division is linear, and a   *)
(* register with no bit below n is only moved by n steps.  So the bytes to *)
(* come may go into the register all at once, and each byte of a register  *)
(* may go through a table of its own.                                      *)
(***************************************************************************)
EXTENDS Crc32c, WellFoundedInduction, TLAPS

Loops == {"single", "head", "slices", "tail"}

(* Where the call is: which loops the function has, and how far each one   *)
(* is to go.                                                               *)
Way ==
  /\ phase \in Loops \cup {"idle", "call", "sse4_2", "return"}
  /\ phase \in Loops => func = "NULL"
  /\ phase = "sse4_2" => func = "sse4_2"
Extent ==
  /\ buf.addr \in 0 .. 3 /\ buf.len \in Nat /\ pos \in Nat /\ left \in Nat
  /\ phase \in {"idle", "call"} => pos = 0
  /\ phase \notin Loops => left = 0
  /\ phase \in {"single", "tail", "return"} => pos + left = buf.len
  /\ phase = "head" => buf.len >= 4 /\ pos + left = InitBytes
  /\ phase = "slices" => /\ buf.len >= 4 /\ left % 8 = 0
                         /\ pos + left = InitBytes + RunningLength
                         /\ (buf.addr + pos) % 4 = 0
  /\ pos <= buf.len

(* Words of four bytes are read from addresses that four divides.          *)
Alignment ==
  /\ phase \in {"idle", "call"} => load.at = 0 /\ load.width = 1
  /\ func = "NULL" =>
       /\ load.at \in Nat
       /\ \/ load.width = 1
          \/ load.width = 4 /\ (buf.addr + load.at) % 4 = 0

(* The inductive invariant.                                                *)
IInv == Way /\ Extent /\ Alignment

-----------------------------------------------------------------------------
(* The three parts of a buffer of four bytes or more: up to an address     *)
(* that four divides, as many times eight as there are, and the rest.      *)
LEMMA Parts ==
  ASSUME buf.addr \in 0 .. 3, buf.len \in Nat, buf.len >= 4
  PROVE  /\ InitBytes \in 1 .. 4 /\ RunningLength \in Nat /\ EndBytes \in Nat
         /\ InitBytes + RunningLength + EndBytes = buf.len
         /\ RunningLength % 8 = 0
         /\ (buf.addr + InitBytes) % 4 = 0
<1>1. InitBytes \in 1 .. 4 /\ (buf.addr + InitBytes) % 4 = 0
  BY DEF InitBytes
<1> PICK n \in Nat : n = buf.len - InitBytes
  BY <1>1
<1>2. /\ (n \div 8) * 8 \in 0 .. n /\ ((n \div 8) * 8) % 8 = 0
  OBVIOUS
<1>3. RunningLength = (n \div 8) * 8
  BY DEF RunningLength
<1> QED
  BY <1>1, <1>2, <1>3 DEF EndBytes

LEMMA InitInvariant == Init => IInv
<1> SUFFICES ASSUME Init PROVE IInv
  OBVIOUS
<1>1. /\ buf.addr = 0 /\ buf.len = 0 /\ pos = 0 /\ left = 0 /\ phase = "idle"
      /\ load.at = 0 /\ load.width = 1
  BY DEF Init, NoBuffer
<1> QED
  BY <1>1 DEF IInv, Way, Extent, Alignment, Loops

(* The steps outside the loops.                                            *)
LEMMA CallKeeps == IInv /\ (Call \/ Select \/ Dispatch \/ Return) => IInv'
<1> SUFFICES ASSUME IInv, Call \/ Select \/ Dispatch \/ Return PROVE IInv'
  OBVIOUS
<1>1. CASE Call
  <2>1. /\ phase = "idle" /\ phase' = "call" /\ UNCHANGED <<func, pos, left, load>>
        /\ buf' \in Buffers
    BY <1>1 DEF Call, machine
  <2>2. buf'.addr \in 0 .. 3 /\ buf'.len \in Nat
    BY <2>1, TextsAssumption DEF Buffers
  <2>3. Extent'
    BY <2>1, <2>2 DEF IInv, Extent, Loops
  <2>4. Alignment'
    <3>1. load.at = 0 /\ load.width = 1
      BY <2>1 DEF IInv, Alignment
    <3> QED
      BY <2>1, <3>1 DEF Alignment
  <2>5. Way'
    BY <2>1 DEF Way, Loops
  <2> QED
    BY <2>3, <2>4, <2>5 DEF IInv
<1>2. CASE Select
  BY <1>2 DEF Select, machine, IInv, Way, Extent, Alignment, Loops
<1>3. CASE Dispatch
  <2>1. /\ phase = "call" /\ pos = 0 /\ left = 0
        /\ UNCHANGED <<func, buf, pos, load>>
        /\ buf.addr \in 0 .. 3 /\ buf.len \in Nat
    BY <1>3 DEF Dispatch, machine, IInv, Extent, Loops
  <2>2. /\ Way' /\ phase' \in {"sse4_2", "single", "head"}
        /\ phase' = "sse4_2" => left' = 0
        /\ phase' = "single" => left' = buf.len
        /\ phase' = "head" => buf.len >= 4 /\ left' = InitBytes
    BY <1>3, <2>1 DEF Dispatch, Way, Loops
  <2>3. Alignment'
    BY <2>1, <2>2 DEF IInv, Alignment
  <2>4. buf.len >= 4 => InitBytes \in Nat
    BY <2>1, Parts
  <2>5. Extent'
    BY <2>1, <2>2, <2>4 DEF Extent, Loops, InitBytes
  <2> QED
    BY <2>2, <2>3, <2>5 DEF IInv
<1>4. CASE Return
  BY <1>4 DEF Return, NoBuffer, machine, IInv, Way, Extent, Alignment, Loops
<1> QED
  BY <1>1, <1>2, <1>3, <1>4

(* The loops that take one byte at a time.                                 *)
LEMMA ByteKeeps == IInv /\ (SingleTable \/ HeadByte \/ TailByte) => IInv'
<1> SUFFICES ASSUME IInv, SingleTable \/ HeadByte \/ TailByte PROVE IInv'
  OBVIOUS
<1>1. /\ phase \in {"single", "head", "tail"} /\ left > 0 /\ left' = left - 1
      /\ pos' = pos + 1 /\ load' = [at |-> pos + 1 - 1, width |-> 1]
      /\ UNCHANGED <<func, buf, phase>>
  BY DEF SingleTable, HeadByte, TailByte, OneByte, Take
<1>2. load'.at \in Nat /\ load'.width = 1
  BY <1>1 DEF IInv, Extent
<1>3. Alignment' /\ Way'
  BY <1>1, <1>2 DEF IInv, Alignment, Way
<1>4. Extent'
  BY <1>1 DEF IInv, Extent, Loops, InitBytes, RunningLength
<1> QED
  BY <1>3, <1>4 DEF IInv

(* The loop that takes eight, as two words.                                *)
LEMMA SliceKeeps == IInv /\ Slice => IInv'
<1> SUFFICES ASSUME IInv, Slice PROVE IInv'
  OBVIOUS
<1>1. /\ phase = "slices" /\ left > 0 /\ left' = left - 8 /\ pos' = pos + 8
      /\ load' = [at |-> pos + 8 - 4, width |-> 4]
      /\ UNCHANGED <<func, buf, phase>>
  BY DEF Slice, Take
<1>2. /\ load'.at = pos + 4 /\ load'.width = 4
  BY <1>1 DEF IInv, Extent
<1>3. (buf.addr + pos) % 4 = 0 /\ left % 8 = 0 /\ left \in Nat /\ pos \in Nat
      /\ buf.addr \in 0 .. 3
  BY <1>1 DEF IInv, Extent
<1>4. /\ (buf.addr + (pos + 4)) % 4 = 0 /\ (buf.addr + (pos + 8)) % 4 = 0
  <2>1. PICK a \in 0 .. 3, p \in Nat : a = buf.addr /\ p = pos
    BY <1>3
  <2>2. (a + p) % 4 = 0
    BY <1>3, <2>1, Zenon
  <2>3. (a + (p + 4)) % 4 = 0 /\ (a + (p + 8)) % 4 = 0
    BY <2>2
  <2> QED
    BY <2>1, <2>3, Zenon
<1>5. left >= 8 /\ (left - 8) % 8 = 0
  <2>1. PICK n \in Nat : n = left
    BY <1>3
  <2>2. n % 8 = 0 /\ n > 0
    BY <1>1, <1>3, <2>1, Zenon
  <2>3. n >= 8 /\ (n - 8) % 8 = 0
    BY <2>2
  <2> QED
    BY <2>1, <2>3
<1>6. Alignment' /\ Way'
  BY <1>1, <1>2, <1>3, <1>4 DEF IInv, Alignment, Way
<1>7. Extent'
  BY <1>1, <1>3, <1>4, <1>5, Parts DEF IInv, Extent, Loops, InitBytes, RunningLength
<1> QED
  BY <1>6, <1>7 DEF IInv

(* From one loop to the next.                                              *)
LEMMA LoopKeeps ==
  IInv /\ (SingleEnds \/ HeadEnds \/ SlicesEnd \/ TailEnds) => IInv'
<1> SUFFICES ASSUME IInv, SingleEnds \/ HeadEnds \/ SlicesEnd \/ TailEnds
             PROVE  IInv'
  OBVIOUS
<1>1. /\ UNCHANGED <<func, buf, pos, load>> /\ left = 0 /\ phase \in Loops
      /\ phase' \in {"return", "slices", "tail"}
  BY DEF SingleEnds, HeadEnds, SlicesEnd, TailEnds, Loop, machine, Loops
<1>2. Alignment' /\ func = "NULL"
  BY <1>1 DEF IInv, Alignment, Way
<1>3. CASE SingleEnds \/ TailEnds
  <2>1. phase \in {"single", "tail"} /\ phase' = "return" /\ left' = 0
    BY <1>3 DEF SingleEnds, TailEnds, Loop
  <2>2. Extent'
    BY <1>1, <2>1 DEF IInv, Extent, Loops
  <2> QED
    BY <1>2, <2>1, <2>2 DEF IInv, Way, Loops
<1>4. CASE HeadEnds
  <2>1. phase = "head" /\ phase' = "slices" /\ left' = RunningLength
    BY <1>4 DEF HeadEnds, Loop
  <2>2. pos = InitBytes /\ buf.len >= 4 /\ buf.addr \in 0 .. 3 /\ buf.len \in Nat
    BY <1>1, <2>1, Parts DEF IInv, Extent
  <2>3. Extent'
    BY <1>1, <2>1, <2>2, Parts DEF IInv, Extent, Loops, InitBytes, RunningLength
  <2> QED
    BY <1>1, <1>2, <2>1, <2>3 DEF IInv, Way, Loops
<1>5. CASE SlicesEnd
  <2>1. phase = "slices" /\ phase' = "tail" /\ left' = EndBytes
    BY <1>5 DEF SlicesEnd, Loop
  <2>2. /\ pos = InitBytes + RunningLength /\ buf.len >= 4
        /\ buf.addr \in 0 .. 3 /\ buf.len \in Nat
    BY <1>1, <2>1, Parts DEF IInv, Extent
  <2>3. Extent'
    BY <1>1, <2>1, <2>2, Parts DEF IInv, Extent, Loops
  <2> QED
    BY <1>1, <1>2, <2>1, <2>3 DEF IInv, Way, Loops
<1> QED
  BY <1>3, <1>4, <1>5

(* The instructions for 8, 4, 2 and 1 bytes.                               *)
LEMMA SseKeeps == IInv /\ (Sse \/ SseEnds) => IInv'
<1> SUFFICES ASSUME IInv, Sse \/ SseEnds PROVE IInv'
  OBVIOUS
<1>1. phase = "sse4_2" /\ UNCHANGED <<func, buf>>
  BY DEF Sse, SseEnds, Take, Loop
<1>2. CASE Sse
  <2>1. SseWidth \in 1 .. Rest
    BY <1>2 DEF Sse, SseWidth, Rest, IInv, Extent
  <2>2. pos' = pos + SseWidth /\ UNCHANGED <<left, phase>>
    BY <1>2 DEF Sse, Take
  <2>3. Extent'
    BY <1>1, <2>1, <2>2 DEF IInv, Extent, Loops, Rest
  <2> QED
    BY <1>1, <2>2, <2>3 DEF IInv, Way, Alignment
<1>3. CASE SseEnds
  <2>1. /\ buf.len - pos = 0 /\ phase' = "return" /\ left' = 0
        /\ UNCHANGED <<pos, load>>
    BY <1>3 DEF SseEnds, Rest, Loop
  <2>2. Extent'
    BY <1>1, <2>1 DEF IInv, Extent, Loops
  <2> QED
    BY <1>1, <2>1, <2>2 DEF IInv, Way, Alignment, Loops
<1> QED
  BY <1>2, <1>3

LEMMA StepInvariant == IInv /\ [Next]_vars => IInv'
<1> SUFFICES ASSUME IInv, [Next]_vars PROVE IInv'
  OBVIOUS
<1>1. CASE UNCHANGED vars
  BY <1>1 DEF vars, IInv, Way, Extent, Alignment, InitBytes, RunningLength
<1> QED
  BY <1>1, CallKeeps, ByteKeeps, SliceKeeps, LoopKeeps, SseKeeps
     DEF Next, Multitable

-----------------------------------------------------------------------------
(* What is read.                                                           *)

(* The loops stay within their part of the buffer, in every call.          *)
THEOREM Invariant == Spec => []IInv
BY InitInvariant, StepInvariant, PTL DEF Spec

(* No read goes past the end of the buffer, whatever its length, and words *)
(* of four bytes are aligned (crc32.c:675-744, crc32_sse4_2.c:35-67).      *)
THEOREM ReadsInBuffer == Spec => []LoadsInBuffer
<1>1. IInv => LoadsInBuffer
  <2> SUFFICES ASSUME IInv, phase \notin {"idle", "call"}
               PROVE  /\ pos <= buf.len /\ left <= buf.len
                      /\ func = "NULL" => (buf.addr + load.at) % load.width = 0
    BY DEF LoadsInBuffer
  <2>1. pos <= buf.len /\ left <= buf.len
    <3>1. CASE phase = "head" \/ phase = "slices"
      BY <3>1, Parts DEF IInv, Extent
    <3>2. CASE phase \in {"single", "tail", "return"} \/ phase = "sse4_2"
      BY <3>2 DEF IInv, Extent, Loops
    <3> QED
      BY <3>1, <3>2 DEF IInv, Way, Loops
  <2>2. ASSUME func = "NULL" PROVE (buf.addr + load.at) % load.width = 0
    <3>1. buf.addr \in 0 .. 3 /\ load.at \in Nat
      BY <2>2 DEF IInv, Extent, Alignment
    <3> QED
      BY <2>2, <3>1 DEF IInv, Alignment
  <2> QED
    BY <2>1, <2>2
<1> QED
  BY <1>1, Invariant, PTL

(* When the checksum is returned every byte of the buffer has gone into    *)
(* it: head, words and tail, and the widths of the instruction, add up to  *)
(* the length (crc32.c:713-743, crc32_sse4_2.c:35-67).                     *)
THEOREM TakesEveryByte == Spec => [](phase = "return" => pos = buf.len)
<1>1. IInv => (phase = "return" => pos = buf.len)
  BY DEF IInv, Extent, Loops
<1> QED
  BY <1>1, Invariant, PTL

-----------------------------------------------------------------------------
(* Recursion over the natural numbers.                                     *)

(* Induction, for the set S of the numbers for which something holds.      *)
LEMMA SetInduction ==
  ASSUME NEW S, 0 \in S, \A n \in Nat : n \in S => n + 1 \in S
  PROVE  Nat \subseteq S
<1> SUFFICES ASSUME NEW least \in Nat, least \notin S PROVE FALSE
  OBVIOUS
<1> DEFINE Left == {n \in Nat : n \notin S}
           Below == OpToRel(<, Nat)
<1>1. PICK x \in Left : \A y \in Left : <<y, x>> \notin Below
  <2>1. IsWellFoundedOn(Below, Nat)
    BY NatLessThanWellFounded
  <2>2. Left \subseteq Nat /\ Left # {}
    OBVIOUS
  <2> HIDE DEF Left, Below
  <2> QED
    BY <2>1, <2>2, WFMin
<1>2. x # 0 /\ x - 1 \in Nat
  OBVIOUS
<1>3. x - 1 \in S
  <2>1. <<x - 1, x>> \in Below
    BY <1>2 DEF OpToRel
  <2> QED
    BY <1>1, <1>2, <2>1
<1> QED
  BY <1>2, <1>3

(* f is the first values, up to n, of the function of v and H.             *)
Begins(f, n, V, v, H) ==
  /\ f \in [0 .. n -> V] /\ f[0] = v
  /\ \A i \in 1 .. n : f[i] = H[<<i, f[i - 1]>>]

(* Two of them agree as far as both go.                                    *)
LEMMA BeginningsAgree ==
  ASSUME NEW V, NEW v, NEW H, NEW m \in Nat, NEW n \in Nat, m <= n,
         NEW f, NEW g, Begins(f, m, V, v, H), Begins(g, n, V, v, H)
  PROVE  \A i \in 0 .. m : f[i] = g[i]
<1> DEFINE S == {i \in Nat : i <= m => f[i] = g[i]}
<1>1. 0 \in S
  BY DEF Begins
<1>2. ASSUME NEW i \in Nat, i \in S PROVE i + 1 \in S
  <2> SUFFICES ASSUME i + 1 <= m PROVE f[i + 1] = g[i + 1]
    OBVIOUS
  <2>1. /\ i + 1 \in 1 .. m /\ i + 1 \in 1 .. n /\ (i + 1) - 1 = i
        /\ f[i] = g[i]
    BY <1>2
  <2>2. f[i + 1] = H[<<i + 1, f[i]>>] /\ g[i + 1] = H[<<i + 1, g[i]>>]
    BY <2>1 DEF Begins
  <2> QED
    BY <2>1, <2>2
<1>3. Nat \subseteq S
  <2> HIDE DEF S
  <2> QED
    BY <1>1, <1>2, SetInduction
<1> QED
  BY <1>3

(* There is one of every length.                                           *)
LEMMA BeginningsExist ==
  ASSUME NEW V, NEW v \in V, NEW H \in [Nat \X V -> V], NEW n \in Nat
  PROVE  \E f : Begins(f, n, V, v, H)
<1> DEFINE S == {i \in Nat : \E f : Begins(f, i, V, v, H)}
<1>1. 0 \in S
  <2>1. Begins([i \in 0 .. 0 |-> v], 0, V, v, H)
    BY DEF Begins
  <2> QED
    BY <2>1
<1>2. ASSUME NEW i \in Nat, i \in S PROVE i + 1 \in S
  <2>1. PICK f : Begins(f, i, V, v, H)
    BY <1>2
  <2>2. PICK w \in V : w = H[<<i + 1, f[i]>>]
    <3>1. f[i] \in V
      BY <2>1 DEF Begins
    <3> QED
      BY <3>1
  <2> DEFINE g == [j \in 0 .. i + 1 |-> IF j = i + 1 THEN w ELSE f[j]]
  <2>3. /\ g \in [0 .. i + 1 -> V] /\ g[i + 1] = w
        /\ \A j \in 0 .. i : g[j] = f[j]
    BY <2>1 DEF Begins
  <2> HIDE DEF g
  <2>4. ASSUME NEW j \in 1 .. i + 1 PROVE g[j] = H[<<j, g[j - 1]>>]
    <3>1. CASE j = i + 1
      <4>1. j - 1 = i /\ i \in 0 .. i
        BY <3>1
      <4> QED
        BY <2>2, <2>3, <3>1, <4>1
    <3>2. CASE j # i + 1
      <4>1. j \in 1 .. i /\ j - 1 \in 0 .. i /\ j \in 0 .. i
        BY <3>2
      <4> QED
        BY <2>1, <2>3, <4>1 DEF Begins
    <3> QED
      BY <3>1, <3>2
  <2>5. g[0] = v
    BY <2>1, <2>3 DEF Begins
  <2> QED
    BY <2>3, <2>4, <2>5 DEF Begins
<1>3. Nat \subseteq S
  <2> HIDE DEF S
  <2> QED
    BY <1>1, <1>2, SetInduction
<1> QED
  BY <1>3

(* So there is a function of all natural numbers.                          *)
Rule(H, V) == H \in [Nat \X V -> V]
Follows(g, V, v, H) ==
  /\ g \in [Nat -> V] /\ g[0] = v
  /\ \A i \in Nat \ {0} : i - 1 \in Nat /\ g[i] = H[<<i, g[i - 1]>>]
LEMMA Recursion ==
  ASSUME NEW V, NEW v \in V, NEW H, Rule(H, V)
  PROVE  \E g : Follows(g, V, v, H)
<1> DEFINE F(n) == CHOOSE f : Begins(f, n, V, v, H)
           g == [n \in Nat |-> F(n)[n]]
<1>1. \A n \in Nat : Begins(F(n), n, V, v, H)
  BY BeginningsExist DEF Rule
<1>2. ASSUME NEW n \in Nat, NEW i \in 0 .. n PROVE F(i)[i] = F(n)[i]
  <2>1. i \in Nat /\ i <= n /\ i \in 0 .. i
    OBVIOUS
  <2> HIDE DEF F
  <2>2. PICK f, h : f = F(i) /\ h = F(n)
    OBVIOUS
  <2>3. Begins(f, i, V, v, H) /\ Begins(h, n, V, v, H)
    BY <1>1, <2>1, <2>2
  <2>4. \A x \in 0 .. i : f[x] = h[x]
    <3>1. i \in Nat /\ n \in Nat /\ i <= n
      BY <2>1
    <3> QED
      BY <2>3, <3>1, BeginningsAgree
  <2> QED
    BY <2>1, <2>2, <2>4
<1> HIDE DEF F
<1>3. \A n \in Nat : F(n)[n] \in V
  BY <1>1 DEF Begins
<1>4. g \in [Nat -> V] /\ \A n \in Nat : g[n] = F(n)[n]
  BY <1>3
<1>5. g[0] = v
  BY <1>1, <1>4 DEF Begins
<1>6. ASSUME NEW i \in Nat \ {0} PROVE g[i] = H[<<i, g[i - 1]>>]
  <2>1. i - 1 \in Nat /\ i - 1 \in 0 .. i /\ i \in 1 .. i
    OBVIOUS
  <2>2. F(i)[i] = H[<<i, F(i)[i - 1]>>]
    BY <1>1, <2>1 DEF Begins
  <2>3. F(i - 1)[i - 1] = F(i)[i - 1]
    BY <1>2, <2>1
  <2> QED
    BY <1>4, <2>1, <2>2, <2>3
<1> HIDE DEF g
<1> QED
  BY <1>4, <1>5, <1>6 DEF Follows

-----------------------------------------------------------------------------
(* The bits of registers, bytes and words of any width.                    *)
Bits == SUBSET Nat

(* Exclusive or, bit by bit.                                               *)
LEMMA XorMember ==
  ASSUME NEW a, NEW b, NEW x
  PROVE  x \in Xor(a, b) <=> ((x \in a) # (x \in b))
BY DEF Xor, SymDiff

(* Exclusive or is a commutative group.                                    *)
LEMMA XorLaws ==
  ASSUME NEW a \in Bits, NEW b \in Bits, NEW c \in Bits
  PROVE  /\ Xor(a, b) \in Bits /\ Xor(a, b) = Xor(b, a)
         /\ Xor(Xor(a, b), c) = Xor(a, Xor(b, c))
         /\ Xor(a, a) = {} /\ Xor(a, {}) = a /\ Xor(Xor(a, b), b) = a
BY DEF Xor, SymDiff, Bits

(* A register moved to the right, bit by bit.                              *)
LEMMA RightMember ==
  ASSUME NEW a \in Bits, NEW n \in Nat
  PROVE  /\ Right(a, n) \in Bits
         /\ \A x : x \in Right(a, n) <=> x \in Nat /\ x + n \in a
BY DEF Right, Bits

(* Moved by nothing, it stays.                                             *)
LEMMA RightByNone == ASSUME NEW r \in Bits PROVE Right(r, 0) = r
<1>1. \A x \in r : x \in Nat
  BY DEF Bits
<1>2. \A x \in Nat : x + 0 = x
  OBVIOUS
<1>3. \A x : x \in Right(r, 0) <=> x \in Nat /\ x + 0 \in r
  BY RightMember
<1> QED
  BY <1>1, <1>2, <1>3

(* One bit: what is moved, and the polynomial when a one falls off.        *)
LEMMA StepMember ==
  ASSUME NEW a \in Bits
  PROVE  /\ Step(a) \in Bits
         /\ \A x : x \in Step(a) <=>
              (x \in Nat /\ x + 1 \in a) # (0 \in a /\ x \in Polynomial)
<1>1. Polynomial \in Bits
  BY DEF Polynomial, Bits
<1>2. /\ Right(a, 1) \in Bits
      /\ \A x : x \in Right(a, 1) <=> x \in Nat /\ x + 1 \in a
  BY RightMember
<1>3. CASE 0 \in a
  <2>1. Step(a) = Xor(Right(a, 1), Polynomial)
    BY <1>3 DEF Step
  <2>2. Step(a) \in Bits
    BY <1>1, <1>2, <2>1, XorLaws
  <2>3. \A x : x \in Step(a) <=> ((x \in Right(a, 1)) # (x \in Polynomial))
    BY <2>1, XorMember
  <2> QED
    BY <1>2, <1>3, <2>2, <2>3
<1>4. CASE 0 \notin a
  <2>1. Step(a) = Right(a, 1)
    BY <1>4 DEF Step
  <2> QED
    BY <1>2, <1>4, <2>1, Zenon
<1> QED
  BY <1>3, <1>4

(* Division is linear: the bits of a register do not meet.                 *)
LEMMA StepLinear ==
  ASSUME NEW a \in Bits, NEW b \in Bits
  PROVE  Step(Xor(a, b)) = Xor(Step(a), Step(b))
<1>1. Xor(a, b) \in Bits
  BY XorLaws
<1>2. \A x : x \in Step(Xor(a, b)) <=>
        (x \in Nat /\ x + 1 \in Xor(a, b)) # (0 \in Xor(a, b) /\ x \in Polynomial)
  BY <1>1, StepMember
<1>3. \A x : x \in Xor(Step(a), Step(b)) <=> ((x \in Step(a)) # (x \in Step(b)))
  BY XorMember
<1>4. \A x : x \in Xor(a, b) <=> ((x \in a) # (x \in b))
  BY XorMember
<1>5. \A x : x \in Step(Xor(a, b)) <=> x \in Xor(Step(a), Step(b))
  BY <1>2, <1>3, <1>4, StepMember
<1> QED
  BY <1>5

(* Zero stays zero.                                                        *)
LEMMA StepOfNothing == {} \in Bits /\ Step({}) = {}
<1>1. {} \in Bits
  BY DEF Bits
<1>2. \A x : x \notin Step({})
  BY <1>1, StepMember
<1> QED
  BY <1>1, <1>2

(* What division by n bits is, as the function it defines exists.          *)
LEMMA DividedFacts ==
  ASSUME NEW r \in Bits
  PROVE  /\ Divided(r, 0) = r
         /\ \A n \in Nat : /\ Divided(r, n) \in Bits
                           /\ Divided(r, n + 1) = Step(Divided(r, n))
<1> DEFINE H == [x \in Nat \X Bits |-> Step(x[2])]
<1>1. H \in [Nat \X Bits -> Bits] /\ \A n \in Nat : \A a \in Bits : H[<<n, a>>] = Step(a)
  BY StepMember
<1> HIDE DEF H
<1>2. PICK g : Follows(g, Bits, r, H)
  BY <1>1, Recursion DEF Rule
<1>3. /\ g \in [Nat -> Bits] /\ g[0] = r
      /\ \A i \in Nat \ {0} : i - 1 \in Nat /\ g[i] = Step(g[i - 1])
  BY <1>1, <1>2 DEF Follows
<1> DEFINE Next1(f) == [i \in Nat |-> IF i = 0 THEN r ELSE Step(f[i - 1])]
<1>4. g = Next1(g)
  BY <1>3
<1> DEFINE rest == CHOOSE f : f = Next1(f)
<1>5. rest = Next1(rest)
  <2> HIDE DEF Next1
  <2> QED
    BY <1>4
<1>6. \A n : Divided(r, n) = rest[n]
  BY DEF Divided
<1>7. rest[0] = r /\ \A n \in Nat : rest[n + 1] = Step(rest[n])
  <2> HIDE DEF rest
  <2>1. rest[0] = r
    BY <1>5
  <2>2. ASSUME NEW n \in Nat PROVE rest[n + 1] = Step(rest[n])
    <3>1. n + 1 \in Nat /\ n + 1 # 0 /\ (n + 1) - 1 = n
      OBVIOUS
    <3> QED
      BY <1>5, <3>1
  <2> QED
    BY <2>1, <2>2
<1> HIDE DEF rest
<1>8. \A n \in Nat : rest[n] \in Bits
  <2> DEFINE S == {n \in Nat : rest[n] \in Bits}
  <2>1. 0 \in S
    BY <1>7
  <2>2. \A n \in Nat : n \in S => n + 1 \in S
    BY <1>7, StepMember
  <2>3. Nat \subseteq S
    <3> HIDE DEF S
    <3> QED
      BY <2>1, <2>2, SetInduction
  <2> QED
    BY <2>3
<1> QED
  BY <1>6, <1>7, <1>8

-----------------------------------------------------------------------------
(* The register of the definition, bit by bit: it stays one of 32 bits.    *)
Registers == SUBSET (0 .. 31)

LEMMA RegistersAreBits == Registers \subseteq Bits
BY DEF Registers, Bits

LEMMA InputIsBit == \A i : Input(i) \in {{}, {0}} /\ Input(i) \in Registers
BY DEF Input, Registers

(* One bit of input leaves a register of 32 bits one.                      *)
LEMMA StepStays ==
  ASSUME NEW a \in Registers, NEW i
  PROVE  Step(Xor(a, Input(i))) \in Registers
<1> PICK c : c = Xor(a, Input(i))
  OBVIOUS
<1>1. c \in Registers /\ c \in Bits
  <2>1. \A x \in c : x \in a \/ x \in Input(i)
    BY XorMember
  <2>2. \A x \in a \cup Input(i) : x \in 0 .. 31
    BY InputIsBit DEF Registers
  <2>3. \A x \in c : x \in 0 .. 31
    BY <2>1, <2>2
  <2> QED
    BY <2>3 DEF Registers, Bits
<1>2. ASSUME NEW x \in Step(c) PROVE x \in 0 .. 31
  <2>1. CASE x \in Polynomial
    BY <2>1 DEF Polynomial
  <2>2. CASE x \in Nat /\ x + 1 \in c
    BY <1>1, <2>2 DEF Registers
  <2> QED
    BY <1>1, <1>2, <2>1, <2>2, StepMember
<1> QED
  BY <1>2 DEF Registers

(* What the register is, as the function that defines it exists.           *)
LEMMA RegisterFacts ==
  /\ Register[0] = 0 .. 31
  /\ \A n \in Nat : /\ Register[n] \in Registers
                    /\ Register[n + 1] = Step(Xor(Register[n], Input(n)))
<1> DEFINE H == [x \in Nat \X Registers |-> Step(Xor(x[2], Input(x[1] - 1)))]
<1>1. /\ H \in [Nat \X Registers -> Registers]
      /\ \A n \in Nat : \A a \in Registers :
           H[<<n, a>>] = Step(Xor(a, Input(n - 1)))
  BY StepStays, Zenon
<1> HIDE DEF H
<1>2. 0 .. 31 \in Registers
  BY DEF Registers
<1>3. PICK g : Follows(g, Registers, 0 .. 31, H)
  BY <1>1, <1>2, Recursion DEF Rule
<1>4. /\ g \in [Nat -> Registers] /\ g[0] = 0 .. 31
      /\ \A i \in Nat \ {0} : i - 1 \in Nat /\ g[i] = Step(Xor(g[i - 1], Input(i - 1)))
  BY <1>1, <1>3 DEF Follows
<1> DEFINE Next1(f) == [i \in Nat |-> IF i = 0 THEN 0 .. 31
                                      ELSE Step(Xor(f[i - 1], Input(i - 1)))]
<1>5. g = Next1(g)
  BY <1>4
<1> DEFINE rest == CHOOSE f : f = Next1(f)
<1>6. rest = Next1(rest)
  <2> HIDE DEF Next1
  <2> QED
    BY <1>5
<1>7. Register = rest
  BY DEF Register
<1>8. /\ rest[0] = 0 .. 31
      /\ \A n \in Nat : rest[n + 1] = Step(Xor(rest[n], Input(n)))
  <2> HIDE DEF rest
  <2>1. rest[0] = 0 .. 31
    BY <1>6
  <2>2. ASSUME NEW n \in Nat PROVE rest[n + 1] = Step(Xor(rest[n], Input(n)))
    <3>1. n + 1 \in Nat /\ n + 1 # 0 /\ (n + 1) - 1 = n
      OBVIOUS
    <3> QED
      BY <1>6, <3>1
  <2> QED
    BY <2>1, <2>2
<1> HIDE DEF rest
<1>9. \A n \in Nat : rest[n] \in Registers
  <2> DEFINE S == {n \in Nat : rest[n] \in Registers}
  <2>1. 0 \in S
    BY <1>2, <1>8
  <2>2. \A n \in Nat : n \in S => n + 1 \in S
    BY <1>8, StepStays
  <2>3. Nat \subseteq S
    <3> HIDE DEF S
    <3> QED
      BY <2>1, <2>2, SetInduction
  <2> QED
    BY <2>3
<1> QED
  BY <1>7, <1>8, <1>9

-----------------------------------------------------------------------------
(* Division by several bits.                                               *)

(* Linear, too, by induction on the number of bits.                        *)
LEMMA DividedLinear ==
  ASSUME NEW a \in Bits, NEW b \in Bits, NEW n \in Nat
  PROVE  Divided(Xor(a, b), n) = Xor(Divided(a, n), Divided(b, n))
<1> PICK c : c = Xor(a, b)
  OBVIOUS
<1>1. c \in Bits
  BY XorLaws
<1> DEFINE S == {i \in Nat : Divided(c, i) = Xor(Divided(a, i), Divided(b, i))}
<1>2. 0 \in S
  BY <1>1, DividedFacts
<1>3. ASSUME NEW i \in Nat, i \in S PROVE i + 1 \in S
  <2>1. /\ Divided(a, i) \in Bits /\ Divided(b, i) \in Bits
        /\ Divided(c, i + 1) = Step(Divided(c, i))
        /\ Divided(a, i + 1) = Step(Divided(a, i))
        /\ Divided(b, i + 1) = Step(Divided(b, i))
    BY <1>1, DividedFacts
  <2>2. Divided(c, i + 1) = Xor(Divided(a, i + 1), Divided(b, i + 1))
    BY <1>3, <2>1, StepLinear
  <2> QED
    BY <2>2
<1>4. Nat \subseteq S
  <2> HIDE DEF S
  <2> QED
    BY <1>2, <1>3, SetInduction
<1> QED
  BY <1>4

(* Zero stays zero.                                                        *)
LEMMA DividedOfNothing == \A n \in Nat : Divided({}, n) = {}
<1> DEFINE S == {i \in Nat : Divided({}, i) = {}}
<1>1. 0 \in S
  BY StepOfNothing, DividedFacts
<1>2. ASSUME NEW i \in Nat, i \in S PROVE i + 1 \in S
  <2>1. Divided({}, i) = {} /\ Step({}) = {} /\ {} \in Bits
    BY <1>2, StepOfNothing
  <2>2. Divided({}, i + 1) = Step(Divided({}, i))
    BY <2>1, DividedFacts
  <2> QED
    BY <2>1, <2>2
<1>3. Nat \subseteq S
  <2> HIDE DEF S
  <2> QED
    BY <1>1, <1>2, SetInduction
<1> QED
  BY <1>3

(* By m bits and then by n is by m + n.                                    *)
LEMMA DividedTwice ==
  ASSUME NEW r \in Bits, NEW m \in Nat, NEW n \in Nat
  PROVE  Divided(r, m + n) = Divided(Divided(r, m), n)
<1> PICK q : q = Divided(r, m)
  OBVIOUS
<1>1. q \in Bits
  BY DividedFacts
<1> DEFINE S == {i \in Nat : Divided(r, m + i) = Divided(q, i)}
<1>2. 0 \in S
  <2>1. m + 0 = m /\ Divided(q, 0) = q
    BY <1>1, DividedFacts
  <2> QED
    BY <2>1
<1>3. ASSUME NEW i \in Nat, i \in S PROVE i + 1 \in S
  <2>1. m + i \in Nat /\ m + (i + 1) = (m + i) + 1
    OBVIOUS
  <2>2. /\ Divided(r, (m + i) + 1) = Step(Divided(r, m + i))
        /\ Divided(q, i + 1) = Step(Divided(q, i))
    BY <1>1, <2>1, DividedFacts
  <2>3. Divided(r, m + (i + 1)) = Divided(q, i + 1)
    BY <1>3, <2>1, <2>2
  <2> QED
    BY <2>3
<1>4. Nat \subseteq S
  <2> HIDE DEF S
  <2> QED
    BY <1>2, <1>3, SetInduction
<1> QED
  BY <1>4

(* Moving twice is moving once, and what has no bit below n is only moved. *)
LEMMA RightTwice ==
  ASSUME NEW r \in Bits, NEW m \in Nat, NEW n \in Nat
  PROVE  Right(Right(r, m), n) = Right(r, m + n)
<1>1. \A x : x \in Right(Right(r, m), n) <=> x \in Nat /\ x + n \in Right(r, m)
  BY RightMember
<1>2. \A x \in Nat : x + n \in Right(r, m) <=> (x + n) + m \in r
  BY RightMember
<1>3. \A x \in Nat : (x + n) + m = x + (m + n)
  OBVIOUS
<1>4. m + n \in Nat /\ \A x : x \in Right(r, m + n) <=> x \in Nat /\ x + (m + n) \in r
  BY RightMember
<1> QED
  BY <1>1, <1>2, <1>3, <1>4

LEMMA Shifted ==
  ASSUME NEW r \in Bits, NEW n \in Nat, r \cap (0 .. n - 1) = {}
  PROVE  Divided(r, n) = Right(r, n)
<1> DEFINE S == {i \in Nat : i <= n => Divided(r, i) = Right(r, i)}
<1>1. 0 \in S
  <2>1. Divided(r, 0) = r
    BY DividedFacts
  <2>2. Right(r, 0) = r
    BY RightByNone
  <2> QED
    BY <2>1, <2>2
<1>2. ASSUME NEW i \in Nat, i \in S PROVE i + 1 \in S
  <2> SUFFICES ASSUME i + 1 <= n PROVE Divided(r, i + 1) = Right(r, i + 1)
    OBVIOUS
  <2>1. Divided(r, i) = Right(r, i) /\ i \notin r /\ 0 + i = i
    BY <1>2
  <2>2. 0 \notin Right(r, i)
    BY <2>1, RightMember
  <2>3. Divided(r, i + 1) = Right(Right(r, i), 1)
    BY <2>1, <2>2, DividedFacts DEF Step
  <2> QED
    BY <2>3, RightTwice
<1>3. Nat \subseteq S
  <2> HIDE DEF S
  <2> QED
    BY <1>1, <1>2, SetInduction
<1> QED
  BY <1>3

(* A bit that has been taken into the register leaves what is to come.     *)
LEMMA BitTaken ==
  ASSUME NEW c \in Bits, NEW bit, bit = IF 0 \in c THEN {0} ELSE {}
  PROVE  bit \in Bits /\ Step(Xor(c, bit)) = Right(c, 1)
<1>1. bit \in Bits
  BY DEF Bits
<1> PICK d : d = Xor(c, bit)
  OBVIOUS
<1>2. d \in Bits /\ \A x : x \in d <=> ((x \in c) # (x \in bit))
  BY <1>1, XorLaws, XorMember
<1>3. 0 \notin d
  BY <1>2
<1>4. \A x \in Nat : x + 1 \in d <=> x + 1 \in c
  BY <1>2
<1>5. Step(d) = Right(d, 1)
  BY <1>3 DEF Step
<1>6. \A x : x \in Right(d, 1) <=> x \in Right(c, 1)
  BY <1>2, <1>4, RightMember
<1> QED
  BY <1>1, <1>5, <1>6

(* The next m bits, one by one, or all of them at once and then divided.   *)
LEMMA Absorbs ==
  ASSUME NEW p \in Nat, NEW m \in Nat, NEW c \in Bits, c \subseteq 0 .. m - 1,
         \A i \in 0 .. m - 1 : Input(p + i) = IF i \in c THEN {0} ELSE {}
  PROVE  Register[p + m] = Divided(Xor(Register[p], c), m)
<1> PICK r, x : r = Register[p] /\ x = Xor(r, c)
  OBVIOUS
<1>1. r \in Bits /\ x \in Bits
  BY RegisterFacts, RegistersAreBits, XorLaws
<1> DEFINE S == {i \in Nat : i <= m =>
                   Register[p + i] = Xor(Divided(x, i), Right(c, i))}
<1>2. 0 \in S
  <2>1. p + 0 = p /\ Divided(x, 0) = x /\ Right(c, 0) = c
    BY <1>1, DividedFacts, RightByNone
  <2>2. Xor(x, c) = r
    BY <1>1, XorLaws
  <2> QED
    BY <2>1, <2>2
<1>3. ASSUME NEW i \in Nat, i \in S PROVE i + 1 \in S
  <2> SUFFICES ASSUME i + 1 <= m
               PROVE  Register[p + (i + 1)] = Xor(Divided(x, i + 1), Right(c, i + 1))
    OBVIOUS
  <2> PICK d, e, bit : d = Divided(x, i) /\ e = Right(c, i) /\ bit = Input(p + i)
    OBVIOUS
  <2>1. d \in Bits /\ e \in Bits /\ Divided(x, i + 1) = Step(d)
    BY <1>1, DividedFacts, RightMember
  <2>2. bit = IF 0 \in e THEN {0} ELSE {}
    <3>1. i \in 0 .. m - 1 /\ 0 + i = i
      OBVIOUS
    <3>2. 0 \in e <=> i \in c
      BY <3>1, RightMember
    <3> QED
      BY <3>1, <3>2
  <2>3. bit \in Bits /\ Step(Xor(e, bit)) = Right(e, 1)
    BY <2>1, <2>2, BitTaken
  <2>4. Right(e, 1) = Right(c, i + 1)
    BY RightTwice
  <2>5. Register[p + (i + 1)] = Step(Xor(Register[p + i], bit))
    <3>1. p + i \in Nat /\ p + (i + 1) = (p + i) + 1
      OBVIOUS
    <3> QED
      BY <3>1, RegisterFacts
  <2>6. Register[p + i] = Xor(d, e)
    BY <1>3
  <2>7. Xor(Xor(d, e), bit) = Xor(d, Xor(e, bit)) /\ Xor(e, bit) \in Bits
    BY <2>1, <2>3, XorLaws
  <2>8. Step(Xor(d, Xor(e, bit))) = Xor(Step(d), Step(Xor(e, bit)))
    BY <2>1, <2>7, StepLinear
  <2> QED
    BY <2>1, <2>3, <2>4, <2>5, <2>6, <2>7, <2>8
<1>4. Nat \subseteq S
  <2> HIDE DEF S
  <2> QED
    BY <1>2, <1>3, SetInduction
<1>5. Register[p + m] = Xor(Divided(x, m), Right(c, m))
  BY <1>4
<1>6. Right(c, m) = {}
  <2>1. \A y \in Nat : y + m \notin c
    OBVIOUS
  <2> QED
    BY <2>1, RightMember
<1> QED
  BY <1>1, <1>5, <1>6, DividedFacts, XorLaws

-----------------------------------------------------------------------------
(* The tables.                                                             *)

(* A byte of a register, bit by bit.                                       *)
LEMMA ByteMember ==
  ASSUME NEW r, NEW j
  PROVE  /\ Byte(r, j) \in Bits /\ Byte(r, j) \in SUBSET (0 .. 7)
         /\ \A i : i \in Byte(r, j) <=> i \in 0 .. 7 /\ i + 8 * j \in r
BY DEF Byte, Bits

(* The bytes of a register moved by m bytes.                               *)
LEMMA ByteOfRight ==
  ASSUME NEW r \in Bits, NEW m \in Nat, NEW j \in Nat
  PROVE  Byte(Right(r, 8 * m), j) = Byte(r, m + j)
<1>1. \A i \in 0 .. 7 : /\ i + 8 * j \in Nat /\ 8 * m \in Nat
                        /\ (i + 8 * j) + 8 * m = i + 8 * (m + j)
  OBVIOUS
<1>2. \A i \in 0 .. 7 : i + 8 * j \in Right(r, 8 * m) <=> i + 8 * (m + j) \in r
  BY <1>1, RightMember
<1> QED
  BY <1>2 DEF Byte

(* One byte goes through its table, the bytes above it only move.          *)
LEMMA ByteThrough ==
  ASSUME NEW r \in Bits
  PROVE  Divided(r, 8) = Xor(Entry(1, Byte(r, 0)), Right(r, 8))
<1> DEFINE high == r \ (0 .. 7)
<1>1. high \in Bits /\ Byte(r, 0) \in Bits
  BY ByteMember DEF Bits
<1>2. r = Xor(Byte(r, 0), high)
  <2>1. \A i \in 0 .. 7 : i + 8 * 0 = i
    OBVIOUS
  <2>2. \A i : i \in Byte(r, 0) <=> i \in 0 .. 7 /\ i \in r
    BY <2>1, ByteMember
  <2>3. \A i : i \in r <=> i \in Xor(Byte(r, 0), high)
    BY <2>2, XorMember
  <2> QED
    BY <2>3
<1>3. Divided(high, 8) = Right(high, 8)
  <2>1. high \cap (0 .. 8 - 1) = {}
    OBVIOUS
  <2> HIDE DEF high
  <2> QED
    BY <1>1, <2>1, Shifted
<1>4. Right(high, 8) = Right(r, 8)
  <2>1. \A x \in Nat : x + 8 \in high <=> x + 8 \in r
    OBVIOUS
  <2>2. \A x : x \in Right(high, 8) <=> x \in Nat /\ x + 8 \in high
    BY <1>1, RightMember
  <2>3. \A x : x \in Right(r, 8) <=> x \in Nat /\ x + 8 \in r
    BY RightMember
  <2> HIDE DEF high
  <2> QED
    BY <2>1, <2>2, <2>3
<1> HIDE DEF high
<1>5. Divided(Xor(Byte(r, 0), high), 8) = Xor(Divided(Byte(r, 0), 8), Divided(high, 8))
  BY <1>1, DividedLinear
<1>6. Entry(1, Byte(r, 0)) = Divided(Byte(r, 0), 8)
  BY DEF Entry
<1> QED
  BY <1>2, <1>3, <1>4, <1>5, <1>6

(* The lowest byte of several is moved through all of them.                *)
LEMMA Peels ==
  ASSUME NEW r \in Bits, NEW n \in Nat
  PROVE  /\ Entry(n + 1, Byte(r, 0)) \in Bits
         /\ Divided(Right(r, 8), 8 * n) \in Bits
         /\ Divided(r, 8 * (n + 1)) =
              Xor(Entry(n + 1, Byte(r, 0)), Divided(Right(r, 8), 8 * n))
<1> PICK b, h, m : b = Byte(r, 0) /\ h = Right(r, 8) /\ m = 8 * n
  OBVIOUS
<1>1. b \in Bits /\ h \in Bits /\ m \in Nat /\ 8 * (n + 1) = 8 + m /\ 8 * 1 = 8
  BY ByteMember, RightMember
<1>2. Entry(1, b) = Divided(b, 8) /\ Entry(n + 1, b) = Divided(b, 8 + m)
  BY <1>1 DEF Entry
<1>3. Divided(b, 8) \in Bits /\ Divided(b, 8 + m) \in Bits /\ Divided(h, m) \in Bits
  BY <1>1, DividedFacts
<1>4. Divided(r, 8 + m) = Divided(Divided(r, 8), m)
  BY <1>1, DividedTwice
<1>5. Divided(r, 8) = Xor(Divided(b, 8), h)
  BY <1>2, ByteThrough
<1>6. Divided(Xor(Divided(b, 8), h), m) = Xor(Divided(Divided(b, 8), m), Divided(h, m))
  BY <1>1, <1>3, DividedLinear
<1>7. Divided(Divided(b, 8), m) = Divided(b, 8 + m)
  BY <1>1, DividedTwice
<1> QED
  BY <1>1, <1>2, <1>3, <1>4, <1>5, <1>6, <1>7

(* The lowest byte of what is left of r after k bytes.                     *)
LEMMA PeelsAt ==
  ASSUME NEW r \in Bits, NEW k \in Nat, NEW n \in Nat
  PROVE  /\ Entry(n + 1, Byte(r, k)) \in Bits
         /\ Divided(Right(r, 8 * (k + 1)), 8 * n) \in Bits
         /\ Divided(Right(r, 8 * k), 8 * (n + 1)) =
              Xor(Entry(n + 1, Byte(r, k)), Divided(Right(r, 8 * (k + 1)), 8 * n))
<1> PICK h : h = Right(r, 8 * k)
  OBVIOUS
<1>1. h \in Bits /\ 8 * k \in Nat /\ 8 * k + 8 = 8 * (k + 1) /\ k + 0 = k
  BY RightMember
<1>2. Byte(h, 0) = Byte(r, k)
  <2>1. Byte(h, 0) = Byte(r, k + 0)
    BY ByteOfRight
  <2> QED
    BY <1>1, <2>1
<1>3. Right(h, 8) = Right(r, 8 * (k + 1))
  <2>1. Right(h, 8) = Right(r, 8 * k + 8)
    BY <1>1, RightTwice
  <2> QED
    BY <1>1, <2>1
<1> QED
  BY <1>1, <1>2, <1>3, Peels

(* Eight bytes through eight tables.                                       *)
LEMMA EightThrough ==
  ASSUME NEW r \in Registers, NEW w \in Bits, w \subseteq 0 .. 63,
         NEW x, x = Xor(r, w)
  PROVE  /\ \A k \in 1 .. 8 : \A j : Entry(k, Byte(x, j)) \in Bits
         /\ Divided(x, 64) =
              Xor(O88(Byte(x, 0)), Xor(O80(Byte(x, 1)), Xor(O72(Byte(x, 2)),
              Xor(O64(Byte(x, 3)), Xor(O56(Byte(x, 4)), Xor(O48(Byte(x, 5)),
              Xor(O40(Byte(x, 6)), O32(Byte(x, 7)))))))))
<1>1. x \in Bits
  BY RegistersAreBits, XorLaws
<1>2. \A k \in 1 .. 8 : \A j : Entry(k, Byte(x, j)) \in Bits
  <2> SUFFICES ASSUME NEW k \in 1 .. 8, NEW j
               PROVE  Entry(k, Byte(x, j)) \in Bits
    OBVIOUS
  <2>1. Byte(x, j) \in Bits /\ 8 * k \in Nat
    BY ByteMember
  <2> QED
    BY <2>1, DividedFacts DEF Entry
<1> DEFINE T(k, n) == Divided(Right(x, 8 * k), 8 * n)
<1>3. \A k, n \in Nat : /\ T(k + 1, n) \in Bits
                        /\ T(k, n + 1) = Xor(Entry(n + 1, Byte(x, k)), T(k + 1, n))
  BY <1>1, PeelsAt
<1>4. T(0, 8) = Divided(x, 64)
  BY <1>1, RightByNone
<1>5. T(8, 0) = {}
  <2>1. x \subseteq 0 .. 63
    <3>1. \A i \in x : i \in r \/ i \in w
      BY XorMember
    <3>2. \A i \in r : i \in 0 .. 63
      BY DEF Registers
    <3>3. \A i \in x : i \in 0 .. 63
      BY <3>1, <3>2
    <3> QED
      BY <3>3
  <2>2. \A i \in Nat : i + 64 \notin x
    BY <2>1
  <2>3. Right(x, 64) = {}
    BY <1>1, <2>2, RightMember
  <2>4. 8 * 8 = 64 /\ 8 * 0 = 0 /\ 0 \in Nat
    OBVIOUS
  <2> QED
    BY <2>3, <2>4, DividedOfNothing
<1> HIDE DEF T
<1>6. /\ T(0, 8) = Xor(Entry(8, Byte(x, 0)), T(1, 7))
      /\ T(1, 7) = Xor(Entry(7, Byte(x, 1)), T(2, 6))
      /\ T(2, 6) = Xor(Entry(6, Byte(x, 2)), T(3, 5))
      /\ T(3, 5) = Xor(Entry(5, Byte(x, 3)), T(4, 4))
  <2>1. T(0, 7 + 1) = Xor(Entry(7 + 1, Byte(x, 0)), T(0 + 1, 7))
    BY <1>3
  <2>2. T(1, 6 + 1) = Xor(Entry(6 + 1, Byte(x, 1)), T(1 + 1, 6))
    BY <1>3
  <2>3. T(2, 5 + 1) = Xor(Entry(5 + 1, Byte(x, 2)), T(2 + 1, 5))
    BY <1>3
  <2>4. T(3, 4 + 1) = Xor(Entry(4 + 1, Byte(x, 3)), T(3 + 1, 4))
    BY <1>3
  <2> QED
    BY <2>1, <2>2, <2>3, <2>4
<1>7. /\ T(4, 4) = Xor(Entry(4, Byte(x, 4)), T(5, 3))
      /\ T(5, 3) = Xor(Entry(3, Byte(x, 5)), T(6, 2))
      /\ T(6, 2) = Xor(Entry(2, Byte(x, 6)), T(7, 1))
      /\ T(7, 1) = Xor(Entry(1, Byte(x, 7)), T(8, 0))
  <2>1. T(4, 3 + 1) = Xor(Entry(3 + 1, Byte(x, 4)), T(4 + 1, 3))
    BY <1>3
  <2>2. T(5, 2 + 1) = Xor(Entry(2 + 1, Byte(x, 5)), T(5 + 1, 2))
    BY <1>3
  <2>3. T(6, 1 + 1) = Xor(Entry(1 + 1, Byte(x, 6)), T(6 + 1, 1))
    BY <1>3
  <2>4. T(7, 0 + 1) = Xor(Entry(0 + 1, Byte(x, 7)), T(7 + 1, 0))
    BY <1>3
  <2> QED
    BY <2>1, <2>2, <2>3, <2>4
<1>8. T(7, 1) = Entry(1, Byte(x, 7))
  <2>1. Entry(1, Byte(x, 7)) \in Bits
    BY <1>2
  <2>2. Xor(Entry(1, Byte(x, 7)), {}) = Entry(1, Byte(x, 7))
    BY <2>1, XorLaws
  <2> QED
    BY <1>5, <1>7, <2>2
<1> QED
  BY <1>2, <1>4, <1>6, <1>7, <1>8 DEF O88, O80, O72, O64, O56, O48, O40, O32

(* The order in which the loop adds the entries up.                        *)
EightTerms(a, b, c, d, e, f, g, h) == {a, b, c, d, e, f, g, h} \subseteq Bits
LEMMA XorOrder ==
  ASSUME NEW a, NEW b, NEW c, NEW d, NEW e, NEW f, NEW g, NEW h,
         EightTerms(a, b, c, d, e, f, g, h)
  PROVE  Xor(Xor(Xor(Xor(Xor(Xor(a, b), c), d), Xor(e, f)), g), h) =
         Xor(a, Xor(b, Xor(c, Xor(d, Xor(e, Xor(f, Xor(g, h)))))))
<1>0. /\ a \in Bits /\ b \in Bits /\ c \in Bits /\ d \in Bits
      /\ e \in Bits /\ f \in Bits /\ g \in Bits /\ h \in Bits
  BY DEF EightTerms
<1> PICK t2, t3, t4, t5, t6 :
      /\ t2 = Xor(g, h) /\ t3 = Xor(f, t2) /\ t4 = Xor(e, t3)
      /\ t5 = Xor(d, t4) /\ t6 = Xor(c, t5)
  OBVIOUS
<1> PICK s2, s3, s4, s5 :
      /\ s2 = Xor(a, b) /\ s3 = Xor(s2, c) /\ s4 = Xor(s3, d)
      /\ s5 = Xor(s4, Xor(e, f))
  OBVIOUS
<1>1. t2 \in Bits /\ t3 \in Bits /\ t4 \in Bits /\ t5 \in Bits /\ t6 \in Bits
  <2>1. t2 \in Bits
    BY <1>0, XorLaws
  <2>2. t3 \in Bits
    BY <1>0, <2>1, XorLaws
  <2>3. t4 \in Bits
    BY <1>0, <2>2, XorLaws
  <2>4. t5 \in Bits
    BY <1>0, <2>3, XorLaws
  <2>5. t6 \in Bits
    BY <1>0, <2>4, XorLaws
  <2> QED
    BY <2>1, <2>2, <2>3, <2>4, <2>5
<1>2. s2 \in Bits /\ s3 \in Bits /\ s4 \in Bits /\ s5 \in Bits /\ Xor(e, f) \in Bits
  <2>1. s2 \in Bits /\ Xor(e, f) \in Bits
    BY <1>0, XorLaws
  <2>2. s3 \in Bits
    BY <1>0, <2>1, XorLaws
  <2>3. s4 \in Bits
    BY <1>0, <2>2, XorLaws
  <2>4. s5 \in Bits
    BY <1>0, <2>1, <2>3, XorLaws
  <2> QED
    BY <2>1, <2>2, <2>3, <2>4
<1>3. Xor(a, Xor(b, t6)) = Xor(s2, t6)
  BY <1>0, <1>1, XorLaws
<1>4. Xor(s2, t6) = Xor(s3, t5)
  BY <1>0, <1>1, <1>2, XorLaws
<1>5. Xor(s3, t5) = Xor(s4, t4)
  BY <1>0, <1>1, <1>2, XorLaws
<1>6. Xor(s4, t4) = Xor(s5, t2)
  <2>1. t4 = Xor(Xor(e, f), t2)
    BY <1>0, <1>1, XorLaws
  <2> QED
    BY <1>1, <1>2, <2>1, <1>0, XorLaws
<1>7. Xor(s5, t2) = Xor(Xor(s5, g), h)
  BY <1>0, <1>2, XorLaws
<1> QED
  BY <1>3, <1>4, <1>5, <1>6, <1>7

-----------------------------------------------------------------------------
(* The bytes of the buffer.                                                *)
Held ==
  /\ buf.text \in Seq(SUBSET (0 .. 7)) /\ buf.len = Len(buf.text)

(* The word at pos has the bits that are next to come.                     *)
LEMMA WordMember ==
  ASSUME NEW n \in Nat, pos \in Nat
  PROVE  /\ Word(n) \in Bits /\ Word(n) \subseteq 0 .. 8 * n - 1
         /\ \A i \in 0 .. 8 * n - 1 :
              Input(8 * pos + i) = IF i \in Word(n) THEN {0} ELSE {}
<1> PICK p \in Nat : p = pos
  OBVIOUS
<1>1. Word(n) \in Bits /\ Word(n) \subseteq 0 .. 8 * n - 1
  BY DEF Word, Bits
<1>2. ASSUME NEW i \in 0 .. 8 * n - 1
      PROVE  Input(8 * p + i) = IF i \in Word(n) THEN {0} ELSE {}
  <2>1. i \in Nat /\ (8 * p + i) % 8 = i % 8 /\ (8 * p + i) \div 8 = p + (i \div 8)
    OBVIOUS
  <2>2. i \in Word(n) <=> i % 8 \in Content(p + (i \div 8))
    BY DEF Word
  <2> QED
    BY <2>1, <2>2 DEF Input
<1> QED
  BY <1>1, <1>2

(* The bytes at pos, all at once.                                          *)
LEMMA Reads ==
  ASSUME NEW n \in Nat, pos \in Nat, crc = Register[8 * pos]
  PROVE  /\ crc \in Registers
         /\ Register[8 * (pos + n)] = Divided(Xor(crc, Word(n)), 8 * n)
<1> PICK p \in Nat, m \in Nat : p = 8 * pos /\ m = 8 * n
  OBVIOUS
<1> PICK w : w = Word(n)
  OBVIOUS
<1>1. 8 * (pos + n) = p + m
  OBVIOUS
<1>2. w \in Bits /\ w \subseteq 0 .. m - 1
  BY WordMember
<1>3. \A i \in 0 .. m - 1 : Input(p + i) = IF i \in w THEN {0} ELSE {}
  BY WordMember
<1>4. Register[p + m] = Divided(Xor(Register[p], w), m)
  BY <1>2, <1>3, Absorbs
<1> QED
  BY <1>1, <1>4, RegisterFacts

(* One byte, through the table.                                            *)
LEMMA ReadsOne ==
  ASSUME Held, pos \in Nat, pos < buf.len, crc = Register[8 * pos]
  PROVE  Xor(Entry(1, Byte(Xor(crc, Content(pos)), 0)), Right(crc, 8)) =
         Register[8 * (pos + 1)]
<1>1. Content(pos) \in SUBSET (0 .. 7)
  <2>1. pos + 1 \in 1 .. Len(buf.text)
    BY DEF Held
  <2> QED
    BY <2>1 DEF Content, Held
<1>2. Word(1) = Content(pos)
  <2> PICK p \in Nat : p = pos
    OBVIOUS
  <2>1. 8 * 1 - 1 = 7 /\ \A i \in 0 .. 7 : i % 8 = i /\ p + (i \div 8) = p
    OBVIOUS
  <2>2. \A i : i \in Word(1) <=> i \in 0 .. 7 /\ i \in Content(pos)
    BY <2>1 DEF Word
  <2> QED
    BY <1>1, <2>2
<1> PICK b, x : b = Content(pos) /\ x = Xor(crc, b)
  OBVIOUS
<1>3. crc \in Bits /\ b \in Bits /\ Register[8 * (pos + 1)] = Divided(x, 8)
  <2>1. b \in Bits
    BY <1>1 DEF Bits
  <2>2. 8 * 1 = 8 /\ 1 \in Nat
    OBVIOUS
  <2>3. crc \in Registers /\ Register[8 * (pos + 1)] = Divided(x, 8)
    BY <1>2, <2>2, Reads
  <2> QED
    BY <2>1, <2>3, RegistersAreBits
<1>4. x \in Bits /\ Divided(x, 8) = Xor(Entry(1, Byte(x, 0)), Right(x, 8))
  BY <1>3, XorLaws, ByteThrough
<1>5. Right(x, 8) = Right(crc, 8)
  <2>1. \A i \in Nat : i + 8 \notin b
    BY <1>1
  <2>2. \A i \in Nat : i + 8 \in x <=> i + 8 \in crc
    BY <2>1, XorMember
  <2>3. /\ \A i : i \in Right(x, 8) <=> i \in Nat /\ i + 8 \in x
        /\ \A i : i \in Right(crc, 8) <=> i \in Nat /\ i + 8 \in crc
    BY <1>3, <1>4, RightMember
  <2> QED
    BY <2>2, <2>3
<1> QED
  BY <1>3, <1>4, <1>5

(* Eight bytes, through eight tables.                                      *)
LEMMA ReadsEight ==
  ASSUME pos \in Nat, crc = Register[8 * pos], Slice
  PROVE  crc' = Register[8 * (pos + 8)]
<1> PICK w, x, low, high :
      /\ w = Word(8) /\ x = Xor(crc, w)
      /\ low = Xor(crc, {i \in w : i < 32}) /\ high = Right(w, 32)
  OBVIOUS
<1> PICK term2, term4 : term2 = Right(low, 16) /\ term4 = Right(high, 16)
  OBVIOUS
<1>1. crc' = Xor(Xor(Xor(Xor(Xor(Xor(O88(Byte(low, 0)), O80(Byte(low, 1))),
                   O72(Byte(term2, 0))), O64(Byte(term2, 1))),
                   Xor(O56(Byte(high, 0)), O48(Byte(high, 1)))),
                   O40(Byte(term4, 0))), O32(Byte(term4, 1)))
  BY DEF Slice
<1>2. /\ w \in Bits /\ w \subseteq 0 .. 63 /\ crc \in Registers
      /\ Register[8 * (pos + 8)] = Divided(x, 64)
  <2>1. 8 * 8 = 64 /\ 64 - 1 = 63 /\ 8 \in Nat
    OBVIOUS
  <2>2. Word(8) \in Bits /\ Word(8) \subseteq 0 .. 8 * 8 - 1
    BY <2>1, WordMember
  <2>3. crc \in Registers /\ Register[8 * (pos + 8)] = Divided(Xor(crc, Word(8)), 8 * 8)
    BY <2>1, Reads
  <2> QED
    BY <2>1, <2>2, <2>3
<1>3. /\ crc \in Bits /\ x \in Bits /\ low \in Bits /\ high \in Bits
      /\ \A i : i \in crc => i \in 0 .. 31
      /\ \A i : i \in x <=> ((i \in crc) # (i \in w))
      /\ \A i : i \in low <=> ((i \in crc) # (i \in w /\ i < 32))
      /\ \A i : i \in high <=> i \in Nat /\ i + 32 \in w
  <2>1. crc \in Bits /\ {i \in w : i < 32} \in Bits
    BY <1>2, RegistersAreBits DEF Bits
  <2>2. x \in Bits /\ low \in Bits
    BY <1>2, <2>1, XorLaws
  <2>3. high \in Bits /\ \A i : i \in high <=> i \in Nat /\ i + 32 \in w
    BY <1>2, RightMember
  <2>4. \A i : i \in low <=> ((i \in crc) # (i \in {j \in w : j < 32}))
    BY XorMember
  <2>5. \A i : i \in x <=> ((i \in crc) # (i \in w))
    BY XorMember
  <2>6. \A i : i \in crc => i \in 0 .. 31
    BY <1>2 DEF Registers
  <2> QED
    BY <2>1, <2>2, <2>3, <2>4, <2>5, <2>6
<1>4. ASSUME NEW j \in 0 .. 3
      PROVE  Byte(low, j) = Byte(x, j) /\ Byte(high, j) = Byte(x, 4 + j)
  <2>1. \A i \in 0 .. 7 : /\ i + 8 * j \in Nat /\ i + 8 * j < 32
                          /\ i + 8 * (4 + j) = (i + 8 * j) + 32
                          /\ i + 8 * (4 + j) \notin 0 .. 31
    OBVIOUS
  <2>2. \A i \in 0 .. 7 : i + 8 * j \in low <=> i + 8 * j \in x
    BY <1>3, <2>1
  <2>3. \A i \in 0 .. 7 : i + 8 * j \in high <=> i + 8 * (4 + j) \in x
    BY <1>3, <2>1
  <2> QED
    BY <2>2, <2>3 DEF Byte
<1>5. /\ Byte(low, 0) = Byte(x, 0) /\ Byte(low, 1) = Byte(x, 1)
      /\ Byte(high, 0) = Byte(x, 4) /\ Byte(high, 1) = Byte(x, 5)
  <2>1. 4 + 0 = 4 /\ 4 + 1 = 5
    OBVIOUS
  <2>2. Byte(low, 0) = Byte(x, 0) /\ Byte(high, 0) = Byte(x, 4 + 0)
    BY <1>4
  <2>3. Byte(low, 1) = Byte(x, 1) /\ Byte(high, 1) = Byte(x, 4 + 1)
    BY <1>4
  <2> QED
    BY <2>1, <2>2, <2>3
<1>6. /\ Byte(term2, 0) = Byte(x, 2) /\ Byte(term2, 1) = Byte(x, 3)
      /\ Byte(term4, 0) = Byte(x, 6) /\ Byte(term4, 1) = Byte(x, 7)
  <2>0. low \in Bits /\ high \in Bits /\ 0 \in Nat /\ 1 \in Nat /\ 2 \in Nat
    BY <1>3
  <2>1. 8 * 2 = 16 /\ 2 + 0 = 2 /\ 2 + 1 = 3 /\ 4 + 2 = 6 /\ 4 + 3 = 7
    OBVIOUS
  <2>2. Byte(Right(low, 8 * 2), 0) = Byte(low, 2 + 0)
    BY <2>0, ByteOfRight
  <2>3. Byte(Right(low, 8 * 2), 1) = Byte(low, 2 + 1)
    BY <2>0, ByteOfRight
  <2>4. Byte(Right(high, 8 * 2), 0) = Byte(high, 2 + 0)
    BY <2>0, ByteOfRight
  <2>5. Byte(Right(high, 8 * 2), 1) = Byte(high, 2 + 1)
    BY <2>0, ByteOfRight
  <2>6. Byte(low, 2) = Byte(x, 2) /\ Byte(high, 2) = Byte(x, 4 + 2)
    BY <1>4
  <2>7. Byte(low, 3) = Byte(x, 3) /\ Byte(high, 3) = Byte(x, 4 + 3)
    BY <1>4
  <2> QED
    BY <2>1, <2>2, <2>3, <2>4, <2>5, <2>6, <2>7
<1> PICK a, b, c, d : /\ a = O88(Byte(x, 0)) /\ b = O80(Byte(x, 1))
                      /\ c = O72(Byte(x, 2)) /\ d = O64(Byte(x, 3))
  OBVIOUS
<1> PICK e, f, g, h : /\ e = O56(Byte(x, 4)) /\ f = O48(Byte(x, 5))
                      /\ g = O40(Byte(x, 6)) /\ h = O32(Byte(x, 7))
  OBVIOUS
<1>7. /\ \A k \in 1 .. 8 : \A j : Entry(k, Byte(x, j)) \in Bits
      /\ Divided(x, 64) = Xor(a, Xor(b, Xor(c, Xor(d, Xor(e, Xor(f, Xor(g, h)))))))
  BY <1>2, EightThrough
<1>8. /\ a \in Bits /\ b \in Bits /\ c \in Bits /\ d \in Bits
      /\ e \in Bits /\ f \in Bits /\ g \in Bits /\ h \in Bits
  BY <1>7 DEF O88, O80, O72, O64, O56, O48, O40, O32
<1>9. crc' = Xor(Xor(Xor(Xor(Xor(Xor(a, b), c), d), Xor(e, f)), g), h)
  BY <1>1, <1>5, <1>6
<1>10. Xor(Xor(Xor(Xor(Xor(Xor(a, b), c), d), Xor(e, f)), g), h) =
       Xor(a, Xor(b, Xor(c, Xor(d, Xor(e, Xor(f, Xor(g, h)))))))
  <2>1. EightTerms(a, b, c, d, e, f, g, h)
    BY <1>8 DEF EightTerms
  <2> QED
    BY <2>1, XorOrder
<1>11. Register[8 * (pos + 8)] = Divided(x, 64)
  BY <1>2
<1> QED
  BY <1>7, <1>9, <1>10, <1>11

-----------------------------------------------------------------------------
(* The register holds what is left of the bytes before pos.                *)
Remains == phase # "idle" => crc = Register[8 * pos]

(* The register starts with all bits set.                                  *)
LEMMA RegisterStarts == Register[0] = 0 .. 31
BY RegisterFacts

(* Within a call the bytes stay what they are, and so does the register of *)
(* the definition.                                                         *)
LEMMA BufferKeeps ==
  ASSUME UNCHANGED buf
  PROVE  (Held => Held') /\ Register' = Register
BY DEF Held, Register, Input, Content

(* Every step takes the bytes it reads into the register.                 *)
LEMMA StepRemains ==
  IInv /\ Held /\ Remains /\ [Next]_vars => Held' /\ Remains'
<1> SUFFICES ASSUME IInv, Held, Remains, [Next]_vars PROVE Held' /\ Remains'
  OBVIOUS
<1>1. CASE Call
  <2>1. buf' \in Buffers /\ crc' = 0 .. 31 /\ pos' = 0
    BY <1>1 DEF Call, IInv, Extent
  <2>2. Held'
    BY <2>1, TextsAssumption DEF Buffers, Held
  <2>3. (Register[0] = 0 .. 31)'
    BY RegisterStarts, PTL
  <2>4. 8 * 0 = 0
    OBVIOUS
  <2> QED
    BY <2>1, <2>2, <2>3, <2>4 DEF Remains
<1>2. CASE Return
  <2>1. buf' = NoBuffer /\ phase' = "idle"
    BY <1>2 DEF Return
  <2> QED
    BY <2>1 DEF Held, Remains, NoBuffer
<1>3. CASE \/ Select \/ Dispatch \/ SingleEnds \/ HeadEnds \/ SlicesEnd
           \/ TailEnds \/ SseEnds \/ UNCHANGED vars
  <2>1. UNCHANGED <<buf, crc, pos>> /\ (phase = "idle" => phase' = "idle")
    BY <1>3 DEF Select, Dispatch, SingleEnds, HeadEnds, SlicesEnd, TailEnds,
                SseEnds, Loop, machine, vars
  <2> QED
    BY <2>1, BufferKeeps DEF Remains
<1>4. CASE SingleTable \/ HeadByte \/ TailByte \/ Slice \/ Sse
  <2>1. UNCHANGED buf /\ phase # "idle" /\ pos \in Nat /\ crc = Register[8 * pos]
    BY <1>4 DEF SingleTable, HeadByte, TailByte, OneByte, Slice, Sse, Take,
                IInv, Extent, Remains
  <2>2. crc' = Register[8 * pos']
    <3>1. CASE SingleTable \/ HeadByte \/ TailByte
      <4>1. /\ pos' = pos + 1 /\ left > 0 /\ phase \in {"single", "head", "tail"}
            /\ crc' = Xor(Entry(1, Byte(Xor(crc, Content(pos)), 0)), Right(crc, 8))
        BY <3>1 DEF SingleTable, HeadByte, TailByte, OneByte, Take, crc32Table, O32
      <4>2. pos < buf.len
        BY <4>1, Parts DEF IInv, Extent
      <4> QED
        BY <2>1, <4>1, <4>2, ReadsOne
    <3>2. CASE Slice
      <4>1. pos' = pos + 8
        BY <3>2 DEF Slice, Take
      <4> QED
        BY <2>1, <3>2, <4>1, ReadsEight
    <3>3. CASE Sse
      <4> PICK n : n = SseWidth
        OBVIOUS
      <4>1. n \in Nat
        BY DEF SseWidth
      <4>2. pos' = pos + n /\ crc' = Divided(Xor(crc, Word(n)), 8 * n)
        BY <3>3 DEF Sse, Take, Instruction
      <4> QED
        BY <2>1, <4>1, <4>2, Reads
    <3> QED
      BY <1>4, <3>1, <3>2, <3>3
  <2> QED
    BY <2>1, <2>2, BufferKeeps DEF Remains
<1> QED
  BY <1>1, <1>2, <1>3, <1>4 DEF Next, Multitable

(* Whatever the bytes of the buffer, how many there are and where they     *)
(* begin, every way to compute the checksum returns the remainder          *)
(* (crc32.c:675-744, 861-890; crc32_sse4_2.c:35-67).                       *)
THEOREM IsTheRemainder == Spec => []ReturnsRemainder
<1>1. Init => IInv /\ Held /\ Remains
  <2>1. Init => Held /\ Remains
    BY DEF Init, NoBuffer, Held, Remains
  <2> QED
    BY <2>1, InitInvariant
<1>2. IInv /\ Held /\ Remains => ReturnsRemainder
  BY DEF ReturnsRemainder, Result, Remainder, Remains, IInv, Extent, Loops
<1> QED
  BY <1>1, <1>2, StepInvariant, StepRemains, PTL DEF Spec

=============================================================================
