-------------------------- MODULE BlockFormatsProofs --------------------------
(***************************************************************************)
(* Theorems about BlockFormats: for every text, every block size, every    *)
(* amount of memory, every return of the compressor and whatever happened  *)
(* to the stream, in all five formats.                                     *)
(***************************************************************************)
EXTENDS BlockFormats, SequenceTheorems, FiniteSetTheorems, TLAPS

-----------------------------------------------------------------------------
(* Sizes.                                                                  *)

LEMMA MaxCompressedLengthBounds ==
  ASSUME NEW n \in Nat
  PROVE  MaxCompressedLength(n) \in Nat /\ n <= MaxCompressedLength(n)
BY DEF MaxCompressedLength

LEMMA CompressedSizesAreSizes ==
  ASSUME NEW n \in Nat, NEW c \in CompressedSizes(n)
  PROVE  c \in Nat
BY DEF CompressedSizes, MaxCompressedLength

LEMMA FreshIsSizes ==
  ASSUME NEW n \in Nat
  PROVE  Fresh(n) \in [c : Nat, uc : Nat] /\ n <= Fresh(n).c /\ Fresh(n).uc = n
BY MaxCompressedLengthBounds DEF Fresh, Buffers

LEMMA ChunkBounds ==
  ASSUME TypeOK
  PROVE  Chunk \in Nat /\ taken + Chunk <= size /\ Chunk <= wb.uc
BY BlockAssumption DEF TypeOK, Chunk, Minimum

(* The powers the header of snzip can ask for.                             *)
LEMMA PowersAreNat == ASSUME NEW n \in 0 .. 27 PROVE 2^n \in Nat
<1>1. n \in {0, 1, 2, 3, 4, 5, 6, 7, 8, 9, 10, 11, 12, 13}
      \/ n \in {14, 15, 16, 17, 18, 19, 20, 21, 22, 23, 24, 25, 26, 27}
  OBVIOUS
<1>2. /\ 2^0 \in Nat /\ 2^1 \in Nat /\ 2^2 \in Nat /\ 2^3 \in Nat
      /\ 2^4 \in Nat /\ 2^5 \in Nat /\ 2^6 \in Nat /\ 2^7 \in Nat
      /\ 2^8 \in Nat /\ 2^9 \in Nat /\ 2^10 \in Nat /\ 2^11 \in Nat
      /\ 2^12 \in Nat /\ 2^13 \in Nat
  OBVIOUS
<1>3. /\ 2^14 \in Nat /\ 2^15 \in Nat /\ 2^16 \in Nat /\ 2^17 \in Nat
      /\ 2^18 \in Nat /\ 2^19 \in Nat /\ 2^20 \in Nat /\ 2^21 \in Nat
      /\ 2^22 \in Nat /\ 2^23 \in Nat /\ 2^24 \in Nat /\ 2^25 \in Nat
      /\ 2^26 \in Nat /\ 2^27 \in Nat
  OBVIOUS
<1> QED BY <1>1, <1>2, <1>3

LEMMA ShiftIsNat == ASSUME NEW b \in Nat PROVE Shift(b) \in Nat
<1>1. CASE \E n \in 1 .. MaxShift : 2^n = b
  <2>1. (CHOOSE n \in 1 .. MaxShift : 2^n = b) \in 1 .. MaxShift
    BY <1>1
  <2> QED BY <1>1, <2>1 DEF Shift, DefaultShift, MaxShift
<1>2. CASE ~\E n \in 1 .. MaxShift : 2^n = b
  BY <1>2 DEF Shift, DefaultShift, MaxShift
<1> QED BY <1>1, <1>2

-----------------------------------------------------------------------------
(* The length bytes of snzip.                                              *)

LEMMA PowersOf128 ==
  /\ 128^(1 - 1) = 1 /\ 128^(2 - 1) = 128 /\ 128^(3 - 1) = 16384
  /\ 128^(4 - 1) = 2097152 /\ 128^(5 - 1) = 268435456
BY SMT

LEMMA Limits ==
  /\ 2^7 = 128 /\ 2^14 = 16384 /\ 2^21 = 2097152 /\ 2^28 = 268435456
  /\ 2^31 = 2147483648
BY SMT

(* How many bytes a length takes.                                          *)
LEMMA VarintLenIs ==
  ASSUME NEW n \in Nat
  PROVE  /\ VarintLen(n) \in 1 .. 5
         /\ VarintLen(n) = 1 <=> n < 128
         /\ VarintLen(n) = 2 <=> n >= 128 /\ n < 16384
         /\ VarintLen(n) = 3 <=> n >= 16384 /\ n < 2097152
         /\ VarintLen(n) = 4 <=> n >= 2097152 /\ n < 268435456
         /\ VarintLen(n) = 5 <=> n >= 268435456
BY Limits, SMT DEF VarintLen

(* The seven bits the byte i holds.                                        *)
Bits(n, i) ==
  IF i = 1 THEN n ELSE IF i = 2 THEN n \div 128 ELSE IF i = 3 THEN n \div 16384
  ELSE IF i = 4 THEN n \div 2097152 ELSE n \div 268435456
Weight(i) ==
  IF i = 1 THEN 1 ELSE IF i = 2 THEN 128 ELSE IF i = 3 THEN 16384
  ELSE IF i = 4 THEN 2097152 ELSE 268435456

LEMMA WeightIsPower ==
  ASSUME NEW i \in 1 .. 5
  PROVE  128^(i - 1) = Weight(i) /\ Weight(i) \in Nat \ {0}
<1>1. i = 1 \/ i = 2 \/ i = 3 \/ i = 4 \/ i = 5
  OBVIOUS
<1>2. CASE i = 1
  BY <1>2, PowersOf128, SMT DEF Weight
<1>3. CASE i = 2
  BY <1>3, PowersOf128, SMT DEF Weight
<1>4. CASE i = 3
  BY <1>4, PowersOf128, SMT DEF Weight
<1>5. CASE i = 4
  BY <1>5, PowersOf128, SMT DEF Weight
<1>6. CASE i = 5
  BY <1>6, PowersOf128, SMT DEF Weight
<1> QED BY <1>1, <1>2, <1>3, <1>4, <1>5, <1>6

(* The bits behind those of a byte.                                        *)
LEMMA Split128 ==
  ASSUME NEW q \in Nat
  PROVE  /\ q \div 128 \in Nat /\ q % 128 \in 0 .. 127
         /\ q = (q % 128) + 128 * (q \div 128)
         /\ q < 128 => (q % 256) % 128 = q
BY SMT

LEMMA BitsBehind ==
  ASSUME NEW n \in Nat
  PROVE  /\ Bits(n, 1) = n
         /\ Bits(n, 2) = Bits(n, 1) \div 128
         /\ Bits(n, 3) = Bits(n, 2) \div 128
         /\ Bits(n, 4) = Bits(n, 3) \div 128
         /\ Bits(n, 5) = Bits(n, 4) \div 128
<1>1. /\ Bits(n, 1) = n /\ Bits(n, 2) = n \div 128 /\ Bits(n, 3) = n \div 16384
      /\ Bits(n, 4) = n \div 2097152 /\ Bits(n, 5) = n \div 268435456
  BY SMT DEF Bits
<1>2. n \div 16384 = (n \div 128) \div 128
  BY SMTT(30)
<1>3. n \div 2097152 = (n \div 16384) \div 128
  BY SMTT(30)
<1>4. n \div 268435456 = (n \div 2097152) \div 128
  BY SMTT(30)
<1> QED BY <1>1, <1>2, <1>3, <1>4, SMT

LEMMA BitsIsQuotient ==
  ASSUME NEW n \in Nat, NEW i \in 1 .. 5
  PROVE  n \div 128^(i - 1) = Bits(n, i) /\ Bits(n, i) \in Nat
<1>1. n \div 128^(i - 1) = n \div Weight(i)
  BY WeightIsPower
<1>2. i = 1 \/ i = 2 \/ i = 3 \/ i = 4 \/ i = 5
  OBVIOUS
<1>3. n \div Weight(i) = Bits(n, i) /\ Bits(n, i) \in Nat
  BY <1>2, SMT DEF Weight, Bits
<1> QED BY <1>1, <1>3

(* A byte has the eighth bit, if it is not the last.                       *)
LEMMA VarintBytes ==
  ASSUME NEW n \in Nat
  PROVE  /\ DOMAIN Varint(n) = 1 .. VarintLen(n)
         /\ \A i \in 1 .. VarintLen(n) :
              Varint(n)[i] = IF i < VarintLen(n) THEN (Bits(n, i) % 128) + 128
                             ELSE Bits(n, i) % 256
<1>1. DOMAIN Varint(n) = 1 .. VarintLen(n)
  BY DEF Varint
<1>2. ASSUME NEW i \in 1 .. VarintLen(n)
      PROVE  Varint(n)[i] = IF i < VarintLen(n) THEN (Bits(n, i) % 128) + 128
                            ELSE Bits(n, i) % 256
  <2>1. i \in 1 .. 5
    BY VarintLenIs, SMT
  <2>2. n \div 128^(i - 1) = Bits(n, i)
    BY <2>1, BitsIsQuotient
  <2> QED BY <1>2, <2>2 DEF Varint
<1> QED BY <1>1, <1>2

(* What the reader takes from the byte i.                                  *)
LEMMA DigitIs ==
  ASSUME NEW n \in Nat, NEW i \in 1 .. 5
  PROVE  Digit(Varint(n), i) =
           IF i < VarintLen(n) THEN (Bits(n, i) % 128) * Weight(i)
           ELSE IF i = VarintLen(n) THEN ((Bits(n, i) % 256) % 128) * Weight(i)
           ELSE 0
<1> DEFINE L == VarintLen(n)
           v == Varint(n)
<1>1. L \in 1 .. 5
  BY VarintLenIs, SMT
<1>2. /\ DOMAIN v = 1 .. L
      /\ \A j \in 1 .. L : v[j] = IF j < L THEN (Bits(n, j) % 128) + 128
                                ELSE Bits(n, j) % 256
  BY VarintBytes
<1>3. 128^(i - 1) = Weight(i)
  BY WeightIsPower
<1>4. \A j \in 1 .. 5 : Bits(n, j) \in Nat
  BY BitsIsQuotient
<1> HIDE DEF L, v
<1>5. ASSUME NEW j \in 1 .. L, j < L PROVE v[j] >= 128
  <2>1. Bits(n, j) \in Nat
    BY <1>1, <1>4
  <2>2. v[j] = (Bits(n, j) % 128) + 128
    BY <1>2, <1>5
  <2> QED BY <2>1, <2>2
<1>6. Digit(v, i) = IF i \in 1 .. L THEN (v[i] % 128) * Weight(i) ELSE 0
  <2>1. i \in 1 .. L => \A j \in 1 .. i - 1 : v[j] >= 128
    BY <1>1, <1>5
  <2> QED BY <1>2, <1>3, <2>1 DEF Digit
<1>7. CASE i < L
  <2>1. v[i] = (Bits(n, i) % 128) + 128
    BY <1>1, <1>2, <1>7
  <2>2. v[i] % 128 = Bits(n, i) % 128
    BY <1>4, <2>1
  <2> QED BY <1>1, <1>6, <1>7, <2>2 DEF L, v
<1>8. CASE i = L
  <2>1. v[i] = Bits(n, i) % 256
    BY <1>1, <1>2, <1>8
  <2> QED BY <1>1, <1>6, <1>8, <2>1 DEF L, v
<1>9. CASE i > L
  BY <1>1, <1>6, <1>9 DEF L, v
<1> QED BY <1>1, <1>7, <1>8, <1>9

(* Whatever the length, the reader finds a length in the bytes.            *)
LEMMA VarintValueIsNat == ASSUME NEW n \in Nat PROVE VarintValue(Varint(n)) \in Nat
<1>1. \A i \in 1 .. 5 : Digit(Varint(n), i) \in Nat
  <2> SUFFICES ASSUME NEW i \in 1 .. 5 PROVE Digit(Varint(n), i) \in Nat
    OBVIOUS
  <2>0. Bits(n, i) \in Nat
    BY BitsIsQuotient
  <2>1. Bits(n, i) % 128 \in Nat /\ (Bits(n, i) % 256) % 128 \in Nat
    BY <2>0, SMT
  <2>2. Weight(i) \in Nat
    BY WeightIsPower
  <2> QED BY <2>1, <2>2, DigitIs
<1>2. AsSize(Digit(Varint(n), 5)) \in Nat
  <2> PICK d : d = Digit(Varint(n), 5)
    OBVIOUS
  <2>1. d \in Nat
    BY <1>1
  <2>2. \A w \in Nat \ {0} : d % w \in Nat /\ (w - 1) * w \in Nat
    BY <2>1, SMT
  <2>3. Ints \in Nat \ {0}
    BY SMT DEF Ints
  <2>4. AsSize(d) \in Nat
    BY <2>1, <2>2, <2>3, SMT DEF AsSize
  <2> QED BY <2>4
<1> QED BY <1>1, <1>2 DEF VarintValue

(* No more than seven bits are left for the last byte.                     *)
LEMMA LastBits ==
  ASSUME NEW n \in Nat
  PROVE  /\ VarintLen(n) \in 1 .. 5
         /\ \A i \in 1 .. 4 : VarintLen(n) = i => Bits(n, i) < 128
         /\ n <= 2147483647 => Bits(n, 5) < 8
<1> DEFINE L == VarintLen(n)
<1>1. /\ L \in 1 .. 5
      /\ L = 1 <=> n < 128
      /\ L = 2 <=> n >= 128 /\ n < 16384
      /\ L = 3 <=> n >= 16384 /\ n < 2097152
      /\ L = 4 <=> n >= 2097152 /\ n < 268435456
  BY VarintLenIs, SMT
<1> HIDE DEF L
<1>2. L = 1 => Bits(n, 1) < 128
  BY <1>1, SMT DEF Bits
<1>3. L = 2 => Bits(n, 2) < 128
  BY <1>1, SMT DEF Bits
<1>4. L = 3 => Bits(n, 3) < 128
  BY <1>1, SMT DEF Bits
<1>5. L = 4 => Bits(n, 4) < 128
  BY <1>1, SMT DEF Bits
<1>6. n <= 2147483647 => Bits(n, 5) < 8
  BY SMT DEF Bits
<1>7. \A i \in 1 .. 4 : L = i => Bits(n, i) < 128
  BY <1>2, <1>3, <1>4, <1>5, SMT
<1> QED BY <1>1, <1>6, <1>7, SMT DEF L

(* The digits together make the length.                                    *)
LEMMA DigitsMakeLength ==
  ASSUME NEW n \in Nat, Bits(n, 5) < 8
  PROVE  VarintValue(Varint(n)) = n
<1> DEFINE L == VarintLen(n)
           a == Bits(n, 1)
           b == Bits(n, 2)
           c == Bits(n, 3)
           d == Bits(n, 4)
           e == Bits(n, 5)
           D(i) == Digit(Varint(n), i)
<1>1. /\ L \in 1 .. 5
      /\ (L = 1 => a < 128) /\ (L = 2 => b < 128) /\ (L = 3 => c < 128)
      /\ (L = 4 => d < 128) /\ (L = 5 => e < 128)
  <2>1. L \in 1 .. 5 /\ \A i \in 1 .. 4 : L = i => Bits(n, i) < 128
    BY LastBits, SMT
  <2>2. Bits(n, 5) \in Nat
    BY BitsIsQuotient
  <2>3. Bits(n, 5) < 128
    BY <2>2
  <2> HIDE DEF L
  <2> QED BY <2>1, <2>3
<1> DEFINE Part(q, i) == IF i < L THEN q % 128
                         ELSE IF i = L THEN (q % 256) % 128 ELSE 0
<1>2. \A i \in 1 .. 5 : D(i) = Part(Bits(n, i), i) * Weight(i)
  <2> SUFFICES ASSUME NEW i \in 1 .. 5
               PROVE  D(i) = Part(Bits(n, i), i) * Weight(i)
    OBVIOUS
  <2>1. Weight(i) \in Nat
    BY WeightIsPower
  <2> QED BY <2>1, DigitIs
<1>3. VarintValue(Varint(n)) = D(1) + D(2) + D(3) + D(4) + AsSize(D(5))
  BY DEF VarintValue
<1>4. /\ Weight(1) = 1 /\ Weight(2) = 128 /\ Weight(3) = 16384
      /\ Weight(4) = 2097152 /\ Weight(5) = 268435456
  BY SMT DEF Weight
<1>5. a = n /\ b = a \div 128 /\ c = b \div 128 /\ d = c \div 128 /\ e = d \div 128
  BY BitsBehind
<1>6. a \in Nat /\ b \in Nat /\ c \in Nat /\ d \in Nat /\ e \in Nat
  <2>1. a \in Nat /\ b \in Nat
    BY <1>5, Split128
  <2>2. c \in Nat
    BY <1>5, <2>1, Split128
  <2>3. d \in Nat
    BY <1>5, <2>2, Split128
  <2>4. e \in Nat
    BY <1>5, <2>3, Split128
  <2> QED BY <2>1, <2>2, <2>3, <2>4
<1>7. /\ a = (a % 128) + 128 * b /\ b = (b % 128) + 128 * c
      /\ c = (c % 128) + 128 * d /\ d = (d % 128) + 128 * e
  <2>1. \A q \in Nat : q = (q % 128) + 128 * (q \div 128)
    BY Split128
  <2> HIDE DEF a, b, c, d, e
  <2> QED BY <1>5, <1>6, <2>1
<1>8. /\ a % 128 \in 0 .. 127 /\ b % 128 \in 0 .. 127 /\ c % 128 \in 0 .. 127
      /\ d % 128 \in 0 .. 127
  BY <1>6, Split128
<1>9. /\ L = 1 => (a % 256) % 128 = a
      /\ L = 2 => (b % 256) % 128 = b
      /\ L = 3 => (c % 256) % 128 = c
      /\ L = 4 => (d % 256) % 128 = d
      /\ L = 5 => (e % 256) % 128 = e
  BY <1>1, <1>6, Split128
<1>10. /\ D(1) = Part(a, 1) * 1 /\ D(2) = Part(b, 2) * 128
       /\ D(3) = Part(c, 3) * 16384 /\ D(4) = Part(d, 4) * 2097152
       /\ D(5) = Part(e, 5) * 268435456
  <2> HIDE DEF D, Part
  <2> QED BY <1>2, <1>4, SMT
<1>16. D(5) <= 2147483647 /\ D(5) \in Nat
  <2>1. e \in 0 .. 7 /\ e % 128 = e /\ (e % 256) % 128 = e
    <3>1. e \in 0 .. 7
      BY <1>6
    <3> HIDE DEF e
    <3> QED BY <3>1, SMT
  <2>2. Part(e, 5) \in {0, e}
    BY <2>1
  <2> HIDE DEF D, Part, e
  <2> QED BY <1>10, <2>1, <2>2, SMT
<1>17. AsSize(D(5)) = D(5)
  <2> HIDE DEF D
  <2> QED BY <1>16, SMT DEF AsSize
<1>18. VarintValue(Varint(n)) = D(1) + D(2) + D(3) + D(4) + D(5)
  <2> HIDE DEF D
  <2> QED BY <1>3, <1>17
<1> HIDE DEF L, D
<1>11. CASE L = 1
  <2>1. /\ Part(a, 1) = a /\ Part(b, 2) = 0
        /\ Part(c, 3) = 0 /\ Part(d, 4) = 0
        /\ Part(e, 5) = 0
    BY <1>9, <1>11
  <2>2. /\ D(1) = a /\ D(2) = 0
        /\ D(3) = 0 /\ D(4) = 0
        /\ D(5) = 0
    <3> HIDE DEF a, b, c, d, e, Part
    <3> QED BY <1>6, <1>8, <1>10, <2>1, SMTT(60)
  <2> HIDE DEF a, b, c, d, e
  <2> QED BY <1>18, <1>5, <1>6, <1>7, <1>8, <2>2, SMTT(60)
<1>12. CASE L = 2
  <2>1. /\ Part(a, 1) = a % 128 /\ Part(b, 2) = b
        /\ Part(c, 3) = 0 /\ Part(d, 4) = 0
        /\ Part(e, 5) = 0
    BY <1>9, <1>12
  <2>2. /\ D(1) = a % 128 /\ D(2) = b * 128
        /\ D(3) = 0 /\ D(4) = 0
        /\ D(5) = 0
    <3> HIDE DEF a, b, c, d, e, Part
    <3> QED BY <1>6, <1>8, <1>10, <2>1, SMTT(60)
  <2> HIDE DEF a, b, c, d, e
  <2> QED BY <1>18, <1>5, <1>6, <1>7, <1>8, <2>2, SMTT(60)
<1>13. CASE L = 3
  <2>1. /\ Part(a, 1) = a % 128 /\ Part(b, 2) = b % 128
        /\ Part(c, 3) = c /\ Part(d, 4) = 0
        /\ Part(e, 5) = 0
    BY <1>9, <1>13
  <2>2. /\ D(1) = a % 128 /\ D(2) = (b % 128) * 128
        /\ D(3) = c * 16384 /\ D(4) = 0
        /\ D(5) = 0
    <3> HIDE DEF a, b, c, d, e, Part
    <3> QED BY <1>6, <1>8, <1>10, <2>1, SMTT(60)
  <2> HIDE DEF a, b, c, d, e
  <2> QED BY <1>18, <1>5, <1>6, <1>7, <1>8, <2>2, SMTT(60)
<1>14. CASE L = 4
  <2>1. /\ Part(a, 1) = a % 128 /\ Part(b, 2) = b % 128
        /\ Part(c, 3) = c % 128 /\ Part(d, 4) = d
        /\ Part(e, 5) = 0
    BY <1>9, <1>14
  <2>2. /\ D(1) = a % 128 /\ D(2) = (b % 128) * 128
        /\ D(3) = (c % 128) * 16384 /\ D(4) = d * 2097152
        /\ D(5) = 0
    <3> HIDE DEF a, b, c, d, e, Part
    <3> QED BY <1>6, <1>8, <1>10, <2>1, SMTT(60)
  <2> HIDE DEF a, b, c, d, e
  <2> QED BY <1>18, <1>5, <1>6, <1>7, <1>8, <2>2, SMTT(60)
<1>15. CASE L = 5
  <2>1. /\ Part(a, 1) = a % 128 /\ Part(b, 2) = b % 128
        /\ Part(c, 3) = c % 128 /\ Part(d, 4) = d % 128
        /\ Part(e, 5) = e
    BY <1>9, <1>15
  <2>2. /\ D(1) = a % 128 /\ D(2) = (b % 128) * 128
        /\ D(3) = (c % 128) * 16384 /\ D(4) = (d % 128) * 2097152
        /\ D(5) = e * 268435456
    <3> HIDE DEF a, b, c, d, e, Part
    <3> QED BY <1>6, <1>8, <1>10, <2>1, SMTT(60)
  <2> HIDE DEF a, b, c, d, e
  <2> QED BY <1>18, <1>5, <1>6, <1>7, <1>8, <2>2, SMTT(60)
<1> QED BY <1>1, <1>11, <1>12, <1>13, <1>14, <1>15, SMT

(* What the writer makes of a length of up to 31 bits the reader takes for *)
(* the same length (snzip-format.c:107-133 and 204-214): the numbers of    *)
(* bytes agree, no seven bits are lost or come out of place, and the int   *)
(* they are shifted in has room for them.  The lengths written are all     *)
(* below 2^28 (SNZ_MAX_BLOCK_SIZE).                                        *)
THEOREM LengthBytes == \A n \in 0 .. 2^31 - 1 : VarintValue(Varint(n)) = n
<1>1. ASSUME NEW n \in 0 .. 2^31 - 1 PROVE n \in Nat /\ Bits(n, 5) < 8
  BY Limits, LastBits, SMT
<1> QED BY <1>1, DigitsMakeLength

-----------------------------------------------------------------------------
(* The items of a stream.                                                  *)

(* Where in the text the item p of s begins, and that the items of s hold  *)
(* a text in order.                                                        *)
PositionIn(s, p) == IF p = 1 THEN 0 ELSE EndOf(s[p - 1])
Chained(s) == \A i \in DOMAIN s : s[i].first = PositionIn(s, i)
Fine(s) == \A i \in DOMAIN s : ItemFine(s[i])

LEMMA ItemTypes ==
  ASSUME NEW kind \in {"header", "block", "end", "skippable", "unknown"},
         NEW len \in Nat, NEW first \in Nat
  PROVE  /\ Item(kind, len, first) \in Items
         /\ Item(kind, len, first).kind = kind /\ Item(kind, len, first).n = 0
         /\ Item(kind, len, first).len = len
         /\ Item(kind, len, first).first = first
         /\ ~Item(kind, len, first).stored
BY DEF Item, Items

LEMMA BlockTypes ==
  ASSUME NEW len \in Nat, NEW width \in Nat, NEW first \in Nat, NEW n \in Nat
  PROVE  /\ Block(len, width, first, n) \in Items
         /\ Block(len, width, first, n).kind = "block"
         /\ Block(len, width, first, n).n = n
         /\ Block(len, width, first, n).len = len
         /\ Block(len, width, first, n).size = width
         /\ Block(len, width, first, n).first = first
         /\ ~Block(len, width, first, n).stored
         /\ StoredBlock(len, width, first, n) \in Items
         /\ StoredBlock(len, width, first, n).kind = "block"
         /\ StoredBlock(len, width, first, n).n = n
         /\ StoredBlock(len, width, first, n).len = len
         /\ StoredBlock(len, width, first, n).size = width
         /\ StoredBlock(len, width, first, n).first = first
BY DEF Item, Block, StoredBlock, Items

LEMMA EndIsNat == ASSUME NEW e \in Items PROVE EndOf(e) \in Nat
BY DEF EndOf, Items

(* One item more.                                                          *)
LEMMA AppendChained ==
  ASSUME NEW s \in Seq(Items), Chained(s), NEW e \in Items,
         e.first = PositionIn(s, Len(s) + 1)
  PROVE  /\ Chained(Append(s, e))
         /\ PositionIn(Append(s, e), Len(Append(s, e)) + 1) = EndOf(e)
<1> DEFINE r == Append(s, e)
<1>1. /\ Len(r) = Len(s) + 1 /\ Len(s) \in Nat
      /\ DOMAIN r = 1 .. Len(s) + 1 /\ DOMAIN s = 1 .. Len(s)
      /\ r[Len(s) + 1] = e /\ \A i \in 1 .. Len(s) : r[i] = s[i]
  OBVIOUS
<1> HIDE DEF r
<1>2. ASSUME NEW i \in DOMAIN r PROVE r[i].first = PositionIn(r, i)
  <2>1. PositionIn(r, i) = PositionIn(s, i)
    BY <1>1 DEF PositionIn
  <2>2. CASE i = Len(s) + 1
    BY <1>1, <2>1, <2>2
  <2>3. CASE i # Len(s) + 1
    BY <1>1, <2>1, <2>3 DEF Chained
  <2> QED BY <2>2, <2>3
<1>3. PositionIn(r, Len(r) + 1) = EndOf(e)
  BY <1>1 DEF PositionIn
<1> QED BY <1>2, <1>3 DEF Chained, r

LEMMA AppendFine ==
  ASSUME NEW s \in Seq(Items), Fine(s), NEW e \in Items, ItemFine(e)
  PROVE  Fine(Append(s, e))
<1> DEFINE r == Append(s, e)
<1>1. /\ DOMAIN r = 1 .. Len(s) + 1 /\ DOMAIN s = 1 .. Len(s) /\ Len(s) \in Nat
      /\ r[Len(s) + 1] = e /\ \A i \in 1 .. Len(s) : r[i] = s[i]
  OBVIOUS
<1> HIDE DEF r
<1>2. \A i \in DOMAIN r : ItemFine(r[i])
  BY <1>1 DEF Fine
<1> QED BY <1>2 DEF Fine, r

(* The beginning of a stream.                                              *)
LEMMA BeginningKeeps ==
  ASSUME NEW s \in Seq(Items), NEW k \in 0 .. Len(s)
  PROVE  /\ SubSeq(s, 1, k) \in Seq(Items) /\ Len(SubSeq(s, 1, k)) = k
         /\ Fine(s) => Fine(SubSeq(s, 1, k))
         /\ Chained(s) => Chained(SubSeq(s, 1, k))
<1> DEFINE r == SubSeq(s, 1, k)
<1>1. /\ r \in Seq(Items) /\ Len(r) = k /\ DOMAIN r = 1 .. k
      /\ DOMAIN s = 1 .. Len(s) /\ Len(s) \in Nat
      /\ \A i \in 1 .. k : r[i] = s[i]
  OBVIOUS
<1> HIDE DEF r
<1>2. Fine(s) => Fine(r)
  BY <1>1 DEF Fine
<1>3. ASSUME Chained(s), NEW i \in DOMAIN r PROVE r[i].first = PositionIn(r, i)
  <2>1. PositionIn(r, i) = PositionIn(s, i) /\ i \in DOMAIN s /\ r[i] = s[i]
    BY <1>1 DEF PositionIn
  <2> QED BY <1>3, <2>1 DEF Chained
<1> QED BY <1>1, <1>2, <1>3 DEF Chained, r

(* An item of the same text in the place of another.                       *)
LEMMA ReplaceKeeps ==
  ASSUME NEW s \in Seq(Items), NEW i \in DOMAIN s, NEW e \in Items,
         e.first = s[i].first, e.n = s[i].n
  PROVE  /\ [s EXCEPT ![i] = e] \in Seq(Items)
         /\ Fine(s) /\ ItemFine(e) => Fine([s EXCEPT ![i] = e])
         /\ Chained(s) => Chained([s EXCEPT ![i] = e])
<1> DEFINE r == [s EXCEPT ![i] = e]
<1>1. /\ r \in Seq(Items) /\ Len(r) = Len(s) /\ DOMAIN r = 1 .. Len(s)
      /\ DOMAIN s = 1 .. Len(s) /\ Len(s) \in Nat
      /\ r[i] = e /\ \A k \in DOMAIN s : k # i => r[k] = s[k]
  OBVIOUS
<1> HIDE DEF r
<1>2. Fine(s) /\ ItemFine(e) => Fine(r)
  BY <1>1 DEF Fine
<1>3. ASSUME Chained(s), NEW k \in DOMAIN r PROVE r[k].first = PositionIn(r, k)
  <2>1. k # 1 => k - 1 \in DOMAIN s
    BY <1>1
  <2>2. \A j \in DOMAIN s : EndOf(r[j]) = EndOf(s[j]) /\ r[j].first = s[j].first
    BY <1>1 DEF EndOf
  <2>3. PositionIn(r, k) = PositionIn(s, k)
    BY <2>1, <2>2 DEF PositionIn
  <2> QED BY <1>1, <1>3, <2>2, <2>3 DEF Chained
<1> QED BY <1>1, <1>2, <1>3 DEF Chained, r

(* The same text again behind it.                                          *)
Shifted(e, d, t) ==
  /\ d \in Items /\ d.first = e.first + t /\ EndOf(d) = EndOf(e) + t
  /\ d.n = e.n /\ d.kind = e.kind /\ d.len = e.len
  /\ ItemFine(e) => ItemFine(d)
TwiceOver(s, r, t) ==
  /\ r \in Seq(Items) /\ Len(r) = Len(s) + Len(s)
  /\ \A k \in 1 .. Len(s) : r[k] = s[k] /\ Shifted(s[k], r[Len(s) + k], t)

LEMMA ConcatenatedItems ==
  ASSUME stream \in Seq(Items), stream # <<>>,
         NEW r, r = stream \o [i \in DOMAIN stream |-> Later(stream[i])]
  PROVE  TwiceOver(stream, r, EndOf(stream[Len(stream)]))
<1> DEFINE L == Len(stream)
           t == EndOf(stream[L])
<1>1. L \in Nat /\ L >= 1 /\ DOMAIN stream = 1 .. L /\ stream[L] \in Items
  OBVIOUS
<1>2. t \in Nat
  BY <1>1, EndIsNat
<1>3. \A i \in 1 .. L :
        /\ Later(stream[i]) \in Items
        /\ Later(stream[i]).first = stream[i].first + t
        /\ Later(stream[i]).n = stream[i].n
        /\ Later(stream[i]).kind = stream[i].kind
        /\ Later(stream[i]).len = stream[i].len
        /\ EndOf(Later(stream[i])) = EndOf(stream[i]) + t
        /\ ItemFine(stream[i]) => ItemFine(Later(stream[i]))
  <2> SUFFICES ASSUME NEW i \in 1 .. L
               PROVE  /\ Later(stream[i]) \in Items
                      /\ Later(stream[i]).first = stream[i].first + t
                      /\ Later(stream[i]).n = stream[i].n
                      /\ Later(stream[i]).kind = stream[i].kind
                      /\ Later(stream[i]).len = stream[i].len
                      /\ EndOf(Later(stream[i])) = EndOf(stream[i]) + t
                      /\ ItemFine(stream[i]) => ItemFine(Later(stream[i]))
    OBVIOUS
  <2>1. stream[i] \in Items
    BY <1>1
  <2>2. Later(stream[i]) = [stream[i] EXCEPT !.first = stream[i].first + t]
    BY <2>1 DEF Later
  <2> HIDE DEF t
  <2>a. stream[i].first \in Nat /\ stream[i].n \in Nat
    BY <2>1 DEF Items
  <2>b. stream[i].first + t \in Nat
    BY <1>2, <2>a
  <2>3. /\ Later(stream[i]) \in Items
        /\ Later(stream[i]).first = stream[i].first + t
        /\ Later(stream[i]).n = stream[i].n
        /\ Later(stream[i]).kind = stream[i].kind
        /\ Later(stream[i]).len = stream[i].len
    BY <2>1, <2>2, <2>b DEF Items
  <2>4. EndOf(Later(stream[i])) = EndOf(stream[i]) + t
    BY <1>2, <2>3, <2>a DEF EndOf
  <2>5. ItemFine(stream[i]) => ItemFine(Later(stream[i]))
    BY <2>1, <2>2, SMT DEF ItemFine, Items
  <2> QED BY <2>3, <2>4, <2>5
<1> DEFINE q == [i \in DOMAIN stream |-> Later(stream[i])]
<1>4. q \in Seq(Items) /\ Len(q) = L /\ \A i \in 1 .. L : q[i] = Later(stream[i])
  BY <1>1, <1>3
<1> HIDE DEF q, t
<1>5. r = stream \o q
  BY DEF q
<1>6. /\ r \in Seq(Items) /\ Len(r) = L + L /\ DOMAIN r = 1 .. L + L
      /\ \A k \in 1 .. L : r[k] = stream[k]
      /\ \A k \in L + 1 .. L + L : r[k] = Later(stream[k - L])
  <2>1. r \in Seq(Items) /\ Len(r) = L + L /\ DOMAIN r = 1 .. L + L
    <3>1. stream \in Seq(Items) /\ q \in Seq(Items) /\ Len(stream) = L /\ Len(q) = L
      BY <1>1, <1>4
    <3> HIDE DEF L
    <3>2. stream \o q \in Seq(Items) /\ Len(stream \o q) = Len(stream) + Len(q)
      BY <3>1, ConcatProperties
    <3>3. stream \o q \in Seq(Items) /\ Len(stream \o q) = L + L
      <4>1. Len(stream) + Len(q) = L + L
        BY <3>1
      <4> QED BY <3>2, <4>1
    <3>4. DOMAIN (stream \o q) = 1 .. Len(stream \o q)
      BY <3>3, LenProperties
    <3> QED BY <1>5, <3>3, <3>4
  <2>2. ASSUME NEW k \in 1 .. L PROVE r[k] = stream[k]
    BY <1>1, <1>4, <1>5
  <2>3. ASSUME NEW k \in L + 1 .. L + L PROVE r[k] = Later(stream[k - L])
    <3>1. r[k] = q[k - L]
      BY <1>1, <1>4, <1>5, <2>3
    <3>2. k - L \in 1 .. L
      BY <1>1
    <3> QED BY <1>4, <3>1, <3>2
  <2> QED BY <2>1, <2>2, <2>3
<1>7. ASSUME NEW k \in 1 .. L PROVE Shifted(stream[k], r[L + k], t)
  <2>1. L + k \in L + 1 .. L + L /\ (L + k) - L = k
    BY <1>1
  <2>2. r[L + k] = Later(stream[k])
    BY <1>6, <2>1
  <2> QED BY <1>3, <2>2 DEF Shifted
<1> QED BY <1>6, <1>7 DEF TwiceOver, t

LEMMA ConcatenatedKeeps ==
  ASSUME stream \in Seq(Items), stream # <<>>,
         NEW r, r = stream \o [i \in DOMAIN stream |-> Later(stream[i])]
  PROVE  /\ r \in Seq(Items)
         /\ Fine(stream) => Fine(r)
         /\ Chained(stream) => Chained(r)
<1>0. TwiceOver(stream, r, EndOf(stream[Len(stream)]))
  BY ConcatenatedItems
<1> DEFINE L == Len(stream)
           t == EndOf(stream[L])
<1>1. L \in Nat /\ L >= 1 /\ DOMAIN stream = 1 .. L /\ stream[L] \in Items
  OBVIOUS
<1>2. t \in Nat
  BY <1>1, EndIsNat
<1>3. /\ r \in Seq(Items) /\ Len(r) = L + L
      /\ \A k \in 1 .. L : r[k] = stream[k] /\ Shifted(stream[k], r[L + k], t)
  BY <1>0 DEF TwiceOver
<1> HIDE DEF L, t
<1>6. /\ DOMAIN r = 1 .. L + L
      /\ \A k \in L + 1 .. L + L : Shifted(stream[k - L], r[k], t)
  <2>1. DOMAIN r = 1 .. L + L
    BY <1>3
  <2>2. ASSUME NEW k \in L + 1 .. L + L PROVE Shifted(stream[k - L], r[k], t)
    <3>1. k - L \in 1 .. L /\ L + (k - L) = k
      BY <1>1
    <3> QED BY <1>3, <3>1
  <2> QED BY <2>1, <2>2
<1>7. ASSUME Fine(stream), NEW k \in DOMAIN r PROVE ItemFine(r[k])
  <2>1. CASE k <= L
    BY <1>1, <1>3, <1>6, <1>7, <2>1 DEF Fine
  <2>2. CASE k > L
    <3>1. k \in L + 1 .. L + L /\ k - L \in 1 .. L
      BY <1>1, <1>6, <2>2
    <3> QED BY <1>1, <1>6, <1>7, <3>1 DEF Fine, Shifted
  <2> QED BY <1>1, <1>6, <2>1, <2>2
<1>8. ASSUME Chained(stream), NEW k \in DOMAIN r PROVE r[k].first = PositionIn(r, k)
  <2>1. CASE k <= L
    <3>1. PositionIn(r, k) = PositionIn(stream, k) /\ k \in DOMAIN stream
      BY <1>1, <1>3, <1>6, <2>1 DEF PositionIn
    <3> QED BY <1>1, <1>3, <1>6, <1>8, <2>1, <3>1 DEF Chained
  <2>2. CASE k = L + 1
    <3>1. PositionIn(r, k) = t
      BY <1>1, <1>3, <2>2 DEF PositionIn, t
    <3>2. stream[1].first = 0
      BY <1>1, <1>8 DEF Chained, PositionIn
    <3>3. Shifted(stream[1], r[k], t)
      <4>1. k \in L + 1 .. L + L /\ k - L = 1
        BY <1>1, <2>2
      <4> QED BY <1>6, <4>1
    <3> QED BY <1>2, <3>1, <3>2, <3>3 DEF Shifted
  <2>3. CASE k > L + 1
    <3>a. L \in Nat /\ L >= 1 /\ k \in 1 .. L + L /\ k > L + 1
      BY <1>1, <1>6, <2>3
    <3>1. /\ k \in L + 1 .. L + L /\ k - 1 \in L + 1 .. L + L
          /\ k - 1 - L = (k - L) - 1 /\ k # 1
      BY <3>a
    <3>b. k - L \in 1 .. L /\ (k - L) - 1 \in 1 .. L /\ k - L # 1
      BY <3>a
    <3> DEFINE j == k - L
    <3>2. Shifted(stream[j], r[k], t) /\ Shifted(stream[j - 1], r[k - 1], t)
      BY <1>6, <3>1
    <3>3. j \in 1 .. L /\ j - 1 \in 1 .. L /\ j # 1
      BY <3>b
    <3> HIDE DEF j
    <3>4. stream[j].first = EndOf(stream[j - 1])
      BY <1>1, <1>8, <3>3 DEF Chained, PositionIn
    <3>5. r[k].first = stream[j].first + t
      BY <3>2 DEF Shifted
    <3>6. PositionIn(r, k) = EndOf(stream[j - 1]) + t
      BY <3>1, <3>2 DEF PositionIn, Shifted
    <3> QED BY <3>4, <3>5, <3>6
  <2> QED BY <1>1, <1>6, <2>1, <2>2, <2>3
<1> QED BY <1>3, <1>7, <1>8 DEF Fine, Chained

(* The items of a stream an item was put into.                             *)
LEMMA InsertedItems ==
  ASSUME NEW s \in Seq(Items), NEW i \in 1 .. Len(s), NEW e \in Items
  PROVE  LET r == SubSeq(s, 1, i) \o <<e>> \o SubSeq(s, i + 1, Len(s)) IN
         /\ r \in Seq(Items) /\ Len(r) = Len(s) + 1
         /\ \A k \in 1 .. i : r[k] = s[k]
         /\ r[i + 1] = e
         /\ \A k \in i + 1 .. Len(s) : r[k + 1] = s[k]
<1> DEFINE L == Len(s)
           a == SubSeq(s, 1, i)
           b == SubSeq(s, i + 1, L)
           c == a \o <<e>>
           r == c \o b
<1>1. L \in Nat /\ i \in Nat /\ 1 <= i /\ i <= L
  OBVIOUS
<1>2. \A k \in 1 .. L : s[k] \in Items
  OBVIOUS
<1>3. a \in Seq(Items) /\ Len(a) = i /\ \A k \in 1 .. i : a[k] = s[k]
  BY <1>1, <1>2
<1>4. b \in Seq(Items) /\ Len(b) = L - i /\ \A k \in 1 .. L - i : b[k] = s[i + k]
  <2> HIDE DEF L
  <2>1. \A k \in i + 1 .. L : s[k] \in Items
    BY <1>1, <1>2
  <2>2. /\ b \in Seq(Items)
        /\ Len(b) = IF i + 1 <= L THEN L - (i + 1) + 1 ELSE 0
        /\ \A k \in 1 .. L - (i + 1) + 1 : b[k] = s[i + 1 + k - 1]
    BY <1>1, <2>1, SubSeqProperties
  <2> HIDE DEF b
  <2>3. Len(b) = L - i
    BY <1>1, <2>2
  <2>4. ASSUME NEW k \in 1 .. L - i PROVE b[k] = s[i + k]
    <3>1. k \in 1 .. L - (i + 1) + 1 /\ i + 1 + k - 1 = i + k
      BY <1>1
    <3> QED BY <2>2, <3>1
  <2> QED BY <2>2, <2>3, <2>4
<1> HIDE DEF L, a, b
<1>5. /\ c \in Seq(Items) /\ Len(c) = i + 1 /\ c[i + 1] = e
      /\ \A k \in 1 .. i : c[k] = s[k]
  <2>1. c = Append(a, e)
    BY <1>3
  <2> HIDE DEF c
  <2> QED BY <1>1, <1>3, <2>1
<1> HIDE DEF c
<1>6. /\ r \in Seq(Items) /\ Len(r) = L + 1
      /\ \A k \in 1 .. i + 1 + (L - i) :
           r[k] = IF k <= i + 1 THEN c[k] ELSE b[k - (i + 1)]
  <2>1. /\ r \in Seq(Items) /\ Len(r) = Len(c) + Len(b)
        /\ \A k \in 1 .. Len(c) + Len(b) :
             r[k] = IF k <= Len(c) THEN c[k] ELSE b[k - Len(c)]
    BY <1>4, <1>5, ConcatProperties
  <2> HIDE DEF r
  <2> QED BY <1>1, <1>4, <1>5, <2>1
<1> HIDE DEF r
<1>7. r[i + 1] = e /\ \A k \in 1 .. i : r[k] = s[k]
  BY <1>1, <1>5, <1>6
<1>8. ASSUME NEW k \in i + 1 .. L PROVE r[k + 1] = s[k]
  <2>1. /\ k + 1 \in 1 .. i + 1 + (L - i) /\ ~(k + 1 <= i + 1)
        /\ (k + 1) - (i + 1) = k - i
        /\ k - i \in 1 .. L - i /\ i + (k - i) = k
    BY <1>1
  <2>2. r[k + 1] = b[k - i]
    BY <1>6, <2>1
  <2>3. b[k - i] = s[i + (k - i)]
    BY <1>4, <2>1
  <2> QED BY <2>1, <2>2, <2>3
<1> QED BY <1>6, <1>7, <1>8 DEF r, c, a, b, L

(* An item without text between two others.                                *)
LEMMA InsertedKeeps ==
  ASSUME NEW s \in Seq(Items), NEW i \in 1 .. Len(s), NEW e \in Items,
         e.first = EndOf(s[i]), e.n = 0,
         NEW r \in Seq(Items), Len(r) = Len(s) + 1,
         \A k \in 1 .. i : r[k] = s[k],
         r[i + 1] = e,
         \A k \in i + 1 .. Len(s) : r[k + 1] = s[k]
  PROVE  /\ Fine(s) /\ ItemFine(e) => Fine(r)
         /\ Chained(s) => Chained(r)
<1> DEFINE L == Len(s)
<1>1. /\ L \in Nat /\ DOMAIN s = 1 .. L /\ DOMAIN r = 1 .. L + 1
      /\ i \in Nat /\ 1 <= i /\ i <= L
      /\ \A k \in i + 1 .. L : r[k + 1] = s[k]
  OBVIOUS
<1> HIDE DEF L
<1>2. \A k \in 1 .. L + 1 :
        \/ k <= i /\ k \in 1 .. L /\ r[k] = s[k]
        \/ k = i + 1
        \/ k > i + 1 /\ k - 1 \in i + 1 .. L /\ k - 1 \in 1 .. L /\ r[k] = s[k - 1]
  <2> SUFFICES ASSUME NEW k \in 1 .. L + 1, k > i + 1
               PROVE  /\ k - 1 \in i + 1 .. L /\ k - 1 \in 1 .. L
                      /\ r[k] = s[k - 1]
    BY <1>1
  <2>1. k - 1 \in i + 1 .. L /\ k - 1 \in 1 .. L /\ (k - 1) + 1 = k
    BY <1>1
  <2> QED BY <1>1, <2>1
<1>3. EndOf(e) = EndOf(s[i])
  <2>1. s[i] \in Items /\ EndOf(s[i]) \in Nat
    BY EndIsNat
  <2> QED BY <2>1 DEF EndOf
<1>4. ASSUME Fine(s), ItemFine(e), NEW k \in 1 .. L + 1 PROVE ItemFine(r[k])
  BY <1>1, <1>2, <1>4 DEF Fine
<1>5. ASSUME Chained(s), NEW k \in 1 .. L + 1 PROVE r[k].first = PositionIn(r, k)
  <2>1. \A j \in 1 .. L : s[j].first = IF j = 1 THEN 0 ELSE EndOf(s[j - 1])
    BY <1>1, <1>5 DEF Chained, PositionIn
  <2>2. CASE k <= i
    <3>1. r[k] = s[k] /\ k \in 1 .. L
      BY <1>1, <1>2, <2>2
    <3>2. k # 1 => r[k - 1] = s[k - 1]
      <4>1. k # 1 => k - 1 \in 1 .. i
        BY <1>1, <2>2
      <4> QED BY <4>1
    <3> QED BY <2>1, <3>1, <3>2 DEF PositionIn
  <2>3. CASE k = i + 1
    <3>1. k - 1 = i /\ k # 1 /\ i \in 1 .. i
      BY <1>1, <2>3
    <3> QED BY <2>3, <3>1 DEF PositionIn
  <2>4. CASE k > i + 1
    <3>1. r[k] = s[k - 1] /\ k - 1 \in 1 .. L /\ k # 1 /\ k - 1 # 1
      BY <1>1, <1>2, <2>4
    <3>2. EndOf(r[k - 1]) = EndOf(s[(k - 1) - 1])
      <4>1. CASE k - 1 = i + 1
        <5>1. (k - 1) - 1 = i
          BY <1>1, <4>1
        <5> QED BY <1>3, <4>1, <5>1
      <4>2. CASE k - 1 # i + 1
        <5>1. k - 1 \in 1 .. L + 1 /\ k - 1 > i + 1
          BY <1>1, <2>4, <4>2
        <5>2. r[k - 1] = s[(k - 1) - 1]
          BY <1>1, <1>2, <5>1
        <5> QED BY <5>2
      <4> QED BY <4>1, <4>2
    <3> QED BY <2>1, <3>1, <3>2 DEF PositionIn
  <2> QED BY <1>1, <2>2, <2>3, <2>4
<1> QED BY <1>1, <1>4, <1>5 DEF Fine, Chained

-----------------------------------------------------------------------------
(* The inductive invariant: what compress does and what happens on the way.*)

LEMMA InHand ==
  ASSUME IInv
  PROVE  /\ stream \in Seq(Items) /\ Fine(stream)
         /\ ~oerr => Chained(stream)
         /\ \A p : Position(p) = PositionIn(stream, p)
<1>1. \A p : Position(p) = PositionIn(stream, p)
  BY DEF Position, PositionIn
<1>2. Fine(stream) /\ stream \in Seq(Items)
  BY DEF IInv, TypeOK, ItemsInHand, Fine
<1>3. ~oerr => Chained(stream)
  BY <1>1 DEF IInv, WriterInHand, Chained
<1> QED BY <1>1, <1>2, <1>3

(* Uncompress has not begun: it has nothing to account for.                *)
LEMMA NothingRead ==
  ASSUME at' = 1, got' = <<>>,
         phase' \in {"encode", "wire", "header", "detected", "refused", "failed",
                    "died"},
         TypeOK', Fine(stream'), ~oerr' => Chained(stream'),
         ~oerr' /\ phase' = "encode" =>
           PositionIn(stream', Len(stream') + 1) = taken',
         format' = format
  PROVE  IInv'
<1>1. ItemsInHand'
  BY DEF ItemsInHand, Fine, ItemFine
<1>2. \A p : Position(p)' = PositionIn(stream', p)
  BY DEF Position, PositionIn, EndOf
<1>3. WriterInHand'
  <2>1. ~oerr' => \A i \in DOMAIN stream' : stream'[i].first = Position(i)'
    BY <1>2 DEF Chained
  <2>2. ~oerr' /\ phase' = "encode" => Position(Len(stream) + 1)' = taken'
    BY <1>2
  <2> QED BY <2>1, <2>2 DEF WriterInHand
<1>4. ReaderInHand'
  <2>1. Reached' = 0 /\ Position(at)' = 0
    BY <1>2 DEF Reached, PositionIn
  <2> QED BY <2>1 DEF ReaderInHand
<1>5. BuffersInHand' /\ FramedSoFar'
  BY DEF BuffersInHand, FramedSoFar, Reading
<1>6. BuffersFit' /\ OnlySoundData' /\ TextInOrder'
  BY DEF BuffersFit, OnlySoundData, TextInOrder
<1>7. SuccessIsWhole' /\ StreamsAreFramed'
  BY DEF SuccessIsWhole, StreamsAreFramed
<1> QED BY <1>1, <1>3, <1>4, <1>5, <1>6, <1>7 DEF IInv

(* A step of compress: it writes nothing or one item, which holds what it  *)
(* has taken from the text.                                                *)
LEMMA EncoderStep ==
  ASSUME IInv, phase \in {"start", "encode"},
         NEW items, NEW n \in Nat,
         \/ items = <<>> /\ n = 0
         \/ \E e \in Items : /\ items = <<e>> /\ ItemFine(e)
                            /\ e.first = taken /\ e.n = n,
         Emit(items), taken' = taken + n, taken + n <= size,
         wb' \in [c : Nat, uc : Nat], UNCHANGED <<text, reader>>,
         phase' \in {"encode", "wire", "failed", "died"}
  PROVE  IInv'
<1>1. at' = 1 /\ got' = <<>> /\ format' = format /\ size' = size /\ blockSize' = blockSize
  BY DEF IInv, ReaderInHand, text, reader
<1>2. /\ stream \in Seq(Items) /\ Fine(stream)
      /\ ~oerr => Chained(stream)
      /\ ~oerr => PositionIn(stream, Len(stream) + 1) = taken
  BY InHand DEF IInv, WriterInHand
<1>3. taken \in Nat /\ taken <= size
  BY BlockAssumption DEF IInv, TypeOK
<1>4. /\ stream' \in Seq(Items) /\ Fine(stream')
      /\ oerr' \in BOOLEAN
      /\ mishaps' \in {mishaps, mishaps \cup {"call"}}
      /\ ~oerr' => Chained(stream')
      /\ ~oerr' => PositionIn(stream', Len(stream') + 1) = taken'
  <2>1. CASE stream' = stream \o items /\ UNCHANGED <<oerr, mishaps>>
    <3>1. CASE items = <<>> /\ n = 0
      <4>1. stream' = stream /\ taken' = taken
        BY <1>2, <1>3, <2>1, <3>1
      <4> QED BY <1>2, <2>1, <4>1 DEF IInv, TypeOK
    <3>2. CASE \E e \in Items : /\ items = <<e>> /\ ItemFine(e)
                               /\ e.first = taken /\ e.n = n
      <4>1. PICK e \in Items : /\ items = <<e>> /\ ItemFine(e)
                               /\ e.first = taken /\ e.n = n
        BY <3>2
      <4>2. stream' = Append(stream, e)
        BY <1>2, <2>1, <4>1
      <4>3. stream' \in Seq(Items)
        BY <1>2, <4>2
      <4>4. Fine(stream')
        BY <1>2, <4>1, <4>2, AppendFine
      <4>5. ~oerr' => /\ Chained(stream')
                      /\ PositionIn(stream', Len(stream') + 1) = EndOf(e)
        BY <1>2, <2>1, <4>1, <4>2, AppendChained
      <4>6. EndOf(e) = taken'
        BY <4>1 DEF EndOf
      <4> QED BY <2>1, <4>3, <4>4, <4>5, <4>6 DEF IInv, TypeOK
    <3> QED BY <3>1, <3>2
  <2>2. CASE oerr' = TRUE /\ mishaps' = mishaps \cup {"call"} /\ UNCHANGED stream
    BY <1>2, <2>2
  <2> QED BY <2>1, <2>2 DEF Emit
<1>5. TypeOK'
  <2>1. taken' \in 0 .. size'
    BY <1>1, <1>3, BlockAssumption DEF IInv, TypeOK
  <2>2. at' \in 1 .. Len(stream') + 1 /\ got' \in Seq(DOMAIN stream')
    BY <1>1, <1>4
  <2> QED BY <1>1, <1>4, <2>1, <2>2 DEF IInv, TypeOK, Phases, Ended
<1> QED BY <1>1, <1>4, <1>5, NothingRead

(* Compress gives up, or what it has made of the text is on its way.       *)
LEMMA BeforeReading ==
  ASSUME IInv, phase \in {"start", "encode", "wire"},
         UNCHANGED <<text, writer, wb, stream, reader>>,
         mishaps' \in {mishaps, mishaps \cup {"call"}},
         phase' \in {"refused", "failed", "header", "detected"}
  PROVE  IInv'
<1>1. at' = 1 /\ got' = <<>>
  BY DEF IInv, ReaderInHand, reader
<1>2. TypeOK'
  BY DEF IInv, TypeOK, Phases, Ended, text, writer, reader
<1> QED BY <1>1, <1>2, InHand, NothingRead DEF text, writer

(* What may happen to the stream on its way leaves what is left of the     *)
(* text in order.                                                          *)
LEMMA ReplacedStream ==
  ASSUME NEW s \in Seq(Items), Fine(s), NEW i \in DOMAIN s, NEW e \in Items,
         ItemFine(e), e.first = s[i].first, e.n = s[i].n,
         stream' = [s EXCEPT ![i] = e]
  PROVE  /\ stream' \in Seq(Items) /\ Fine(stream')
         /\ Chained(s) => Chained(stream')
BY ReplaceKeeps

LEMMA ForeignItems ==
  ASSUME NEW p \in Nat, NEW item \in ForeignAt(p), format \in AllFormats
  PROVE  /\ item \in Items /\ ItemFine(item)
         /\ item.first = p /\ item.n = 0
<1>1. ChecksumLen \in 0 .. 4 /\ EmptyLen \in 1 .. 8
  BY DEF ChecksumLen, EmptyLen
<1>2. \/ item = Block(EmptyLen, EmptyLen, p, 0)
      \/ item = Item("unknown", 9, p)
      \/ format \in Checked /\ item = StoredBlock(ChecksumLen, ChecksumLen, p, 0)
      \/ item = Item("skippable", 9, p)
  BY DEF ForeignAt
<1>3. CASE item = Block(EmptyLen, EmptyLen, p, 0)
  <2>1. /\ item \in Items /\ item.first = p /\ item.n = 0 /\ item.len \in 1 .. 8
        /\ ~item.stored
    <3>1. EmptyLen \in Nat
      BY <1>1
    <3> QED BY <1>1, <1>3, <3>1 DEF Block, Item, Items
  <2> QED BY <2>1, SMT DEF ItemFine, IwaDataMax
<1>4. CASE item \in {Item("unknown", 9, p), Item("skippable", 9, p)}
  <2>1. /\ item \in Items /\ item.first = p /\ item.n = 0 /\ item.len = 9
        /\ ~item.stored
    BY <1>4, ItemTypes
  <2> QED BY <2>1, SMT DEF ItemFine, IwaDataMax
<1>5. CASE format \in Checked /\ item = StoredBlock(ChecksumLen, ChecksumLen, p, 0)
  <2>1. /\ item \in Items /\ item.first = p /\ item.n = 0 /\ item.len \in 0 .. 4
        /\ item.size \in Nat /\ item.kind = "block"
    <3>1. ChecksumLen \in Nat
      BY <1>1
    <3> QED BY <1>1, <1>5, <3>1 DEF StoredBlock, Block, Item, Items
  <2> QED BY <1>5, <2>1, SMT DEF ItemFine, IwaDataMax
<1> QED BY <1>2, <1>3, <1>4, <1>5

LEMMA WireKeepsStream ==
  ASSUME stream \in Seq(Items), Fine(stream), format \in AllFormats,
         CutBeforeItem \/ CutInItem \/ Corrupt \/ WrongLength \/ Concatenate
           \/ InsertForeign
  PROVE  /\ stream' \in Seq(Items) /\ Fine(stream')
         /\ Chained(stream) => Chained(stream')
<1> DEFINE L == Len(stream)
<1>0. L \in Nat /\ DOMAIN stream = 1 .. L /\ \A i \in 1 .. L : stream[i] \in Items
  OBVIOUS
<1>1. CASE CutBeforeItem
  <2>1. PICK i \in DOMAIN stream : stream' = SubSeq(stream, 1, i - 1)
    BY <1>1 DEF CutBeforeItem
  <2>2. i - 1 \in 0 .. Len(stream)
    BY <1>0
  <2> QED BY <2>1, <2>2, BeginningKeeps
<1>2. CASE CutInItem
  <2>1. PICK i \in DOMAIN stream :
          stream' = [SubSeq(stream, 1, i) EXCEPT ![i].cut = TRUE]
    BY <1>2 DEF CutInItem
  <2> DEFINE r == SubSeq(stream, 1, i)
  <2>2. i \in 0 .. Len(stream) /\ i \in 1 .. i
    BY <1>0
  <2>3. /\ r \in Seq(Items) /\ Len(r) = i /\ Fine(r)
        /\ Chained(stream) => Chained(r)
    BY <2>2, BeginningKeeps
  <2> HIDE DEF r
  <2> DEFINE e == [r[i] EXCEPT !.cut = TRUE]
  <2>4. stream' = [r EXCEPT ![i] = e]
    BY <2>1 DEF r
  <2>5. i \in DOMAIN r /\ r[i] \in Items /\ ItemFine(r[i])
    BY <2>2, <2>3 DEF Fine
  <2>6. /\ e \in Items /\ e.first = r[i].first /\ e.n = r[i].n
        /\ e.kind = r[i].kind /\ e.len = r[i].len /\ e.stored = r[i].stored
        /\ e.size = r[i].size
    BY <2>5 DEF Items
  <2> HIDE DEF e
  <2>7. ItemFine(e)
    BY <2>5, <2>6, SMT DEF ItemFine
  <2> QED BY <2>3, <2>4, <2>5, <2>6, <2>7, ReplacedStream
<1>3. CASE Corrupt
  <2>1. PICK i \in DOMAIN stream, d \in {"broken", "altered"} :
          stream' = [stream EXCEPT ![i].data = d]
    BY <1>3 DEF Corrupt
  <2> DEFINE e == [stream[i] EXCEPT !.data = d]
  <2>2. stream' = [stream EXCEPT ![i] = e]
    BY <2>1
  <2>3. stream[i] \in Items /\ ItemFine(stream[i])
    BY <1>0 DEF Fine
  <2>4. /\ e \in Items /\ e.first = stream[i].first /\ e.n = stream[i].n
        /\ e.kind = stream[i].kind /\ e.len = stream[i].len
        /\ e.stored = stream[i].stored /\ e.size = stream[i].size
    BY <2>1, <2>3 DEF Items
  <2> HIDE DEF e
  <2>5. ItemFine(e)
    BY <2>3, <2>4, SMT DEF ItemFine
  <2> QED BY <2>2, <2>4, <2>5, ReplacedStream
<1>4. CASE WrongLength
  <2>1. PICK i \in DOMAIN stream : \E v \in OtherLengths(stream[i]) :
          stream' = [stream EXCEPT ![i].len = v]
    BY <1>4 DEF WrongLength
  <2>2. PICK v \in OtherLengths(stream[i]) : stream' = [stream EXCEPT ![i].len = v]
    BY <2>1
  <2> DEFINE e == [stream[i] EXCEPT !.len = v]
  <2>3. stream' = [stream EXCEPT ![i] = e]
    BY <2>2
  <2>4. stream[i] \in Items /\ ItemFine(stream[i])
    BY <1>0 DEF Fine
  <2>5. v \in Nat /\ (format \in Typed => v <= 65535)
    <3>1. stream[i].len \in Nat
      BY <2>4 DEF Items
    <3> QED BY <3>1, BlockAssumption, SMT DEF OtherLengths
  <2>6. /\ e \in Items /\ e.first = stream[i].first /\ e.n = stream[i].n
        /\ e.kind = stream[i].kind /\ e.len = v
        /\ e.stored = stream[i].stored /\ e.size = stream[i].size
    <3>1. v \in Nat
      BY <2>5
    <3> QED BY <2>4, <3>1 DEF Items
  <2> HIDE DEF e
  <2>7. ItemFine(e)
    BY <2>4, <2>5, <2>6, SMT DEF ItemFine, Typed, Checked, IwaDataMax
  <2> QED BY <2>3, <2>6, <2>7, ReplacedStream
<1>5. CASE Concatenate
  BY <1>5, ConcatenatedKeeps DEF Concatenate
<1>6. CASE InsertForeign
  <2>1. PICK i \in DOMAIN stream : \E item \in ForeignAt(EndOf(stream[i])) :
          stream' = SubSeq(stream, 1, i) \o <<item>> \o SubSeq(stream, i + 1, L)
    BY <1>6 DEF InsertForeign
  <2>2. PICK item \in ForeignAt(EndOf(stream[i])) :
          stream' = SubSeq(stream, 1, i) \o <<item>> \o SubSeq(stream, i + 1, L)
    BY <2>1
  <2>3. EndOf(stream[i]) \in Nat
    BY <1>0, EndIsNat
  <2>4. /\ item \in Items /\ ItemFine(item)
        /\ item.first = EndOf(stream[i]) /\ item.n = 0
    BY <2>3, ForeignItems
  <2>5. i \in 1 .. L
    BY <1>0
  <2>6. /\ stream' \in Seq(Items) /\ Len(stream') = L + 1
        /\ \A k \in 1 .. i : stream'[k] = stream[k]
        /\ stream'[i + 1] = item
        /\ \A k \in i + 1 .. L : stream'[k + 1] = stream[k]
    BY <2>2, <2>4, <2>5, InsertedItems
  <2> QED BY <2>4, <2>5, <2>6, InsertedKeeps
<1> QED BY <1>1, <1>2, <1>3, <1>4, <1>5, <1>6

LEMMA WireStep == IInv /\ Wire => IInv'
<1> SUFFICES ASSUME IInv, Wire PROVE IInv'
  OBVIOUS
<1>1. /\ phase = "wire" /\ phase' = "wire" /\ UNCHANGED <<text, writer, wb, reader>>
  BY DEF Wire
<1>2. format \in AllFormats /\ format' = format /\ oerr' = oerr
  BY <1>1, BlockAssumption DEF IInv, TypeOK, text, writer
<1>3. /\ stream' \in Seq(Items) /\ Fine(stream')
      /\ ~oerr' => Chained(stream')
  BY <1>2, InHand, WireKeepsStream DEF Wire
<1>4. at' = 1 /\ got' = <<>>
  BY <1>1 DEF IInv, ReaderInHand, reader
<1>5. mishaps' \subseteq {"cut", "corrupt", "length", "concatenated", "foreign", "call"}
  <2>1. \E m \in {"cut", "corrupt", "length", "concatenated", "foreign"} :
          mishaps' = mishaps \cup {m}
    BY DEF Wire, CutBeforeItem, CutInItem, Corrupt, WrongLength, Concatenate, InsertForeign
  <2> QED BY <2>1 DEF IInv, TypeOK
<1>6. TypeOK'
  <2>1. at' \in 1 .. Len(stream') + 1 /\ got' \in Seq(DOMAIN stream')
    BY <1>3, <1>4
  <2> QED BY <1>1, <1>3, <1>5, <2>1 DEF IInv, TypeOK, Phases, text, writer
<1> QED BY <1>1, <1>2, <1>3, <1>4, <1>6, NothingRead

-----------------------------------------------------------------------------
(* The inductive invariant: what uncompress does.                          *)

(* What does not depend on the reader.                                     *)
LEMMA StreamStays ==
  ASSUME IInv, UNCHANGED <<text, writer, stream>>,
         phase' \notin {"start", "encode"}
  PROVE  ItemsInHand' /\ WriterInHand'
<1> USE DEF text, writer
<1>1. ItemsInHand'
  BY DEF IInv, ItemsInHand, ItemFine
<1>2. WriterInHand'
  BY DEF IInv, WriterInHand, Position, EndOf
<1> QED BY <1>1, <1>2

(* Buffers that only grow hold what they held.                             *)
LEMMA BuffersGrow ==
  ASSUME IInv, UNCHANGED stream, NEW x \in DOMAIN got, got'[x] = got[x],
         wb' \in [c : Nat, uc : Nat], wb.c <= wb'.c, wb.uc <= wb'.uc
  PROVE  Block_(x)'.n <= (IF Block_(x)'.stored THEN wb'.c ELSE wb'.uc)
<1>1. Block_(x)' = Block_(x) /\ Block_(x) \in Items
  BY DEF Block_, IInv, TypeOK
<1>2. Block_(x).n \in Nat /\ wb.c \in Nat /\ wb.uc \in Nat
  BY <1>1 DEF Items, IInv, TypeOK
<1>3. Block_(x).n <= (IF Block_(x).stored THEN wb.c ELSE wb.uc)
  BY DEF IInv, BuffersFit
<1>4. wb'.c \in Nat /\ wb'.uc \in Nat
  OBVIOUS
<1>5. CASE Block_(x).stored
  BY <1>1, <1>2, <1>3, <1>4, <1>5
<1>6. CASE ~Block_(x).stored
  BY <1>1, <1>2, <1>3, <1>4, <1>6
<1> QED BY <1>5, <1>6

(* A step in which uncompress stays where it is in the file.               *)
LEMMA ReaderStays ==
  ASSUME IInv, UNCHANGED <<text, writer, stream, reader>>,
         wb' \in [c : Nat, uc : Nat],
         got = <<>> \/ (wb.c <= wb'.c /\ wb.uc <= wb'.uc),
         mishaps' \in {mishaps, mishaps \cup {"call"}},
         phase' \in {"blocks", "held", "overread", "failed", "died", "done"},
         phase' = "held" => Found("block") /\ This.len <= wb'.c,
         phase' = "overread" => format = "iwa" /\ (This.cut \/ "call" \in mishaps'),
         BuffersInHand', FramedSoFar', SuccessIsWhole', StreamsAreFramed'
  PROVE  IInv'
<1> USE DEF text, writer, reader
<1>1. TypeOK'
  BY DEF IInv, TypeOK, Phases, Ended
<1>2. ItemsInHand' /\ WriterInHand'
  BY StreamStays
<1>3. ReaderInHand'
  <2>1. phase' = "held" => Found("block")'
    BY DEF Found, AtEnd, This
  <2>2. Reached' = Reached /\ Position(at)' = Position(at)
    BY DEF Reached, Position, Block_, EndOf
  <2>3. \A i : Dealt(i) => Dealt(i)'
    BY DEF Dealt
  <2> QED BY <2>1, <2>2, <2>3 DEF IInv, ReaderInHand
<1>4. BuffersFit'
  <2>1. /\ phase' = "held" => This'.len <= wb'.c
        /\ phase' = "overread" =>
             format' = "iwa" /\ (This'.cut \/ "call" \in mishaps')
    BY DEF This
  <2>2. CASE got = <<>>
    BY <2>1, <2>2 DEF BuffersFit
  <2>3. CASE wb.c <= wb'.c /\ wb.uc <= wb'.uc
    <3>1. \A x \in DOMAIN got' :
            Block_(x)'.n <= (IF Block_(x)'.stored THEN wb'.c ELSE wb'.uc)
      BY <2>3, BuffersGrow
    <3> QED BY <2>1, <3>1 DEF BuffersFit
  <2> QED BY <2>2, <2>3
<1>5. OnlySoundData' /\ TextInOrder'
  BY DEF IInv, OnlySoundData, TextInOrder, Block_, Acceptable, Verified, EndOf
<1> QED BY <1>1, <1>2, <1>3, <1>4, <1>5 DEF IInv

LEMMA Stop ==
  ASSUME IInv, UNCHANGED <<text, writer, wb, stream, reader>>,
         mishaps' \in {mishaps, mishaps \cup {"call"}},
         phase' \in {"failed", "died"}
  PROVE  IInv'
<1>1. /\ wb' \in [c : Nat, uc : Nat] /\ wb.c <= wb'.c /\ wb.uc <= wb'.uc
  BY DEF IInv, TypeOK
<1>2. BuffersInHand' /\ FramedSoFar' /\ SuccessIsWhole' /\ StreamsAreFramed'
  BY DEF BuffersInHand, FramedSoFar, Reading, SuccessIsWhole, StreamsAreFramed
<1> QED BY <1>1, <1>2, ReaderStays

LEMMA Failed == IInv /\ Turn("failed") => IInv'
BY Stop DEF Turn

LEMMA Died == IInv /\ Turn("died") => IInv'
BY Stop DEF Turn

(* Success is right if all the items were dealt with, or what the property *)
(* excuses has happened, and if the streams of comment-43 are complete.    *)
LEMMA Succeed ==
  ASSUME IInv, UNCHANGED <<text, writer, wb, stream, reader>>,
         mishaps' \in {mishaps, mishaps \cup {"call"}}, phase' = "done",
         \/ AtEnd
         \/ format = "snzip" /\ ~AtEnd /\ EndMark(This)
         \/ format = "iwa" /\ ~AtEnd /\ This.kind = "block" /\ This.n = 0
         \/ format \in {"snappy-java", "snappy-in-java", "comment-43"}
            /\ "call" \in mishaps',
         format = "comment-43" =>
           phase = "between" /\ (AtEnd \/ "call" \in mishaps')
  PROVE  IInv'
<1> USE DEF text, writer, reader
<1>1. /\ wb' \in [c : Nat, uc : Nat] /\ wb.c <= wb'.c /\ wb.uc <= wb'.uc
  BY DEF IInv, TypeOK
<1>2. BuffersInHand' /\ FramedSoFar'
  BY DEF BuffersInHand, FramedSoFar, Reading
<1>3. /\ Len(stream) \in Nat /\ DOMAIN stream = 1 .. Len(stream)
      /\ at \in 1 .. Len(stream) + 1
  BY DEF IInv, TypeOK
<1>4. \A i \in 1 .. at - 1 : Dealt(i)
  BY DEF IInv, ReaderInHand
<1>7. format = "comment-43" =>
        /\ at > 1 /\ stream[at - 1].kind = "end"
        /\ \A i \in 1 .. at - 1 :
             stream[i].kind = "header" <=> i = 1 \/ stream[i - 1].kind = "end"
  BY DEF IInv, FramedSoFar, Reading
<1>5. SuccessIsWhole'
  <2> DEFINE Whole(i) ==
        \/ stream[i].kind \in {"header", "end", "skippable"}
        \/ \E x \in DOMAIN got : got[x] = i
        \/ format = "snzip" /\ \E j \in 1 .. i : EndMark(stream[j])
        \/ /\ format = "iwa"
           /\ \E j \in 1 .. i : stream[j].kind = "block" /\ stream[j].n = 0
        \/ ReadErrorEnds' /\ i >= at
  <2>0. SuccessIsWhole' <=> \A i \in DOMAIN stream : Whole(i)
    BY DEF SuccessIsWhole, EndMark
  <2>1. ASSUME NEW i \in DOMAIN stream PROVE Whole(i)
    <3>1. CASE i < at
      <4>1. i \in 1 .. at - 1
        BY <1>3, <3>1
      <4> QED BY <1>4, <4>1 DEF Dealt
    <3>2. CASE i >= at
      <4>1. at \in 1 .. i /\ ~AtEnd
        BY <1>3, <3>2 DEF AtEnd
      <4>2. CASE "call" \in mishaps' /\ format \notin {"snzip", "iwa"}
        <5>1. format \in {"snappy-java", "snappy-in-java", "comment-43"}
          BY <4>1, <4>2
        <5>2. ReadErrorEnds'
          BY <1>7, <4>2, <5>1 DEF ReadErrorEnds
        <5> QED BY <3>2, <5>2
      <4>3. CASE ~("call" \in mishaps' /\ format \notin {"snzip", "iwa"})
        BY <4>1, <4>3 DEF This
      <4> QED BY <4>2, <4>3
    <3> QED BY <1>3, <3>1, <3>2
  <2> QED BY <2>0, <2>1
<1>6. StreamsAreFramed'
  BY <1>7 DEF StreamsAreFramed, AtEnd
<1> QED BY <1>1, <1>2, <1>5, <1>6, ReaderStays

(* The next state of comment-43 is that of the item read.                  *)
LEMMA FramedFurther ==
  ASSUME IInv, format = "comment-43", ~AtEnd, at' = at + 1,
         UNCHANGED <<text, stream>>,
         at = 1 \/ Reading,
         This.kind = "header" <=> at = 1 \/ phase = "between",
         phase' = "between" <=> This.kind = "end"
  PROVE  FramedSoFar'
<1>1. at \in Nat /\ at >= 1 /\ at' - 1 = at /\ at' > 1
  BY DEF IInv, TypeOK
<1>2. at # 1 => /\ phase = "between" <=> stream[at - 1].kind = "end"
                /\ \A i \in 1 .. at - 1 :
                     stream[i].kind = "header" <=> i = 1 \/ stream[i - 1].kind = "end"
  BY <1>1 DEF IInv, FramedSoFar
<1>3. stream[at].kind = "header" <=> at = 1 \/ stream[at - 1].kind = "end"
  BY <1>2 DEF This
<1>4. ASSUME NEW i \in 1 .. at
      PROVE  stream[i].kind = "header" <=> i = 1 \/ stream[i - 1].kind = "end"
  <2>1. CASE i = at
    BY <1>3, <2>1
  <2>2. CASE i # at
    <3>1. i \in 1 .. at - 1 /\ at # 1
      BY <1>1, <2>2
    <3> QED BY <1>2, <3>1
  <2> QED BY <2>1, <2>2
<1>5. phase' = "between" <=> stream'[at' - 1].kind = "end"
  BY <1>1 DEF This
<1> QED BY <1>1, <1>4, <1>5 DEF FramedSoFar

(* An item without text is passed.                                         *)
LEMMA PassedStep ==
  ASSUME IInv, ~AtEnd, This.kind \in {"header", "end", "skippable"},
         at' = at + 1, UNCHANGED <<text, writer, stream, mishaps, got>>,
         wb' \in [c : Nat, uc : Nat],
         got = <<>> \/ wb' = wb,
         phase' \in {"blocks", "between", "died"},
         BuffersInHand', FramedSoFar'
  PROVE  IInv'
<1> USE DEF text, writer
<1>1. /\ at \in Nat /\ 1 <= at /\ at <= Len(stream) /\ Len(stream) \in Nat
      /\ at' - 1 = at /\ at' # 1 /\ stream[at] \in Items
  BY DEF IInv, TypeOK, AtEnd
<1>2. TypeOK'
  BY <1>1 DEF IInv, TypeOK, Phases, Ended
<1>3. ItemsInHand' /\ WriterInHand'
  BY StreamStays
<1>4. ReaderInHand'
  <2>1. ~oerr => Reached' = Position(at)'
    <3>1. Reached' = Reached
      BY DEF Reached, Block_, EndOf
    <3>2. Position(at)' = EndOf(stream[at])
      BY <1>1 DEF Position, EndOf
    <3>3. stream[at].n = 0 /\ EndOf(stream[at]) = stream[at].first
      <4>1. stream[at].n = 0
        BY <1>1 DEF IInv, ItemsInHand, ItemFine, This
      <4> QED BY <1>1, <4>1 DEF EndOf, Items
    <3>4. ~oerr => stream[at].first = Position(at)
      BY <1>1 DEF IInv, WriterInHand
    <3> QED BY <3>1, <3>2, <3>3, <3>4 DEF IInv, ReaderInHand
  <2>2. ASSUME NEW i \in 1 .. at' - 1 PROVE Dealt(i)'
    <3>1. i = at \/ i \in 1 .. at - 1
      BY <1>1
    <3>2. i = at => Dealt(i)
      BY DEF Dealt, This
    <3>3. Dealt(i)
      BY <3>1, <3>2 DEF IInv, ReaderInHand
    <3> QED BY <3>3 DEF Dealt
  <2> QED BY <2>1, <2>2 DEF ReaderInHand
<1>5. BuffersFit'
  <2>1. phase' # "held"
    OBVIOUS
  <2>2. CASE got = <<>>
    BY <2>1, <2>2 DEF BuffersFit
  <2>3. CASE wb' = wb
    BY <2>1, <2>3 DEF IInv, BuffersFit, Block_
  <2> QED BY <2>2, <2>3
<1>6. OnlySoundData' /\ TextInOrder'
  BY DEF IInv, OnlySoundData, TextInOrder, Block_, Acceptable, Verified, EndOf
<1>7. SuccessIsWhole' /\ StreamsAreFramed'
  BY DEF SuccessIsWhole, StreamsAreFramed
<1> QED BY <1>2, <1>3, <1>4, <1>5, <1>6, <1>7 DEF IInv

(* The block held is written.                                              *)
LEMMA WrittenStep ==
  ASSUME IInv, phase = "held", NEW b \in [c : Nat, uc : Nat], Written(b),
         wb.c <= b.c, wb.uc <= b.uc,
         b = wb \/ format \notin {"snappy-in-java", "iwa", "comment-43"},
         Acceptable(This), format \in Checked => Verified(This),
         This.n <= (IF This.stored THEN b.c ELSE b.uc)
  PROVE  IInv'
<1> USE DEF text, writer
<1>0. /\ wb' = b /\ got' = Append(got, at) /\ at' = at + 1 /\ phase' = "blocks"
      /\ UNCHANGED <<text, writer, stream, mishaps>>
  BY DEF Written
<1>1. Found("block")
  BY DEF IInv, ReaderInHand
<1>2. /\ at \in Nat /\ 1 <= at /\ at <= Len(stream) /\ Len(stream) \in Nat
      /\ at' - 1 = at /\ at' # 1 /\ stream[at] \in Items /\ at \in DOMAIN stream
  BY <1>0, <1>1 DEF IInv, TypeOK, Found, AtEnd
<1>3. /\ got' \in Seq(DOMAIN stream) /\ Len(got') = Len(got) + 1 /\ Len(got) \in Nat
      /\ DOMAIN got' = 1 .. Len(got) + 1 /\ DOMAIN got = 1 .. Len(got)
      /\ got'[Len(got) + 1] = at /\ \A x \in 1 .. Len(got) : got'[x] = got[x]
  BY <1>0, <1>2 DEF IInv, TypeOK
<1>4. TypeOK'
  BY <1>0, <1>2, <1>3 DEF IInv, TypeOK, Phases, Ended
<1>5. ItemsInHand' /\ WriterInHand'
  BY <1>0, StreamStays
<1>6. \A x : x = Len(got) + 1 => Block_(x)' = stream[at]
  BY <1>0, <1>3 DEF Block_
<1>7. \A x \in 1 .. Len(got) : Block_(x)' = Block_(x)
  BY <1>0, <1>3 DEF Block_
<1>8. ReaderInHand'
  <2>1. Reached' = Position(at)'
    <3>1. Reached' = EndOf(stream[at])
      BY <1>0, <1>3 DEF Reached, Block_, EndOf
    <3>2. Position(at)' = EndOf(stream[at])
      BY <1>0, <1>2 DEF Position, EndOf
    <3> QED BY <3>1, <3>2
  <2>2. ASSUME NEW i \in 1 .. at' - 1 PROVE Dealt(i)'
    <3>1. CASE i = at
      <4>1. \E x \in DOMAIN got' : got'[x] = i
        BY <1>3, <3>1
      <4> QED BY <4>1 DEF Dealt
    <3>2. CASE i # at
      <4>1. Dealt(i)
        BY <1>2, <3>2 DEF IInv, ReaderInHand
      <4>2. (\E x \in DOMAIN got : got[x] = i) => \E x \in DOMAIN got' : got'[x] = i
        <5>1. \A x \in DOMAIN got : x \in DOMAIN got' /\ got'[x] = got[x]
          BY <1>3
        <5> QED BY <5>1
      <4> QED BY <1>0, <4>1, <4>2 DEF Dealt
    <3> QED BY <3>1, <3>2
  <2> QED BY <1>0, <2>1, <2>2 DEF ReaderInHand
<1>9. BuffersInHand'
  BY <1>0 DEF IInv, BuffersInHand, Reading
<1>10. FramedSoFar'
  <2>1. CASE format = "comment-43"
    <3>1. This.kind = "block" /\ ~AtEnd
      BY <1>1 DEF Found
    <3>2. Reading /\ at # 1
      BY <2>1 DEF IInv, FramedSoFar, Reading
    <3> QED BY <1>0, <2>1, <3>1, <3>2, FramedFurther
  <2>2. CASE format # "comment-43"
    BY <1>0, <2>2 DEF FramedSoFar
  <2> QED BY <2>1, <2>2
<1>11. BuffersFit'
  <2>1. ASSUME NEW x \in 1 .. Len(got) + 1
        PROVE  Block_(x)'.n <= (IF Block_(x)'.stored THEN wb'.c ELSE wb'.uc)
    <3>1. CASE x = Len(got) + 1
      BY <1>0, <1>6, <3>1 DEF This
    <3>2. CASE x # Len(got) + 1
      <4>1. x \in DOMAIN got /\ got'[x] = got[x]
        BY <1>3, <3>2
      <4> QED BY <1>0, <4>1, BuffersGrow
    <3> QED BY <3>1, <3>2
  <2> QED BY <1>0, <1>3, <2>1 DEF BuffersFit
<1>12. OnlySoundData'
  <2>1. ASSUME NEW x \in 1 .. Len(got) + 1
        PROVE  /\ ~Block_(x)'.cut /\ Acceptable(Block_(x)')
               /\ format \in Checked => Verified(Block_(x)')
    <3>1. CASE x = Len(got) + 1
      BY <1>1, <1>6, <3>1 DEF This, Found
    <3>2. CASE x # Len(got) + 1
      BY <1>3, <1>7, <3>2 DEF IInv, OnlySoundData
    <3> QED BY <3>1, <3>2
  <2> QED BY <1>0, <1>3, <2>1 DEF OnlySoundData, Acceptable, Verified
<1>13. TextInOrder'
  <2> SUFFICES ASSUME ~oerr, NEW x \in 1 .. Len(got) + 1
               PROVE  Block_(x)'.first = IF x = 1 THEN 0 ELSE EndOf(Block_(x - 1)')
    BY <1>0, <1>3 DEF TextInOrder, EndOf
  <2>1. CASE x = Len(got) + 1
    <3>1. stream[at].first = Reached
      BY <1>2 DEF IInv, WriterInHand, ReaderInHand
    <3>2. CASE got = <<>>
      BY <1>3, <1>6, <2>1, <3>1, <3>2 DEF Reached
    <3>3. CASE got # <<>>
      <4>1. Len(got) \in 1 .. Len(got) /\ x # 1 /\ x - 1 = Len(got)
        BY <1>3, <2>1, <3>3 DEF IInv, TypeOK
      <4> QED BY <1>6, <1>7, <2>1, <3>1, <3>3, <4>1 DEF Reached
    <3> QED BY <3>2, <3>3
  <2>2. CASE x # Len(got) + 1
    <3>1. x \in 1 .. Len(got) /\ (x # 1 => x - 1 \in 1 .. Len(got))
      BY <1>3, <2>2
    <3> QED BY <1>3, <1>7, <3>1 DEF IInv, TextInOrder
  <2> QED BY <2>1, <2>2
<1>14. SuccessIsWhole' /\ StreamsAreFramed'
  BY <1>0 DEF SuccessIsWhole, StreamsAreFramed
<1> QED BY <1>4, <1>5, <1>8, <1>9, <1>10, <1>11, <1>12, <1>13, <1>14 DEF IInv

(* The data of a block are read.                                           *)
LEMMA HeldStep ==
  ASSUME IInv, phase = "blocks", NEW b \in [c : Nat, uc : Nat], Hold(b),
         wb.c <= b.c, wb.uc <= b.uc,
         b = wb \/ format \notin {"snappy-in-java", "iwa", "comment-43"},
         Found("block"), This.len <= b.c
  PROVE  IInv'
<1> USE DEF text, writer, reader
<1>1. wb' = b /\ phase' = "held" /\ UNCHANGED <<text, writer, stream, mishaps, reader>>
  BY DEF Hold
<1>2. BuffersInHand' /\ FramedSoFar'
  BY <1>1 DEF IInv, BuffersInHand, FramedSoFar, Reading
<1>3. SuccessIsWhole' /\ StreamsAreFramed'
  BY <1>1 DEF SuccessIsWhole, StreamsAreFramed
<1> QED BY <1>1, <1>2, <1>3, ReaderStays

-----------------------------------------------------------------------------
(* What the formats have in common.                                        *)

LEMMA TakenIsNat == IInv => taken \in Nat /\ size \in Nat /\ taken <= size
BY BlockAssumption DEF IInv, TypeOK

LEMMA BeginStep ==
  ASSUME IInv, phase = "start", NEW header, NEW b \in [c : Nat, uc : Nat],
         \/ header = <<>>
         \/ \E len \in Nat : /\ header = <<Item("header", len, 0)>>
                            /\ ItemFine(Item("header", len, 0)),
         Begin(header, b)
  PROVE  IInv'
<1>1. taken = 0 /\ size \in Nat /\ 0 \in Nat
  BY TakenIsNat DEF IInv, WriterInHand
<1>2. \/ header = <<>>
      \/ \E e \in Items : /\ header = <<e>> /\ ItemFine(e)
                         /\ e.first = taken /\ e.n = 0
  BY <1>1, ItemTypes
<1>3. /\ Emit(header) /\ taken' = taken + 0 /\ taken + 0 <= size
      /\ wb' \in [c : Nat, uc : Nat] /\ UNCHANGED <<text, reader>>
      /\ phase' \in {"encode", "wire", "failed", "died"}
  BY <1>1 DEF Begin
<1> QED BY <1>1, <1>2, <1>3, EncoderStep

LEMMA PutStep ==
  ASSUME IInv, phase = "encode", NEW e \in Items, ItemFine(e),
         e.first = taken, e.n = Chunk, Put(e)
  PROVE  IInv'
<1>1. Chunk \in Nat /\ taken + Chunk <= size
  BY ChunkBounds DEF IInv
<1> DEFINE items == <<e>>
<1>2. /\ Emit(items) /\ taken' = taken + Chunk
      /\ wb' = wb /\ phase' = phase /\ UNCHANGED <<text, reader>>
  BY DEF Put
<1>3. wb' \in [c : Nat, uc : Nat]
  BY <1>2 DEF IInv, TypeOK
<1>4. \E x \in Items : /\ items = <<x>> /\ ItemFine(x)
                     /\ x.first = taken /\ x.n = Chunk
  OBVIOUS
<1> HIDE DEF items
<1> QED BY <1>1, <1>2, <1>3, <1>4, EncoderStep

LEMMA FinishStep ==
  ASSUME IInv, phase = "encode", NEW items,
         items \in {<<>>, <<Item("end", 0, taken)>>},
         Finish(items) \/ FinishChecked(items), format \in AllFormats
  PROVE  IInv'
<1>1. taken \in Nat /\ taken <= size /\ 0 \in Nat
  BY TakenIsNat
<1>2. \/ items = <<>>
      \/ \E e \in Items : /\ items = <<e>> /\ ItemFine(e)
                         /\ e.first = taken /\ e.n = 0
  <2> DEFINE e == Item("end", 0, taken)
  <2>1. /\ e \in Items /\ e.first = taken /\ e.n = 0 /\ e.len = 0 /\ ~e.stored
    BY <1>1, ItemTypes
  <2> HIDE DEF e
  <2>2. ItemFine(e)
    BY <2>1, SMT DEF ItemFine, IwaDataMax
  <2>3. items = <<>> \/ items = <<e>>
    BY DEF e
  <2> QED BY <2>1, <2>2, <2>3
<1>3. /\ Emit(items) /\ taken' = taken + 0 /\ taken + 0 <= size
      /\ wb' \in [c : Nat, uc : Nat] /\ UNCHANGED <<text, reader>>
      /\ phase' \in {"encode", "wire", "failed", "died"}
  BY <1>1 DEF Finish, FinishChecked, IInv, TypeOK
<1> QED BY <1>1, <1>2, <1>3, EncoderStep

(* The headers; only that of snzip says something.                         *)
LEMMA HeaderFineItem ==
  ASSUME NEW len \in Nat, format = "snzip" \/ len <= 6
  PROVE  ItemFine(Item("header", len, 0))
<1> DEFINE e == Item("header", len, 0)
<1>1. e.n = 0 /\ e.len = len /\ ~e.stored
  BY DEF Item
<1> HIDE DEF e
<1>2. ItemFine(e)
  BY <1>1, SMT DEF ItemFine, Checked, IwaDataMax
<1> QED BY <1>2 DEF e

LEMMA OpenedStep ==
  ASSUME IInv, phase \in {"header", "detected"}, HeaderFine,
         NEW b \in [c : Nat, uc : Nat], Opened(b),
         format # "iwa",
         format = "snappy-in-java" => b = Fresh(InJavaMax),
         format = "comment-43" => b.c = BlockDataMax
  PROVE  IInv'
<1> USE DEF text, writer
<1>1. at = 1 /\ got = <<>>
  BY DEF IInv, ReaderInHand
<1>2. ~AtEnd /\ This.kind = "header"
  BY DEF HeaderFine, Found
<1>3. /\ wb' = b /\ at' = at + 1 /\ phase' \in {"blocks", "died"}
      /\ UNCHANGED <<text, writer, stream, mishaps, got>>
  BY DEF Opened
<1>4. BuffersInHand'
  BY <1>3 DEF BuffersInHand
<1>5. FramedSoFar'
  <2>1. CASE format = "comment-43"
    BY <1>1, <1>2, <1>3, <2>1, FramedFurther
  <2>2. CASE format # "comment-43"
    BY <1>3, <2>2 DEF FramedSoFar
  <2> QED BY <2>1, <2>2
<1> QED BY <1>1, <1>2, <1>3, <1>4, <1>5, PassedStep

(* The buffers as they are.                                                *)
LEMMA SameBuffers ==
  IInv => wb \in [c : Nat, uc : Nat] /\ wb.c <= wb.c /\ wb.uc <= wb.uc
BY DEF IInv, TypeOK

(* An item found.                                                          *)
LEMMA FoundItem ==
  ASSUME IInv, NEW kind, Found(kind)
  PROVE  This \in Items /\ ItemFine(This) /\ This.len \in Nat
<1>1. at \in DOMAIN stream
  BY DEF IInv, TypeOK, Found, AtEnd
<1>2. This \in Items /\ ItemFine(This)
  BY <1>1 DEF This, IInv, TypeOK, ItemsInHand
<1> QED BY <1>2 DEF Items

(* The block held.                                                         *)
LEMMA HeldBlock ==
  ASSUME IInv, phase = "held"
  PROVE  /\ This \in Items /\ This.n \in Nat /\ This.len \in Nat
         /\ This.size \in Nat /\ This.len <= wb.c /\ ItemFine(This)
<1>1. at \in DOMAIN stream
  BY DEF IInv, TypeOK, ReaderInHand, Found, AtEnd
<1>2. This \in Items /\ ItemFine(This)
  BY <1>1 DEF This, IInv, TypeOK, ItemsInHand
<1> QED BY <1>2 DEF Items, IInv, BuffersFit

(* Data stored in a block and verified are no longer than the buffer.      *)
LEMMA HeldFits ==
  ASSUME IInv, phase = "held", Verified(This) \/ format \notin Checked,
         This.stored \/ This.n <= wb.uc
  PROVE  This.n <= (IF This.stored THEN wb.c ELSE wb.uc)
<1>1. CASE This.stored
  <2>1. /\ This.n \in Nat /\ This.len \in Nat /\ This.size \in Nat
        /\ This.len <= wb.c /\ wb.c \in Nat
    BY HeldBlock DEF IInv, TypeOK
  <2>2. format \in Checked /\ This.n <= This.size
    BY <1>1, HeldBlock DEF ItemFine
  <2>3. This.len = This.size
    BY <2>2 DEF Verified
  <2> QED BY <1>1, <2>1, <2>2, <2>3
<1>2. CASE ~This.stored
  BY <1>2
<1> QED BY <1>1, <1>2

(* A block of the text, as compress writes it.                             *)
LEMMA NextBlock ==
  ASSUME IInv, NEW c \in CompressedSizes(Chunk)
  PROVE  Chunk \in Nat /\ taken \in Nat /\ c \in Nat
<1>1. Chunk \in Nat
  BY ChunkBounds DEF IInv
<1> QED BY <1>1, TakenIsNat, CompressedSizesAreSizes

LEMMA PlainBlock ==
  ASSUME NEW len \in Nat, NEW width \in Nat, NEW first \in Nat, NEW n \in Nat,
         format \in {"snzip", "snappy-java", "iwa"},
         format = "iwa" => len <= IwaDataMax
  PROVE  /\ Block(len, width, first, n) \in Items
         /\ ItemFine(Block(len, width, first, n))
         /\ Block(len, width, first, n).first = first
         /\ Block(len, width, first, n).n = n
<1> DEFINE e == Block(len, width, first, n)
<1>1. /\ e \in Items /\ e.first = first /\ e.n = n /\ e.kind = "block"
      /\ e.len = len /\ ~e.stored
  BY BlockTypes
<1> HIDE DEF e
<1>2. ItemFine(e)
  BY <1>1 DEF ItemFine, Checked
<1> QED BY <1>1, <1>2 DEF e

-----------------------------------------------------------------------------
(* snzip.                                                                  *)

LEMMA SnzipCompressStep == IInv /\ SnzipCompress => IInv'
<1> SUFFICES ASSUME IInv, SnzipCompress PROVE IInv'
  OBVIOUS
<1>1. CASE SnzipBegin
  <2>0. phase = "start" /\ format = "snzip"
    BY <1>1 DEF SnzipBegin
  <2>1. CASE Refused(blockSize)
    <3>1. Refuse
      BY <1>1, <2>1 DEF SnzipBegin
    <3> QED BY <2>0, <3>1, BeforeReading DEF Refuse
  <2>2. CASE ~Refused(blockSize)
    <3> DEFINE len == Shift(blockSize)
               n == IF blockSize = 0 THEN 2^DefaultShift ELSE blockSize
    <3>1. Begin(<<Item("header", len, 0)>>, Fresh(n))
      BY <1>1, <2>2 DEF SnzipBegin
    <3>2. blockSize \in Nat
      BY BlockAssumption DEF IInv, TypeOK
    <3>3. len \in Nat
      BY <3>2, ShiftIsNat
    <3>4. n \in Nat
      BY <3>2, PowersAreNat, SMT DEF DefaultShift
    <3> HIDE DEF len, n
    <3>5. Fresh(n) \in [c : Nat, uc : Nat]
      BY <3>4, FreshIsSizes
    <3>6. ItemFine(Item("header", len, 0))
      BY <2>0, <3>3, HeaderFineItem
    <3> QED BY <2>0, <3>1, <3>3, <3>5, <3>6, BeginStep
  <2> QED BY <2>1, <2>2
<1>2. CASE SnzipBlock
  <2>0. phase = "encode" /\ format = "snzip"
    BY <1>2 DEF SnzipBlock, Encoding
  <2>1. PICK c \in CompressedSizes(Chunk) :
          Put(Block(VarintValue(Varint(c)), c, taken, Chunk))
    BY <1>2 DEF SnzipBlock
  <2>2. Chunk \in Nat /\ taken \in Nat /\ c \in Nat
    BY NextBlock
  <2> DEFINE v == VarintValue(Varint(c))
             e == Block(v, c, taken, Chunk)
  <2> HIDE DEF v
  <2>3. v \in Nat
    BY <2>2, VarintValueIsNat DEF v
  <2>4. e \in Items /\ ItemFine(e) /\ e.first = taken /\ e.n = Chunk
    BY <2>0, <2>2, <2>3, PlainBlock
  <2> HIDE DEF e
  <2>5. Put(e)
    BY <2>1 DEF e, v
  <2> QED BY <2>0, <2>4, <2>5, PutStep
<1>3. CASE SnzipEnd
  BY <1>3, FinishStep DEF SnzipEnd, Encoding, AllFormats
<1> QED BY <1>1, <1>2, <1>3 DEF SnzipCompress

LEMMA SnzipUncompressStep == IInv /\ SnzipUncompress => IInv'
<1> SUFFICES ASSUME IInv, SnzipUncompress PROVE IInv'
  OBVIOUS
<1>1. CASE SnzipOpen
  <2>1. phase \in {"header", "detected"} /\ format = "snzip"
    BY <1>1 DEF SnzipOpen, Opening
  <2>2. CASE HeaderFine /\ This.len <= MaxShift /\ Opened(Fresh(2^This.len))
    <3>1. This.len \in 0 .. 27
      <4>1. This.len \in Nat
        BY <2>2, FoundItem DEF HeaderFine
      <4> QED BY <2>2, <4>1 DEF MaxShift
    <3>2. Fresh(2^This.len) \in [c : Nat, uc : Nat]
      BY <3>1, PowersAreNat, FreshIsSizes
    <3> QED BY <2>1, <2>2, <3>2, OpenedStep
  <2>3. CASE Turn("failed")
    BY <2>3, Failed
  <2> QED BY <1>1, <2>2, <2>3 DEF SnzipOpen
<1>2. CASE SnzipDone
  <2>1. /\ format = "snzip" /\ ~AtEnd /\ EndMark(This) /\ Turn("done")
    BY <1>2 DEF SnzipDone, Decoding, AtEndMark
  <2> QED BY <2>1, Succeed DEF Turn
<1>3. CASE SnzipRead
  <2>1. CASE Found("block") /\ This.len <= wb.c /\ Hold(wb)
    BY <1>3, <2>1, SameBuffers, HeldStep DEF SnzipRead, Decoding
  <2>2. CASE Turn("failed")
    BY <2>2, Failed
  <2> QED BY <1>3, <2>1, <2>2 DEF SnzipRead
<1>4. CASE SnzipWrite
  <2>0. phase = "held" /\ format = "snzip"
    BY <1>4 DEF SnzipWrite, Decoding
  <2>1. CASE Acceptable(This) /\ This.n <= wb.uc /\ Written(wb)
    <3>1. format \notin Checked
      BY <2>0 DEF Checked
    <3>2. This.n <= (IF This.stored THEN wb.c ELSE wb.uc)
      BY <2>0, <2>1, <3>1, HeldFits
    <3> QED BY <2>0, <2>1, <3>1, <3>2, SameBuffers, WrittenStep
  <2>2. CASE Turn("failed")
    BY <2>2, Failed
  <2> QED BY <1>4, <2>1, <2>2 DEF SnzipWrite
<1> QED BY <1>1, <1>2, <1>3, <1>4 DEF SnzipUncompress

-----------------------------------------------------------------------------
(* snappy-java.                                                            *)

LEMMA SnappyJavaCompressStep == IInv /\ SnappyJavaCompress => IInv'
<1> SUFFICES ASSUME IInv, SnappyJavaCompress PROVE IInv'
  OBVIOUS
<1>1. CASE SnappyJavaBegin
  <2> DEFINE n == IF blockSize = 0 THEN JavaBlockSize ELSE blockSize
  <2>1. /\ phase = "start" /\ Begin(<<Item("header", 0, 0)>>, Fresh(n))
    BY <1>1 DEF SnappyJavaBegin
  <2>2. n \in Nat
    BY BlockAssumption, SMT DEF IInv, TypeOK, JavaBlockSize
  <2> HIDE DEF n
  <2>3. Fresh(n) \in [c : Nat, uc : Nat]
    BY <2>2, FreshIsSizes
  <2>4. 0 \in Nat /\ ItemFine(Item("header", 0, 0))
    BY HeaderFineItem
  <2> QED BY <2>1, <2>3, <2>4, BeginStep
<1>2. CASE SnappyJavaBlock
  <2>0. phase = "encode" /\ format = "snappy-java"
    BY <1>2 DEF SnappyJavaBlock, Encoding
  <2>1. PICK c \in CompressedSizes(Chunk) : Put(Block(c, c, taken, Chunk))
    BY <1>2 DEF SnappyJavaBlock
  <2>2. Chunk \in Nat /\ taken \in Nat /\ c \in Nat
    BY NextBlock
  <2> DEFINE e == Block(c, c, taken, Chunk)
  <2>4. e \in Items /\ ItemFine(e) /\ e.first = taken /\ e.n = Chunk
    BY <2>0, <2>2, PlainBlock
  <2> HIDE DEF e
  <2>5. Put(e)
    BY <2>1 DEF e
  <2> QED BY <2>0, <2>4, <2>5, PutStep
<1>3. CASE SnappyJavaEnd
  BY <1>3, FinishStep DEF SnappyJavaEnd, Encoding, AllFormats
<1> QED BY <1>1, <1>2, <1>3 DEF SnappyJavaCompress

LEMMA GrownBuffers ==
  ASSUME IInv, NEW c \in Nat, NEW uc \in Nat
  PROVE  /\ Grown(c, uc) \in [c : Nat, uc : Nat]
         /\ wb.c <= Grown(c, uc).c /\ wb.uc <= Grown(c, uc).uc
         /\ c <= Grown(c, uc).c /\ uc <= Grown(c, uc).uc
<1>1. wb.c \in Nat /\ wb.uc \in Nat
  BY DEF IInv, TypeOK
<1> QED BY <1>1 DEF Grown, Buffers

LEMMA SnappyJavaUncompressStep == IInv /\ SnappyJavaUncompress => IInv'
<1> SUFFICES ASSUME IInv, SnappyJavaUncompress PROVE IInv'
  OBVIOUS
<1>1. CASE SnappyJavaOpen
  <2>1. phase \in {"header", "detected"} /\ format = "snappy-java"
    BY <1>1 DEF SnappyJavaOpen, Opening
  <2>2. CASE HeaderFine /\ Opened(Fresh(JavaBlockSize))
    <3>1. JavaBlockSize \in Nat
      BY SMT DEF JavaBlockSize
    <3>2. Fresh(JavaBlockSize) \in [c : Nat, uc : Nat]
      BY <3>1, FreshIsSizes
    <3> QED BY <2>1, <2>2, <3>2, OpenedStep
  <2>3. CASE Turn("failed")
    BY <2>3, Failed
  <2> QED BY <1>1, <2>2, <2>3 DEF SnappyJavaOpen
<1>2. CASE SnappyJavaDone
  <2>1. /\ format = "snappy-java" /\ phase' = "done"
        /\ UNCHANGED <<text, writer, wb, stream, reader>>
        /\ \/ AtEnd /\ mishaps' = mishaps
           \/ mishaps' = mishaps \cup {"call"}
    BY <1>2 DEF SnappyJavaDone, Decoding
  <2> QED BY <2>1, Succeed
<1>3. CASE SnappyJavaRead
  <2>0. phase = "blocks" /\ format = "snappy-java"
    BY <1>3 DEF SnappyJavaRead, Decoding
  <2>1. CASE Turn("died")
    BY <2>1, Died
  <2>2. CASE Found("block") /\ Hold(Grown(This.len, 0))
    <3>1. This.len \in Nat /\ 0 \in Nat
      BY <2>2, FoundItem
    <3> DEFINE b == Grown(This.len, 0)
    <3>2. /\ b \in [c : Nat, uc : Nat] /\ wb.c <= b.c /\ wb.uc <= b.uc
          /\ This.len <= b.c
      BY <3>1, GrownBuffers
    <3> HIDE DEF b
    <3>3. Hold(b)
      BY <2>2 DEF b
    <3> QED BY <2>0, <2>2, <3>2, <3>3, HeldStep
  <2>3. CASE Turn("failed")
    BY <2>3, Failed
  <2> QED BY <1>3, <2>1, <2>2, <2>3 DEF SnappyJavaRead
<1>4. CASE SnappyJavaWrite
  <2>0. phase = "held" /\ format = "snappy-java"
    BY <1>4 DEF SnappyJavaWrite, Decoding
  <2>1. CASE Acceptable(This) /\ Written(Grown(0, This.n))
    <3>1. This.n \in Nat /\ 0 \in Nat /\ ~This.stored
      BY <2>0, HeldBlock DEF ItemFine, Checked
    <3> DEFINE b == Grown(0, This.n)
    <3>2. /\ b \in [c : Nat, uc : Nat] /\ wb.c <= b.c /\ wb.uc <= b.uc
          /\ This.n <= b.uc
      BY <3>1, GrownBuffers
    <3> HIDE DEF b
    <3>3. Written(b)
      BY <2>1 DEF b
    <3>4. format \notin Checked
      BY <2>0 DEF Checked
    <3> QED BY <2>0, <2>1, <3>1, <3>2, <3>3, <3>4, WrittenStep
  <2>2. CASE Turn("failed")
    BY <2>2, Failed
  <2>3. CASE Turn("died")
    BY <2>3, Died
  <2> QED BY <1>4, <2>1, <2>2, <2>3 DEF SnappyJavaWrite
<1> QED BY <1>1, <1>2, <1>3, <1>4 DEF SnappyJavaUncompress

-----------------------------------------------------------------------------
(* snappy-in-java.                                                         *)

LEMMA InJavaItemFine ==
  ASSUME format = "snappy-in-java", taken \in Nat, NEW n \in Nat, NEW c \in Nat
  PROVE  /\ InJavaItem(n, c) \in Items /\ ItemFine(InJavaItem(n, c))
         /\ InJavaItem(n, c).first = taken /\ InJavaItem(n, c).n = n
<1> DEFINE e == InJavaItem(n, c)
           v == IF Stored(n, c) THEN n % 2^16 ELSE c % 2^16
<1>1. v \in Nat /\ v <= 65535
  <2>1. 2^16 = 65536
    BY SMT
  <2>2. \A m \in Nat : m % 65536 \in Nat /\ m % 65536 <= 65535
    BY SMT
  <2> QED BY <2>1, <2>2, SMT
<1>2. v \in Nat
  BY <1>1, SMT
<1>3. CASE Stored(n, c)
  <2>1. e = StoredBlock(v, n, taken, n)
    BY <1>3 DEF InJavaItem
  <2> HIDE DEF e, v
  <2>2. /\ e \in Items /\ e.first = taken /\ e.n = n /\ e.kind = "block"
        /\ e.len = v /\ e.size = n
    BY <1>2, <2>1 DEF StoredBlock, Block, Item, Items
  <2>3. ItemFine(e)
    BY <1>1, <2>2, SMT DEF ItemFine, Checked
  <2> QED BY <2>2, <2>3 DEF e
<1>4. CASE ~Stored(n, c)
  <2>1. e = Block(v, c, taken, n)
    BY <1>4 DEF InJavaItem
  <2> HIDE DEF e, v
  <2>2. /\ e \in Items /\ e.first = taken /\ e.n = n /\ e.kind = "block"
        /\ e.len = v /\ ~e.stored
    BY <1>2, <2>1 DEF Block, Item, Items
  <2>3. ItemFine(e)
    BY <1>1, <2>2, SMT DEF ItemFine, Checked
  <2> QED BY <2>2, <2>3 DEF e
<1> QED BY <1>3, <1>4

LEMMA InJavaCompressStep == IInv /\ InJavaCompress => IInv'
<1> SUFFICES ASSUME IInv, InJavaCompress PROVE IInv'
  OBVIOUS
<1>1. CASE InJavaBegin
  <2>0. phase = "start"
    BY <1>1 DEF InJavaBegin
  <2> DEFINE n == IF blockSize = 0 THEN InJavaBlockSize ELSE blockSize
  <2>1. CASE Refuse
    BY <2>0, <2>1, BeforeReading DEF Refuse
  <2>2. CASE Begin(<<Item("header", 0, 0)>>, Fresh(n))
    <3>1. n \in Nat
      BY BlockAssumption, PowersAreNat, SMT DEF IInv, TypeOK, InJavaBlockSize
    <3> HIDE DEF n
    <3>2. Fresh(n) \in [c : Nat, uc : Nat]
      BY <3>1, FreshIsSizes
    <3>3. 0 \in Nat /\ ItemFine(Item("header", 0, 0))
      BY HeaderFineItem
    <3> QED BY <2>0, <2>2, <3>2, <3>3, BeginStep
  <2> QED BY <1>1, <2>1, <2>2 DEF InJavaBegin
<1>2. CASE InJavaBlock
  <2>0. phase = "encode" /\ format = "snappy-in-java"
    BY <1>2 DEF InJavaBlock, Encoding
  <2>1. PICK c \in CompressedSizes(Chunk) : Put(InJavaItem(Chunk, c))
    BY <1>2 DEF InJavaBlock
  <2>2. Chunk \in Nat /\ taken \in Nat /\ c \in Nat
    BY NextBlock
  <2> DEFINE n == Chunk
             e == InJavaItem(n, c)
  <2>3. n \in Nat
    BY <2>2
  <2> HIDE DEF n
  <2>4. e \in Items /\ ItemFine(e) /\ e.first = taken /\ e.n = n
    BY <2>0, <2>2, <2>3, InJavaItemFine
  <2> HIDE DEF e
  <2>5. Put(e) /\ e.n = Chunk
    BY <2>1, <2>4 DEF e, n
  <2> QED BY <2>0, <2>4, <2>5, PutStep
<1>3. CASE InJavaEnd
  BY <1>3, FinishStep DEF InJavaEnd, Encoding, AllFormats
<1> QED BY <1>1, <1>2, <1>3 DEF InJavaCompress

LEMMA InJavaUncompressStep == IInv /\ InJavaUncompress => IInv'
<1> SUFFICES ASSUME IInv, InJavaUncompress PROVE IInv'
  OBVIOUS
<1>0. InJavaMax \in Nat /\ InJavaMax = 65535
  BY SMT DEF InJavaMax
<1>1. CASE InJavaOpen
  <2>1. phase \in {"header", "detected"} /\ format = "snappy-in-java"
    BY <1>1 DEF InJavaOpen, Opening
  <2>2. CASE HeaderFine /\ Opened(Fresh(InJavaMax))
    <3>1. Fresh(InJavaMax) \in [c : Nat, uc : Nat]
      BY <1>0, FreshIsSizes
    <3> QED BY <2>1, <2>2, <3>1, OpenedStep
  <2>3. CASE Turn("failed")
    BY <2>3, Failed
  <2> QED BY <1>1, <2>2, <2>3 DEF InJavaOpen
<1>2. CASE InJavaDone
  <2>1. /\ format = "snappy-in-java" /\ phase' = "done"
        /\ UNCHANGED <<text, writer, wb, stream, reader>>
        /\ \/ AtEnd /\ mishaps' = mishaps
           \/ mishaps' = mishaps \cup {"call"}
    BY <1>2 DEF InJavaDone, Decoding
  <2> QED BY <2>1, Succeed
<1>3. CASE InJavaRead
  <2>0. phase = "blocks" /\ format = "snappy-in-java"
    BY <1>3 DEF InJavaRead, Decoding
  <2>1. CASE Found("block") /\ Hold(wb)
    <3>1. This.len \in Nat /\ This.len <= InJavaMax
      <4>1. This.len \in Nat /\ ItemFine(This)
        BY <2>1, FoundItem
      <4> QED BY <1>0, <2>0, <4>1, SMT DEF ItemFine, Checked
    <3>2. wb = Fresh(InJavaMax)
      BY <2>0 DEF IInv, BuffersInHand, Reading
    <3>3. InJavaMax <= wb.c /\ wb.c \in Nat
      BY <1>0, <3>2, FreshIsSizes
    <3> HIDE DEF InJavaMax
    <3>4. This.len <= wb.c
      BY <1>0, <3>1, <3>3
    <3> QED BY <2>0, <2>1, <3>4, SameBuffers, HeldStep
  <2>2. CASE Turn("failed")
    BY <2>2, Failed
  <2> QED BY <1>3, <2>1, <2>2 DEF InJavaRead
<1>4. CASE InJavaWrite
  <2>0. phase = "held" /\ format = "snappy-in-java"
    BY <1>4 DEF InJavaWrite, Decoding
  <2>1. CASE Verified(This) /\ (This.stored \/ This.n <= wb.uc) /\ Written(wb)
    <3>1. This.n <= (IF This.stored THEN wb.c ELSE wb.uc)
      BY <2>0, <2>1, HeldFits
    <3>2. Acceptable(This)
      BY <2>1 DEF Acceptable, Verified
    <3> QED BY <2>0, <2>1, <3>1, <3>2, SameBuffers, WrittenStep
  <2>2. CASE Turn("failed")
    BY <2>2, Failed
  <2> QED BY <1>4, <2>1, <2>2 DEF InJavaWrite
<1> QED BY <1>1, <1>2, <1>3, <1>4 DEF InJavaUncompress

-----------------------------------------------------------------------------
(* iwa.                                                                    *)

LEMMA IwaSizes ==
  IwaTextMax \in Nat /\ IwaDataMax \in Nat /\ IwaDataMax = 16777215
BY SMT DEF IwaTextMax, IwaDataMax

LEMMA IwaCompressStep == IInv /\ IwaCompress => IInv'
<1> SUFFICES ASSUME IInv, IwaCompress PROVE IInv'
  OBVIOUS
<1>1. CASE IwaBegin
  <2>1. phase = "start" /\ Begin(<<>>, Fresh(IwaTextMax))
    BY <1>1 DEF IwaBegin
  <2>2. Fresh(IwaTextMax) \in [c : Nat, uc : Nat]
    BY IwaSizes, FreshIsSizes
  <2> QED BY <2>1, <2>2, BeginStep
<1>2. CASE IwaBlock
  <2>0. phase = "encode" /\ format = "iwa"
    BY <1>2 DEF IwaBlock, Encoding
  <2>1. PICK c \in CompressedSizes(Chunk) : Put(Block(c % 2^24, c, taken, Chunk))
    BY <1>2 DEF IwaBlock
  <2>2. Chunk \in Nat /\ taken \in Nat /\ c \in Nat
    BY NextBlock
  <2> DEFINE v == c % 2^24
             e == Block(v, c, taken, Chunk)
  <2>3. v \in Nat /\ v <= IwaDataMax
    BY <2>2, IwaSizes, SMT
  <2> HIDE DEF v
  <2>4. e \in Items /\ ItemFine(e) /\ e.first = taken /\ e.n = Chunk
    BY <2>0, <2>2, <2>3, PlainBlock
  <2> HIDE DEF e
  <2>5. Put(e)
    BY <2>1 DEF e, v
  <2> QED BY <2>0, <2>4, <2>5, PutStep
<1>3. CASE IwaEnd
  BY <1>3, FinishStep DEF IwaEnd, Encoding, AllFormats
<1> QED BY <1>1, <1>2, <1>3 DEF IwaCompress

LEMMA IwaUncompressStep == IInv /\ IwaUncompress => IInv'
<1> SUFFICES ASSUME IInv, IwaUncompress PROVE IInv'
  OBVIOUS
<1>1. CASE IwaOpen
  <2>1. /\ format = "iwa" /\ phase \in {"header", "detected"}
        /\ wb' = Buffers(IwaDataMax, IwaTextMax) /\ phase' = "blocks"
        /\ UNCHANGED <<text, writer, stream, mishaps, reader>>
    BY <1>1 DEF IwaOpen, Opening
  <2>2. wb' \in [c : Nat, uc : Nat]
    BY <2>1, IwaSizes DEF Buffers
  <2>3. got = <<>> /\ format' = "iwa"
    BY <2>1 DEF IInv, ReaderInHand, text
  <2>4. BuffersInHand' /\ FramedSoFar' /\ SuccessIsWhole' /\ StreamsAreFramed'
    BY <2>1, <2>3 DEF BuffersInHand, FramedSoFar, SuccessIsWhole, StreamsAreFramed
  <2> QED BY <2>1, <2>2, <2>3, <2>4, ReaderStays
<1>2. CASE IwaDone
  BY <1>2, Succeed DEF IwaDone, Decoding, Turn
<1>3. CASE IwaRead
  <2>0. phase = "blocks" /\ format = "iwa"
    BY <1>3 DEF IwaRead, Decoding
  <2>1. CASE Found("block") /\ Hold(wb)
    <3>1. This.len \in Nat /\ This.len <= IwaDataMax
      <4>1. This.len \in Nat /\ ItemFine(This)
        BY <2>1, FoundItem
      <4> QED BY <2>0, <4>1 DEF ItemFine
    <3>2. wb = Buffers(IwaDataMax, IwaTextMax)
      BY <2>0 DEF IInv, BuffersInHand, Reading
    <3>3. This.len <= wb.c
      BY <3>1, <3>2 DEF Buffers
    <3> QED BY <2>0, <2>1, <3>3, SameBuffers, HeldStep
  <2>2. CASE Turn("failed")
    BY <2>2, Failed
  <2> QED BY <1>3, <2>1, <2>2 DEF IwaRead
<1>4. CASE IwaWrite
  <2>0. phase = "held" /\ format = "iwa" /\ Found("block")
    BY <1>4 DEF IwaWrite, Decoding, IInv, ReaderInHand
  <2>1. CASE Turn("failed")
    BY <2>1, Failed
  <2>2. CASE This.n = 0 /\ Turn("done")
    BY <2>0, <2>2, Succeed DEF Turn, Found
  <2>3. CASE Acceptable(This) /\ ~(This.n > wb.uc) /\ Written(wb)
    <3>1. format \notin Checked
      BY <2>0 DEF Checked
    <3>2. This.n <= wb.uc
      <4>1. This.n \in Nat /\ wb.uc \in Nat
        BY <2>0, HeldBlock DEF IInv, TypeOK
      <4> QED BY <2>3, <4>1
    <3>3. This.n <= (IF This.stored THEN wb.c ELSE wb.uc)
      BY <2>0, <3>1, <3>2, HeldFits
    <3> QED BY <2>0, <2>3, <3>1, <3>3, SameBuffers, WrittenStep
  <2> QED BY <1>4, <2>1, <2>2, <2>3 DEF IwaWrite
<1>5. CASE IwaOverread
  <2>1. /\ UNCHANGED <<text, writer, wb, stream, reader>> /\ phase' = "overread"
        /\ mishaps' \in {mishaps, mishaps \cup {"call"}} /\ format = "iwa"
        /\ This.cut \/ "call" \in mishaps'
    BY <1>5 DEF IwaOverread, Decoding
  <2>2. wb' \in [c : Nat, uc : Nat] /\ wb.c <= wb'.c /\ wb.uc <= wb'.uc
    BY <2>1 DEF IInv, TypeOK
  <2>3. BuffersInHand' /\ FramedSoFar' /\ SuccessIsWhole' /\ StreamsAreFramed'
    BY <2>1 DEF BuffersInHand, FramedSoFar, Reading, SuccessIsWhole, StreamsAreFramed
  <2> QED BY <2>1, <2>2, <2>3, ReaderStays
<1>6. CASE IwaOverreads
  BY <1>6, Failed, Died DEF IwaOverreads
<1> QED BY <1>1, <1>2, <1>3, <1>4, <1>5, <1>6 DEF IwaUncompress

-----------------------------------------------------------------------------
(* comment-43.                                                             *)

LEMMA CommentItemFine ==
  ASSUME format = "comment-43", taken \in Nat, NEW n \in Nat, NEW c \in Nat
  PROVE  /\ CommentItem(n, c) \in Items /\ ItemFine(CommentItem(n, c))
         /\ CommentItem(n, c).first = taken /\ CommentItem(n, c).n = n
<1> DEFINE e == CommentItem(n, c)
           w == (IF Stored(n, c) THEN n ELSE c) + 4
           v == w % 2^16
<1>1. w \in Nat /\ (Stored(n, c) => n <= w)
  OBVIOUS
<1>2. v \in Nat /\ v <= 65535
  <2>1. 2^16 = 65536
    BY SMT
  <2>2. \A m \in Nat : m % 65536 \in Nat /\ m % 65536 <= 65535
    BY SMT
  <2> HIDE DEF w
  <2> QED BY <1>1, <2>1, <2>2, SMT
<1>3. v \in Nat
  BY <1>2, SMT
<1>4. e = [Block(v, w, taken, n) EXCEPT !.stored = Stored(n, c)]
  BY DEF CommentItem
<1>5. Stored(n, c) \in BOOLEAN
  BY DEF Stored
<1> HIDE DEF e, v, w
<1>6. /\ e \in Items /\ e.first = taken /\ e.n = n /\ e.kind = "block"
      /\ e.len = v /\ e.size = w /\ e.stored = Stored(n, c)
  BY <1>1, <1>3, <1>4, <1>5 DEF Block, Item, Items
<1>7. ItemFine(e)
  BY <1>1, <1>2, <1>6, SMT DEF ItemFine, Checked
<1> QED BY <1>6, <1>7 DEF e

LEMMA CommentSizes ==
  /\ RawMax \in Nat /\ BlockDataMax \in Nat /\ BlockDataMax = 65535
  /\ MaxCompressedLength(BlockDataMax) \in Nat
<1>1. RawMax \in Nat /\ BlockDataMax \in Nat /\ BlockDataMax = 65535
  BY SMT DEF RawMax, BlockDataMax
<1> HIDE DEF BlockDataMax
<1>2. BlockDataMax \in Nat
  BY <1>1, SMT
<1>3. MaxCompressedLength(BlockDataMax) \in Nat
  BY <1>2, MaxCompressedLengthBounds
<1> QED BY <1>1, <1>3, SMT

LEMMA CommentCompressStep == IInv /\ CommentCompress => IInv'
<1> SUFFICES ASSUME IInv, CommentCompress PROVE IInv'
  OBVIOUS
<1>1. CASE CommentBegin
  <2>1. /\ phase = "start" /\ Begin(<<Item("header", 6, 0)>>, Fresh(RawMax))
    BY <1>1 DEF CommentBegin
  <2>2. Fresh(RawMax) \in [c : Nat, uc : Nat]
    <3>1. RawMax \in Nat
      BY CommentSizes, SMT
    <3> QED BY <3>1, FreshIsSizes
  <2>3. 6 \in Nat /\ ItemFine(Item("header", 6, 0))
    BY HeaderFineItem
  <2> QED BY <2>1, <2>2, <2>3, BeginStep
<1>2. CASE CommentBlock
  <2>0. phase = "encode" /\ format = "comment-43"
    BY <1>2 DEF CommentBlock, Encoding
  <2>1. PICK c \in CompressedSizes(Chunk) : Put(CommentItem(Chunk, c))
    BY <1>2 DEF CommentBlock
  <2>2. Chunk \in Nat /\ taken \in Nat /\ c \in Nat
    BY NextBlock
  <2> DEFINE n == Chunk
             e == CommentItem(n, c)
  <2>3. n \in Nat
    BY <2>2
  <2> HIDE DEF n
  <2>4. e \in Items /\ ItemFine(e) /\ e.first = taken /\ e.n = n
    BY <2>0, <2>2, <2>3, CommentItemFine
  <2> HIDE DEF e
  <2>5. Put(e) /\ e.n = Chunk
    BY <2>1, <2>4 DEF e, n
  <2> QED BY <2>0, <2>4, <2>5, PutStep
<1>3. CASE CommentEnd
  BY <1>3, FinishStep DEF CommentEnd, Encoding, AllFormats
<1> QED BY <1>1, <1>2, <1>3 DEF CommentCompress

(* An item passed in comment-43.                                           *)
LEMMA CommentPass ==
  ASSUME IInv, format = "comment-43", phase \in {"blocks", "between"},
         ~AtEnd, This.kind \in {"header", "end", "skippable"},
         NEW p \in {"blocks", "between"}, Pass(p),
         This.kind = "header" <=> phase = "between",
         p = "between" <=> This.kind = "end"
  PROVE  IInv'
<1>1. /\ phase' = p /\ at' = at + 1
      /\ UNCHANGED <<text, writer, wb, stream, mishaps, got>>
  BY DEF Pass
<1>2. Reading /\ at # 1
  BY DEF IInv, FramedSoFar, Reading, TypeOK
<1>3. FramedSoFar'
  BY <1>1, <1>2, FramedFurther
<1>4. BuffersInHand'
  BY <1>1 DEF IInv, BuffersInHand, Reading, text
<1>5. wb' = wb /\ wb' \in [c : Nat, uc : Nat]
  BY <1>1, SameBuffers
<1> QED BY <1>1, <1>3, <1>4, <1>5, PassedStep

LEMMA CommentUncompressStep == IInv /\ CommentUncompress => IInv'
<1> SUFFICES ASSUME IInv, CommentUncompress PROVE IInv'
  OBVIOUS
<1>1. CASE CommentOpen
  <2>1. phase \in {"header", "detected"} /\ format = "comment-43"
    BY <1>1 DEF CommentOpen, Opening
  <2> DEFINE b == Buffers(BlockDataMax, MaxCompressedLength(BlockDataMax))
  <2>2. b \in [c : Nat, uc : Nat] /\ b.c = BlockDataMax
    <3>1. BlockDataMax \in Nat /\ MaxCompressedLength(BlockDataMax) \in Nat
      BY CommentSizes, SMT
    <3> QED BY <3>1 DEF Buffers
  <2> HIDE DEF b
  <2>3. CASE HeaderFine /\ Opened(b)
    BY <2>1, <2>2, <2>3, OpenedStep
  <2>4. CASE Turn("failed")
    BY <2>4, Failed
  <2> QED BY <1>1, <2>3, <2>4 DEF CommentOpen, b
<1>2. CASE CommentDone
  BY <1>2, Succeed DEF CommentDone, Decoding
<1>3. CASE CommentNextStream
  <2>0. phase = "between" /\ format = "comment-43" /\ ~AtEnd
    BY <1>3 DEF CommentNextStream, Decoding
  <2>1. CASE HeaderFine /\ Pass("blocks")
    <3>1. This.kind = "header"
      BY <2>1 DEF HeaderFine, Found
    <3> QED BY <2>0, <2>1, <3>1, CommentPass
  <2>2. CASE Turn("failed")
    BY <2>2, Failed
  <2> QED BY <1>3, <2>1, <2>2 DEF CommentNextStream
<1>4. CASE CommentRead
  <2>0. /\ phase = "blocks" /\ format = "comment-43" /\ Found("block") /\ Hold(wb)
    BY <1>4 DEF CommentRead, Decoding
  <2>1. This.len \in Nat /\ This.len <= BlockDataMax
    <3>1. This.len \in Nat /\ ItemFine(This)
      BY <2>0, FoundItem
    <3> QED BY <2>0, <3>1, CommentSizes, SMT DEF ItemFine, Checked
  <2>2. wb.c = BlockDataMax
    BY <2>0 DEF IInv, BuffersInHand, Reading
  <2> QED BY <2>0, <2>1, <2>2, SameBuffers, HeldStep
<1>5. CASE CommentSkip
  <2>1. /\ phase = "blocks" /\ format = "comment-43" /\ ~AtEnd
        /\ This.kind = "skippable" /\ Pass("blocks")
    BY <1>5 DEF CommentSkip, Decoding, Found
  <2> QED BY <2>1, CommentPass
<1>6. CASE CommentEndOfStream
  <2>1. /\ phase = "blocks" /\ format = "comment-43" /\ ~AtEnd
        /\ This.kind = "end" /\ Pass("between")
    BY <1>6 DEF CommentEndOfStream, Decoding, Found
  <2> QED BY <2>1, CommentPass
<1>7. CASE CommentReject
  BY <1>7, Failed DEF CommentReject
<1>8. CASE CommentWrite
  <2>0. phase = "held" /\ format = "comment-43"
    BY <1>8 DEF CommentWrite, Decoding
  <2>1. CASE Verified(This) /\ This.n <= wb.uc /\ Written(wb)
    <3>1. This.n <= (IF This.stored THEN wb.c ELSE wb.uc)
      BY <2>0, <2>1, HeldFits
    <3>2. Acceptable(This)
      BY <2>1 DEF Acceptable, Verified
    <3> QED BY <2>0, <2>1, <3>1, <3>2, SameBuffers, WrittenStep
  <2>2. CASE Turn("failed")
    BY <2>2, Failed
  <2> QED BY <1>8, <2>1, <2>2 DEF CommentWrite
<1> QED BY <1>1, <1>2, <1>3, <1>4, <1>5, <1>6, <1>7, <1>8 DEF CommentUncompress

-----------------------------------------------------------------------------
(* The theorems.                                                           *)

LEMMA InitInvariant == Init => IInv
<1> SUFFICES ASSUME Init PROVE IInv
  OBVIOUS
<1>1. size \in Nat /\ blockSize \in Nat /\ size \in TextSizes
      /\ format \in Formats /\ blockSize \in BlockSizes
  BY BlockAssumption DEF Init
<1>2. /\ taken = 0 /\ oerr = FALSE /\ wb = Buffers(0, 0) /\ stream = <<>>
      /\ mishaps = {} /\ phase = "start" /\ at = 1 /\ got = <<>>
  BY DEF Init
<1>3. TypeOK
  <2>1. wb \in [c : Nat, uc : Nat]
    BY <1>2 DEF Buffers
  <2>2. stream \in Seq(Items) /\ got \in Seq(DOMAIN stream)
    BY <1>2
  <2>3. at \in 1 .. Len(stream) + 1
    BY <1>2
  <2>4. taken \in 0 .. size
    BY <1>1, <1>2
  <2>5. oerr \in BOOLEAN
    BY <1>2
  <2> QED BY <1>1, <1>2, <2>1, <2>2, <2>3, <2>4, <2>5 DEF TypeOK, Phases
<1>4. ItemsInHand /\ WriterInHand
  BY <1>2 DEF ItemsInHand, WriterInHand, Position
<1>5. ReaderInHand
  BY <1>2 DEF ReaderInHand, Reached, Position
<1>6. BuffersInHand /\ FramedSoFar /\ SuccessIsWhole /\ StreamsAreFramed
  BY <1>2 DEF BuffersInHand, FramedSoFar, Reading, SuccessIsWhole, StreamsAreFramed
<1>7. BuffersFit /\ OnlySoundData /\ TextInOrder
  BY <1>2 DEF BuffersFit, OnlySoundData, TextInOrder
<1> QED BY <1>3, <1>4, <1>5, <1>6, <1>7 DEF IInv

LEMMA NextInvariant == IInv /\ [Next]_vars => IInv'
<1> SUFFICES ASSUME IInv, [Next]_vars PROVE IInv'
  OBVIOUS
<1>1. CASE Encode
  BY <1>1, SnzipCompressStep, SnappyJavaCompressStep, InJavaCompressStep,
     IwaCompressStep, CommentCompressStep DEF Encode
<1>2. CASE Wire
  BY <1>2, WireStep
<1>3. CASE Decode
  <2>1. CASE StartDecode
    BY <2>1, BeforeReading DEF StartDecode
  <2> QED BY <1>3, <2>1, SnzipUncompressStep, SnappyJavaUncompressStep,
             InJavaUncompressStep, IwaUncompressStep, CommentUncompressStep
          DEF Decode
<1>4. CASE EncodeFails
  BY <1>4, BeforeReading DEF EncodeFails
<1>5. CASE DecodeFails
  BY <1>5, Stop DEF DecodeFails
<1>6. CASE UNCHANGED vars
  <2> USE DEF vars, text, writer, reader
  <2>1. TypeOK' /\ ItemsInHand' /\ WriterInHand'
    BY <1>6 DEF IInv, TypeOK, ItemsInHand, ItemFine, WriterInHand, Position, EndOf
  <2>2. ReaderInHand' /\ BuffersInHand' /\ FramedSoFar'
    BY <1>6 DEF IInv, ReaderInHand, Found, AtEnd, This, Reached, Position, EndOf,
                Block_, Dealt, BuffersInHand, FramedSoFar, Reading
  <2>3. BuffersFit' /\ OnlySoundData' /\ TextInOrder'
    BY <1>6 DEF IInv, BuffersFit, This, OnlySoundData, TextInOrder, Block_,
                Acceptable, Verified, EndOf
  <2>4. SuccessIsWhole' /\ StreamsAreFramed'
    BY <1>6 DEF IInv, SuccessIsWhole, StreamsAreFramed, EndMark, ReadErrorEnds,
                AtEnd
  <2> QED BY <2>1, <2>2, <2>3, <2>4 DEF IInv
<1> QED BY <1>1, <1>2, <1>3, <1>4, <1>5, <1>6 DEF Next, CallFails, Idle

(* The inductive invariant.                                                *)
THEOREM Invariant == Spec => []IInv
<1> QED BY InitInvariant, NextInvariant, PTL DEF Spec

(* The variables have their types.                                         *)
THEOREM TypeCorrect == Spec => []TypeOK
<1>1. IInv => TypeOK
  BY DEF IInv
<1> QED BY <1>1, Invariant, PTL

(* In every format neither the data of a block nor the text made of them   *)
(* are longer than the buffer they are put into, whatever lengths the file *)
(* gives (snzip-format.c:225-251, snappy-java-format.c:192-216,            *)
(* snappy-in-java-format.c:203-245, iwa-format.c:131-146,                  *)
(* comment-43-format.c:205-261); the one read that asks for more than its  *)
(* buffer holds is that of iwa behind a length of which a byte is missing. *)
THEOREM BuffersAreSafe == Spec => []BuffersFit
<1>1. IInv => BuffersFit
  BY DEF IInv
<1> QED BY <1>1, Invariant, PTL

(* What is written is a text from its beginning, whatever happened to the  *)
(* stream: no block is written twice, left out or moved.                   *)
THEOREM WritesInOrder == Spec => []TextInOrder
<1>1. IInv => TextInOrder
  BY DEF IInv
<1> QED BY <1>1, Invariant, PTL

(* Only blocks that are complete and that snappy accepts are written, and  *)
(* in snappy-in-java and comment-43 only those whose checksum is right     *)
(* (snappy-in-java-format.c:266-275, comment-43-format.c:261-288).         *)
THEOREM WritesSoundData == Spec => []OnlySoundData
<1>1. IInv => OnlySoundData
  BY DEF IInv
<1> QED BY <1>1, Invariant, PTL

(* When uncompress succeeds, no block before the end of the file, or the   *)
(* end mark of snzip, is missing in what it has written, but for the cases *)
(* SuccessIsWhole names: what is behind an empty block of iwa, and behind  *)
(* a read error where a block of the formats of Java or a second stream of *)
(* comment-43 would begin (iwa-format.c:150, snappy-java-format.c:175,     *)
(* snappy-in-java-format.c:190, comment-43-format.c:170-173).              *)
THEOREM SucceedsAtTheEnd == Spec => []SuccessIsWhole
<1>1. IInv => SuccessIsWhole
  BY DEF IInv
<1> QED BY <1>1, Invariant, PTL

(* What uncompress has read of a file in comment-43 that it accepts is a   *)
(* sequence of complete streams, and that is all of the file unless a read *)
(* error ended it between two (comment-43-format.c:168-173, 222-315).      *)
THEOREM AcceptsCompleteStreams == Spec => []StreamsAreFramed
<1>1. IInv => StreamsAreFramed
  BY DEF IInv
<1> QED BY <1>1, Invariant, PTL

-----------------------------------------------------------------------------
(* What a step of uncompress leaves alone, and where success stops.        *)

Java == {"snappy-java", "snappy-in-java"}
ReadingStep ==
  /\ UNCHANGED <<text, writer, stream>> /\ phase \in Sent \ {"done"}
  /\ \/ UNCHANGED mishaps /\ phase' \in Sent \cup {"failed", "died"}
     \/ mishaps' = mishaps \cup {"call"} /\ phase' = "done" /\ ReadErrorEnds'
     \/ mishaps' = mishaps \cup {"call"} /\ phase' = "overread" /\ format = "iwa"
  /\ phase = "overread" => format = "iwa" /\ phase' \in {"failed", "died"}
  /\ phase' = "done" =>
       /\ UNCHANGED reader
       /\ IF format = "snzip" THEN AtEndMark
          ELSE \/ AtEnd
               \/ ReadErrorEnds'
               \/ format = "iwa" /\ ~AtEnd /\ This.kind = "block" /\ This.n = 0

LEMMA SnzipReadingStep == SnzipUncompress => ReadingStep
<1> USE DEF ReadingStep, Sent, Phases, Java
<1>1. CASE SnzipOpen
  BY <1>1 DEF SnzipOpen, Opening, Opened, Turn
<1>2. CASE SnzipDone
  BY <1>2 DEF SnzipDone, Decoding, Turn
<1>3. CASE SnzipRead
  BY <1>3 DEF SnzipRead, Decoding, Hold, Turn, reader
<1>4. CASE SnzipWrite
  BY <1>4 DEF SnzipWrite, Decoding, Written, Turn
<1> QED BY <1>1, <1>2, <1>3, <1>4 DEF SnzipUncompress

LEMMA SnappyJavaReadingStep == SnappyJavaUncompress => ReadingStep
<1> USE DEF ReadingStep, Sent, Phases, Java
<1>1. CASE SnappyJavaOpen
  BY <1>1 DEF SnappyJavaOpen, Opening, Opened, Turn
<1>2. CASE SnappyJavaDone
  BY <1>2 DEF SnappyJavaDone, Decoding, ReadErrorEnds, text
<1>3. CASE SnappyJavaRead
  BY <1>3 DEF SnappyJavaRead, Decoding, Hold, Turn
<1>4. CASE SnappyJavaWrite
  BY <1>4 DEF SnappyJavaWrite, Decoding, Written, Turn
<1> QED BY <1>1, <1>2, <1>3, <1>4 DEF SnappyJavaUncompress

LEMMA InJavaReadingStep == InJavaUncompress => ReadingStep
<1> USE DEF ReadingStep, Sent, Phases, Java
<1>1. CASE InJavaOpen
  BY <1>1 DEF InJavaOpen, Opening, Opened, Turn
<1>2. CASE InJavaDone
  BY <1>2 DEF InJavaDone, Decoding, ReadErrorEnds, text
<1>3. CASE InJavaRead
  BY <1>3 DEF InJavaRead, Decoding, Hold, Turn
<1>4. CASE InJavaWrite
  BY <1>4 DEF InJavaWrite, Decoding, Written, Turn
<1> QED BY <1>1, <1>2, <1>3, <1>4 DEF InJavaUncompress

LEMMA IwaReadingStep == ReaderInHand /\ IwaUncompress => ReadingStep
<1> SUFFICES ASSUME ReaderInHand, IwaUncompress PROVE ReadingStep
  OBVIOUS
<1> USE DEF ReadingStep, Sent, Phases, Java
<1>1. CASE IwaOpen
  BY <1>1 DEF IwaOpen, Opening
<1>2. CASE IwaDone
  BY <1>2 DEF IwaDone, Decoding, Turn
<1>3. CASE IwaRead
  BY <1>3 DEF IwaRead, Decoding, Hold, Turn
<1>4. CASE IwaWrite
  <2>1. Found("block")
    BY <1>4 DEF IwaWrite, Decoding, ReaderInHand
  <2> QED BY <1>4, <2>1 DEF IwaWrite, Decoding, Written, Turn, Found
<1>5. CASE IwaOverread
  BY <1>5 DEF IwaOverread, Decoding
<1>6. CASE IwaOverreads
  BY <1>6 DEF IwaOverreads, Decoding, Turn
<1> QED BY <1>1, <1>2, <1>3, <1>4, <1>5, <1>6 DEF IwaUncompress

LEMMA CommentReadingStep == FramedSoFar /\ CommentUncompress => ReadingStep
<1> SUFFICES ASSUME FramedSoFar, CommentUncompress PROVE ReadingStep
  OBVIOUS
<1> USE DEF ReadingStep, Sent, Phases, Java
<1>1. CASE CommentOpen
  BY <1>1 DEF CommentOpen, Opening, Opened, Turn
<1>2. CASE CommentDone
  <2>1. at > 1 /\ stream[at - 1].kind = "end"
    BY <1>2 DEF CommentDone, Decoding, FramedSoFar, Reading
  <2> QED BY <1>2, <2>1 DEF CommentDone, Decoding, ReadErrorEnds, text, reader
<1>3. CASE CommentNextStream
  BY <1>3 DEF CommentNextStream, Decoding, Pass, Turn
<1>4. CASE CommentRead
  BY <1>4 DEF CommentRead, Decoding, Hold
<1>5. CASE CommentSkip
  BY <1>5 DEF CommentSkip, Decoding, Pass
<1>6. CASE CommentEndOfStream
  BY <1>6 DEF CommentEndOfStream, Decoding, Pass
<1>7. CASE CommentReject
  BY <1>7 DEF CommentReject, Decoding, Turn
<1>8. CASE CommentWrite
  BY <1>8 DEF CommentWrite, Decoding, Written, Turn
<1> QED BY <1>1, <1>2, <1>3, <1>4, <1>5, <1>6, <1>7, <1>8 DEF CommentUncompress

LEMMA DecodeReads == ReaderInHand /\ FramedSoFar /\ Decode => ReadingStep
<1>1. StartDecode => ReadingStep
  BY DEF StartDecode, ReadingStep, Sent, Phases
<1> QED BY <1>1, SnzipReadingStep, SnappyJavaReadingStep, InJavaReadingStep,
           IwaReadingStep, CommentReadingStep DEF Decode

(* A step of uncompress keeps what is known of calls and of the stream.    *)
LEMMA ReadingKeepsCalls ==
  ASSUME CallsInHand, ReadingStep
  PROVE  CallsInHand' /\ WriterSizes'
<1>1. oerr' = oerr /\ format' = format
  BY DEF ReadingStep, text, writer
<1>2. "call" \in mishaps => oerr \/ phase = "overread"
  BY DEF ReadingStep, CallsInHand, Sent, Phases
<1>3. oerr => format \notin {"iwa", "comment-43"}
  BY DEF ReadingStep, CallsInHand, Sent, Phases
<1>4. phase' \notin {"start", "encode"}
  BY DEF ReadingStep, Sent, Phases
<1>5. CallsInHand'
  BY <1>1, <1>2, <1>3, <1>4 DEF ReadingStep, CallsInHand
<1> QED BY <1>4, <1>5 DEF WriterSizes

LEMMA ReadingKeepsText ==
  ASSUME TextInHand, UNCHANGED <<text, writer, stream>>,
         mishaps' \in {mishaps, mishaps \cup {"call"}},
         phase' \notin {"start", "encode"}, phase' \in Sent => phase \in Sent
  PROVE  TextInHand'
<1> SUFFICES ASSUME ~oerr', "foreign" \notin mishaps' PROVE TextInHand'
  BY DEF TextInHand
<1>1. /\ oerr' = oerr /\ format' = format /\ size' = size /\ stream' = stream
  BY DEF text, writer
<1>2. /\ ~oerr /\ "foreign" \notin mishaps /\ Copies' = Copies
      /\ "cut" \in mishaps' <=> "cut" \in mishaps
      /\ "length" \in mishaps' <=> "length" \in mishaps
  BY <1>1 DEF Copies
<1>3. ASSUME NEW i \in DOMAIN stream'
      PROVE  BlockIsNotEmpty(stream[i])' /\ EndsText(i)'
  <2>1. BlockIsNotEmpty(stream[i]) /\ EndsText(i)
    BY <1>1, <1>2, <1>3 DEF TextInHand
  <2> QED BY <1>1, <1>2, <2>1 DEF BlockIsNotEmpty, EndsText
<1>4. phase' \in Sent /\ "cut" \notin mishaps' =>
        Position(Len(stream) + 1)' = Copies' * size'
  BY <1>1, <1>2 DEF TextInHand, Position, EndOf
<1> QED BY <1>3, <1>4 DEF TextInHand

LEMMA ReadingStops ==
  ASSUME ReadingStep PROVE StoppedAtEnd'
<1> SUFFICES ASSUME phase' = "done" PROVE StoppedAtEnd'
  BY DEF StoppedAtEnd
<1>1. stream' = stream /\ at' = at /\ format' = format
  BY DEF ReadingStep, text, reader
<1> QED BY <1>1 DEF ReadingStep, StoppedAtEnd, AtEnd, AtEndMark, This, EndMark

-----------------------------------------------------------------------------
(* The steps of compress, and the blocks it writes.                        *)

LEMMA TextBlockIsSize ==
  ASSUME format \in AllFormats, blockSize \in Nat
  PROVE  TextBlock \in Nat \ {0}
<1>1. /\ 2^DefaultShift \in Nat \ {0} /\ JavaBlockSize \in Nat \ {0}
      /\ InJavaBlockSize \in Nat \ {0} /\ IwaTextMax \in Nat \ {0}
      /\ RawMax \in Nat \ {0}
  BY SMT DEF DefaultShift, JavaBlockSize, InJavaBlockSize, IwaTextMax, RawMax
<1> QED BY <1>1 DEF TextBlock, AllFormats

LEMMA DataSizes ==
  ASSUME NEW b \in Nat, NEW n \in 1 .. b, NEW c \in CompressedSizes(n)
  PROVE  /\ c \in Nat /\ c >= 3 /\ c <= MaxCompressedLength(b)
         /\ n # 1 => c >= 4
<1>1. c = IF n = 1 THEN 3 ELSE c
  BY DEF CompressedSizes
<1>2. n # 1 => c = 4 \/ c = n + 2 \/ c = 32 + n + n \div 6
  BY DEF CompressedSizes, MaxCompressedLength
<1>3. n \div 6 <= b \div 6 /\ n \div 6 \in Nat /\ b \div 6 \in Nat
  BY SMT
<1>4. MaxCompressedLength(b) = 32 + b + b \div 6
  BY DEF MaxCompressedLength
<1>5. n \in Nat /\ 1 <= n /\ n <= b
  OBVIOUS
<1>6. CASE n = 1
  <2>1. c = 3
    BY <1>1, <1>6
  <2> QED BY <1>3, <1>4, <1>6, <2>1
<1>7. CASE n # 1
  BY <1>2, <1>3, <1>4, <1>5, <1>7
<1> QED BY <1>6, <1>7

(* A block that holds n bytes of the text in data that are c bytes long.   *)
LEMMA BlockIsOwn ==
  ASSUME NEW e \in Items, e.kind = "block", e.data = "good", ~e.cut,
         TextBlock \in Nat, e.n \in 1 .. TextBlock,
         e.len = e.size, e.len >= LeastLen, e.len <= MaxCompressedLength(TextBlock)
  PROVE  OwnBlock(e)
<1>1. e.len \in Nat /\ LeastLen \in Nat
  BY DEF Items, LeastLen
<1>2. MaxCompressedLength(TextBlock) \in Nat
  BY MaxCompressedLengthBounds
<1> QED BY <1>1, <1>2 DEF OwnBlock, Verified

Marks == IF format \in EndMarked THEN <<Item("end", 0, taken)>> ELSE <<>>
FirstStep ==
  /\ phase = "start" /\ wb' = Fresh(TextBlock)
  /\ format = "snzip" => TextBlock <= 2^MaxShift /\ ~Refused(blockSize)
  /\ format = "snappy-in-java" => TextBlock <= InJavaMax
  /\ \E header : /\ Begin(header, Fresh(TextBlock))
                 /\ \/ format = "iwa" /\ header = <<>>
                    \/ \E len \in Nat :
                         /\ format # "iwa" /\ header = <<Item("header", len, 0)>>
                         /\ format = "snzip" => len = Shift(blockSize)
BlockStep ==
  /\ phase = "encode" /\ HasInput /\ Chunk \in 1 .. TextBlock
  /\ \E e \in Items : /\ Put(e) /\ e.first = taken /\ e.n = Chunk
                      /\ e.kind = "block" /\ e.len > 0
                      /\ (format = "iwa" => Chunk # 1) => OwnBlock(e)
LastStep ==
  /\ phase = "encode"
  /\ IF format \in {"iwa", "comment-43"} THEN FinishChecked(Marks) ELSE Finish(Marks)
WritingStep == (phase = "start" /\ Refuse) \/ FirstStep \/ BlockStep \/ LastStep

LEMMA ChunkOfBlock ==
  ASSUME IInv, WriterSizes, phase = "encode", HasInput, TextBlock \in Nat \ {0}
  PROVE  /\ Chunk \in 1 .. TextBlock
         /\ Chunk = IF size - taken <= TextBlock THEN size - taken ELSE TextBlock
<1>1. wb.uc = TextBlock
  BY DEF WriterSizes, Fresh, Buffers
<1>2. taken \in Nat /\ size \in Nat /\ taken < size
  BY TakenIsNat DEF HasInput
<1> QED BY <1>1, <1>2 DEF Chunk, Minimum

LEMMA BlockFields ==
  ASSUME NEW len, NEW width, NEW first, NEW n
  PROVE  /\ Block(len, width, first, n).data = "good"
         /\ ~Block(len, width, first, n).cut
         /\ StoredBlock(len, width, first, n).data = "good"
         /\ ~StoredBlock(len, width, first, n).cut
BY DEF Block, StoredBlock, Item

(* A block whose length bytes say how long its data are.                   *)
LEMMA PlainStep ==
  ASSUME IInv, phase = "encode", HasInput, Chunk \in 1 .. TextBlock,
         TextBlock \in Nat, NEW e \in Items, Put(e), e.first = taken, e.n = Chunk,
         e.kind = "block", e.data = "good", ~e.cut,
         e.len = e.size, e.len > 0, e.len <= MaxCompressedLength(TextBlock),
         (format = "iwa" => Chunk # 1) => e.len >= LeastLen
  PROVE  BlockStep
<1>1. (format = "iwa" => Chunk # 1) => OwnBlock(e)
  BY BlockIsOwn
<1> QED BY <1>1 DEF BlockStep

LEMMA SnzipWritingStep ==
  ASSUME IInv, WriterSizes, SnzipCompress PROVE WritingStep
<1>0. format = "snzip" /\ blockSize \in Nat /\ TextBlock \in Nat \ {0}
  <2>1. format = "snzip"
    BY DEF SnzipCompress, SnzipBegin, SnzipBlock, SnzipEnd, Encoding
  <2>2. blockSize \in Nat
    BY BlockAssumption DEF IInv, TypeOK
  <2> QED BY <2>1, <2>2, TextBlockIsSize DEF AllFormats
<1>1. CASE SnzipBegin
  <2>1. CASE Refused(blockSize)
    BY <1>1, <2>1 DEF SnzipBegin, WritingStep
  <2>2. CASE ~Refused(blockSize)
    <3> DEFINE len == Shift(blockSize)
    <3>1. phase = "start" /\ Begin(<<Item("header", len, 0)>>, Fresh(TextBlock))
      BY <1>0, <1>1, <2>2 DEF SnzipBegin, TextBlock
    <3>2. len \in Nat
      BY <1>0, ShiftIsNat
    <3>3. TextBlock <= 2^MaxShift
      <4>1. 2^16 <= 2^27 /\ TextBlock = IF blockSize = 0 THEN 2^16 ELSE blockSize
        BY <1>0, SMT DEF TextBlock, DefaultShift
      <4>2. ~(blockSize > 2^27) /\ 2^27 \in Nat
        BY <2>2, PowersAreNat DEF Refused, MaxShift
      <4> QED BY <1>0, <4>1, <4>2 DEF MaxShift
    <3>4. wb' = Fresh(TextBlock)
      BY <3>1 DEF Begin
    <3> QED BY <1>0, <2>2, <3>1, <3>2, <3>3, <3>4 DEF FirstStep, WritingStep
  <2> QED BY <2>1, <2>2
<1>2. CASE SnzipBlock
  <2>1. phase = "encode" /\ HasInput
    BY <1>2 DEF SnzipBlock, Encoding
  <2>2. PICK c \in CompressedSizes(Chunk) :
          Put(Block(VarintValue(Varint(c)), c, taken, Chunk))
    BY <1>2 DEF SnzipBlock
  <2>3. Chunk \in 1 .. TextBlock /\ Chunk \in Nat
    BY <1>0, <2>1, ChunkOfBlock
  <2>4. c \in Nat /\ c >= 3 /\ c <= MaxCompressedLength(TextBlock)
    BY <1>0, <2>2, <2>3, DataSizes
  <2>5. VarintValue(Varint(c)) = c
    <3>1. TextBlock <= 134217728
      <4>1. TextBlock <= 2^27
        BY <1>0, <2>1 DEF WriterSizes, MaxShift
      <4>2. 2^27 = 134217728
        BY SMT
      <4> QED BY <4>1, <4>2, SMT
    <3>2. MaxCompressedLength(TextBlock) = 32 + TextBlock + TextBlock \div 6
      BY DEF MaxCompressedLength
    <3>3. c \in 0 .. 2^31 - 1
      BY <1>0, <2>4, <3>1, <3>2, Limits, SMT
    <3> QED BY <3>3, LengthBytes
  <2> DEFINE e == Block(c, c, taken, Chunk)
  <2>6. taken \in Nat
    BY TakenIsNat
  <2>7. /\ e \in Items /\ e.first = taken /\ e.n = Chunk /\ e.kind = "block"
        /\ e.len = c /\ e.size = c /\ e.data = "good" /\ ~e.cut /\ Put(e)
    BY <2>2, <2>3, <2>4, <2>5, <2>6, BlockTypes, BlockFields
  <2> HIDE DEF e
  <2>8. LeastLen = 1
    BY <1>0 DEF LeastLen
  <2>9. e.len > 0 /\ e.len >= LeastLen
    BY <2>4, <2>7, <2>8
  <2> QED BY <1>0, <2>1, <2>3, <2>4, <2>7, <2>9, PlainStep DEF WritingStep
<1>3. CASE SnzipEnd
  BY <1>0, <1>3 DEF SnzipEnd, Encoding, LastStep, Marks, EndMarked, WritingStep
<1> QED BY <1>1, <1>2, <1>3 DEF SnzipCompress

LEMMA SnappyJavaWritingStep ==
  ASSUME IInv, WriterSizes, SnappyJavaCompress PROVE WritingStep
<1>0. format = "snappy-java" /\ TextBlock \in Nat \ {0}
  <2>1. format = "snappy-java"
    BY DEF SnappyJavaCompress, SnappyJavaBegin, SnappyJavaBlock, SnappyJavaEnd, Encoding
  <2>2. blockSize \in Nat
    BY BlockAssumption DEF IInv, TypeOK
  <2> QED BY <2>1, <2>2, TextBlockIsSize DEF AllFormats
<1>1. CASE SnappyJavaBegin
  <2>1. phase = "start" /\ Begin(<<Item("header", 0, 0)>>, Fresh(TextBlock))
    BY <1>0, <1>1 DEF SnappyJavaBegin, TextBlock
  <2>2. wb' = Fresh(TextBlock) /\ 0 \in Nat
    BY <2>1 DEF Begin
  <2> QED BY <1>0, <2>1, <2>2 DEF FirstStep, WritingStep
<1>2. CASE SnappyJavaBlock
  <2>1. phase = "encode" /\ HasInput
    BY <1>2 DEF SnappyJavaBlock, Encoding
  <2>2. PICK c \in CompressedSizes(Chunk) : Put(Block(c, c, taken, Chunk))
    BY <1>2 DEF SnappyJavaBlock
  <2>3. Chunk \in 1 .. TextBlock /\ Chunk \in Nat
    BY <1>0, <2>1, ChunkOfBlock
  <2>4. c \in Nat /\ c >= 3 /\ c <= MaxCompressedLength(TextBlock)
    BY <1>0, <2>2, <2>3, DataSizes
  <2> DEFINE e == Block(c, c, taken, Chunk)
  <2>6. taken \in Nat
    BY TakenIsNat
  <2>7. /\ e \in Items /\ e.first = taken /\ e.n = Chunk /\ e.kind = "block"
        /\ e.len = c /\ e.size = c /\ e.data = "good" /\ ~e.cut /\ Put(e)
    BY <2>2, <2>3, <2>4, <2>6, BlockTypes, BlockFields
  <2> HIDE DEF e
  <2>8. LeastLen = 1
    BY <1>0 DEF LeastLen
  <2>9. e.len > 0 /\ e.len >= LeastLen
    BY <2>4, <2>7, <2>8
  <2> QED BY <1>0, <2>1, <2>3, <2>4, <2>7, <2>9, PlainStep DEF WritingStep
<1>3. CASE SnappyJavaEnd
  BY <1>0, <1>3 DEF SnappyJavaEnd, Encoding, LastStep, Marks, EndMarked, WritingStep
<1> QED BY <1>1, <1>2, <1>3 DEF SnappyJavaCompress

(* The lengths of two bytes hold what the blocks of the two formats need.  *)
LEMMA ShortLengths ==
  ASSUME NEW n \in Nat, NEW c \in Nat, n <= 65535, n >= 1, c >= 3
  PROVE  /\ n % 2^16 = n
         /\ ~Stored(n, c) => c % 2^16 = c /\ c <= n
         /\ n <= 32768 /\ Stored(n, c) => (n + 4) % 2^16 = n + 4
         /\ n <= 32768 /\ ~Stored(n, c) => (c + 4) % 2^16 = c + 4
<1>1. 2^16 = 65536
  BY SMT
<1>2. \A m \in Nat : m < 65536 => m % 65536 = m
  BY SMT
<1>3. ~Stored(n, c) => c < n
  BY SMT DEF Stored
<1>4. n < 65536 /\ (~Stored(n, c) => c < 65536)
  BY <1>3
<1>5. n <= 32768 => n + 4 < 65536 /\ (~Stored(n, c) => c + 4 < 65536)
  BY <1>3
<1> QED BY <1>1, <1>2, <1>3, <1>4, <1>5

LEMMA InJavaItemIs ==
  ASSUME taken \in Nat, NEW n \in Nat, NEW c \in Nat, n <= 65535, n >= 1, c >= 3,
         NEW e, e = InJavaItem(n, c)
  PROVE  /\ e \in Items /\ e.first = taken /\ e.n = n /\ e.kind = "block"
         /\ e.data = "good" /\ ~e.cut /\ e.len = e.size
         /\ e.len = IF Stored(n, c) THEN n ELSE c
<1>1. n % 2^16 = n /\ (~Stored(n, c) => c % 2^16 = c)
  BY ShortLengths
<1>2. CASE Stored(n, c)
  <2>1. e = StoredBlock(n, n, taken, n)
    BY <1>1, <1>2 DEF InJavaItem
  <2> QED BY <1>2, <2>1, BlockTypes, BlockFields
<1>3. CASE ~Stored(n, c)
  <2>1. e = Block(c, c, taken, n)
    BY <1>1, <1>3 DEF InJavaItem
  <2> QED BY <1>3, <2>1, BlockTypes, BlockFields
<1> QED BY <1>2, <1>3

LEMMA CommentItemIs ==
  ASSUME taken \in Nat, NEW n \in Nat, NEW c \in Nat, n <= 32768, n >= 1, c >= 3,
         NEW e, e = CommentItem(n, c)
  PROVE  /\ e \in Items /\ e.first = taken /\ e.n = n /\ e.kind = "block"
         /\ e.data = "good" /\ ~e.cut /\ e.len = e.size
         /\ e.len = (IF Stored(n, c) THEN n ELSE c) + 4
<1> DEFINE w == (IF Stored(n, c) THEN n ELSE c) + 4
<1>1. w % 2^16 = w
  BY ShortLengths
<1>2. w \in Nat /\ Stored(n, c) \in BOOLEAN
  BY DEF Stored
<1>3. e = [Block(w, w, taken, n) EXCEPT !.stored = Stored(n, c)]
  BY <1>1 DEF CommentItem
<1> HIDE DEF w
<1> DEFINE f == Block(w, w, taken, n)
<1>4. /\ f \in Items /\ f.first = taken /\ f.n = n /\ f.kind = "block"
      /\ f.len = w /\ f.size = w /\ f.data = "good" /\ ~f.cut
  BY <1>2, BlockTypes, BlockFields
<1>5. e = [f EXCEPT !.stored = Stored(n, c)]
  BY <1>3
<1> HIDE DEF f
<1>6. e \in Items
  BY <1>2, <1>4, <1>5 DEF Items
<1>7. /\ e.first = f.first /\ e.n = f.n /\ e.kind = f.kind /\ e.len = f.len
      /\ e.size = f.size /\ e.data = f.data /\ e.cut = f.cut
  BY <1>4, <1>5 DEF Items
<1> QED BY <1>4, <1>6, <1>7 DEF w

LEMMA InJavaWritingStep ==
  ASSUME IInv, WriterSizes, InJavaCompress PROVE WritingStep
<1>0. format = "snappy-in-java" /\ TextBlock \in Nat \ {0} /\ blockSize \in Nat
  <2>1. format = "snappy-in-java"
    BY DEF InJavaCompress, InJavaBegin, InJavaBlock, InJavaEnd, Encoding
  <2>2. blockSize \in Nat
    BY BlockAssumption DEF IInv, TypeOK
  <2> QED BY <2>1, <2>2, TextBlockIsSize DEF AllFormats
<1>1. CASE InJavaBegin
  <2>1. CASE blockSize > InJavaMax
    BY <1>1, <2>1 DEF InJavaBegin, WritingStep
  <2>2. CASE ~(blockSize > InJavaMax)
    <3>1. phase = "start" /\ Begin(<<Item("header", 0, 0)>>, Fresh(TextBlock))
      BY <1>0, <1>1, <2>2 DEF InJavaBegin, TextBlock
    <3>2. wb' = Fresh(TextBlock) /\ 0 \in Nat
      BY <3>1 DEF Begin
    <3>3. TextBlock <= InJavaMax
      <4>1. TextBlock = IF blockSize = 0 THEN 2^15 ELSE blockSize
        BY <1>0 DEF TextBlock, InJavaBlockSize
      <4>2. 2^15 = 32768
        BY SMT
      <4> QED BY <1>0, <2>2, <4>1, <4>2 DEF InJavaMax
    <3> QED BY <1>0, <3>1, <3>2, <3>3 DEF FirstStep, WritingStep
  <2> QED BY <2>1, <2>2
<1>2. CASE InJavaBlock
  <2>1. phase = "encode" /\ HasInput
    BY <1>2 DEF InJavaBlock, Encoding
  <2>2. PICK c \in CompressedSizes(Chunk) : Put(InJavaItem(Chunk, c))
    BY <1>2 DEF InJavaBlock
  <2>3. Chunk \in 1 .. TextBlock /\ Chunk \in Nat /\ TextBlock <= 65535
    BY <1>0, <2>1, ChunkOfBlock DEF WriterSizes, InJavaMax
  <2>4. c \in Nat /\ c >= 3 /\ c <= MaxCompressedLength(TextBlock)
    BY <1>0, <2>2, <2>3, DataSizes
  <2>5. TextBlock <= MaxCompressedLength(TextBlock) /\ MaxCompressedLength(TextBlock) \in Nat
    BY <1>0, MaxCompressedLengthBounds
  <2>6. taken \in Nat
    BY TakenIsNat
  <2>7. PICK n \in Nat : n = Chunk
    BY <2>3
  <2>8. n >= 1 /\ n <= 65535 /\ n <= TextBlock
    BY <1>0, <2>3, <2>7
  <2>9. PICK e : e = InJavaItem(n, c)
    OBVIOUS
  <2>10. /\ e \in Items /\ e.first = taken /\ e.n = n /\ e.kind = "block"
         /\ e.data = "good" /\ ~e.cut /\ e.len = e.size
         /\ e.len = IF Stored(n, c) THEN n ELSE c
    BY <2>4, <2>6, <2>8, <2>9, InJavaItemIs
  <2>11. LeastLen = 1
    BY <1>0 DEF LeastLen
  <2>12. e.len > 0 /\ e.len >= LeastLen /\ e.len <= MaxCompressedLength(TextBlock)
    <3> HIDE DEF MaxCompressedLength
    <3> QED BY <1>0, <2>4, <2>5, <2>8, <2>10, <2>11
  <2>13. Put(e) /\ e.n = Chunk
    BY <2>2, <2>7, <2>9, <2>10
  <2>14. /\ e \in Items /\ e.first = taken /\ e.kind = "block"
         /\ e.data = "good" /\ ~e.cut /\ e.len = e.size /\ e.n = Chunk
    BY <2>10, <2>13
  <2>15. TextBlock \in Nat /\ Chunk \in 1 .. TextBlock
    BY <1>0, <2>3
  <2>16. BlockStep
    BY <2>1, <2>12, <2>13, <2>14, <2>15, PlainStep
  <2> QED BY <2>16 DEF WritingStep
<1>3. CASE InJavaEnd
  BY <1>0, <1>3 DEF InJavaEnd, Encoding, LastStep, Marks, EndMarked, WritingStep
<1> QED BY <1>1, <1>2, <1>3 DEF InJavaCompress

LEMMA IwaWritingStep ==
  ASSUME IInv, WriterSizes, IwaCompress PROVE WritingStep
<1>0. format = "iwa" /\ TextBlock \in Nat \ {0}
  <2>1. format = "iwa"
    BY DEF IwaCompress, IwaBegin, IwaBlock, IwaEnd, Encoding
  <2>2. blockSize \in Nat
    BY BlockAssumption DEF IInv, TypeOK
  <2> QED BY <2>1, <2>2, TextBlockIsSize DEF AllFormats
<1>4. TextBlock = 65536
  BY <1>0, SMT DEF TextBlock, IwaTextMax
<1>1. CASE IwaBegin
  <2>1. phase = "start" /\ Begin(<<>>, Fresh(TextBlock))
    BY <1>0, <1>1 DEF IwaBegin, TextBlock
  <2>2. wb' = Fresh(TextBlock)
    BY <2>1 DEF Begin
  <2> QED BY <1>0, <2>1, <2>2 DEF FirstStep, WritingStep
<1>2. CASE IwaBlock
  <2>1. phase = "encode" /\ HasInput
    BY <1>2 DEF IwaBlock, Encoding
  <2>2. PICK c \in CompressedSizes(Chunk) :
          Put(Block(c % 2^24, c, taken, Chunk))
    BY <1>2 DEF IwaBlock
  <2>3. Chunk \in 1 .. TextBlock /\ Chunk \in Nat
    BY <1>0, <2>1, ChunkOfBlock
  <2>4. /\ c \in Nat /\ c >= 3 /\ c <= MaxCompressedLength(TextBlock)
        /\ Chunk # 1 => c >= 4
    BY <1>0, <2>2, <2>3, DataSizes
  <2>5. c % 2^24 = c
    <3>1. MaxCompressedLength(TextBlock) = 32 + 65536 + 65536 \div 6
      BY <1>4 DEF MaxCompressedLength
    <3>2. 2^24 = 16777216
      BY SMT
    <3>3. c < 16777216
      BY <2>4, <3>1, SMT
    <3> QED BY <2>4, <3>2, <3>3, SMT
  <2> DEFINE e == Block(c, c, taken, Chunk)
  <2>6. taken \in Nat
    BY TakenIsNat
  <2>7. /\ e \in Items /\ e.first = taken /\ e.n = Chunk /\ e.kind = "block"
        /\ e.len = c /\ e.size = c /\ e.data = "good" /\ ~e.cut /\ Put(e)
    BY <2>2, <2>3, <2>4, <2>5, <2>6, BlockTypes, BlockFields
  <2> HIDE DEF e
  <2>8. LeastLen = 4
    BY <1>0 DEF LeastLen
  <2>9. e.len > 0 /\ (Chunk # 1 => e.len >= LeastLen)
    BY <2>4, <2>7, <2>8
  <2> QED BY <1>0, <2>1, <2>3, <2>4, <2>7, <2>9, PlainStep DEF WritingStep
<1>3. CASE IwaEnd
  BY <1>0, <1>3 DEF IwaEnd, Encoding, LastStep, Marks, EndMarked, WritingStep
<1> QED BY <1>1, <1>2, <1>3 DEF IwaCompress

LEMMA CommentWritingStep ==
  ASSUME IInv, WriterSizes, CommentCompress PROVE WritingStep
<1>0. format = "comment-43" /\ TextBlock \in Nat \ {0}
  <2>1. format = "comment-43"
    BY DEF CommentCompress, CommentBegin, CommentBlock, CommentEnd, Encoding
  <2>2. blockSize \in Nat
    BY BlockAssumption DEF IInv, TypeOK
  <2> QED BY <2>1, <2>2, TextBlockIsSize DEF AllFormats
<1>4. TextBlock = 32768
  BY <1>0, SMT DEF TextBlock, RawMax
<1>1. CASE CommentBegin
  <2>1. phase = "start" /\ Begin(<<Item("header", 6, 0)>>, Fresh(TextBlock))
    BY <1>0, <1>1 DEF CommentBegin, TextBlock
  <2>2. wb' = Fresh(TextBlock) /\ 6 \in Nat
    BY <2>1 DEF Begin
  <2> QED BY <1>0, <2>1, <2>2 DEF FirstStep, WritingStep
<1>2. CASE CommentBlock
  <2>1. phase = "encode" /\ HasInput
    BY <1>2 DEF CommentBlock, Encoding
  <2>2. PICK c \in CompressedSizes(Chunk) : Put(CommentItem(Chunk, c))
    BY <1>2 DEF CommentBlock
  <2>3. Chunk \in 1 .. TextBlock /\ Chunk \in Nat
    BY <1>0, <2>1, ChunkOfBlock
  <2>4. c \in Nat /\ c >= 3
    BY <1>0, <2>2, <2>3, DataSizes
  <2>5. MaxCompressedLength(TextBlock) >= 32772 /\ MaxCompressedLength(TextBlock) \in Nat
    BY <1>4, SMT DEF MaxCompressedLength
  <2>6. taken \in Nat
    BY TakenIsNat
  <2>7. PICK n \in Nat : n = Chunk
    BY <2>3
  <2>8. n >= 1 /\ n <= 32768
    BY <1>4, <2>3, <2>7
  <2>9. PICK e : e = CommentItem(n, c)
    OBVIOUS
  <2>10. /\ e \in Items /\ e.first = taken /\ e.n = n /\ e.kind = "block"
         /\ e.data = "good" /\ ~e.cut /\ e.len = e.size
         /\ e.len = (IF Stored(n, c) THEN n ELSE c) + 4
    BY <2>4, <2>6, <2>8, <2>9, CommentItemIs
  <2>11. LeastLen = 5
    BY <1>0 DEF LeastLen
  <2>12. ~Stored(n, c) => c <= n
    BY <2>4, <2>8, ShortLengths
  <2>13. e.len > 0 /\ e.len >= LeastLen /\ e.len <= MaxCompressedLength(TextBlock)
    <3> HIDE DEF MaxCompressedLength
    <3> QED BY <2>4, <2>5, <2>8, <2>10, <2>11, <2>12
  <2>14. Put(e) /\ e.n = Chunk
    BY <2>2, <2>7, <2>9, <2>10
  <2>15. BlockStep
    BY <1>0, <2>1, <2>3, <2>10, <2>13, <2>14, PlainStep
  <2> QED BY <2>15 DEF WritingStep
<1>3. CASE CommentEnd
  BY <1>0, <1>3 DEF CommentEnd, Encoding, LastStep, Marks, EndMarked, WritingStep
<1> QED BY <1>1, <1>2, <1>3 DEF CommentCompress

LEMMA EncodeWrites ==
  ASSUME IInv, WriterSizes, Encode PROVE WritingStep
BY SnzipWritingStep, SnappyJavaWritingStep, InJavaWritingStep, IwaWritingStep,
   CommentWritingStep DEF Encode

-----------------------------------------------------------------------------
(* What a step of compress keeps.                                          *)

LEMMA OneMore ==
  ASSUME NEW s \in Seq(Items), NEW e \in Items, NEW r, r = s \o <<e>>
  PROVE  /\ r \in Seq(Items) /\ Len(r) = Len(s) + 1 /\ DOMAIN r = 1 .. Len(s) + 1
         /\ r[Len(s) + 1] = e /\ \A i \in 1 .. Len(s) : r[i] = s[i]
<1>1. r = Append(s, e)
  OBVIOUS
<1> QED BY <1>1

(* Whether the step writes something.                                      *)
LEMMA Emitted ==
  ASSUME NEW items, Emit(items), stream \in Seq(Items)
  PROVE  /\ \/ UNCHANGED <<oerr, mishaps>>
            \/ oerr' = TRUE /\ mishaps' = mishaps \cup {"call"}
         /\ ~oerr' \/ mishaps' = {} =>
              stream' = stream \o items /\ UNCHANGED <<oerr, mishaps>>
BY DEF Emit

LEMMA TextStays ==
  ASSUME UNCHANGED text
  PROVE  /\ format' = format /\ blockSize' = blockSize /\ size' = size
         /\ TextBlock' = TextBlock /\ Readable' = Readable /\ LeastLen' = LeastLen
         /\ \A e : OwnBlock(e)' = OwnBlock(e)
         /\ \A e : OwnHeader(e)' = OwnHeader(e)
<1>1. format' = format /\ blockSize' = blockSize /\ size' = size
  BY DEF text
<1>2. TextBlock' = TextBlock /\ LeastLen' = LeastLen
  BY <1>1 DEF TextBlock, LeastLen
<1>3. Readable' = Readable
  BY <1>1 DEF Readable
<1>4. \A e : OwnBlock(e)' = OwnBlock(e)
  BY <1>2 DEF OwnBlock
<1>5. \A e : OwnHeader(e)' = OwnHeader(e)
  BY <1>1, <1>2 DEF OwnHeader
<1> QED BY <1>1, <1>2, <1>3, <1>4, <1>5

LEMMA WritingKeepsCalls ==
  ASSUME IInv, CallsInHand, WritingStep
  PROVE  CallsInHand'
<1>0. stream \in Seq(Items)
  BY DEF IInv, TypeOK
<1>1. format' = format
  BY DEF WritingStep, Refuse, FirstStep, Begin, BlockStep, Put, LastStep, Finish,
         FinishChecked, text
<1>2. mishaps \subseteq {"call"} /\ ("call" \in mishaps => oerr)
  BY DEF CallsInHand, WritingStep, FirstStep, BlockStep, LastStep
<1>7. oerr \in BOOLEAN /\ (oerr => "call" \in mishaps)
  BY DEF IInv, TypeOK, CallsInHand
<1>3. CASE phase = "start" /\ Refuse
  BY <1>1, <1>2, <1>3 DEF Refuse, writer, CallsInHand
<1>4. CASE FirstStep
  <2>1. PICK header : Begin(header, Fresh(TextBlock))
    BY <1>4 DEF FirstStep
  <2>2. Emit(header) /\ phase' \in {"encode", "died"}
    BY <2>1 DEF Begin
  <2>3. \/ UNCHANGED <<oerr, mishaps>>
        \/ oerr' = TRUE /\ mishaps' = mishaps \cup {"call"}
    BY <1>0, <2>2, Emitted
  <2>4. mishaps' \subseteq {"call"} /\ ("call" \in mishaps' <=> oerr')
    <3>1. CASE oerr' = oerr /\ mishaps' = mishaps
      BY <1>2, <1>7, <3>1
    <3>2. CASE oerr' = TRUE /\ mishaps' = mishaps \cup {"call"}
      BY <1>2, <3>2
    <3> QED BY <2>3, <3>1, <3>2
  <2> QED BY <2>2, <2>4 DEF CallsInHand
<1>5. CASE BlockStep
  <2>1. PICK e : Put(e)
    BY <1>5 DEF BlockStep
  <2>2. Emit(<<e>>) /\ phase' = "encode"
    BY <1>5, <2>1 DEF Put, BlockStep
  <2>3. \/ UNCHANGED <<oerr, mishaps>>
        \/ oerr' = TRUE /\ mishaps' = mishaps \cup {"call"}
    BY <1>0, <2>2, Emitted
  <2>4. mishaps' \subseteq {"call"} /\ ("call" \in mishaps' <=> oerr')
    <3>1. CASE oerr' = oerr /\ mishaps' = mishaps
      BY <1>2, <1>7, <3>1
    <3>2. CASE oerr' = TRUE /\ mishaps' = mishaps \cup {"call"}
      BY <1>2, <3>2
    <3> QED BY <2>3, <3>1, <3>2
  <2> QED BY <2>2, <2>4 DEF CallsInHand
<1>6. CASE LastStep
  <2>1. /\ Emit(Marks) /\ phase' \in {"failed", "wire"}
        /\ format \in {"iwa", "comment-43"} /\ oerr' => phase' = "failed"
    BY <1>6 DEF LastStep, Finish, FinishChecked
  <2>2. \/ UNCHANGED <<oerr, mishaps>>
        \/ oerr' = TRUE /\ mishaps' = mishaps \cup {"call"}
    BY <1>0, <2>1, Emitted
  <2> QED BY <1>1, <1>2, <2>1, <2>2 DEF CallsInHand
<1> QED BY <1>3, <1>4, <1>5, <1>6 DEF WritingStep

LEMMA FullBlocks ==
  ASSUME NEW t \in Nat, NEW s \in Nat, t < s, t % 65536 = 0,
         NEW n, n = IF s - t <= 65536 THEN s - t ELSE 65536
  PROVE  /\ (t + n) % 65536 = 0 \/ t + n = s
         /\ n = 1 => s % 65536 = 1
<1>1. CASE s - t <= 65536
  BY <1>1, SMT
<1>2. CASE ~(s - t <= 65536)
  BY <1>2, SMT
<1> QED BY <1>1, <1>2

(* The blocks of iwa are full, so the last one only is short.              *)
LEMMA IwaChunk ==
  ASSUME IInv, WriterSizes, BlockStep, format = "iwa"
  PROVE  /\ (taken + Chunk) % IwaTextMax = 0 \/ taken + Chunk = size
         /\ Chunk = 1 => size % IwaTextMax = 1
<1>1. TextBlock = IwaTextMax
  BY DEF TextBlock
<1>2. taken \in Nat /\ size \in Nat /\ taken < size
  BY TakenIsNat DEF BlockStep, HasInput
<1>3. taken % IwaTextMax = 0
  BY <1>2 DEF WriterSizes, BlockStep
<1>4. Chunk = IF size - taken <= IwaTextMax THEN size - taken ELSE IwaTextMax
  <2>1. TextBlock \in Nat \ {0}
    BY <1>1, SMT DEF IwaTextMax
  <2>2. phase = "encode" /\ HasInput
    BY DEF BlockStep
  <2>3. Chunk = IF size - taken <= TextBlock THEN size - taken ELSE TextBlock
    BY <2>1, <2>2, ChunkOfBlock
  <2> QED BY <1>1, <2>3
<1>5. PICK t \in Nat, s \in Nat : t = taken /\ s = size
  BY <1>2
<1>6. PICK n, b : n = Chunk /\ b = IwaTextMax
  OBVIOUS
<1>7. /\ (t + n) % b = 0 \/ t + n = s
      /\ n = 1 => s % b = 1
  <2>1. t < s /\ t % b = 0 /\ n = IF s - t <= b THEN s - t ELSE b
    BY <1>2, <1>3, <1>4, <1>5, <1>6
  <2>2. b = 65536
    BY <1>6 DEF IwaTextMax
  <2> QED BY <2>1, <2>2, FullBlocks
<1> QED BY <1>5, <1>6, <1>7

LEMMA WritingKeepsSizes ==
  ASSUME IInv, WriterSizes, WritingStep
  PROVE  WriterSizes'
<1>1. CASE phase = "start" /\ Refuse
  BY <1>1 DEF Refuse, WriterSizes
<1>2. CASE FirstStep
  <2>1. PICK header : Begin(header, Fresh(TextBlock))
    BY <1>2 DEF FirstStep
  <2>2. UNCHANGED text /\ taken' = taken /\ wb' = Fresh(TextBlock)
    BY <2>1 DEF Begin
  <2>3. taken = 0
    BY <1>2 DEF FirstStep, IInv, WriterInHand
  <2>4. Fresh(TextBlock)' = Fresh(TextBlock)
    BY <2>2, TextStays DEF Fresh, Buffers, MaxCompressedLength
  <2>5. 0 % IwaTextMax = 0
    BY SMT DEF IwaTextMax
  <2> QED BY <1>2, <2>2, <2>3, <2>4, <2>5, TextStays DEF FirstStep, WriterSizes
<1>3. CASE BlockStep
  <2>1. PICK e : Put(e)
    BY <1>3 DEF BlockStep
  <2>2. UNCHANGED text /\ taken' = taken + Chunk /\ wb' = wb /\ phase = "encode"
    BY <1>3, <2>1 DEF Put, BlockStep
  <2>3. Fresh(TextBlock)' = Fresh(TextBlock)
    BY <2>2, TextStays DEF Fresh, Buffers, MaxCompressedLength
  <2>4. format = "iwa" => taken' % IwaTextMax = 0 \/ taken' = size
    BY <1>3, <2>2, IwaChunk
  <2> QED BY <2>2, <2>3, <2>4, TextStays DEF WriterSizes
<1>4. CASE LastStep
  BY <1>4 DEF LastStep, Finish, FinishChecked, WriterSizes
<1> QED BY <1>1, <1>2, <1>3, <1>4 DEF WritingStep

(* What is written behind the stream: a block, or the mark at the end.     *)
LEMMA WritingKeepsText ==
  ASSUME IInv, CallsInHand, TextInHand, WritingStep
  PROVE  TextInHand'
<1> SUFFICES ASSUME ~oerr', "foreign" \notin mishaps' PROVE TextInHand'
  BY DEF TextInHand
<1>1. stream \in Seq(Items) /\ taken \in Nat /\ size \in Nat
  BY TakenIsNat DEF IInv, TypeOK
<1>2. mishaps \subseteq {"call"}
  BY DEF CallsInHand, WritingStep, FirstStep, BlockStep, LastStep
<1> DEFINE Well(i) == BlockIsNotEmpty(stream[i])' /\ EndsText(i)'
<1>3. CASE phase = "start" /\ Refuse
  <2>1. stream' = <<>> /\ phase' = "refused"
    BY <1>3 DEF Refuse, IInv, WriterInHand
  <2>2. phase' \notin Sent
    BY <2>1 DEF Sent, Phases
  <2>3. \A i \in DOMAIN stream' : FALSE
    BY <2>1
  <2> QED BY <2>2, <2>3 DEF TextInHand
<1>4. CASE FirstStep
  <2>1. PICK header :
          /\ Begin(header, Fresh(TextBlock))
          /\ header = <<>> \/ \E len \in Nat : header = <<Item("header", len, 0)>>
    BY <1>4 DEF FirstStep
  <2>2. Emit(header) /\ phase' \in {"encode", "died"}
    BY <2>1 DEF Begin
  <2>3. stream = <<>>
    BY <1>4 DEF FirstStep, IInv, WriterInHand
  <2>4. stream' = stream \o header
    BY <1>1, <2>2, Emitted
  <2>5. phase' \notin Sent
    BY <2>2 DEF Sent, Phases
  <2>6. \A i \in DOMAIN stream' : stream'[i].kind = "header"
    <3>1. CASE header = <<>>
      <4>1. stream' = <<>>
        BY <2>3, <2>4, <3>1
      <4> QED BY <4>1
    <3>2. CASE \E len \in Nat : header = <<Item("header", len, 0)>>
      <4>1. PICK len \in Nat : header = <<Item("header", len, 0)>>
        BY <3>2
      <4>2. PICK e : e = Item("header", len, 0)
        OBVIOUS
      <4>3. e \in Items /\ e.kind = "header"
        BY <4>2, ItemTypes
      <4>4. stream' = <<>> \o <<e>>
        BY <2>3, <2>4, <4>1, <4>2
      <4>5. Len(stream') = 1 /\ stream'[1] = e /\ DOMAIN stream' = 1 .. 1
        BY <4>3, <4>4
      <4> QED BY <4>3, <4>5
    <3> QED BY <2>1, <3>1, <3>2
  <2>7. \A i \in DOMAIN stream' : Well(i)
    BY <2>6 DEF BlockIsNotEmpty, EndsText
  <2> QED BY <2>5, <2>7 DEF TextInHand
<1>5. CASE BlockStep
  <2>1. PICK e \in Items : /\ Put(e) /\ e.n = Chunk
                           /\ e.kind = "block" /\ e.len > 0
    BY <1>5 DEF BlockStep
  <2>2. Emit(<<e>>) /\ phase' = "encode" /\ phase = "encode" /\ UNCHANGED text
    BY <1>5, <2>1 DEF Put, BlockStep
  <2>3. stream' = stream \o <<e>> /\ UNCHANGED <<oerr, mishaps>>
    BY <1>1, <2>2, Emitted
  <2>4. /\ Len(stream) \in Nat /\ DOMAIN stream = 1 .. Len(stream)
        /\ DOMAIN stream' = 1 .. Len(stream) + 1
        /\ stream'[Len(stream) + 1] = e
        /\ \A i \in 1 .. Len(stream) : stream'[i] = stream[i]
    BY <1>1, <2>1, <2>3, OneMore
  <2>5. e.n > 0
    BY <1>5, <2>1 DEF BlockStep
  <2>6. ASSUME NEW i \in DOMAIN stream' PROVE Well(i)
    <3>1. CASE i \in 1 .. Len(stream)
      <4>1. BlockIsNotEmpty(stream[i]) /\ EndsText(i)
        BY <2>3, <2>4, <3>1 DEF TextInHand
      <4>2. stream[i].kind # "end"
        BY <2>2, <4>1 DEF EndsText
      <4>3. stream'[i] = stream[i] /\ mishaps' = mishaps /\ format' = format
        BY <2>2, <2>3, <2>4, <3>1 DEF text
      <4> QED BY <4>1, <4>2, <4>3 DEF BlockIsNotEmpty, EndsText
    <3>2. CASE i = Len(stream) + 1
      BY <2>1, <2>4, <2>5, <3>2 DEF BlockIsNotEmpty, EndsText
    <3> QED BY <2>4, <3>1, <3>2
  <2>7. phase' \notin Sent
    BY <2>2 DEF Sent
  <2> QED BY <2>6, <2>7 DEF TextInHand
<1>6. CASE LastStep
  <2>1. /\ Emit(Marks) /\ phase' \in {"failed", "wire"} /\ ~HasInput
        /\ phase = "encode" /\ UNCHANGED text
    BY <1>6 DEF LastStep, Finish, FinishChecked
  <2>2. stream' = stream \o Marks /\ UNCHANGED <<oerr, mishaps>>
    BY <1>1, <2>1, Emitted
  <2>3. taken = size
    BY <1>1, <2>1, TakenIsNat DEF HasInput
  <2>4. Position(Len(stream) + 1) = taken
    BY <2>1, <2>2 DEF IInv, WriterInHand
  <2>5. Copies' = 1
    BY <1>2, <2>2 DEF Copies
  <2>6. ASSUME NEW i \in DOMAIN stream
        PROVE  BlockIsNotEmpty(stream[i]) /\ stream[i].kind # "end"
    BY <2>1, <2>2 DEF TextInHand, EndsText
  <2>7. size' = size /\ format' = format /\ mishaps' = mishaps
    BY <2>1, <2>2 DEF text
  <2>8. CASE format \in EndMarked
    <3>1. PICK e : e = Item("end", 0, taken)
      OBVIOUS
    <3>2. /\ e \in Items /\ e.kind = "end" /\ e.first = taken /\ e.n = 0
      <4>1. 0 \in Nat
        OBVIOUS
      <4> QED BY <1>1, <3>1, <4>1, ItemTypes
    <3>3. stream' = stream \o <<e>>
      BY <2>2, <2>8, <3>1 DEF Marks
    <3>4. /\ Len(stream) \in Nat /\ DOMAIN stream = 1 .. Len(stream)
          /\ Len(stream') = Len(stream) + 1
          /\ DOMAIN stream' = 1 .. Len(stream) + 1
          /\ stream'[Len(stream) + 1] = e
          /\ \A i \in 1 .. Len(stream) : stream'[i] = stream[i]
      BY <1>1, <3>2, <3>3, OneMore
    <3>5. ASSUME NEW i \in DOMAIN stream' PROVE Well(i)
      <4>1. CASE i \in 1 .. Len(stream)
        BY <2>6, <2>7, <3>4, <4>1 DEF BlockIsNotEmpty, EndsText
      <4>2. CASE i = Len(stream) + 1
        BY <2>1, <2>3, <2>7, <3>2, <3>4, <4>2 DEF BlockIsNotEmpty, EndsText
      <4> QED BY <3>4, <4>1, <4>2
    <3>6. Position(Len(stream) + 1)' = Copies' * size'
      <4>1. Position(Len(stream) + 1)' = EndOf(e)
        BY <3>4 DEF Position, EndOf
      <4>2. EndOf(e) = size
        BY <1>1, <2>3, <3>2 DEF EndOf
      <4>3. Copies' * size' = size
        BY <1>1, <2>5, <2>7
      <4> QED BY <4>1, <4>2, <4>3
    <3> QED BY <3>5, <3>6 DEF TextInHand
  <2>9. CASE format \notin EndMarked
    <3>1. stream' = stream
      BY <1>1, <2>2, <2>9 DEF Marks
    <3>2. ASSUME NEW i \in DOMAIN stream' PROVE Well(i)
      BY <2>6, <2>7, <3>1, <3>2 DEF BlockIsNotEmpty, EndsText
    <3>3. Position(Len(stream) + 1)' = Copies' * size'
      <4>1. Position(Len(stream) + 1)' = size
        BY <2>3, <2>4, <3>1 DEF Position, EndOf
      <4>2. Copies' * size' = size
        BY <1>1, <2>5, <2>7
      <4> QED BY <4>1, <4>2
    <3> QED BY <3>2, <3>3 DEF TextInHand
  <2> QED BY <2>8, <2>9
<1> QED BY <1>3, <1>4, <1>5, <1>6 DEF WritingStep

(* The header snzip writes can be read.                                    *)
LEMMA ShiftIsOwn ==
  ASSUME format = "snzip", blockSize \in Nat, Readable, TextBlock <= 2^MaxShift
  PROVE  Shift(blockSize) \in 1 .. MaxShift /\ 2^Shift(blockSize) = TextBlock
<1>1. CASE blockSize = 0
  BY <1>1, SMT DEF Shift, TextBlock, DefaultShift, MaxShift
<1>2. CASE blockSize # 0
  <2>1. \E n \in 1 .. MaxShift : 2^n = blockSize
    BY <1>2 DEF Readable, IsPowerOfTwo
  <2>2. Shift(blockSize) = CHOOSE n \in 1 .. MaxShift : 2^n = blockSize
    BY <1>2, <2>1 DEF Shift
  <2>3. Shift(blockSize) \in 1 .. MaxShift /\ 2^Shift(blockSize) = blockSize
    <3> DEFINE P(n) == n \in 1 .. MaxShift /\ 2^n = blockSize
    <3> QED BY <2>1, <2>2
  <2>4. TextBlock = blockSize
    BY <1>2 DEF TextBlock
  <2> QED BY <2>3, <2>4
<1> QED BY <1>1, <1>2

(* There is memory for the buffers of compress.                            *)
LEMMA FreshFits ==
  ASSUME NEW b \in Nat, b <= 134217728 PROVE Fits(Fresh(b))
<1>1. Memory \in Nat /\ Memory > 268435456
  <2>1. 2^27 = 134217728
    BY SMT
  <2> QED BY <2>1, BlockAssumption, SMT
<1>2. Fresh(b).c = 32 + b + b \div 6 /\ Fresh(b).uc = b
  BY SMT DEF Fresh, Buffers, MaxCompressedLength
<1> QED BY <1>1, <1>2, SMT DEF Fits

LEMMA BuffersFitMemory ==
  ASSUME format \in AllFormats, blockSize \in Nat, Readable,
         format = "snzip" => TextBlock <= 2^MaxShift,
         format = "snappy-in-java" => TextBlock <= InJavaMax
  PROVE  Fits(Fresh(TextBlock))
<1>1. TextBlock \in Nat
  BY TextBlockIsSize
<1>2. CASE format = "snappy-java" /\ blockSize # 0
  <2>1. TextBlock = blockSize
    BY <1>2 DEF TextBlock
  <2> QED BY <1>2, <2>1 DEF Readable
<1>3. CASE ~(format = "snappy-java" /\ blockSize # 0)
  <2>1. TextBlock <= 134217728
    <3>1. 2^MaxShift = 134217728 /\ InJavaMax = 65535
      BY SMT DEF MaxShift, InJavaMax
    <3>2. CASE format = "snzip"
      BY <1>1, <3>1, <3>2, SMT
    <3>3. CASE format = "snappy-in-java"
      BY <1>1, <3>1, <3>3, SMT
    <3>4. CASE format \in {"snappy-java", "iwa", "comment-43"}
      BY <1>3, <3>4, SMT DEF TextBlock, JavaBlockSize, IwaTextMax, RawMax
    <3> QED BY <3>2, <3>3, <3>4, SMT DEF AllFormats
  <2> QED BY <1>1, <2>1, FreshFits, SMT
<1> QED BY <1>2, <1>3

(* A file nothing has happened to stays one.                               *)
LEMMA WritingKeepsOwn ==
  ASSUME IInv, CallsInHand, WriterSizes, OwnInHand, WritingStep
  PROVE  OwnInHand'
<1>0. UNCHANGED text /\ phase' \in {"refused", "encode", "died", "wire", "failed"}
  BY DEF WritingStep, Refuse, FirstStep, Begin, BlockStep, Put, LastStep, Finish,
         FinishChecked
<1>1. SUFFICES ASSUME Readable, mishaps' = {}
               PROVE  /\ phase' \notin {"failed", "died"}
                      /\ phase' \notin {"start", "refused"} => OwnFile'
  <2>1. ~Reading'
    BY <1>0 DEF Reading
  <2>2. Readable' = Readable
    BY <1>0, TextStays
  <2> QED BY <1>0, <2>1, <2>2 DEF OwnInHand
<1>2. stream \in Seq(Items) /\ taken \in Nat /\ size \in Nat /\ blockSize \in Nat
      /\ format \in AllFormats
  BY BlockAssumption, TakenIsNat DEF IInv, TypeOK
<1>3. /\ format' = format /\ blockSize' = blockSize /\ TextBlock' = TextBlock
      /\ \A e : OwnBlock(e)' = OwnBlock(e)
      /\ \A e : OwnHeader(e)' = OwnHeader(e)
  BY <1>0, TextStays
<1>4. CASE phase = "start" /\ Refuse
  BY <1>4 DEF Refuse
<1>5. CASE FirstStep
  <2>1. PICK header :
          /\ Begin(header, Fresh(TextBlock))
          /\ \/ format = "iwa" /\ header = <<>>
             \/ \E len \in Nat :
                  /\ format # "iwa" /\ header = <<Item("header", len, 0)>>
                  /\ format = "snzip" => len = Shift(blockSize)
    BY <1>5 DEF FirstStep
  <2>2. Emit(header)
    BY <2>1 DEF Begin
  <2>3. stream = <<>>
    BY <1>5 DEF FirstStep, IInv, WriterInHand
  <2>4. stream' = stream \o header
    BY <1>1, <1>2, <2>2, Emitted
  <2>5. Fits(Fresh(TextBlock))
    BY <1>1, <1>2, <1>5, BuffersFitMemory DEF FirstStep
  <2>6. phase' = "encode"
    BY <2>1, <2>5 DEF Begin
  <2>7. CASE format = "iwa" /\ header = <<>>
    <3>1. stream' = <<>>
      BY <2>3, <2>4, <2>7
    <3> QED BY <1>3, <2>6, <2>7, <3>1 DEF OwnFile
  <2>8. CASE format # "iwa"
    <3>1. PICK len \in Nat : /\ header = <<Item("header", len, 0)>>
                             /\ format = "snzip" => len = Shift(blockSize)
      BY <2>1, <2>8
    <3>2. PICK e : e = Item("header", len, 0)
      OBVIOUS
    <3>3. /\ e \in Items /\ e.kind = "header" /\ e.len = len
          /\ e.data = "good" /\ ~e.cut
      <4>1. e \in Items /\ e.kind = "header" /\ e.len = len
        <5>1. 0 \in Nat
          OBVIOUS
        <5> QED BY <3>2, <5>1, ItemTypes
      <4>2. e.data = "good" /\ ~e.cut
        BY <3>2 DEF Item
      <4> QED BY <4>1, <4>2
    <3>4. OwnHeader(e)
      <4>1. CASE format = "snzip"
        BY <1>1, <1>2, <1>5, <3>1, <3>3, <4>1, ShiftIsOwn DEF FirstStep, OwnHeader
      <4>2. CASE format # "snzip"
        BY <3>3, <4>2 DEF OwnHeader
      <4> QED BY <4>1, <4>2
    <3>5. stream' = <<>> \o <<e>>
      BY <2>3, <2>4, <3>1, <3>2
    <3>6. Len(stream') = 1 /\ stream'[1] = e /\ DOMAIN stream' = 1 .. 1
      BY <3>3, <3>5
    <3>7. \A i \in DOMAIN stream' : OwnItem(i)'
      BY <1>3, <2>8, <3>4, <3>6 DEF OwnItem
    <3>8. stream' # <<>>
      BY <3>6
    <3>9. format = "snappy-in-java" => TextBlock <= InJavaMax
      BY <1>5 DEF FirstStep
    <3> QED BY <1>3, <2>6, <3>7, <3>8, <3>9 DEF OwnFile
  <2> QED BY <2>1, <2>6, <2>7, <2>8
<1>6. CASE BlockStep \/ LastStep
  <2>1. PICK items : Emit(items)
    BY <1>6 DEF BlockStep, Put, LastStep, Finish, FinishChecked
  <2>2. mishaps = {}
    BY <1>1, <1>2, <2>1, Emitted
  <2>3. phase = "encode" /\ ~oerr
    BY <1>6, <2>2 DEF BlockStep, LastStep, CallsInHand
  <2>4. OwnFile
    BY <1>1, <2>2, <2>3 DEF OwnInHand
  <2>5. CASE BlockStep
    <3>1. PICK e \in Items : Put(e) /\ ((format = "iwa" => Chunk # 1) => OwnBlock(e))
      BY <2>5 DEF BlockStep
    <3>2. Emit(<<e>>) /\ phase' = "encode"
      BY <2>3, <3>1 DEF Put
    <3>3. stream' = stream \o <<e>>
      BY <1>1, <1>2, <3>2, Emitted
    <3>4. /\ Len(stream) \in Nat /\ DOMAIN stream = 1 .. Len(stream)
          /\ Len(stream') = Len(stream) + 1
          /\ DOMAIN stream' = 1 .. Len(stream) + 1
          /\ stream'[Len(stream) + 1] = e
          /\ \A i \in 1 .. Len(stream) : stream'[i] = stream[i]
      BY <1>2, <3>1, <3>3, OneMore
    <3>5. OwnBlock(e)
      <4>1. format = "iwa" => Chunk # 1
        BY <1>1, <2>5, IwaChunk DEF Readable
      <4> QED BY <3>1, <4>1
    <3>6. ASSUME NEW i \in DOMAIN stream' PROVE OwnItem(i)'
      <4>1. CASE i \in 1 .. Len(stream)
        <5>1. OwnItem(i)
          BY <2>4, <3>4, <4>1 DEF OwnFile
        <5> QED BY <1>3, <2>3, <3>2, <3>4, <4>1, <5>1 DEF OwnItem
      <4>2. CASE i = Len(stream) + 1
        <5>1. format # "iwa" => i # 1
          BY <2>4, <3>4, <4>2 DEF OwnFile
        <5> QED BY <1>3, <3>2, <3>4, <3>5, <4>2, <5>1 DEF OwnItem
      <4> QED BY <3>4, <4>1, <4>2
    <3>7. stream' # <<>>
      BY <3>4
    <3> QED BY <1>3, <2>4, <3>2, <3>6, <3>7 DEF OwnFile
  <2>6. CASE LastStep
    <3>1. /\ Emit(Marks) /\ phase' \in {"failed", "wire"}
          /\ phase' = "failed" => oerr'
      BY <2>6 DEF LastStep, Finish, FinishChecked
    <3>2. stream' = stream \o Marks /\ oerr' = oerr
      BY <1>1, <1>2, <3>1, Emitted
    <3>3. phase' = "wire"
      BY <2>3, <3>1, <3>2
    <3>4. Len(stream) \in Nat /\ DOMAIN stream = 1 .. Len(stream)
          /\ (format # "iwa" => Len(stream) > 0)
      BY <1>2, <2>4 DEF OwnFile
    <3>5. CASE format \in EndMarked
      <4>1. PICK e : e = Item("end", 0, taken)
        OBVIOUS
      <4>2. e \in Items /\ e.kind = "end" /\ ~e.cut
        <5>1. e \in Items /\ e.kind = "end"
          <6>1. 0 \in Nat
            OBVIOUS
          <6> QED BY <1>2, <4>1, <6>1, ItemTypes
        <5>2. ~e.cut
          BY <4>1 DEF Item
        <5> QED BY <5>1, <5>2
      <4>3. stream' = stream \o <<e>>
        BY <3>2, <3>5, <4>1 DEF Marks
      <4>4. /\ Len(stream') = Len(stream) + 1
            /\ DOMAIN stream' = 1 .. Len(stream) + 1
            /\ stream'[Len(stream) + 1] = e
            /\ \A i \in 1 .. Len(stream) : stream'[i] = stream[i]
        BY <1>2, <4>2, <4>3, OneMore
      <4>5. ASSUME NEW i \in DOMAIN stream' PROVE OwnItem(i)'
        <5>1. CASE i \in 1 .. Len(stream)
          <6>1. OwnItem(i)
            BY <2>4, <3>4, <5>1 DEF OwnFile
          <6>2. i # Len(stream')
            BY <3>4, <4>4, <5>1
          <6> QED BY <1>3, <2>3, <4>4, <5>1, <6>1, <6>2 DEF OwnItem
        <5>2. CASE i = Len(stream) + 1
          <6>1. i # 1 /\ i = Len(stream')
            BY <3>4, <3>5, <4>4, <5>2 DEF EndMarked
          <6> QED BY <1>3, <3>3, <3>5, <4>2, <4>4, <5>2, <6>1 DEF OwnItem
        <5> QED BY <3>4, <4>4, <5>1, <5>2
      <4>6. Len(stream') > 1 /\ stream' # <<>>
        BY <3>4, <3>5, <4>4 DEF EndMarked
      <4> QED BY <1>3, <2>4, <3>3, <4>5, <4>6 DEF OwnFile
    <3>6. CASE format \notin EndMarked
      <4>1. stream' = stream
        BY <1>2, <3>2, <3>6 DEF Marks
      <4>2. ASSUME NEW i \in DOMAIN stream' PROVE OwnItem(i)'
        <5>1. OwnItem(i)
          BY <2>4, <4>1 DEF OwnFile
        <5> QED BY <1>3, <3>6, <4>1, <5>1 DEF OwnItem
      <4> QED BY <1>3, <2>4, <3>3, <3>6, <4>1, <4>2 DEF OwnFile
    <3> QED BY <3>5, <3>6
  <2> QED BY <1>6, <2>5, <2>6
<1> QED BY <1>4, <1>5, <1>6 DEF WritingStep

-----------------------------------------------------------------------------
(* What happens to a stream on its way.                                    *)

(* Part of a stream, with other data or lengths.                           *)
SameText(e, d) ==
  d.kind = e.kind /\ d.first = e.first /\ d.n = e.n
    /\ (d.len = e.len \/ "length" \in mishaps')
PartOf(r) ==
  /\ Len(r) \in 0 .. Len(stream) /\ DOMAIN r = 1 .. Len(r)
  /\ \A k \in 1 .. Len(r) : SameText(stream[k], r[k])
  /\ "cut" \notin mishaps' => Len(r) = Len(stream)

LEMMA PartKeepsText ==
  ASSUME IInv, TextInHand, phase' = "wire", phase = "wire",
         UNCHANGED <<text, writer>>, PartOf(stream'),
         "foreign" \notin mishaps' => "foreign" \notin mishaps,
         "cut" \notin mishaps' => "cut" \notin mishaps,
         "length" \notin mishaps' => "length" \notin mishaps,
         Copies' = Copies
  PROVE  TextInHand'
<1> SUFFICES ASSUME ~oerr', "foreign" \notin mishaps' PROVE TextInHand'
  BY DEF TextInHand
<1>1. ~oerr /\ "foreign" \notin mishaps /\ size' = size /\ format' = format
  BY DEF text, writer
<1>2. /\ Len(stream) \in Nat /\ DOMAIN stream = 1 .. Len(stream)
      /\ Len(stream') \in Nat /\ Len(stream') <= Len(stream)
      /\ DOMAIN stream' = 1 .. Len(stream')
  BY DEF PartOf, IInv, TypeOK
<1>3. ASSUME NEW k \in DOMAIN stream'
      PROVE  BlockIsNotEmpty(stream[k])' /\ EndsText(k)'
  <2>1. k \in DOMAIN stream /\ k \in 1 .. Len(stream') /\ k <= Len(stream')
    BY <1>2
  <2>2. BlockIsNotEmpty(stream[k]) /\ EndsText(k)
    BY <1>1, <2>1 DEF TextInHand
  <2>3. SameText(stream[k], stream'[k])
    BY <2>1 DEF PartOf
  <2>4. BlockIsNotEmpty(stream[k])'
    BY <1>1, <2>2, <2>3 DEF BlockIsNotEmpty, SameText
  <2>5. stream[k].kind = "end" /\ Copies = 1 => k = Len(stream')
    BY <1>2, <2>1, <2>2 DEF EndsText
  <2>6. EndsText(k)'
    BY <1>1, <2>2, <2>3, <2>5 DEF EndsText, SameText
  <2> QED BY <2>4, <2>6
<1>4. ASSUME "cut" \notin mishaps'
      PROVE  Position(Len(stream) + 1)' = Copies' * size'
  <2>1. Position(Len(stream) + 1) = Copies * size
    BY <1>1, <1>4 DEF TextInHand, Sent, Phases
  <2>2. Len(stream') = Len(stream)
    BY <1>4 DEF PartOf
  <2>3. Position(Len(stream) + 1)' = Position(Len(stream) + 1)
    <3>1. CASE Len(stream) = 0
      BY <2>2, <3>1 DEF Position
    <3>2. CASE Len(stream) # 0
      <4>1. Len(stream) \in 1 .. Len(stream')
        BY <1>2, <2>2, <3>2
      <4>2. SameText(stream[Len(stream)], stream'[Len(stream)])
        BY <4>1 DEF PartOf
      <4>3. EndOf(stream[Len(stream)])' = EndOf(stream[Len(stream)])
        BY <2>2, <4>2 DEF EndOf, SameText
      <4> QED BY <1>2, <2>2, <3>2, <4>3 DEF Position
    <3> QED BY <3>1, <3>2
  <2> QED BY <1>1, <2>1, <2>3
<1> QED BY <1>3, <1>4 DEF TextInHand

(* A stream in which an item was replaced by one of the same text.         *)
LEMMA ReplacedIsPart ==
  ASSUME stream \in Seq(Items), NEW k \in 0 .. Len(stream),
         "cut" \notin mishaps' => k = Len(stream),
         NEW s, Len(s) = k, s \in Seq(Items),
         \A j \in 1 .. k : s[j] = stream[j],
         NEW i \in DOMAIN s, NEW e, SameText(s[i], e),
         NEW r, r = [s EXCEPT ![i] = e]
  PROVE  PartOf(r)
<1>1. Len(r) = k /\ DOMAIN r = 1 .. k /\ DOMAIN s = 1 .. k
  OBVIOUS
<1>2. r[i] = e /\ \A j \in 1 .. k : j # i => r[j] = s[j]
  BY <1>1
<1>3. ASSUME NEW j \in 1 .. k PROVE SameText(stream[j], r[j])
  <2>1. CASE j = i
    BY <1>2, <1>3, <2>1
  <2>2. CASE j # i
    BY <1>2, <1>3, <2>2 DEF SameText
  <2> QED BY <2>1, <2>2
<1> QED BY <1>1, <1>3 DEF PartOf

LEMMA MishapsAdd ==
  ASSUME NEW m \in {"cut", "corrupt", "length", "foreign"},
         mishaps' = mishaps \cup {m}
  PROVE  /\ "foreign" \notin mishaps' => "foreign" \notin mishaps
         /\ "cut" \notin mishaps' => "cut" \notin mishaps
         /\ "length" \notin mishaps' => "length" \notin mishaps
         /\ Copies' = Copies
BY DEF Copies

LEMMA ConcatenateKeepsText ==
  ASSUME IInv, TextInHand, phase' = "wire", phase = "wire",
         UNCHANGED <<text, writer>>, Concatenate, mishaps' # mishaps
  PROVE  TextInHand'
<1> SUFFICES ASSUME ~oerr', "foreign" \notin mishaps' PROVE TextInHand'
  BY DEF TextInHand
<1>1. ~oerr /\ size' = size /\ format' = format /\ size \in Nat
  BY TakenIsNat DEF text, writer
<1>2. /\ mishaps' = mishaps \cup {"concatenated"} /\ "concatenated" \notin mishaps
      /\ Copies = 1 /\ Copies' = 2 /\ "foreign" \notin mishaps
      /\ "length" \notin mishaps' <=> "length" \notin mishaps
      /\ "cut" \notin mishaps' <=> "cut" \notin mishaps
  BY DEF Concatenate, Copies
<1>3. TwiceOver(stream, stream', EndOf(stream[Len(stream)])) /\ stream # <<>>
      /\ stream \in Seq(Items)
  BY ConcatenatedItems DEF Concatenate, IInv, TypeOK
<1>4. PICK L, t : L = Len(stream) /\ t = EndOf(stream[L])
  OBVIOUS
<1>5. L \in Nat /\ L >= 1 /\ DOMAIN stream = 1 .. L /\ t \in Nat
  BY <1>3, <1>4, EndIsNat
<1>6. /\ Len(stream') = L + L /\ DOMAIN stream' = 1 .. L + L
      /\ \A k \in 1 .. L : stream'[k] = stream[k]
      /\ \A k \in 1 .. L : Shifted(stream[k], stream'[L + k], t)
  BY <1>3, <1>4 DEF TwiceOver
<1>7. \A k \in 1 .. L : BlockIsNotEmpty(stream[k]) /\ EndsText(k)
  BY <1>1, <1>2, <1>5 DEF TextInHand
<1>8. ASSUME NEW k \in 1 .. L, stream[k].kind = "end"
      PROVE  stream[k].first = size /\ t = size
  <2>1. stream[k].first = size /\ k = L
    BY <1>2, <1>4, <1>7, <1>8 DEF EndsText
  <2>2. stream[k].n = 0
    BY <1>5, <1>8 DEF IInv, ItemsInHand, ItemFine
  <2> QED BY <1>1, <1>4, <2>1, <2>2 DEF EndOf
<1>9. ASSUME NEW k \in 1 .. L
      PROVE  BlockIsNotEmpty(stream[k])' /\ EndsText(k)'
  <2>1. BlockIsNotEmpty(stream[k])'
    BY <1>1, <1>2, <1>6, <1>7 DEF BlockIsNotEmpty
  <2>2. EndsText(k)'
    BY <1>1, <1>2, <1>6, <1>8 DEF EndsText
  <2> QED BY <2>1, <2>2
<1>10. ASSUME NEW k \in 1 .. L
       PROVE  BlockIsNotEmpty(stream[L + k])' /\ EndsText(L + k)'
  <2>1. /\ stream'[L + k].kind = stream[k].kind /\ stream'[L + k].n = stream[k].n
        /\ stream'[L + k].len = stream[k].len
        /\ stream'[L + k].first = stream[k].first + t
    BY <1>6 DEF Shifted
  <2>2. PICK i : i = L + k
    OBVIOUS
  <2>3. BlockIsNotEmpty(stream[i])'
    BY <1>1, <1>2, <1>7, <2>1, <2>2 DEF BlockIsNotEmpty
  <2>4. stream'[i].kind = "end" => stream'[i].first = 2 * size
    <3>1. SUFFICES ASSUME stream'[i].kind = "end" PROVE stream'[i].first = 2 * size
      OBVIOUS
    <3>2. stream[k].first = size /\ t = size
      BY <1>8, <2>1, <2>2, <3>1
    <3> QED BY <1>1, <2>1, <2>2, <3>2
  <2>5. EndsText(i)'
    BY <1>1, <1>2, <2>4 DEF EndsText
  <2> QED BY <2>2, <2>3, <2>5
<1>11. ASSUME NEW i \in DOMAIN stream'
       PROVE  BlockIsNotEmpty(stream[i])' /\ EndsText(i)'
  <2>1. CASE i \in 1 .. L
    BY <1>9, <2>1
  <2>2. CASE i \notin 1 .. L
    <3>1. PICK k \in 1 .. L : i = L + k
      <4>1. i - L \in 1 .. L /\ i = L + (i - L)
        BY <1>5, <1>6, <2>2
      <4> QED BY <4>1
    <3> QED BY <1>10, <3>1
  <2> QED BY <2>1, <2>2
<1>12. ASSUME "cut" \notin mishaps'
       PROVE  Position(Len(stream) + 1)' = Copies' * size'
  <2>1. Position(Len(stream) + 1) = size
    BY <1>1, <1>2, <1>12 DEF TextInHand, Sent, Phases
  <2>2. t = size
    BY <1>4, <1>5, <2>1 DEF Position
  <2>3. EndOf(stream'[L + L]) = t + t
    <3>1. L \in 1 .. L
      BY <1>5
    <3> QED BY <1>4, <1>6, <3>1 DEF Shifted
  <2>4. Position(Len(stream) + 1)' = EndOf(stream'[L + L])
    BY <1>5, <1>6 DEF Position, EndOf
  <2>5. Copies' * size' = size + size
    BY <1>1, <1>2
  <2> QED BY <2>2, <2>3, <2>4, <2>5
<1> QED BY <1>11, <1>12 DEF TextInHand

LEMMA WireKeepsText ==
  ASSUME IInv, TextInHand, Wire
  PROVE  TextInHand'
<1>0. /\ phase = "wire" /\ phase' = "wire" /\ UNCHANGED <<text, writer>>
      /\ mishaps' # mishaps
  BY DEF Wire
<1>a. stream \in Seq(Items) /\ Len(stream) \in Nat /\ DOMAIN stream = 1 .. Len(stream)
  BY DEF IInv, TypeOK
<1>1. CASE CutBeforeItem
  <2>1. PICK i \in DOMAIN stream : stream' = SubSeq(stream, 1, i - 1)
    BY <1>1 DEF CutBeforeItem
  <2>2. mishaps' = mishaps \cup {"cut"}
    BY <1>1 DEF CutBeforeItem
  <2>3. PICK j : j = i - 1
    OBVIOUS
  <2>4. j \in 0 .. Len(stream)
    BY <1>a, <2>3
  <2>5. /\ Len(stream') = j /\ DOMAIN stream' = 1 .. j
        /\ \A k \in 1 .. j : stream'[k] = stream[k]
    BY <1>a, <2>1, <2>3, <2>4
  <2>6. PartOf(stream')
    BY <2>2, <2>4, <2>5 DEF PartOf, SameText
  <2> QED BY <1>0, <2>2, <2>6, MishapsAdd, PartKeepsText
<1>2. CASE CutInItem
  <2>1. PICK i \in DOMAIN stream :
          stream' = [SubSeq(stream, 1, i) EXCEPT ![i].cut = TRUE]
    BY <1>2 DEF CutInItem
  <2>2. mishaps' = mishaps \cup {"cut"}
    BY <1>2 DEF CutInItem
  <2>3. PICK s : s = SubSeq(stream, 1, i)
    OBVIOUS
  <2>4. i \in 0 .. Len(stream) /\ i \in 1 .. i
    BY <1>a
  <2>5. Len(s) = i /\ s \in Seq(Items) /\ \A k \in 1 .. i : s[k] = stream[k]
    BY <1>a, <2>3, <2>4
  <2>6. PICK e : e = [s[i] EXCEPT !.cut = TRUE]
    OBVIOUS
  <2>7. stream' = [s EXCEPT ![i] = e]
    BY <2>1, <2>3, <2>6
  <2>8. i \in DOMAIN s /\ s[i] \in Items
    BY <2>4, <2>5
  <2>9. SameText(s[i], e)
    BY <2>6, <2>8 DEF SameText, Items
  <2>10. PartOf(stream')
    BY <1>a, <2>2, <2>4, <2>5, <2>7, <2>8, <2>9, ReplacedIsPart
  <2> QED BY <1>0, <2>2, <2>10, MishapsAdd, PartKeepsText
<1>3. CASE Corrupt
  <2>1. PICK i \in DOMAIN stream, d \in {"broken", "altered"} :
          stream' = [stream EXCEPT ![i].data = d]
    BY <1>3 DEF Corrupt
  <2>2. mishaps' = mishaps \cup {"corrupt"}
    BY <1>3 DEF Corrupt
  <2>3. PICK e : e = [stream[i] EXCEPT !.data = d]
    OBVIOUS
  <2>4. stream' = [stream EXCEPT ![i] = e]
    BY <2>1, <2>3
  <2>5. stream[i] \in Items
    BY <1>a
  <2>6. SameText(stream[i], e)
    BY <2>3, <2>5 DEF SameText, Items
  <2>7. Len(stream) \in 0 .. Len(stream)
    BY <1>a
  <2>8. PartOf(stream')
    BY <1>a, <2>4, <2>6, <2>7, ReplacedIsPart
  <2> QED BY <1>0, <2>2, <2>8, MishapsAdd, PartKeepsText
<1>4. CASE WrongLength
  <2>1. PICK i \in DOMAIN stream : \E v \in OtherLengths(stream[i]) :
          stream' = [stream EXCEPT ![i].len = v]
    BY <1>4 DEF WrongLength
  <2>a. PICK v : stream' = [stream EXCEPT ![i].len = v]
    BY <2>1
  <2>2. mishaps' = mishaps \cup {"length"}
    BY <1>4 DEF WrongLength
  <2>3. PICK e : e = [stream[i] EXCEPT !.len = v]
    OBVIOUS
  <2>4. stream' = [stream EXCEPT ![i] = e]
    BY <2>a, <2>3
  <2>5. stream[i] \in Items
    BY <1>a
  <2>6. SameText(stream[i], e)
    BY <2>2, <2>3, <2>5 DEF SameText, Items
  <2>7. Len(stream) \in 0 .. Len(stream)
    BY <1>a
  <2>8. PartOf(stream')
    BY <1>a, <2>4, <2>6, <2>7, ReplacedIsPart
  <2> QED BY <1>0, <2>2, <2>8, MishapsAdd, PartKeepsText
<1>5. CASE Concatenate
  BY <1>0, <1>5, ConcatenateKeepsText
<1>6. CASE InsertForeign
  BY <1>6 DEF InsertForeign, TextInHand
<1> QED BY <1>1, <1>2, <1>3, <1>4, <1>5, <1>6 DEF Wire

LEMMA WireKeepsRest ==
  ASSUME IInv, CallsInHand, Wire
  PROVE  CallsInHand' /\ WriterSizes' /\ StoppedAtEnd' /\ OwnInHand'
<1>1. /\ phase = "wire" /\ phase' = "wire" /\ format' = format /\ oerr' = oerr
  BY DEF Wire, text, writer
<1>2. PICK m \in {"cut", "corrupt", "length", "concatenated", "foreign"} :
        mishaps' = mishaps \cup {m}
  BY DEF Wire, CutBeforeItem, CutInItem, Corrupt, WrongLength, Concatenate,
         InsertForeign
<1>3. CallsInHand'
  BY <1>1, <1>2 DEF CallsInHand
<1>4. mishaps' # {}
  BY <1>2
<1> QED BY <1>1, <1>3, <1>4 DEF WriterSizes, StoppedAtEnd, OwnInHand

-----------------------------------------------------------------------------
(* Uncompress reads a file nothing has happened to.                        *)

(* Where uncompress is in such a file.                                     *)
OwnReading ==
  /\ IInv /\ Readable /\ OwnFile /\ phase \notin {"encode", "overread"}
  /\ (Reading => OwnReader)
OwnGoesOn ==
  /\ phase' \notin {"failed", "died", "overread"}
  /\ (Reading' => OwnReader')

LEMMA OwnSizes ==
  ASSUME OwnReading
  PROVE  /\ at \in 1 .. Len(stream) + 1 /\ Len(stream) \in Nat
         /\ DOMAIN stream = 1 .. Len(stream)
         /\ TextBlock \in Nat \ {0} /\ format \in AllFormats /\ blockSize \in Nat
         /\ wb \in [c : Nat, uc : Nat]
<1>1. /\ IInv /\ format \in AllFormats /\ blockSize \in Nat
  BY BlockAssumption DEF OwnReading, IInv, TypeOK
<1>2. TextBlock \in Nat \ {0}
  BY <1>1, TextBlockIsSize
<1>3. at \in 1 .. Len(stream) + 1 /\ wb \in [c : Nat, uc : Nat] /\ stream \in Seq(Items)
  BY <1>1 DEF IInv, TypeOK
<1> QED BY <1>1, <1>2, <1>3

(* The item to be read is a block, or the end mark at the end.             *)
LEMMA OwnThis ==
  ASSUME OwnReading, ~AtEnd, at > 1 \/ format = "iwa"
  PROVE  \/ /\ OwnBlock(This) /\ This.kind = "block" /\ Found("block") /\ This \in Items
            /\ format \in EndMarked => at < Len(stream)
         \/ /\ at = Len(stream) /\ format \in EndMarked
            /\ This.kind = "end" /\ Found("end")
<1>1. at \in DOMAIN stream /\ at <= Len(stream) /\ at \in Nat /\ Len(stream) \in Nat
  BY OwnSizes DEF AtEnd
<1>2. OwnItem(at) /\ phase # "encode"
  BY <1>1 DEF OwnReading, OwnFile
<1>3. ~(at = 1 /\ format # "iwa")
  BY <1>1
<1>4. This \in Items
  BY <1>1 DEF This, OwnReading, IInv, TypeOK
<1>5. CASE at = Len(stream) /\ format \in EndMarked
  BY <1>2, <1>3, <1>5 DEF OwnItem, This, Found
<1>6. CASE ~(at = Len(stream) /\ format \in EndMarked)
  <2>1. OwnBlock(This)
    BY <1>2, <1>3, <1>6 DEF OwnItem, This
  <2>2. format \in EndMarked => at < Len(stream)
    BY <1>1, <1>6
  <2> QED BY <1>4, <2>1, <2>2 DEF OwnBlock, Found
<1> QED BY <1>5, <1>6

LEMMA OwnHeld ==
  ASSUME OwnReading, phase = "held"
  PROVE  /\ OwnBlock(This) /\ This \in Items
         /\ format \in EndMarked => at < Len(stream)
<1>1. Found("block")
  BY DEF OwnReading, IInv, ReaderInHand
<1>2. ~AtEnd /\ This.kind = "block"
  BY <1>1 DEF Found
<1>3. at > 1 \/ format = "iwa"
  BY DEF OwnReading, Reading, OwnReader
<1> QED BY <1>2, <1>3, OwnThis

(* The numbers of such a block.                                            *)
LEMMA OwnBlockSizes ==
  ASSUME OwnReading, NEW e \in Items, OwnBlock(e)
  PROVE  /\ e.n \in Nat /\ e.n >= 1 /\ e.n <= TextBlock
         /\ e.len \in Nat /\ e.len >= LeastLen
         /\ e.len <= MaxCompressedLength(TextBlock)
         /\ MaxCompressedLength(TextBlock) \in Nat
         /\ Acceptable(e) /\ Verified(e) /\ e.kind = "block" /\ ~e.cut
<1>1. TextBlock \in Nat
  BY OwnSizes
<1>2. MaxCompressedLength(TextBlock) \in Nat /\ LeastLen \in Nat
  BY <1>1, MaxCompressedLengthBounds DEF LeastLen
<1>3. e.n \in Nat /\ e.len \in Nat
  BY DEF Items
<1>4. e.n \in 1 .. TextBlock /\ e.len \in LeastLen .. MaxCompressedLength(TextBlock)
  BY DEF OwnBlock
<1>5. e.n >= 1 /\ e.n <= TextBlock
  BY <1>1, <1>3, <1>4
<1>6. e.len >= LeastLen /\ e.len <= MaxCompressedLength(TextBlock)
  BY <1>2, <1>3, <1>4
<1>7. Acceptable(e) /\ Verified(e) /\ e.kind = "block" /\ ~e.cut
  BY DEF OwnBlock, Acceptable, Verified
<1> QED BY <1>2, <1>3, <1>5, <1>6, <1>7

(* The header of such a file.                                              *)
LEMMA OwnOpening ==
  ASSUME OwnReading, phase \in {"header", "detected"}, format # "iwa"
  PROVE  /\ at = 1 /\ HeaderFine /\ OwnHeader(This)
         /\ format \in EndMarked => Len(stream) > 1
<1>1. at = 1
  BY DEF OwnReading, IInv, ReaderInHand
<1>2. Len(stream) >= 1 /\ (format \in EndMarked => Len(stream) > 1)
  BY OwnSizes DEF OwnReading, OwnFile, IInv, TypeOK
<1>3. OwnHeader(This)
  <2>1. 1 \in DOMAIN stream
    BY <1>2, OwnSizes
  <2>2. OwnItem(1)
    BY <2>1 DEF OwnReading, OwnFile
  <2> QED BY <1>1, <2>2 DEF OwnItem, This
<1>4. HeaderFine
  BY <1>1, <1>2, <1>3, OwnSizes DEF HeaderFine, Found, AtEnd, OwnHeader
<1> QED BY <1>1, <1>2, <1>3, <1>4

LEMMA PowersBounded == ASSUME NEW n \in 0 .. 27 PROVE 2^n \in 0 .. 2^27
<1> DEFINE Top == 0 .. 2^27
<1>1. /\ 2^0 \in Top /\ 2^1 \in Top /\ 2^2 \in Top
      /\ 2^3 \in Top /\ 2^4 \in Top /\ 2^5 \in Top
      /\ 2^6 \in Top /\ 2^7 \in Top /\ 2^8 \in Top
      /\ 2^9 \in Top
  BY SMT
<1>2. /\ 2^10 \in Top /\ 2^11 \in Top /\ 2^12 \in Top
      /\ 2^13 \in Top /\ 2^14 \in Top /\ 2^15 \in Top
      /\ 2^16 \in Top /\ 2^17 \in Top /\ 2^18 \in Top
      /\ 2^19 \in Top
  BY SMT
<1>3. /\ 2^20 \in Top /\ 2^21 \in Top /\ 2^22 \in Top
      /\ 2^23 \in Top /\ 2^24 \in Top /\ 2^25 \in Top
      /\ 2^26 \in Top /\ 2^27 \in Top
  BY SMT
<1>4. \/ n \in {0, 1, 2, 3, 4, 5, 6, 7, 8, 9}
      \/ n \in {10, 11, 12, 13, 14, 15, 16, 17, 18, 19}
      \/ n \in {20, 21, 22, 23, 24, 25, 26, 27}
  BY SMT
<1> HIDE DEF Top
<1>5. 2^n \in Top
  BY <1>1, <1>2, <1>3, <1>4, Zenon
<1> QED BY <1>5 DEF Top

LEMMA OwnBuffersFit == OwnReading => Fits(Fresh(TextBlock))
<1> SUFFICES ASSUME OwnReading PROVE Fits(Fresh(TextBlock))
  OBVIOUS
<1>1. format \in AllFormats /\ blockSize \in Nat /\ Readable
  BY OwnSizes DEF OwnReading
<1>2. format = "snappy-in-java" => TextBlock <= InJavaMax
  BY DEF OwnReading, OwnFile
<1>3. format = "snzip" => TextBlock <= 2^MaxShift
  <2> SUFFICES ASSUME format = "snzip" PROVE TextBlock <= 2^MaxShift
    OBVIOUS
  <2>1. \E n \in 0 .. 27 : TextBlock = 2^n
    <3>1. CASE blockSize = 0
      <4>1. TextBlock = 2^16 /\ 16 \in 0 .. 27
        BY <3>1 DEF TextBlock, DefaultShift
      <4> QED BY <4>1
    <3>2. CASE blockSize # 0
      <4>1. PICK n \in 1 .. MaxShift : 2^n = blockSize
        BY <1>1, <3>2 DEF Readable, IsPowerOfTwo
      <4>2. n \in 0 .. 27
        BY <4>1 DEF MaxShift
      <4> QED BY <3>2, <4>1, <4>2 DEF TextBlock
    <3> QED BY <3>1, <3>2
  <2> QED
    <3>1. PICK n \in 0 .. 27 : TextBlock = 2^n
      BY <2>1
    <3>2. TextBlock \in 0 .. 2^27
      BY <3>1, PowersBounded
    <3> QED BY <3>2, SMT DEF MaxShift
<1> QED BY <1>1, <1>2, <1>3, BuffersFitMemory

(* The next item, where there is one, and what keeps the reader going.     *)
LEMMA OwnNext ==
  ASSUME OwnReading, phase \in {"blocks", "held"}
  PROVE  /\ OwnReader /\ (at > 1 \/ format = "iwa")
         /\ format \in EndMarked => ~AtEnd
         /\ BuffersInHand
<1>1. OwnReader /\ IInv
  BY DEF OwnReading, Reading
<1>2. format \in EndMarked => at <= Len(stream)
  BY <1>1 DEF OwnReader
<1>3. format \in EndMarked => ~AtEnd
  BY <1>2, OwnSizes DEF AtEnd
<1>4. (at > 1 \/ format = "iwa") /\ BuffersInHand
  BY <1>1 DEF OwnReader, IInv
<1> QED BY <1>1, <1>3, <1>4

LEMMA OwnStays ==
  ASSUME OwnReading, phase \in {"blocks", "held"}, phase' \in {"blocks", "held"},
         UNCHANGED <<text, stream, wb>>,
         \/ at' = at
         \/ /\ at' = at + 1
            /\ format \in EndMarked => at < Len(stream)
  PROVE  OwnGoesOn
<1>1. OwnReader
  BY OwnNext
<1>2. at \in Nat /\ Len(stream) \in Nat
  BY OwnSizes
<1>3. format' = format /\ TextBlock' = TextBlock /\ wb' = wb /\ stream' = stream
  BY TextStays
<1>4. format # "iwa" => at' > 1
  BY <1>1, <1>2 DEF OwnReader
<1>5. format \in EndMarked => at' <= Len(stream)
  BY <1>1, <1>2 DEF OwnReader
<1>6. Fits(wb) => Fits(wb)'
  BY <1>3 DEF Fits
<1>7. Fresh(TextBlock)' = Fresh(TextBlock)
  BY <1>3 DEF Fresh, Buffers, MaxCompressedLength
<1>8. OwnReader'
  BY <1>1, <1>3, <1>4, <1>5, <1>6, <1>7 DEF OwnReader, EndMarked
<1> QED BY <1>8 DEF OwnGoesOn

LEMMA SnzipReadsOwn ==
  ASSUME OwnReading, SnzipUncompress
  PROVE  OwnGoesOn
<1>1. format = "snzip" /\ format \in EndMarked
  BY DEF SnzipUncompress, SnzipOpen, SnzipDone, SnzipRead, SnzipWrite,
         Opening, Decoding, EndMarked
<1>2. CASE SnzipOpen
  <2>1. phase \in {"header", "detected"}
    BY <1>2 DEF SnzipOpen, Opening
  <2>2. at = 1 /\ HeaderFine /\ OwnHeader(This) /\ Len(stream) > 1
    BY <1>1, <2>1, OwnOpening
  <2>3. This.len \in 1 .. MaxShift /\ 2^This.len = TextBlock
    BY <1>1, <2>2 DEF OwnHeader
  <2>4. This.len <= MaxShift /\ This.len > 0
    BY <2>3 DEF MaxShift
  <2>5. Opened(Fresh(TextBlock))
    BY <1>2, <2>2, <2>3, <2>4 DEF SnzipOpen
  <2>6. Fits(Fresh(TextBlock))
    BY OwnBuffersFit
  <2>7. phase' = "blocks" /\ at' = 2 /\ wb' = Fresh(TextBlock)
        /\ format' = format /\ TextBlock' = TextBlock /\ stream' = stream
    BY <2>2, <2>5, <2>6, TextStays DEF Opened, text
  <2>8. Fresh(TextBlock)' = Fresh(TextBlock)
    BY <2>7 DEF Fresh, Buffers, MaxCompressedLength
  <2>9. 2 <= Len(stream)
    BY <2>2, OwnSizes
  <2>10. OwnReader'
    BY <1>1, <2>7, <2>8, <2>9 DEF OwnReader
  <2> QED BY <2>7, <2>10 DEF OwnGoesOn
<1>3. CASE SnzipDone
  BY <1>3 DEF SnzipDone, Turn, OwnGoesOn, Reading
<1>4. CASE SnzipRead
  <2>1. phase = "blocks" /\ ~AtEndMark
    BY <1>4 DEF SnzipRead, Decoding
  <2>2. OwnReader /\ (at > 1 \/ format = "iwa") /\ ~AtEnd
    BY <1>1, <2>1, OwnNext
  <2>3. OwnBlock(This) /\ Found("block") /\ This \in Items
    BY <2>1, <2>2, OwnThis DEF AtEndMark, EndMark
  <2>4. This.len <= MaxCompressedLength(TextBlock)
    BY <2>3, OwnBlockSizes
  <2>5. wb.c = MaxCompressedLength(TextBlock)
    BY <1>1, <2>2 DEF OwnReader, Fresh, Buffers
  <2>6. Hold(wb)
    BY <1>4, <2>3, <2>4, <2>5 DEF SnzipRead
  <2>7. phase' = "held" /\ at' = at /\ UNCHANGED <<text, stream, wb>>
    BY <2>6 DEF Hold, reader
  <2> QED BY <2>1, <2>7, OwnStays
<1>5. CASE SnzipWrite
  <2>1. phase = "held"
    BY <1>5 DEF SnzipWrite, Decoding
  <2>2. OwnBlock(This) /\ This \in Items /\ at < Len(stream)
    BY <1>1, <2>1, OwnHeld
  <2>3. Acceptable(This) /\ This.n <= TextBlock
    BY <2>2, OwnBlockSizes
  <2>4. wb.uc = TextBlock
    BY <1>1, <2>1, OwnNext DEF OwnReader, Fresh, Buffers
  <2>5. Written(wb)
    BY <1>5, <2>3, <2>4 DEF SnzipWrite
  <2>6. phase' = "blocks" /\ at' = at + 1 /\ UNCHANGED <<text, stream, wb>>
    BY <2>5 DEF Written
  <2> QED BY <2>1, <2>2, <2>6, OwnStays
<1> QED BY <1>2, <1>3, <1>4, <1>5 DEF SnzipUncompress

LEMMA SnappyJavaReadsOwn ==
  ASSUME OwnReading, SnappyJavaUncompress
  PROVE  OwnGoesOn
<1>1. format = "snappy-java" /\ format \notin EndMarked
  BY DEF SnappyJavaUncompress, SnappyJavaOpen, SnappyJavaDone, SnappyJavaRead,
         SnappyJavaWrite, Opening, Decoding, EndMarked
<1>2. /\ TextBlock \in Nat /\ MaxCompressedLength(TextBlock) \in Nat
      /\ TextBlock <= Memory /\ MaxCompressedLength(TextBlock) <= Memory
      /\ Memory \in Nat
  <2>1. Fits(Fresh(TextBlock)) /\ TextBlock \in Nat
    BY OwnBuffersFit, OwnSizes
  <2> QED BY <2>1, BlockAssumption, MaxCompressedLengthBounds
          DEF Fits, Fresh, Buffers
<1>3. wb.c \in Nat /\ wb.uc \in Nat /\ at \in Nat
  BY OwnSizes
<1>4. ASSUME phase \in {"blocks", "held"}, NEW b, Fits(b), wb' = b,
             UNCHANGED <<text, stream>>, at' \in {at, at + 1},
             phase' \in {"blocks", "held"}
      PROVE  OwnGoesOn
  <2>1. at > 1
    BY <1>1, <1>4, OwnNext
  <2>2. at' > 1 /\ format' = "snappy-java" /\ Fits(wb)'
    BY <1>1, <1>3, <1>4, <2>1 DEF text, Fits
  <2>3. OwnReader'
    BY <1>4, <2>2 DEF OwnReader, EndMarked
  <2> QED BY <1>4, <2>3 DEF OwnGoesOn
<1>5. CASE SnappyJavaOpen
  <2>1. phase \in {"header", "detected"}
    BY <1>5 DEF SnappyJavaOpen, Opening
  <2>2. at = 1 /\ HeaderFine
    BY <1>1, <2>1, OwnOpening
  <2>3. Fits(Fresh(JavaBlockSize))
    BY BlockAssumption, SMT DEF Fits, Fresh, Buffers, MaxCompressedLength, JavaBlockSize
  <2>4. Opened(Fresh(JavaBlockSize))
    BY <1>5, <2>2 DEF SnappyJavaOpen
  <2>5. /\ phase' = "blocks" /\ at' = 2 /\ wb' = Fresh(JavaBlockSize)
        /\ format' = "snappy-java"
    BY <1>1, <2>2, <2>3, <2>4 DEF Opened, text
  <2>6. Fits(wb)'
    BY <2>3, <2>5 DEF Fits
  <2>7. OwnReader'
    BY <2>5, <2>6 DEF OwnReader, EndMarked
  <2> QED BY <2>5, <2>7 DEF OwnGoesOn
<1>6. CASE SnappyJavaDone
  BY <1>6 DEF SnappyJavaDone, OwnGoesOn, Reading
<1>7. CASE SnappyJavaRead
  <2>1. phase = "blocks" /\ ~AtEnd
    BY <1>7 DEF SnappyJavaRead, Decoding
  <2>2. OwnBlock(This) /\ Found("block") /\ This \in Items /\ This.kind = "block"
    BY <1>1, <2>1, OwnNext, OwnThis
  <2>3. This.len \in Nat /\ This.len <= MaxCompressedLength(TextBlock) /\ This.len > 0
    <3>1. /\ This.len \in Nat /\ This.len >= LeastLen
          /\ This.len <= MaxCompressedLength(TextBlock)
      BY <2>2, OwnBlockSizes
    <3> QED BY <1>1, <3>1 DEF LeastLen
  <2>4. Fits(wb)
    BY <1>1, <2>1, OwnNext DEF OwnReader
  <2>5. PICK b : b = Grown(This.len, 0)
    OBVIOUS
  <2>6. Fits(b)
    BY <1>2, <1>3, <2>3, <2>4, <2>5 DEF Fits, Grown, Buffers
  <2>7. Hold(b)
    BY <1>7, <2>2, <2>3, <2>5, <2>6 DEF SnappyJavaRead
  <2>8. phase' = "held" /\ at' = at /\ wb' = b /\ UNCHANGED <<text, stream>>
    BY <2>7 DEF Hold, reader
  <2> QED BY <1>4, <2>1, <2>6, <2>8
<1>8. CASE SnappyJavaWrite
  <2>1. phase = "held"
    BY <1>8 DEF SnappyJavaWrite, Decoding
  <2>2. OwnBlock(This) /\ This \in Items
    BY <2>1, OwnHeld
  <2>3. Acceptable(This) /\ This.n <= TextBlock /\ This.n \in Nat
    BY <2>2, OwnBlockSizes
  <2>4. Fits(wb)
    BY <1>1, <2>1, OwnNext DEF OwnReader
  <2>5. PICK b : b = Grown(0, This.n)
    OBVIOUS
  <2>6. Fits(b)
    BY <1>2, <1>3, <2>3, <2>4, <2>5 DEF Fits, Grown, Buffers
  <2>7. Written(b)
    BY <1>8, <2>3, <2>5, <2>6 DEF SnappyJavaWrite
  <2>8. phase' = "blocks" /\ at' = at + 1 /\ wb' = b /\ UNCHANGED <<text, stream>>
    BY <2>7 DEF Written
  <2> QED BY <1>4, <2>1, <2>6, <2>8
<1> QED BY <1>5, <1>6, <1>7, <1>8 DEF SnappyJavaUncompress

LEMMA InJavaReadsOwn ==
  ASSUME OwnReading, InJavaUncompress
  PROVE  OwnGoesOn
<1>1. format = "snappy-in-java" /\ format \notin EndMarked
  BY DEF InJavaUncompress, InJavaOpen, InJavaDone, InJavaRead, InJavaWrite,
         Opening, Decoding, EndMarked
<1>2. CASE InJavaOpen
  <2>1. phase \in {"header", "detected"}
    BY <1>2 DEF InJavaOpen, Opening
  <2>2. at = 1 /\ HeaderFine
    BY <1>1, <2>1, OwnOpening
  <2>3. Fits(Fresh(InJavaMax))
    BY BlockAssumption, SMT DEF Fits, Fresh, Buffers, MaxCompressedLength, InJavaMax
  <2>4. Opened(Fresh(InJavaMax))
    BY <1>2, <2>2 DEF InJavaOpen
  <2>5. phase' = "blocks" /\ at' = 2 /\ format' = "snappy-in-java"
    BY <1>1, <2>2, <2>3, <2>4 DEF Opened, text
  <2>6. OwnReader'
    BY <2>5 DEF OwnReader, EndMarked
  <2> QED BY <2>5, <2>6 DEF OwnGoesOn
<1>3. CASE InJavaDone
  BY <1>3 DEF InJavaDone, OwnGoesOn, Reading
<1>4. CASE InJavaRead
  <2>1. phase = "blocks" /\ ~AtEnd
    BY <1>4 DEF InJavaRead, Decoding
  <2>2. OwnBlock(This) /\ Found("block") /\ This \in Items
    BY <1>1, <2>1, OwnNext, OwnThis
  <2>3. This.len > 0
    <3>1. This.len \in Nat /\ This.len >= LeastLen
      BY <2>2, OwnBlockSizes
    <3> QED BY <1>1, <3>1 DEF LeastLen
  <2>4. Hold(wb)
    BY <1>4, <2>2, <2>3 DEF InJavaRead
  <2>5. phase' = "held" /\ at' = at /\ UNCHANGED <<text, stream, wb>>
    BY <2>4 DEF Hold, reader
  <2> QED BY <2>1, <2>5, OwnStays
<1>5. CASE InJavaWrite
  <2>1. phase = "held"
    BY <1>5 DEF InJavaWrite, Decoding
  <2>2. OwnBlock(This) /\ This \in Items
    BY <2>1, OwnHeld
  <2>3. Verified(This) /\ This.n <= TextBlock /\ This.n \in Nat
    BY <2>2, OwnBlockSizes
  <2>4. TextBlock <= InJavaMax
    BY <1>1 DEF OwnReading, OwnFile
  <2>5. wb = Fresh(InJavaMax)
    BY <1>1, <2>1, OwnNext DEF BuffersInHand, Reading
  <2>6. wb.uc = InJavaMax
    BY <2>5 DEF Fresh, Buffers
  <2>7. This.n <= wb.uc
    <3>1. TextBlock \in Nat /\ InJavaMax \in Nat
      BY OwnSizes DEF InJavaMax
    <3> QED BY <2>3, <2>4, <2>6, <3>1
  <2>8. Written(wb)
    BY <1>5, <2>3, <2>7 DEF InJavaWrite
  <2>9. phase' = "blocks" /\ at' = at + 1 /\ UNCHANGED <<text, stream, wb>>
    BY <2>8 DEF Written
  <2> QED BY <1>1, <2>1, <2>9, OwnStays
<1> QED BY <1>2, <1>3, <1>4, <1>5 DEF InJavaUncompress

LEMMA IwaReadsOwn ==
  ASSUME OwnReading, IwaUncompress, mishaps' = {}
  PROVE  OwnGoesOn
<1>1. format = "iwa" /\ format \notin EndMarked
  BY DEF IwaUncompress, IwaOpen, IwaDone, IwaRead, IwaWrite, IwaOverread,
         IwaOverreads, Opening, Decoding, EndMarked
<1>2. CASE IwaOpen
  <2>1. phase' = "blocks" /\ format' = "iwa"
    BY <1>1, <1>2 DEF IwaOpen, text
  <2>2. OwnReader'
    BY <2>1 DEF OwnReader, EndMarked
  <2> QED BY <2>1, <2>2 DEF OwnGoesOn
<1>3. CASE IwaDone
  BY <1>3 DEF IwaDone, Turn, OwnGoesOn, Reading
<1>4. CASE IwaRead
  <2>1. phase = "blocks" /\ ~AtEnd
    BY <1>4 DEF IwaRead, Decoding
  <2>2. OwnBlock(This) /\ Found("block") /\ This \in Items
    BY <1>1, <2>1, OwnThis
  <2>3. This.len >= 4
    BY <1>1, <2>2, OwnBlockSizes DEF LeastLen
  <2>4. Hold(wb)
    BY <1>4, <2>2, <2>3 DEF IwaRead
  <2>5. phase' = "held" /\ at' = at /\ UNCHANGED <<text, stream, wb>>
    BY <2>4 DEF Hold, reader
  <2> QED BY <2>1, <2>5, OwnStays
<1>5. CASE IwaWrite
  <2>1. phase = "held"
    BY <1>5 DEF IwaWrite, Decoding
  <2>2. OwnBlock(This) /\ This \in Items
    BY <2>1, OwnHeld
  <2>3. Acceptable(This) /\ This.n <= TextBlock /\ This.n \in Nat /\ This.n >= 1
    BY <2>2, OwnBlockSizes
  <2>4. TextBlock = IwaTextMax
    BY <1>1 DEF TextBlock
  <2>5. wb = Buffers(IwaDataMax, IwaTextMax)
    BY <1>1, <2>1, OwnNext DEF BuffersInHand, Reading
  <2>6. wb.uc = TextBlock
    BY <2>4, <2>5 DEF Buffers
  <2>7. ~(This.n > wb.uc) /\ This.n # 0
    BY <2>3, <2>6, OwnSizes
  <2>8. Written(wb)
    BY <1>5, <2>3, <2>7 DEF IwaWrite
  <2>9. phase' = "blocks" /\ at' = at + 1 /\ UNCHANGED <<text, stream, wb>>
    BY <2>8 DEF Written
  <2> QED BY <1>1, <2>1, <2>9, OwnStays
<1>6. CASE IwaOverread
  <2>1. ~AtEnd /\ This.cut
    BY <1>6 DEF IwaOverread
  <2>2. OwnBlock(This)
    BY <1>1, <2>1, OwnThis
  <2> QED BY <2>1, <2>2 DEF OwnBlock
<1>7. CASE IwaOverreads
  BY <1>7 DEF IwaOverreads, Decoding, OwnReading
<1> QED BY <1>2, <1>3, <1>4, <1>5, <1>6, <1>7 DEF IwaUncompress

LEMMA CommentReadsOwn ==
  ASSUME OwnReading, CommentUncompress
  PROVE  OwnGoesOn
<1>1. format = "comment-43" /\ format \in EndMarked
  BY DEF CommentUncompress, CommentOpen, CommentDone, CommentNextStream,
         CommentRead, CommentSkip, CommentEndOfStream, CommentReject,
         CommentWrite, Opening, Decoding, EndMarked
<1>2. ASSUME phase = "blocks"
      PROVE  \/ /\ OwnBlock(This) /\ Found("block") /\ This \in Items
                /\ This.kind = "block"
             \/ at = Len(stream) /\ This.kind = "end" /\ Found("end")
  BY <1>1, <1>2, OwnNext, OwnThis
<1>3. CASE CommentOpen
  <2>1. phase \in {"header", "detected"}
    BY <1>3 DEF CommentOpen, Opening
  <2>2. at = 1 /\ HeaderFine /\ Len(stream) > 1
    BY <1>1, <2>1, OwnOpening
  <2>3. PICK b : b = Buffers(BlockDataMax, MaxCompressedLength(BlockDataMax))
    OBVIOUS
  <2>4. Fits(b) /\ b.uc >= RawMax
    BY <2>3, BlockAssumption, SMT
       DEF Fits, Buffers, MaxCompressedLength, BlockDataMax, RawMax
  <2>5. Opened(b)
    BY <1>3, <2>2, <2>3 DEF CommentOpen
  <2>6. /\ phase' = "blocks" /\ at' = 2 /\ wb' = b /\ format' = "comment-43"
        /\ stream' = stream
    BY <1>1, <2>2, <2>4, <2>5 DEF Opened, text
  <2>7. 2 <= Len(stream)
    BY <2>2, OwnSizes
  <2>8. OwnReader'
    BY <2>4, <2>6, <2>7 DEF OwnReader
  <2> QED BY <2>6, <2>8 DEF OwnGoesOn
<1>4. CASE CommentDone
  BY <1>4 DEF CommentDone, OwnGoesOn, Reading
<1>5. CASE CommentNextStream
  <2>1. phase = "between" /\ ~AtEnd
    BY <1>5 DEF CommentNextStream, Decoding
  <2>2. AtEnd
    BY <2>1 DEF OwnReading, Reading, OwnReader
  <2> QED BY <2>1, <2>2
<1>6. CASE CommentRead
  <2>1. phase = "blocks"
    BY <1>6 DEF CommentRead, Decoding
  <2>2. phase' = "held" /\ at' = at /\ UNCHANGED <<text, stream, wb>>
    BY <1>6 DEF CommentRead, Hold, reader
  <2> QED BY <2>1, <2>2, OwnStays
<1>7. CASE CommentSkip
  <2>1. phase = "blocks" /\ This.kind = "skippable"
    BY <1>7 DEF CommentSkip, Decoding, Found
  <2> QED BY <1>2, <2>1
<1>8. CASE CommentEndOfStream
  <2>1. phase = "blocks" /\ This.kind = "end"
    BY <1>8 DEF CommentEndOfStream, Decoding, Found
  <2>2. at = Len(stream)
    BY <1>2, <2>1
  <2>3. phase' = "between" /\ at' = at + 1 /\ UNCHANGED <<text, stream, wb>>
    BY <1>8 DEF CommentEndOfStream, Pass
  <2>4. at \in Nat /\ OwnReader
    BY <2>1, OwnNext, OwnSizes
  <2>5. at' > 1 /\ AtEnd' /\ wb'.uc >= RawMax /\ format' = "comment-43"
    BY <1>1, <2>2, <2>3, <2>4 DEF AtEnd, OwnReader, text
  <2>6. OwnReader'
    BY <2>3, <2>5 DEF OwnReader
  <2> QED BY <2>3, <2>6 DEF OwnGoesOn
<1>9. CASE CommentReject
  <2>1. phase = "blocks" /\ ~Found("end") /\ (Found("block") => This.len <= 4)
    BY <1>9 DEF CommentReject, Decoding
  <2>2. OwnBlock(This) /\ This \in Items /\ This.len <= 4
    BY <1>2, <2>1
  <2>3. This.len \in Nat /\ This.len >= 5
    BY <1>1, <2>2, OwnBlockSizes DEF LeastLen
  <2> QED BY <2>2, <2>3
<1>10. CASE CommentWrite
  <2>1. phase = "held"
    BY <1>10 DEF CommentWrite, Decoding
  <2>2. OwnBlock(This) /\ This \in Items /\ at < Len(stream)
    BY <1>1, <2>1, OwnHeld
  <2>3. Verified(This) /\ This.n <= TextBlock /\ This.n \in Nat /\ This.n >= 1
    BY <2>2, OwnBlockSizes
  <2>4. TextBlock = RawMax /\ wb.uc >= RawMax
    BY <1>1, <2>1, OwnNext DEF TextBlock, OwnReader
  <2>5. wb.uc \in Nat /\ RawMax \in Nat
    BY OwnSizes DEF RawMax
  <2>6. This.n <= wb.uc /\ This.n > 0
    BY <2>3, <2>4, <2>5
  <2>7. Written(wb)
    BY <1>10, <2>3, <2>6 DEF CommentWrite
  <2>8. phase' = "blocks" /\ at' = at + 1 /\ UNCHANGED <<text, stream, wb>>
    BY <2>7 DEF Written
  <2> QED BY <1>1, <2>1, <2>2, <2>8, OwnStays
<1> QED BY <1>3, <1>4, <1>5, <1>6, <1>7, <1>8, <1>9, <1>10 DEF CommentUncompress

LEMMA DecodeReadsOwn ==
  ASSUME OwnReading, Decode, mishaps' = {} PROVE OwnGoesOn
<1>1. CASE StartDecode
  BY <1>1 DEF StartDecode, OwnGoesOn, Reading
<1> QED BY <1>1, SnzipReadsOwn, SnappyJavaReadsOwn, InJavaReadsOwn, IwaReadsOwn,
           CommentReadsOwn DEF Decode

LEMMA ReadingKeepsOwn ==
  ASSUME IInv, OwnInHand, Decode, ReadingStep
  PROVE  OwnInHand'
<1>1. /\ UNCHANGED text /\ stream' = stream /\ format' = format
      /\ Readable' = Readable /\ TextBlock' = TextBlock
      /\ \A e : OwnBlock(e)' = OwnBlock(e)
      /\ \A e : OwnHeader(e)' = OwnHeader(e)
  BY TextStays DEF ReadingStep
<1>2. /\ phase \notin {"start", "refused", "encode"} /\ phase' # "encode"
      /\ mishaps' = {} => mishaps = {}
  BY DEF ReadingStep, Sent, Phases
<1>3. SUFFICES ASSUME Readable, mishaps = {}, mishaps' = {}
               PROVE  OwnFile' /\ OwnGoesOn
  BY <1>1, <1>2 DEF OwnInHand, OwnGoesOn
<1>4. OwnFile /\ (Reading => OwnReader)
  BY <1>2, <1>3 DEF OwnInHand
<1>5. OwnReading
  BY <1>2, <1>3, <1>4 DEF OwnReading, OwnInHand
<1>6. OwnGoesOn
  BY <1>3, <1>5, DecodeReadsOwn
<1>7. ASSUME NEW i \in DOMAIN stream' PROVE OwnItem(i)'
  <2>1. OwnItem(i)
    BY <1>1, <1>4, <1>7 DEF OwnFile
  <2> QED BY <1>1, <1>2, <2>1 DEF OwnItem
<1>8. OwnFile'
  BY <1>1, <1>2, <1>4, <1>7 DEF OwnFile
<1> QED BY <1>6, <1>8

-----------------------------------------------------------------------------
(* The invariant.                                                          *)

LEMMA CallFailsKeepsRest ==
  ASSUME CallsInHand, TextInHand, CallFails
  PROVE  CallsInHand' /\ WriterSizes' /\ TextInHand' /\ StoppedAtEnd' /\ OwnInHand'
<1>1. /\ UNCHANGED <<text, writer, stream>> /\ phase' = "failed"
      /\ mishaps' = mishaps \cup {"call"}
  BY DEF CallFails, EncodeFails, DecodeFails
<1>2. oerr' = oerr /\ format' = format
  BY <1>1 DEF text, writer
<1>3. CallsInHand'
  BY <1>1, <1>2 DEF CallsInHand
<1>4. TextInHand'
  BY <1>1, ReadingKeepsText DEF Sent, Phases
<1>5. WriterSizes' /\ StoppedAtEnd' /\ OwnInHand'
  BY <1>1 DEF WriterSizes, StoppedAtEnd, OwnInHand
<1> QED BY <1>3, <1>4, <1>5

LEMMA IdleKeepsRest ==
  ASSUME FInv, UNCHANGED vars
  PROVE  CallsInHand' /\ WriterSizes' /\ TextInHand' /\ StoppedAtEnd' /\ OwnInHand'
<1>1. /\ format' = format /\ blockSize' = blockSize /\ size' = size
      /\ taken' = taken /\ oerr' = oerr /\ wb' = wb /\ stream' = stream
      /\ mishaps' = mishaps /\ phase' = phase /\ at' = at /\ got' = got
  BY DEF vars, text, writer, reader
<1>2. TextBlock' = TextBlock /\ Readable' = Readable
      /\ (\A e : OwnBlock(e)' = OwnBlock(e))
      /\ (\A e : OwnHeader(e)' = OwnHeader(e))
  BY TextStays DEF vars
<1>3. CallsInHand'
  BY <1>1 DEF FInv, CallsInHand, ReadErrorEnds
<1>4. WriterSizes'
  BY <1>1, <1>2 DEF FInv, WriterSizes, Fresh, Buffers, MaxCompressedLength
<1>5. StoppedAtEnd'
  BY <1>1 DEF FInv, StoppedAtEnd, AtEndMark, EndMark, AtEnd, This, ReadErrorEnds
<1>6. TextInHand'
  BY <1>1 DEF FInv, TextInHand, BlockIsNotEmpty, EndsText, Copies, Position, EndOf
<1>7. OwnInHand'
  <2>1. OwnFile' = OwnFile
    BY <1>1, <1>2 DEF OwnFile, OwnItem
  <2>2. OwnReader' = OwnReader
    BY <1>1, <1>2 DEF OwnReader, AtEnd, Fits, Fresh, Buffers, MaxCompressedLength
  <2> QED BY <1>1, <1>2, <2>1, <2>2 DEF FInv, OwnInHand, Reading
<1> QED BY <1>3, <1>4, <1>5, <1>6, <1>7

LEMMA InitFiles == Init => FInv
<1> SUFFICES ASSUME Init PROVE FInv
  OBVIOUS
<1>1. IInv
  BY InitInvariant
<1>2. oerr = FALSE /\ stream = <<>> /\ mishaps = {} /\ phase = "start"
  BY DEF Init
<1>3. CallsInHand
  BY <1>2 DEF CallsInHand
<1>4. TextInHand
  BY <1>2 DEF TextInHand, Sent, Phases
<1>5. WriterSizes /\ StoppedAtEnd /\ OwnInHand
  BY <1>2 DEF WriterSizes, StoppedAtEnd, OwnInHand, Reading
<1> QED BY <1>1, <1>3, <1>4, <1>5 DEF FInv

LEMMA NextFiles == FInv /\ [Next]_vars => FInv'
<1> SUFFICES ASSUME FInv, [Next]_vars
             PROVE  CallsInHand' /\ WriterSizes' /\ TextInHand' /\ StoppedAtEnd'
                    /\ OwnInHand'
  BY NextInvariant DEF FInv
<1>1. /\ IInv /\ CallsInHand /\ WriterSizes /\ TextInHand /\ OwnInHand
      /\ ReaderInHand /\ FramedSoFar
  BY DEF FInv, IInv
<1>2. CASE Encode
  <2>1. WritingStep
    BY <1>1, <1>2, EncodeWrites
  <2>2. CallsInHand' /\ TextInHand' /\ OwnInHand'
    BY <1>1, <2>1, WritingKeepsCalls, WritingKeepsText, WritingKeepsOwn
  <2>3. phase' # "done"
    BY <2>1 DEF WritingStep, Refuse, FirstStep, Begin, BlockStep, Put, LastStep,
                Finish, FinishChecked
  <2>4. WriterSizes'
    BY <1>1, <2>1, WritingKeepsSizes
  <2> QED BY <2>2, <2>3, <2>4 DEF StoppedAtEnd
<1>3. CASE Wire
  BY <1>1, <1>3, WireKeepsText, WireKeepsRest
<1>4. CASE Decode
  <2>1. ReadingStep
    BY <1>1, <1>4, DecodeReads
  <2>2. TextInHand'
    <3>1. UNCHANGED <<text, writer, stream>> /\ phase \in Sent
          /\ mishaps' \in {mishaps, mishaps \cup {"call"}}
      BY <2>1 DEF ReadingStep
    <3>2. phase' \notin {"start", "encode"}
      BY <2>1 DEF ReadingStep, Sent, Phases
    <3> QED BY <1>1, <3>1, <3>2, ReadingKeepsText
  <2> QED BY <1>1, <1>4, <2>1, <2>2, ReadingKeepsCalls, ReadingStops, ReadingKeepsOwn
<1>5. CASE CallFails
  BY <1>1, <1>5, CallFailsKeepsRest
<1>6. CASE Idle \/ UNCHANGED vars
  BY <1>6, IdleKeepsRest DEF Idle
<1> QED BY <1>2, <1>3, <1>4, <1>5, <1>6 DEF Next

(* In every reachable state the file is one that the invariant describes.  *)
THEOREM FilesKept == Spec => []FInv
<1> QED BY InitFiles, NextFiles, PTL DEF Spec

LEMMA FilesReachTheEnd == FInv => RoundTrip
<1> SUFFICES ASSUME FInv, phase = "done", mishaps \cap {"foreign", "length"} = {},
                    "cut" \in mishaps => format \in EndMarked,
                    "call" \in mishaps => format \notin IgnoresCalls
             PROVE  \/ /\ Reached = size
                       /\ "concatenated" \in mishaps =>
                            format = "snzip" \/ "cut" \in mishaps \/ LeftAtError
                    \/ Reached = 2 * size /\ "concatenated" \in mishaps
  BY DEF RoundTrip
<1>1. /\ IInv /\ CallsInHand /\ TextInHand /\ StoppedAtEnd
      /\ "foreign" \notin mishaps /\ "length" \notin mishaps
  BY DEF FInv
<1>2. stream \in Seq(Items) /\ size \in Nat /\ at \in 1 .. Len(stream) + 1
      /\ oerr \in BOOLEAN /\ format \in AllFormats /\ Len(stream) \in Nat
      /\ DOMAIN stream = 1 .. Len(stream)
  BY <1>1, BlockAssumption, TakenIsNat DEF IInv, TypeOK
<1>3. ~oerr /\ (format \in Java => "call" \notin mishaps)
  BY <1>1, <1>2 DEF CallsInHand, IgnoresCalls, AllFormats, Java
<1>4. Reached = Position(at)
  BY <1>1, <1>3 DEF IInv, ReaderInHand
<1>5. ASSUME NEW i \in DOMAIN stream
      PROVE  /\ BlockIsNotEmpty(stream[i]) /\ EndsText(i)
             /\ stream[i].first = Position(i) /\ ItemFine(stream[i])
             /\ stream[i] \in Items
  BY <1>1, <1>2, <1>3, <1>5 DEF TextInHand, IInv, WriterInHand, ItemsInHand
<1>6. Copies = 2 => "concatenated" \in mishaps
  BY DEF Copies
<1>7. CASE format = "snzip"
  <2>1. ~AtEnd /\ EndMark(This)
    BY <1>1, <1>7 DEF StoppedAtEnd, AtEndMark
  <2>2. at \in DOMAIN stream
    BY <1>2, <2>1 DEF AtEnd
  <2>3. PICK e : e = stream[at]
    OBVIOUS
  <2>4. BlockIsNotEmpty(e) /\ EndsText(at) /\ e.first = Position(at) /\ e \in Items
    BY <1>5, <2>2, <2>3
  <2>5. e.kind = "end"
    <3>1. e.kind = "block" => e.len > 0
      BY <1>1, <1>7, <2>4 DEF BlockIsNotEmpty
    <3>2. e.kind = "end" \/ (e.kind = "block" /\ e.len = 0)
      BY <2>1, <2>3 DEF EndMark, This
    <3> QED BY <3>1, <3>2
  <2>6. e.first = size \/ (e.first = 2 * size /\ Copies = 2)
    BY <2>3, <2>4, <2>5 DEF EndsText
  <2> QED BY <1>4, <1>6, <1>7, <2>4, <2>6
<1>8. CASE format # "snzip"
  <2>1. AtEnd \/ LeftAtError
    <3>1. ~(format = "iwa" /\ ~AtEnd /\ This.kind = "block" /\ This.n = 0)
      <4> SUFFICES ASSUME ~AtEnd, This.kind = "block", This.n = 0 PROVE FALSE
        OBVIOUS
      <4>1. at \in DOMAIN stream
        BY <1>2 DEF AtEnd
      <4>2. This.n > 0
        BY <1>5, <4>1 DEF This, BlockIsNotEmpty
      <4> QED BY <4>2
    <3> QED BY <1>1, <1>3, <1>8, <3>1
            DEF StoppedAtEnd, ReadErrorEnds, LeftAtError, Java
  <2>3. CASE "cut" \notin mishaps /\ ~LeftAtError
    <3>0. Reached = Position(Len(stream) + 1)
      <4>1. at = Len(stream) + 1
        BY <1>2, <2>1, <2>3 DEF AtEnd
      <4> QED BY <1>4, <4>1
    <3>1. Reached = Copies * size
      BY <1>1, <1>3, <3>0, <2>3 DEF TextInHand, Sent
    <3>2. CASE "concatenated" \in mishaps
      <4>1. Copies = 2
        BY <3>2 DEF Copies
      <4> QED BY <3>1, <3>2, <4>1
    <3>3. CASE "concatenated" \notin mishaps
      <4>1. Copies = 1
        BY <3>3 DEF Copies
      <4>2. Reached = size
        BY <1>2, <3>1, <4>1
      <4> QED BY <3>3, <4>2
    <3> QED BY <3>2, <3>3
  <2>4. CASE "cut" \in mishaps \/ LeftAtError
    <3>1. format = "comment-43"
      BY <1>8, <2>4 DEF EndMarked, LeftAtError
    <3>2. at > 1 /\ stream[at - 1].kind = "end"
      BY <1>1, <3>1 DEF IInv, StreamsAreFramed
    <3>3. at - 1 \in DOMAIN stream /\ at # 1
      BY <1>2, <3>2
    <3>4. PICK e : e = stream[at - 1]
      OBVIOUS
    <3>5. EndsText(at - 1) /\ ItemFine(e) /\ e \in Items /\ e.kind = "end"
      BY <1>5, <3>2, <3>3, <3>4
    <3>6. e.first = size \/ (e.first = 2 * size /\ Copies = 2)
      BY <3>4, <3>5 DEF EndsText
    <3>7. e.n = 0 /\ e.first \in Nat
      BY <3>5 DEF ItemFine, Items
    <3>8. Reached = e.first + e.n
      BY <1>4, <3>3, <3>4 DEF Position, EndOf
    <3>9. Reached = e.first
      BY <3>7, <3>8
    <3> QED BY <1>6, <2>4, <3>6, <3>9
  <2> QED BY <2>3, <2>4
<1> QED BY <1>7, <1>8

(* When uncompress succeeds, what it has written is the whole text, or the *)
(* text twice when a second file was behind the first, whatever was cut    *)
(* off or damaged and whatever calls failed, but for the files another     *)
(* encoder or other lengths were put into and the calls nobody looks at,   *)
(* and but for the second text of comment-43 after a read error in front   *)
(* of it: snzip and comment-43 stop at their end marks (snzip-format.c:    *)
(* 207, comment-43-format.c:171), the others at the end of the file, and a *)
(* block of the writer is never empty.                                     *)
THEOREM TextComesBack == Spec => []RoundTrip
<1> QED BY FilesKept, FilesReachTheEnd, PTL

(* A file snzip has written and nothing has happened to is never refused,  *)
(* nor does memory run out for it: its header names the block size, its    *)
(* blocks fit the buffers made from it (snzip-format.c:225-251) or of the  *)
(* format's largest size (snappy-in-java-format.c:203-245, iwa-format.c:   *)
(* 131-146, comment-43-format.c:205-261), and no block is shorter than the *)
(* least length each reader asks for.                                      *)
THEOREM OwnFilesAreRead == Spec => []ReadsOwnFiles
<1>1. FInv => ReadsOwnFiles
  BY DEF FInv, OwnInHand, ReadsOwnFiles
<1> QED BY <1>1, FilesKept, PTL

-----------------------------------------------------------------------------
(* The way to the end.                                                     *)

(* How many more stages there are, and how much is left to do in this one: *)
(* text to be read, kinds of mishaps there are, items to be read. A step   *)
(* is closer to the end when it leads to a later stage or leaves less to   *)
(* do.                                                                     *)
Stage ==
  IF phase = "start" THEN 5 ELSE IF phase = "encode" THEN 4
  ELSE IF phase = "wire" THEN 3 ELSE IF phase \in {"header", "detected"} THEN 2
  ELSE IF phase \in Ended THEN 0 ELSE 1
Mishaps == {"cut", "corrupt", "length", "concatenated", "foreign", "call"}
ToDo ==
  IF phase = "encode" THEN size - taken
  ELSE IF phase = "wire" THEN Cardinality(Mishaps \ mishaps)
  ELSE 2 * (Len(stream) + 1 - at)
         + (IF phase \in {"held", "overread"} THEN 0 ELSE 1)
Closer ==
  /\ Stage \in Nat /\ ToDo \in Nat /\ Stage' \in Nat /\ ToDo' \in Nat
  /\ Stage' < Stage \/ (Stage' = Stage /\ ToDo' < ToDo)

(* Each mishap that is new leaves fewer that are not.                      *)
LEMMA FewerMishaps ==
  ASSUME NEW S, NEW T, S \subseteq T
  PROVE  /\ Cardinality(Mishaps \ S) \in Nat /\ Cardinality(Mishaps \ T) \in Nat
         /\ Mishaps \cap (T \ S) # {} =>
              Cardinality(Mishaps \ T) < Cardinality(Mishaps \ S)
<1>1. IsFiniteSet(Mishaps)
  <2> DEFINE three == {"cut", "corrupt", "length"}
             five == three \cup {"concatenated"} \cup {"foreign"}
  <2>1. /\ IsFiniteSet({}) /\ IsFiniteSet({} \cup {"cut"})
        /\ IsFiniteSet({"cut"} \cup {"corrupt"})
    BY FS_EmptySet, FS_AddElement, FS_Singleton
  <2>2. {"cut"} \cup {"corrupt"} = {"cut", "corrupt"}
    OBVIOUS
  <2>3. IsFiniteSet({"cut", "corrupt"} \cup {"length"})
    BY <2>1, <2>2, FS_AddElement
  <2>4. {"cut", "corrupt"} \cup {"length"} = three
    OBVIOUS
  <2>5. IsFiniteSet(three)
    BY <2>3, <2>4
  <2>6. Mishaps = five \cup {"call"}
    BY DEF Mishaps
  <2> HIDE DEF three
  <2>7. IsFiniteSet(five)
    BY <2>5, FS_AddElement
  <2> HIDE DEF five
  <2>8. IsFiniteSet(five \cup {"call"})
    BY <2>7, FS_AddElement
  <2> QED
    BY <2>6, <2>8
<1> PICK A, B : A = Mishaps \ S /\ B = Mishaps \ T
  OBVIOUS
<1>2. A \in SUBSET Mishaps /\ B \in SUBSET A
  OBVIOUS
<1>3. IsFiniteSet(A)
  BY <1>1, <1>2, FS_Subset
<1>4. /\ IsFiniteSet(B) /\ Cardinality(B) <= Cardinality(A)
      /\ Cardinality(A) = Cardinality(B) => A = B
  BY <1>2, <1>3, FS_Subset
<1>5. Cardinality(A) \in Nat /\ Cardinality(B) \in Nat
  BY <1>3, <1>4, FS_CardinalityType
<1>6. Mishaps \cap (T \ S) # {} => A # B
  OBVIOUS
<1> QED
  BY <1>4, <1>5, <1>6

(* To have taken more leaves less.                                         *)
LEMMA LessLeft == \A s, t, u \in Int : u > t => s - u < s - t
OBVIOUS

(* The measure is made of natural numbers, before and after a step.        *)
LEMMA MeasureTypes ==
  TypeOK => /\ size \in Nat /\ taken \in Nat /\ taken <= size
            /\ at \in Nat /\ Len(stream) \in Nat /\ at <= Len(stream) + 1
            /\ Stage \in Nat /\ ToDo \in Nat
<1> SUFFICES ASSUME TypeOK
             PROVE  /\ size \in Nat /\ taken \in Nat /\ taken <= size
                    /\ at \in Nat /\ Len(stream) \in Nat /\ at <= Len(stream) + 1
                    /\ Stage \in Nat /\ ToDo \in Nat
  OBVIOUS
<1>1. size \in Nat /\ taken \in Nat /\ taken <= size
  <2>1. size \in TextSizes /\ taken \in 0 .. size
    BY DEF TypeOK
  <2> QED
    BY <2>1, BlockAssumption
<1>2. at \in Nat /\ Len(stream) \in Nat /\ at <= Len(stream) + 1
  <2>1. stream \in Seq(Items) /\ at \in 1 .. Len(stream) + 1
    BY DEF TypeOK
  <2> QED
    BY <2>1
<1>3. Stage \in Nat
  BY DEF Stage
<1>4. Cardinality(Mishaps \ mishaps) \in Nat
  BY FewerMishaps
<1>5. ToDo \in Nat
  BY <1>1, <1>2, <1>4 DEF ToDo
<1> QED
  BY <1>1, <1>2, <1>3, <1>5

LEMMA MeasureIsNumber == TypeOK => Stage \in Nat /\ ToDo \in Nat
BY MeasureTypes

(* How far a step of uncompress gets: to a later stage, or past an item,   *)
(* or from reading the data of one to writing it.                          *)
Further ==
  /\ UNCHANGED stream
  /\ \/ phase \in Phases \ {"start", "encode"} /\ phase' \in Ended
     \/ phase = "wire" /\ phase' \in {"header", "detected"}
     \/ phase \in {"header", "detected"} /\ phase' = "blocks"
     \/ phase = "blocks" /\ phase' \in {"held", "overread"} /\ UNCHANGED at
     \/ Reading /\ phase' \in {"blocks", "between"} /\ at' = at + 1

LEMMA SnzipFurther == SnzipUncompress => Further
<1> USE DEF Further, Reading, Ended, Phases
<1>1. CASE SnzipOpen
  BY <1>1 DEF SnzipOpen, Opening, Opened, Turn
<1>2. CASE SnzipDone
  BY <1>2 DEF SnzipDone, Decoding, Turn
<1>3. CASE SnzipRead
  BY <1>3 DEF SnzipRead, Decoding, Hold, Turn, reader
<1>4. CASE SnzipWrite
  BY <1>4 DEF SnzipWrite, Decoding, Written, Turn
<1> QED BY <1>1, <1>2, <1>3, <1>4 DEF SnzipUncompress

LEMMA SnappyJavaFurther == SnappyJavaUncompress => Further
<1> USE DEF Further, Reading, Ended, Phases
<1>1. CASE SnappyJavaOpen
  BY <1>1 DEF SnappyJavaOpen, Opening, Opened, Turn
<1>2. CASE SnappyJavaDone
  BY <1>2 DEF SnappyJavaDone, Decoding
<1>3. CASE SnappyJavaRead
  BY <1>3 DEF SnappyJavaRead, Decoding, Hold, Turn, reader
<1>4. CASE SnappyJavaWrite
  BY <1>4 DEF SnappyJavaWrite, Decoding, Written, Turn
<1> QED BY <1>1, <1>2, <1>3, <1>4 DEF SnappyJavaUncompress

LEMMA InJavaFurther == InJavaUncompress => Further
<1> USE DEF Further, Reading, Ended, Phases
<1>1. CASE InJavaOpen
  BY <1>1 DEF InJavaOpen, Opening, Opened, Turn
<1>2. CASE InJavaDone
  BY <1>2 DEF InJavaDone, Decoding
<1>3. CASE InJavaRead
  BY <1>3 DEF InJavaRead, Decoding, Hold, Turn, reader
<1>4. CASE InJavaWrite
  BY <1>4 DEF InJavaWrite, Decoding, Written, Turn
<1> QED BY <1>1, <1>2, <1>3, <1>4 DEF InJavaUncompress

LEMMA IwaFurther == IwaUncompress => Further
<1> USE DEF Further, Reading, Ended, Phases
<1>1. CASE IwaOpen
  BY <1>1 DEF IwaOpen, Opening
<1>2. CASE IwaDone
  BY <1>2 DEF IwaDone, Decoding, Turn
<1>3. CASE IwaRead
  BY <1>3 DEF IwaRead, Decoding, Hold, Turn, reader
<1>4. CASE IwaWrite
  BY <1>4 DEF IwaWrite, Decoding, Written, Turn
<1>5. CASE IwaOverread
  BY <1>5 DEF IwaOverread, Decoding, reader
<1>6. CASE IwaOverreads
  BY <1>6 DEF IwaOverreads, Decoding, Turn
<1> QED BY <1>1, <1>2, <1>3, <1>4, <1>5, <1>6 DEF IwaUncompress

LEMMA CommentFurther == CommentUncompress => Further
<1> USE DEF Further, Reading, Ended, Phases
<1>1. CASE CommentOpen
  BY <1>1 DEF CommentOpen, Opening, Opened, Turn
<1>2. CASE CommentDone
  BY <1>2 DEF CommentDone, Decoding
<1>3. CASE CommentNextStream
  BY <1>3 DEF CommentNextStream, Decoding, Pass, Turn
<1>4. CASE CommentRead
  BY <1>4 DEF CommentRead, Decoding, Hold, reader
<1>5. CASE CommentSkip
  BY <1>5 DEF CommentSkip, Decoding, Pass
<1>6. CASE CommentEndOfStream
  BY <1>6 DEF CommentEndOfStream, Decoding, Pass
<1>7. CASE CommentReject
  BY <1>7 DEF CommentReject, Decoding, Turn
<1>8. CASE CommentWrite
  BY <1>8 DEF CommentWrite, Decoding, Written, Turn
<1> QED BY <1>1, <1>2, <1>3, <1>4, <1>5, <1>6, <1>7, <1>8 DEF CommentUncompress

LEMMA DecodeFurther == Decode \/ DecodeFails => Further
<1>1. StartDecode => Further
  BY DEF StartDecode, Further
<1>2. DecodeFails => Further
  BY DEF DecodeFails, Further, Phases, Ended
<1> QED BY <1>1, <1>2, SnzipFurther, SnappyJavaFurther, InJavaFurther,
           IwaFurther, CommentFurther DEF Decode

(* Every action of Next makes the measure smaller, or changes nothing.     *)
LEMMA StepCloser == FInv /\ TypeOK' /\ Next => vars' = vars \/ Closer
<1> SUFFICES ASSUME FInv, TypeOK', Next, vars' # vars PROVE Closer
  OBVIOUS
<1>a. TypeOK /\ IInv /\ WriterSizes
  BY DEF FInv, IInv
<1>0. /\ size \in Nat /\ taken \in Nat /\ taken <= size
      /\ at \in Nat /\ Len(stream) \in Nat
  BY <1>a, MeasureTypes
<1>1. Stage \in Nat /\ ToDo \in Nat /\ Stage' \in Nat /\ ToDo' \in Nat
  <2>1. TypeOK => Stage \in Nat /\ ToDo \in Nat
    BY MeasureIsNumber
  <2>2. (TypeOK => Stage \in Nat /\ ToDo \in Nat)'
    BY MeasureIsNumber, PTL
  <2> QED
    BY <1>a, <2>1, <2>2
<1> SUFFICES Stage' < Stage \/ (Stage' = Stage /\ ToDo' < ToDo)
  BY <1>1 DEF Closer
<1>2. CASE Encode
  <2>0. WritingStep
    BY <1>a, <1>2, EncodeWrites
  <2>1. CASE phase = "start" /\ Refuse
    BY <2>1 DEF Refuse, Stage, Ended
  <2>2. CASE FirstStep
    BY <2>2 DEF FirstStep, Begin, Stage, Ended
  <2>3. CASE LastStep
    BY <2>3 DEF LastStep, Finish, FinishChecked, Stage, Ended
  <2>4. CASE BlockStep
    <3>1. phase = "encode" /\ taken' = taken + Chunk /\ UNCHANGED <<text, phase>>
      BY <2>4 DEF BlockStep, Put
    <3>2. Chunk \in Int /\ Chunk > 0
      <4>1. Chunk \in 1 .. TextBlock
        BY <2>4 DEF BlockStep
      <4>2. TextBlock \in Nat
        BY <1>a, TextBlockIsSize, BlockAssumption DEF IInv, TypeOK
      <4> QED
        BY <4>1, <4>2
    <3>3. Stage' = Stage
      BY <3>1 DEF Stage
    <3>4. ToDo = size - taken /\ ToDo' = size - taken'
      BY <3>1 DEF ToDo, text
    <3>5. size \in Int /\ taken \in Int
      BY <1>0
    <3>6. taken' \in Int
      BY <3>1, <3>2, <3>5
    <3>7. taken' > taken
      BY <3>1, <3>2, <3>5
    <3>8. size - taken' < size - taken
      BY <3>5, <3>6, <3>7, LessLeft
    <3> QED
      BY <3>3, <3>4, <3>8
  <2> QED
    BY <2>0, <2>1, <2>2, <2>3, <2>4 DEF WritingStep
<1>3. CASE EncodeFails
  BY <1>3 DEF EncodeFails, Stage, Ended
<1>4. CASE Wire
  <2>1. /\ phase = "wire" /\ UNCHANGED phase /\ mishaps' # mishaps
        /\ \E x \in Mishaps : mishaps' = mishaps \cup {x}
    BY <1>4 DEF Wire, CutBeforeItem, CutInItem, Corrupt, WrongLength, Concatenate,
                InsertForeign, Mishaps
  <2>2. mishaps \subseteq mishaps' /\ Mishaps \cap (mishaps' \ mishaps) # {}
    BY <2>1
  <2>3. Cardinality(Mishaps \ mishaps') < Cardinality(Mishaps \ mishaps)
    BY <2>2, FewerMishaps
  <2> QED
    BY <2>1, <2>3 DEF Stage, ToDo
<1>5. CASE Decode \/ DecodeFails
  <2>1. Further
    BY <1>5, DecodeFurther
  <2>2. CASE phase \in Phases \ {"start", "encode"} /\ phase' \in Ended
    BY <2>2 DEF Stage, Ended, Phases
  <2>3. CASE \/ phase = "wire" /\ phase' \in {"header", "detected"}
             \/ phase \in {"header", "detected"} /\ phase' = "blocks"
    BY <2>3 DEF Stage, Ended
  <2>4. CASE phase = "blocks" /\ phase' \in {"held", "overread"} /\ UNCHANGED at
    BY <1>0, <2>1, <2>4 DEF Further, Stage, ToDo, Ended
  <2>5. CASE Reading /\ phase' \in {"blocks", "between"} /\ at' = at + 1
    BY <1>0, <2>1, <2>5 DEF Further, Stage, ToDo, Ended, Reading
  <2> QED
    BY <2>1, <2>2, <2>3, <2>4, <2>5 DEF Further
<1> QED
  BY <1>2, <1>3, <1>4, <1>5 DEF Next, CallFails, Idle

(* Every step leads closer to the end, in each of the five formats and     *)
(* whatever happens to the stream: compress reads a byte at least in each  *)
(* turn of its loop, as its buffer is never empty, and uncompress passes   *)
(* an item of the file or is done (snzip-format.c:98-141, 198-263,         *)
(* snappy-java-format.c:82-104, 167-228, snappy-in-java-format.c:91-112,   *)
(* 182-281, iwa-format.c:61-77, 122-163, comment-43-format.c:98-134,       *)
(* 193-308).                                                               *)
THEOREM EveryStepIsCloser == Spec => [][Closer]_vars
<1>1. FInv /\ FInv' /\ [Next]_vars => [Closer]_vars
  BY StepCloser DEF FInv, IInv
<1>2. QED
  BY <1>1, FilesKept, PTL DEF Spec

=============================================================================
