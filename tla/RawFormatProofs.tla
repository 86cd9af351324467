--------------------------- MODULE RawFormatProofs ---------------------------
(***************************************************************************)
(* Theorems about RawFormat, for every file, every -s, every size of the   *)
(* buffer, and however read(), write() and the library split up the bytes. *)
(***************************************************************************)
EXTENDS RawFormat, SequenceTheorems, TLAPS

(* The positions from first on, behind as many bytes in order, are in      *)
(* order.                                                                  *)
LEMMA MoreInOrder ==
  ASSUME NEW s \in Seq(Nat), InOrder(s), NEW n \in Nat
  PROVE  /\ s \o Positions(Len(s), n) \in Seq(Nat)
         /\ Len(s \o Positions(Len(s), n)) = Len(s) + n
         /\ InOrder(s \o Positions(Len(s), n))
<1> DEFINE p == Positions(Len(s), n)
<1>1. p \in Seq(Nat) /\ Len(p) = n /\ \A i \in 1 .. n : p[i] = Len(s) + i - 1
  BY DEF Positions
<1> HIDE DEF p
<1>2. s \o p \in Seq(Nat) /\ Len(s \o p) = Len(s) + n
  BY <1>1
<1>3. ASSUME NEW i \in DOMAIN (s \o p) PROVE (s \o p)[i] = i - 1
  <2>1. i \in 1 .. Len(s) + n
    BY <1>2
  <2>2. CASE i <= Len(s)
    BY <1>1, <2>1, <2>2 DEF InOrder
  <2>3. CASE i > Len(s)
    <3>1. (s \o p)[i] = p[i - Len(s)]
      BY <1>1, <2>1, <2>3
    <3> QED BY <1>1, <2>1, <2>3, <3>1
  <2> QED BY <2>1, <2>2, <2>3
<1> QED BY <1>2, <1>3 DEF InOrder, p

(* What Peek shows is no more than is in the buffer, nor than is left.     *)
LEMMA ClampBounds ==
  ASSUME TypeOK, NEW n \in Nat
  PROVE  /\ Clamp(n) \in 0 .. n
         /\ rest > 0 => Clamp(n) <= rest
         /\ Clamp(n) = 0 => n = 0
BY DEF TypeOK, Clamp, Minimum

LEMMA AnnouncedIsNat == TypeOK => Announced \in Nat
BY DEF TypeOK, Announced, StatSize

LEMMA InitInvariant == Init => IInv
<1> SUFFICES ASSUME Init PROVE IInv
  OBVIOUS
<1>1. TypeOK
  <2>1. /\ file \in Nat /\ pipe \in BOOLEAN /\ sizeArg \in Nat \cup {-1}
        /\ mode \in {"compress", "uncompress"}
    BY RawAssumption DEF Init
  <2>2. Announced \in Nat
    BY <2>1 DEF Announced, StatSize
  <2>3. want \in Nat /\ rest \in Nat \cup {-1}
    BY <2>2 DEF Init
  <2>4. taken \in Seq(Nat) /\ sent \in Seq(Nat)
    BY DEF Init
  <2> QED BY <2>1, <2>3, <2>4 DEF Init, TypeOK
<1>2. SourceInHand /\ SinkInHand
  BY RawAssumption DEF Init, SourceInHand, SinkInHand, InOrder
<1>3. RestInHand /\ PeekedInHand /\ Finished
  BY <1>1, AnnouncedIsNat DEF Init, RestInHand, PeekedInHand, Finished, TypeOK
<1> QED BY <1>1, <1>2, <1>3 DEF IInv

-----------------------------------------------------------------------------
(* The source.                                                             *)

LEMMA PeekNothingStep == IInv /\ PeekNothing => IInv'
<1> SUFFICES ASSUME IInv, PeekNothing PROVE IInv'
  OBVIOUS
<1> USE DEF PeekNothing, given, source, sink
<1>1. TypeOK'
  BY DEF IInv, TypeOK
<1>2. SourceInHand' /\ SinkInHand' /\ Finished'
  BY DEF IInv, SourceInHand, SinkInHand, Finished, InOrder
<1>3. RestInHand'
  BY DEF IInv, RestInHand, Announced, StatSize
<1>4. PeekedInHand'
  BY DEF IInv, TypeOK, SourceInHand, RestInHand, PeekedInHand
<1> QED BY <1>1, <1>2, <1>3, <1>4 DEF IInv

LEMMA PeekBufferStep == IInv /\ PeekBuffer => IInv'
<1> SUFFICES ASSUME IInv, PeekBuffer PROVE IInv'
  OBVIOUS
<1> USE DEF PeekBuffer, given, source, sink
<1>0. /\ end - ptr \in Nat /\ end - ptr > 0
      /\ peeked' = Clamp(end - ptr)
  BY DEF IInv, TypeOK, SourceInHand
<1>1. /\ peeked' \in 1 .. end - ptr
      /\ rest > 0 => peeked' <= rest
  <2> DEFINE n == end - ptr
  <2>1. /\ Clamp(n) \in 0 .. n /\ (rest > 0 => Clamp(n) <= rest)
        /\ Clamp(n) = 0 => n = 0
    BY <1>0, ClampBounds DEF IInv
  <2> QED BY <1>0, <2>1
<1>2. TypeOK'
  BY <1>0, <1>1 DEF IInv, TypeOK
<1>3. SourceInHand' /\ SinkInHand' /\ Finished'
  BY DEF IInv, SourceInHand, SinkInHand, Finished, InOrder
<1>4. RestInHand'
  BY DEF IInv, RestInHand, Announced, StatSize
<1>5. PeekedInHand'
  BY <1>0, <1>1 DEF IInv, TypeOK, RestInHand, PeekedInHand
<1> QED BY <1>2, <1>3, <1>4, <1>5 DEF IInv

LEMMA PeekReadStep == IInv /\ PeekRead => IInv'
<1> SUFFICES ASSUME IInv, PeekRead PROVE IInv'
  OBVIOUS
<1> USE DEF PeekRead, given, sink
<1>0. PICK n \in ReadSizes :
        ptr' = end /\ end' = end + n /\ peeked' = Clamp(n)
  OBVIOUS
<1>1. /\ n \in Nat /\ n <= file - end
      /\ n = 0 => file = end
  BY RawAssumption DEF IInv, TypeOK, SourceInHand, ReadSizes, Minimum
<1>2. /\ peeked' \in 0 .. n
      /\ rest > 0 => peeked' <= rest
      /\ peeked' = 0 => n = 0
  BY <1>0, <1>1, ClampBounds DEF IInv
<1>3. TypeOK'
  BY <1>0, <1>1, <1>2 DEF IInv, TypeOK
<1>4. SourceInHand' /\ SinkInHand' /\ Finished'
  BY <1>0, <1>1 DEF IInv, TypeOK, SourceInHand, SinkInHand, Finished, InOrder
<1>5. RestInHand'
  BY <1>0 DEF IInv, RestInHand, Announced, StatSize
<1>6. PeekedInHand'
  BY <1>0, <1>1, <1>2 DEF IInv, TypeOK, RestInHand, PeekedInHand
<1> QED BY <1>3, <1>4, <1>5, <1>6 DEF IInv

LEMMA PeekFailsStep == IInv /\ PeekFails => IInv'
<1> SUFFICES ASSUME IInv, PeekFails PROVE IInv'
  OBVIOUS
<1> USE DEF PeekFails, given, sink
<1>1. TypeOK'
  BY DEF IInv, TypeOK
<1>2. SourceInHand' /\ SinkInHand' /\ Finished'
  BY DEF IInv, SourceInHand, SinkInHand, Finished, InOrder
<1>3. RestInHand'
  BY DEF IInv, RestInHand, Announced, StatSize
<1>4. PeekedInHand'
  BY DEF IInv, TypeOK, SourceInHand, PeekedInHand
<1> QED BY <1>1, <1>2, <1>3, <1>4 DEF IInv

LEMMA SourceStep == IInv /\ Source => IInv'
BY PeekNothingStep, PeekBufferStep, PeekReadStep, PeekFailsStep DEF Source

-----------------------------------------------------------------------------
(* The library.                                                            *)

LEMMA TakeStep == IInv /\ Take => IInv'
<1> SUFFICES ASSUME IInv, Take PROVE IInv'
  OBVIOUS
<1> USE DEF Take, given, sink
<1>0. PICK n \in 1 .. peeked :
        /\ taken' = taken \o Positions(ptr, n)
        /\ IF mode = "compress" THEN n <= want /\ want' = want - n
                                ELSE UNCHANGED want
        /\ Skip(n)
  OBVIOUS
<1>1. n \in Nat /\ n > 0 /\ n <= end - ptr
  BY DEF IInv, TypeOK, PeekedInHand
<1>2. /\ taken' \in Seq(Nat) /\ Len(taken') = ptr + n /\ InOrder(taken')
  BY <1>0, <1>1, MoreInOrder DEF IInv, TypeOK, SourceInHand
<1>3. ptr' = ptr + n /\ rest' = (IF rest > 0 THEN rest - n ELSE rest)
  BY <1>0 DEF Skip
<1>4. mode = "compress" => n <= rest /\ want' = want - n /\ n <= want
  BY <1>0, <1>1 DEF IInv, TypeOK, PeekedInHand
<1>5. mode = "uncompress" => want' = want /\ rest' = rest
  BY <1>0, <1>3 DEF IInv, RestInHand
<1>6. TypeOK'
  BY <1>1, <1>2, <1>3, <1>4, <1>5 DEF IInv, TypeOK
<1>7. SourceInHand'
  BY <1>1, <1>2, <1>3 DEF IInv, TypeOK, SourceInHand
<1>8. RestInHand'
  <2>1. Announced' = Announced /\ Announced \in Nat
    BY AnnouncedIsNat DEF IInv, Announced, StatSize
  <2>2. CASE mode = "compress"
    BY <1>1, <1>3, <1>4, <2>1, <2>2 DEF IInv, TypeOK, RestInHand
  <2>3. CASE mode = "uncompress"
    BY <1>1, <1>3, <1>5, <2>3 DEF IInv, TypeOK, RestInHand, PeekedInHand
  <2> QED BY <2>2, <2>3 DEF IInv, TypeOK
<1>9. PeekedInHand' /\ SinkInHand' /\ Finished'
  BY DEF IInv, PeekedInHand, SinkInHand, Finished, InOrder
<1> QED BY <1>6, <1>7, <1>8, <1>9 DEF IInv

LEMMA NothingToTakeStep == IInv /\ NothingToTake => IInv'
<1> SUFFICES ASSUME IInv, NothingToTake PROVE IInv'
  OBVIOUS
<1> USE DEF NothingToTake, given, source, sink
<1>1. TypeOK'
  BY DEF IInv, TypeOK
<1>2. SourceInHand' /\ SinkInHand' /\ Finished' /\ PeekedInHand'
  BY DEF IInv, SourceInHand, SinkInHand, Finished, PeekedInHand, InOrder
<1>3. RestInHand'
  BY DEF IInv, TypeOK, RestInHand, PeekedInHand, Announced, StatSize
<1> QED BY <1>1, <1>2, <1>3 DEF IInv

LEMMA AppendSomeStep == IInv /\ AppendSome => IInv'
<1> SUFFICES ASSUME IInv, AppendSome PROVE IInv'
  OBVIOUS
<1> USE DEF AppendSome, AppendBytes, given, source
<1>0. PICK n \in Appended : made' = made + n /\ AppendBytes(n)
  OBVIOUS
<1>1. n \in Nat
  BY RawAssumption
<1>2. TypeOK'
  BY <1>0, <1>1 DEF IInv, TypeOK
<1>3. SourceInHand' /\ PeekedInHand' /\ Finished'
  BY <1>0 DEF IInv, SourceInHand, PeekedInHand, Finished, InOrder
<1>4. RestInHand'
  BY DEF IInv, RestInHand, Announced, StatSize
<1>5. SinkInHand'
  <2>1. InOrder(sent)' /\ Len(sent') = Len(sent) /\ sinkErr' = sinkErr
    BY DEF IInv, SinkInHand, InOrder
  <2>2. ~sinkErr => Len(sent) = made
    BY DEF IInv, SinkInHand
  <2>3. made' = made + n /\ made \in Nat
    BY <1>0 DEF IInv, TypeOK
  <2>4. CASE sinkErr
    BY <1>0, <2>1, <2>4 DEF SinkInHand
  <2>5. CASE ~sinkErr
    <3>1. left' = n /\ phase' = "write"
      BY <1>0, <2>5
    <3> QED BY <1>1, <2>1, <2>2, <2>3, <2>5, <3>1 DEF SinkInHand
  <2> QED BY <2>4, <2>5
<1> QED BY <1>2, <1>3, <1>4, <1>5 DEF IInv

LEMMA LibraryEnds == IInv /\ (Return \/ Invalid) => IInv'
<1> SUFFICES ASSUME IInv, Return \/ Invalid PROVE IInv'
  OBVIOUS
<1> USE DEF Return, Invalid, given, source, sink
<1>1. TypeOK'
  BY DEF IInv, TypeOK
<1>2. SourceInHand' /\ SinkInHand' /\ PeekedInHand'
  BY DEF IInv, SourceInHand, SinkInHand, PeekedInHand, InOrder
<1>3. RestInHand'
  BY DEF IInv, RestInHand, Announced, StatSize
<1>4. Finished'
  BY DEF IInv, TypeOK, Finished
<1> QED BY <1>1, <1>2, <1>3, <1>4 DEF IInv

LEMMA LibraryStep == IInv /\ Library => IInv'
BY TakeStep, NothingToTakeStep, AppendSomeStep, LibraryEnds DEF Library

-----------------------------------------------------------------------------
(* The sink.                                                               *)

LEMMA WriteSomeStep == IInv /\ WriteSome => IInv'
<1> SUFFICES ASSUME IInv, WriteSome PROVE IInv'
  OBVIOUS
<1> USE DEF WriteSome, given, source
<1>0. PICK n \in 1 .. left :
        sent' = sent \o Positions(made - left, n) /\ left' = left - n
  OBVIOUS
<1>1. n \in Nat /\ n <= left
  BY DEF IInv, TypeOK
<1>2. sent' \in Seq(Nat) /\ Len(sent') = made - left + n /\ InOrder(sent')
  BY <1>0, <1>1, MoreInOrder DEF IInv, TypeOK, SinkInHand
<1>3. TypeOK'
  BY <1>0, <1>1, <1>2 DEF IInv, TypeOK
<1>4. SourceInHand' /\ PeekedInHand' /\ Finished'
  BY DEF IInv, SourceInHand, PeekedInHand, Finished, InOrder
<1>5. RestInHand'
  BY DEF IInv, RestInHand, Announced, StatSize
<1>6. SinkInHand'
  <2>1. left' <= made' /\ Len(sent') = made' - left'
    <3>1. left \in Nat /\ made \in Nat /\ left <= made
      BY DEF IInv, TypeOK, SinkInHand
    <3>2. left' = left - n /\ made' = made
      BY <1>0
    <3>3. Len(sent') = made - left + n
      BY <1>2
    <3> DEFINE l == Len(sent')
    <3> HIDE DEF l
    <3>4. l = made - left + n
      BY <3>3 DEF l
    <3>5. left' <= made' /\ l = made' - left'
      BY <1>1, <3>1, <3>2, <3>4
    <3> QED BY <3>5 DEF l
  <2>2. ~sinkErr' /\ phase' = "write"
    BY DEF IInv, SinkInHand
  <2>3. InOrder(sent)'
    BY <1>2 DEF InOrder
  <2> QED BY <2>1, <2>2, <2>3 DEF SinkInHand
<1> QED BY <1>3, <1>4, <1>5, <1>6 DEF IInv

LEMMA WriteReturns == IInv /\ (WriteFails \/ WriteEnds) => IInv'
<1> SUFFICES ASSUME IInv, WriteFails \/ WriteEnds PROVE IInv'
  OBVIOUS
<1> USE DEF given, source, sink
<1>0. /\ UNCHANGED <<given, want, source, peeked, taken, made, sent>>
      /\ phase = "write" /\ phase' = "library"
  BY DEF WriteFails, WriteEnds
<1>1. \/ sinkErr' = TRUE /\ left' = 0
      \/ left = 0 /\ left' = left /\ sinkErr' = sinkErr
  BY DEF WriteFails, WriteEnds
<1>2. TypeOK'
  <2>1. left' \in Nat /\ sinkErr' \in BOOLEAN
    <3>1. left \in Nat /\ sinkErr \in BOOLEAN
      BY DEF IInv, TypeOK
    <3>2. CASE sinkErr' = TRUE /\ left' = 0
      BY <3>2
    <3>3. CASE left' = left /\ sinkErr' = sinkErr
      BY <3>1, <3>3, Zenon
    <3> QED BY <1>1, <3>2, <3>3
  <2> QED BY <1>0, <2>1 DEF IInv, TypeOK
<1>3. SourceInHand' /\ PeekedInHand' /\ Finished'
  BY <1>0 DEF IInv, SourceInHand, PeekedInHand, Finished, InOrder
<1>4. RestInHand'
  BY <1>0 DEF IInv, RestInHand, Announced, StatSize
<1>5. SinkInHand'
  <2>1. InOrder(sent)' /\ Len(sent') = Len(sent) /\ made' = made
    BY <1>0 DEF IInv, SinkInHand, InOrder
  <2>2. ~sinkErr' => Len(sent) = made
    BY <1>0, <1>1 DEF IInv, TypeOK, SinkInHand
  <2> QED BY <1>0, <2>1, <2>2 DEF SinkInHand
<1> QED BY <1>2, <1>3, <1>4, <1>5 DEF IInv

LEMMA SinkStep == IInv /\ Sink => IInv'
BY WriteSomeStep, WriteReturns DEF Sink

LEMMA Stutter == IInv /\ UNCHANGED vars => IInv'
BY DEF vars, given, source, sink, IInv, TypeOK, SourceInHand, RestInHand,
       PeekedInHand, SinkInHand, Finished, InOrder, Announced, StatSize

-----------------------------------------------------------------------------
(* The source and the library agree about what is left, and the sink and   *)
(* the library about what is written (raw_format.cpp:56-141).              *)
THEOREM Invariant == Spec => []IInv
<1>1. IInv /\ [Next]_vars => IInv'
  BY SourceStep, LibraryStep, SinkStep, Stutter
  DEF Next, Interrupted, ReadInterrupted, WriteInterrupted, Idle
<1> QED BY InitInvariant, <1>1, PTL DEF Spec

(* The bytes pass in their order, each once, however read() and write()    *)
(* split them up (raw_format.cpp:103-141, snzip.c:625-641).                *)
THEOREM InOrderBothWays == Spec => []BytesInOrder
<1>1. IInv => BytesInOrder
  BY DEF IInv, SourceInHand, SinkInHand, BytesInOrder
<1> QED BY Invariant, <1>1, PTL

(* No byte behind the announced size is taken, and success means all of    *)
(* it was, and all that was made has been written (raw_format.cpp:128-130, *)
(* 179-194).                                                               *)
THEOREM Exact == Spec => []SuccessIsExact
<1>1. IInv => SuccessIsExact
  <2> SUFFICES ASSUME IInv PROVE SuccessIsExact
    OBVIOUS
  <2>1. Announced \in Nat
    BY AnnouncedIsNat DEF IInv
  <2>2. WithinAnnounced
    BY <2>1 DEF IInv, TypeOK, SourceInHand, RestInHand, PeekedInHand,
                WithinAnnounced
  <2>3. phase = "done" => /\ Len(taken) = IF mode = "compress" THEN Announced ELSE file
                          /\ Len(sent) = made
    BY <2>1 DEF IInv, TypeOK, SourceInHand, RestInHand, SinkInHand, Finished
  <2> QED BY <2>2, <2>3 DEF SuccessIsExact
<1> QED BY Invariant, <1>1, PTL

(* The type invariant: the size left never goes below zero, which would    *)
(* mean "unknown" to Peek.                                                 *)
THEOREM TypeCorrect == Spec => []TypeOK
<1>1. IInv => TypeOK
  BY DEF IInv
<1> QED BY Invariant, <1>1, PTL

-----------------------------------------------------------------------------
(* The way to the end.                                                     *)

(* The library makes more, or takes more of the file, or learns that there *)
(* is no more of it, or what it has asked for comes closer: write_full()   *)
(* writes something, or one of the three places it can be at is left for   *)
(* the next. MaxMade bounds what it makes, and the file what it takes.     *)
Stage ==
  IF phase = "write" THEN 3 ELSE IF phase = "library" THEN 2
  ELSE IF phase = "peeked" THEN 1 ELSE 0
Closer ==
  /\ made \in Nat /\ ptr \in Nat /\ want \in Nat /\ Stage \in Nat /\ left \in Nat
  /\ want' \in Nat /\ Stage' \in Nat /\ left' \in Nat
  /\ \/ made < made' /\ made' <= MaxMade
     \/ made' = made /\ ptr < ptr' /\ ptr' <= file
     \/ UNCHANGED <<made, ptr>> /\ want' < want
     \/ UNCHANGED <<made, ptr, want>> /\ Stage' < Stage
     \/ UNCHANGED <<made, ptr, want>> /\ Stage' = Stage /\ left' < left

(* Every action of Next makes one of them better, or changes nothing; Peek *)
(* shows nothing to a library that compresses only when it is hungry.      *)
LEMMA StepCloser == IInv /\ IInv' /\ Next => vars' = vars \/ Hungry \/ Closer
<1> SUFFICES ASSUME IInv, IInv', Next, vars' # vars, ~Hungry PROVE Closer
  OBVIOUS
<1>0. /\ made \in Nat /\ ptr \in Nat /\ want \in Nat /\ Stage \in Nat /\ left \in Nat
      /\ want' \in Nat /\ Stage' \in Nat /\ left' \in Nat
  BY DEF IInv, TypeOK, Stage
<1> SUFFICES \/ made < made' /\ made' <= MaxMade
             \/ made' = made /\ ptr < ptr' /\ ptr' <= file
             \/ UNCHANGED <<made, ptr>> /\ want' < want
             \/ UNCHANGED <<made, ptr, want>> /\ Stage' < Stage
             \/ UNCHANGED <<made, ptr, want>> /\ Stage' = Stage /\ left' < left
  BY <1>0 DEF Closer
<1>1. CASE Source
  <2>1. phase = "library" /\ phase' = "peeked" /\ UNCHANGED <<made, ptr, want>>
    BY <1>1 DEF Source, PeekNothing, PeekBuffer, PeekRead, PeekFails, source, sink
  <2> QED
    BY <2>1 DEF Stage
<1>2. CASE Take
  <2>1. PICK n \in 1 .. peeked : ptr' = ptr + n
    BY <1>2 DEF Take, Skip
  <2>2. ptr' > ptr
    BY <1>0, <2>1 DEF IInv, TypeOK
  <2>3. ptr' <= file
    <3>1. file' = file
      BY <1>2 DEF Take, given
    <3>2. ptr' \in Nat /\ end' \in Nat /\ file' \in Nat
      BY DEF IInv, TypeOK
    <3>3. ptr' <= end' /\ end' <= file'
      BY DEF IInv, SourceInHand
    <3> QED
      BY <3>1, <3>2, <3>3
  <2>4. made' = made
    BY <1>2 DEF Take, sink
  <2> QED
    BY <2>2, <2>3, <2>4
<1>3. CASE NothingToTake
  <2>1. /\ phase = "peeked" /\ peeked = 0 /\ UNCHANGED <<made, ptr>>
        /\ want' = IF mode = "compress" THEN want ELSE 0
    BY <1>3 DEF NothingToTake, source, sink
  <2>2. want > 0 /\ (srcErr \/ ptr = file)
    BY <2>1 DEF IInv, PeekedInHand
  <2>3. mode # "compress"
    <3> SUFFICES ASSUME mode = "compress" PROVE FALSE
      OBVIOUS
    <3>1. Announced \in Nat /\ file \in Nat /\ want = Announced - ptr
      BY AnnouncedIsNat DEF IInv, TypeOK, RestInHand
    <3>2. ~srcErr /\ ~(file < Announced)
      BY DEF Hungry
    <3> QED
      BY <1>0, <2>2, <3>1, <3>2
  <2> QED
    BY <2>1, <2>2, <2>3
<1>4. CASE AppendSome
  <2>1. PICK n \in Appended : made + n <= MaxMade /\ made' = made + n
    BY <1>4 DEF AppendSome
  <2>2. n \in Nat /\ n > 0
    BY RawAssumption
  <2> QED
    BY <1>0, <2>1, <2>2
<1>5. CASE Return \/ Invalid
  BY <1>5 DEF Return, Invalid, source, sink, Stage
<1>6. CASE WriteSome
  <2>1. PICK n \in 1 .. left : left' = left - n
    BY <1>6 DEF WriteSome
  <2>2. UNCHANGED <<made, ptr, want, phase>>
    BY <1>6 DEF WriteSome, source
  <2> QED
    BY <1>0, <2>1, <2>2 DEF Stage
<1>7. CASE WriteFails \/ WriteEnds
  BY <1>7 DEF WriteFails, WriteEnds, source, sink, Stage
<1> QED
  BY <1>1, <1>2, <1>3, <1>4, <1>5, <1>6, <1>7
     DEF Next, Library, Sink, Interrupted, ReadInterrupted, WriteInterrupted, Idle

(* Every step leads closer to the end, however read() and write() split up *)
(* the bytes, but for one case: the library compresses and wants more than *)
(* it can get (raw_format.cpp:103-141, snzip.c:625-641). A call that is    *)
(* interrupted changes nothing.                                            *)
THEOREM EveryStepIsCloser == Spec => [][Hungry \/ Closer]_vars
<1>1. IInv /\ IInv' /\ [Next]_vars => [Hungry \/ Closer]_vars
  BY StepCloser
<1>2. QED
  BY <1>1, Invariant, PTL DEF Spec

=============================================================================
