--------------------------- MODULE SnzipMainProofs ---------------------------
(***************************************************************************)
(* Proofs about the driver, for every set of command lines, files, names   *)
(* and failures: the inductive invariant IInv of SnzipMain, and what       *)
(* follows from it.                                                        *)
(*                                                                         *)
(* The argument has three layers.  Typed says where main() is and what it  *)
(* has in hand; with it, each action alters at most one file.  Untouched   *)
(* says that this file is never an argument but the one that is unlinked.  *)
(* Kept says that what has been written is a beginning of the conversion,  *)
(* and all of it when main() comes to unlink the argument.                 *)
(***************************************************************************)
EXTENDS SnzipMain, SequenceTheorems, FiniteSetTheorems, TLAPS

(* The layers of the invariant.                                            *)
Typed == TypeOK /\ InHand /\ OutputInHand
Untouched == InputsNeverAltered /\
  (cmd \in SafeCommands /\ ~Filter(cmd) =>
     (pc \in Busy \/ out \notin {NoFile, Stdout} =>
        fs[cmd.args[optind]] = orig[cmd.args[optind]]))

(* A file system in which nothing but file o has changed, and o is there.  *)
Alters(o) ==
  /\ fs' \in [Names -> Files \cup {Absent}]
  /\ fs'[o] \in Files
  /\ \A m \in Names \ {o} : fs'[m] = fs[m]

-----------------------------------------------------------------------------
(* Facts about the constants and the operators.                            *)

(* What a command line is made of, and what its arguments become.          *)
LEMMA CommandFacts ==
  ASSUME NEW c \in Commands
  PROVE  /\ c.args \in Seq(Names \ {Stdin, Stdout})
         /\ Len(c.args) \in Nat /\ DOMAIN c.args = 1 .. Len(c.args)
         /\ \A k \in DOMAIN c.args :
              /\ c.args[k] \in Names \ {Stdin, Stdout}
              /\ c.args[k] \in Seq(STRING)
              /\ \A f \in Formats : OutName(c, c.args[k], f) \in Names \ {Stdin, Stdout}
         /\ Filter(c) <=> Len(c.args) = 0
<1>1. c.args \in Seq(Names \ {Stdin, Stdout})
  BY CommandsAssumption
<1>2. /\ Len(c.args) \in Nat /\ DOMAIN c.args = 1 .. Len(c.args)
      /\ \A k \in DOMAIN c.args : c.args[k] \in Names \ {Stdin, Stdout}
  BY <1>1, LenProperties, ElementOfSeq
<1>3. \A k \in DOMAIN c.args : c.args[k] \in Seq(STRING)
  BY <1>2, NamesAssumption
<1>4. \A k \in DOMAIN c.args : \A f \in Formats :
        OutName(c, c.args[k], f) \in Names \ {Stdin, Stdout}
  BY CommandsAssumption DEF Outputs
<1>5. Filter(c) <=> Len(c.args) = 0
  BY <1>1, EmptySeq DEF Filter
<1> QED
  BY <1>1, <1>2, <1>3, <1>4, <1>5

(* Standard input and output and "no file" are three different names.      *)
LEMMA StandardNames ==
  /\ Stdin \in Names /\ Stdout \in Names /\ NoFile \notin Names
  /\ Stdin # Stdout
<1>1. Stdin[1] = "(stdin)" /\ Stdout[1] = "(stdout)"
  BY DEF Stdin, Stdout
<1> QED
  BY <1>1, NamesAssumption

(* An output never has the name of the file it is made from: a suffix is   *)
(* appended or removed (snzip.c:390-412).                                  *)
LEMMA OutNameDiffers ==
  ASSUME NEW c, NEW n \in Seq(STRING), NEW f \in Formats
  PROVE  OutName(c, n, f) # n
<1>1. SuffixOf[f] \in {"sz", "snz", "raw", "iwa", "snappy"}
  BY DEF SuffixOf
<1>2. \A s \in {"sz", "snz", "raw", "iwa", "snappy", "out"} :
        Append(n, s) # n
  <2>1. \A s : Len(Append(n, s)) = Len(n) + 1 /\ Len(n) \in Nat
    OBVIOUS
  <2> QED
    BY <2>1
<1>3. HasSuffix(n) => SubSeq(n, 1, Len(n) - 1) # n
  <2>1. HasSuffix(n) => Len(SubSeq(n, 1, Len(n) - 1)) = Len(n) - 1
                        /\ Len(n) \in Nat
    BY DEF HasSuffix
  <2> QED
    BY <2>1
<1> QED
  BY <1>1, <1>2, <1>3, Zenon DEF OutName

(* The elements of a finite set of integers, counted from the least on,    *)
(* take every number up to its size.                                       *)
Rank(S, i) == Cardinality({k \in S : k <= i})
LEMMA RankFacts ==
  ASSUME NEW S, S \subseteq Int, IsFiniteSet(S)
  PROVE  /\ Cardinality(S) \in Nat
         /\ \A i \in S : Rank(S, i) \in 1 .. Cardinality(S)
         /\ \A i, k \in S : i < k => Rank(S, i) < Rank(S, k)
         /\ \A j \in 1 .. Cardinality(S) : \E i \in S : Rank(S, i) = j
<1> DEFINE Up(i) == {k \in S : k <= i}
           r == [i \in S |-> Rank(S, i)]
<1>1. Cardinality(S) \in Nat /\ \A i \in S : i \in Int
  BY FS_CardinalityType
<1>2. ASSUME NEW i \in S
      PROVE  /\ Up(i) \in SUBSET S /\ i \in Up(i)
             /\ \A k \in S : i < k => Up(i) \in SUBSET Up(k) /\ k \notin Up(i)
  <2>1. Up(i) \in SUBSET S /\ i \in Up(i)
    BY <1>1
  <2>2. ASSUME NEW k \in S, i < k
        PROVE  Up(i) \in SUBSET Up(k) /\ k \notin Up(i)
    <3>1. \A x \in S : x <= i => x <= k
      BY <1>1, <2>2
    <3>2. ~(k <= i)
      BY <1>1, <2>2
    <3> QED
      BY <3>1, <3>2
  <2> QED
    BY <2>1, <2>2
<1>3. \A i \in S : Rank(S, i) = Cardinality(Up(i))
  BY DEF Rank
<1> HIDE DEF Up
<1>4. ASSUME NEW i \in S
      PROVE  IsFiniteSet(Up(i)) /\ Rank(S, i) \in 1 .. Cardinality(S)
  <2>1. IsFiniteSet(Up(i)) /\ Cardinality(Up(i)) <= Cardinality(S)
    BY <1>2, FS_Subset
  <2>2. Cardinality(Up(i)) \in Nat /\ Cardinality(Up(i)) # 0
    BY <1>2, <2>1, FS_CardinalityType, FS_EmptySet
  <2> QED
    BY <1>1, <1>3, <2>1, <2>2
<1>5. \A i \in S : Rank(S, i) \in 1 .. Cardinality(S) /\ Rank(S, i) \in Nat
  BY <1>1, <1>4
<1>6. ASSUME NEW i \in S, NEW k \in S, i < k
      PROVE  Rank(S, i) < Rank(S, k)
  <2>1. Up(i) \in SUBSET Up(k) /\ k \in Up(k) /\ k \notin Up(i)
    BY <1>2, <1>6
  <2>2. /\ Cardinality(Up(i)) <= Cardinality(Up(k))
        /\ Cardinality(Up(i)) # Cardinality(Up(k))
    BY <1>4, <2>1, FS_Subset
  <2>3. /\ Rank(S, i) \in Nat /\ Rank(S, k) \in Nat
        /\ Rank(S, i) <= Rank(S, k) /\ Rank(S, i) # Rank(S, k)
    BY <1>3, <1>5, <2>2
  <2> QED
    BY <2>3
<1>7. r \in Injection(S, 1 .. Cardinality(S))
  <2>1. r \in [S -> 1 .. Cardinality(S)]
    BY <1>5
  <2>2. ASSUME NEW i \in S, NEW k \in S, r[i] = r[k]
        PROVE  i = k
    <3>1. Rank(S, i) = Rank(S, k)
      BY <2>2
    <3>2. i < k => Rank(S, i) < Rank(S, k)
      BY <1>6
    <3>3. k < i => Rank(S, k) < Rank(S, i)
      BY <1>6
    <3>4. Rank(S, i) \in Nat /\ Rank(S, k) \in Nat
      BY <1>5
    <3> QED
      BY <1>1, <3>1, <3>2, <3>3, <3>4
  <2> QED
    BY <2>1, <2>2 DEF Injection, IsInjective
<1>8. /\ IsFiniteSet(1 .. Cardinality(S))
      /\ Cardinality(1 .. Cardinality(S)) = Cardinality(S)
  BY <1>1, FS_Interval
<1>9. r \in Surjection(S, 1 .. Cardinality(S))
  BY <1>7, <1>8, FS_Injection
<1>10. \A j \in 1 .. Cardinality(S) : \E i \in S : Rank(S, i) = j
  BY <1>9 DEF Surjection
<1> QED
  BY <1>1, <1>5, <1>6, <1>10

(* The blocks of a file are numbered: each number has a block, each block  *)
(* a number.                                                               *)
LEMMA BlockFacts ==
  ASSUME NEW f, NEW d \in Seq(Pieces)
  PROVE  /\ Cardinality(BlocksAt(f, d)) \in Nat
         /\ BlocksAt(f, d) \subseteq DOMAIN d /\ DOMAIN d = 1 .. Len(d)
         /\ \A j \in 1 .. Cardinality(BlocksAt(f, d)) :
              /\ BlockIndex(f, d, j) \in BlocksAt(f, d)
              /\ Rank(BlocksAt(f, d), BlockIndex(f, d, j)) = j
         /\ \A i \in BlocksAt(f, d) :
              \E j \in 1 .. Cardinality(BlocksAt(f, d)) :
                BlockIndex(f, d, j) = i
<1> DEFINE S == BlocksAt(f, d)
<1>1. Len(d) \in Nat /\ DOMAIN d = 1 .. Len(d)
  BY LenProperties
<1>2. S \in SUBSET (1 .. Len(d)) /\ S \subseteq Int
  BY <1>1 DEF BlocksAt, Read
<1>3. IsFiniteSet(S)
  <2>1. IsFiniteSet(1 .. Len(d))
    BY <1>1, FS_Interval
  <2> HIDE DEF S
  <2> QED
    BY <1>2, <2>1, FS_Subset
<1>4. /\ Cardinality(S) \in Nat
      /\ \A i \in S : Rank(S, i) \in 1 .. Cardinality(S)
      /\ \A i, k \in S : i < k => Rank(S, i) < Rank(S, k)
      /\ \A j \in 1 .. Cardinality(S) : \E i \in S : Rank(S, i) = j
  BY <1>2, <1>3, RankFacts
<1>5. \A j : BlockIndex(f, d, j) = CHOOSE i \in S : Rank(S, i) = j
  BY Zenon DEF BlockIndex, Rank
<1>6. ASSUME NEW j \in 1 .. Cardinality(S)
      PROVE  BlockIndex(f, d, j) \in S /\ Rank(S, BlockIndex(f, d, j)) = j
  BY <1>4, <1>5
<1>7. ASSUME NEW i \in S
      PROVE  \E j \in 1 .. Cardinality(S) : BlockIndex(f, d, j) = i
  <2> DEFINE j == Rank(S, i)
             b == BlockIndex(f, d, j)
  <2>1. j \in 1 .. Cardinality(S) /\ b \in S /\ Rank(S, b) = j
    BY <1>4, <1>6
  <2>2. ~(b < i) /\ ~(i < b)
    <3>1. j \in Int
      BY <2>1
    <3>2. b < i => j < j
      BY <1>4, <2>1
    <3>3. i < b => j < j
      BY <1>4, <2>1
    <3> QED
      BY <3>1, <3>2, <3>3
  <2>3. b = i
    BY <1>2, <2>1, <2>2
  <2> QED
    BY <2>1, <2>3
<1> QED
  BY <1>1, <1>2, <1>4, <1>6, <1>7

(* Whatever a codec makes of pieces is a sequence of pieces.               *)
LEMMA ConvertedType ==
  ASSUME NEW f \in Formats, NEW un \in BOOLEAN, NEW d \in Seq(Pieces)
  PROVE  Converted(f, un, d) \in Seq(Pieces)
<1>1. Lead(f) \in {0, 1} /\ Trail(f) \in {0, 1}
  BY DEF Lead, Trail
<1>2. Len(d) \in Nat /\ \A j \in 1 .. Len(d) : d[j] \in Pieces
  BY ElementOfSeq, LenProperties
<1>3. Magic(f) \in Pieces /\ EndMark(f) \in Pieces
  BY DEF Magic, EndMark, Piece, Pieces
<1>4. \A p \in Pieces : [p EXCEPT !.enc = f] \in Pieces
                        /\ [p EXCEPT !.enc = "plain"] \in Pieces
  BY DEF Pieces
<1>5. Encoded(f, d) \in Seq(Pieces)
  <2> DEFINE n == Lead(f) + Len(d) + Trail(f)
  <2>1. n \in Nat
    BY <1>1, <1>2
  <2>2. Encoded(f, d) \in [1 .. n -> Pieces]
    <3>1. ASSUME NEW j \in 1 .. n, ~(j <= Lead(f)), j <= Lead(f) + Len(d)
          PROVE  [d[j - Lead(f)] EXCEPT !.enc = f] \in Pieces
      <4>1. j - Lead(f) \in 1 .. Len(d)
        BY <1>1, <1>2, <3>1
      <4> QED
        BY <4>1, <1>2, <1>4
    <3> QED
      BY <3>1, <1>3 DEF Encoded
  <2> QED
    BY <2>1, <2>2, SeqDef
<1>6. Decoded(f, d) \in Seq(Pieces)
  <2> DEFINE c == Cardinality(BlocksAt(f, d))
  <2>1. c \in Nat /\ \A j \in 1 .. c : d[BlockIndex(f, d, j)] \in Pieces
    BY <1>2, BlockFacts
  <2>2. Decoded(f, d) \in [1 .. c -> Pieces]
    BY <1>4, <2>1 DEF Decoded
  <2> QED
    BY <2>1, <2>2, SeqDef
<1> QED
  BY <1>5, <1>6 DEF Converted

(* A conversion has all of the text, but for a .snz file that goes on      *)
(* behind its end mark: nothing in a file that a decoder accepts is left   *)
(* out (snzip-format.c:220-224).                                           *)
LEMMA ConversionKeepsText ==
  ASSUME NEW f \in Formats, NEW un \in BOOLEAN, NEW d \in Seq(Pieces),
         WellFormed(f, un, d)
  PROVE  \/ TextOf(Converted(f, un, d)) = TextOf(d)
         \/ un /\ f = "snzip" /\ Behind(d)
<1>1. Len(d) \in Nat /\ DOMAIN d = 1 .. Len(d)
      /\ \A j \in 1 .. Len(d) : d[j] \in Pieces
  BY ElementOfSeq, LenProperties
<1>2. \A p \in Pieces : \A e :
        [p EXCEPT !.enc = e].of = p.of /\ [p EXCEPT !.enc = e].i = p.i
  BY DEF Pieces
<1>3. "magic" \notin Payloads /\ "end" \notin Payloads
  BY PayloadsAssumption
<1>4. Magic(f).of = "magic" /\ EndMark(f).of = "end"
  BY DEF Magic, EndMark, Piece
<1>5. CASE ~un
  <2> DEFINE l == Lead(f)
             e == Encoded(f, d)
             m == l + Len(d) + Trail(f)
  <2>1. l \in {0, 1} /\ m \in Nat /\ l + Len(d) <= m
    <3>1. Lead(f) \in {0, 1} /\ Trail(f) \in {0, 1}
      BY DEF Lead, Trail
    <3> QED
      BY <1>1, <3>1
  <2>2. DOMAIN e = 1 .. m
    BY DEF Encoded
  <2>3. \A j \in 1 .. m :
          e[j] = IF j <= l THEN Magic(f)
                 ELSE IF j <= l + Len(d) THEN [d[j - l] EXCEPT !.enc = f]
                 ELSE EndMark(f)
    BY DEF Encoded
  <2> HIDE DEF l, e, m
  <2>4. ASSUME NEW j \in 1 .. m, e[j].of \in Payloads
        PROVE  j - l \in 1 .. Len(d) /\ e[j].of = d[j - l].of /\ e[j].i = d[j - l].i
    <3>1. ~(j <= l) /\ j <= l + Len(d)
      BY <1>3, <1>4, <2>3, <2>4
    <3>2. j - l \in 1 .. Len(d)
      BY <1>1, <2>1, <3>1
    <3>3. e[j] = [d[j - l] EXCEPT !.enc = f]
      BY <2>3, <3>1
    <3> QED
      BY <1>1, <1>2, <3>2, <3>3
  <2>5. ASSUME NEW j \in 1 .. Len(d)
        PROVE  l + j \in 1 .. m /\ e[l + j].of = d[j].of /\ e[l + j].i = d[j].i
    <3> DEFINE x == l + j
    <3>1. x \in 1 .. m /\ ~(x <= l) /\ x <= l + Len(d) /\ x - l = j
      BY <1>1, <2>1
    <3> HIDE DEF x
    <3>2. e[x] = [d[j] EXCEPT !.enc = f]
      BY <2>3, <3>1
    <3> QED
      BY <1>1, <1>2, <3>1, <3>2 DEF x
  <2>6. TextOf(e) \subseteq TextOf(d)
    BY <1>1, <2>2, <2>4 DEF TextOf
  <2>7. TextOf(d) \subseteq TextOf(e)
    BY <1>1, <2>2, <2>5 DEF TextOf
  <2> QED
    BY <1>5, <2>6, <2>7 DEF Converted, e
<1>6. CASE un
  <2> DEFINE c == Cardinality(BlocksAt(f, d))
             at(j) == BlockIndex(f, d, j)
             e == Decoded(f, d)
  <2>1. /\ DOMAIN e = 1 .. c
        /\ \A j \in 1 .. c :
             /\ at(j) \in DOMAIN d
             /\ e[j].of = d[at(j)].of /\ e[j].i = d[at(j)].i
    BY <1>1, <1>2, BlockFacts DEF Decoded
  <2>2. TextOf(e) \subseteq TextOf(d)
    BY <2>1 DEF TextOf
  <2>3. ASSUME ~(f = "snzip" /\ Behind(d)), NEW i \in DOMAIN d,
               d[i].of \in Payloads
        PROVE  i \in BlocksAt(f, d)
    <3>1. i \in Read(f, d)
      <4>1. ASSUME f = "snzip", NEW k \in 1 .. i - 1, d[k] = EndMark(f)
            PROVE  FALSE
        <5>1. k \in 1 .. Len(d) - 1
          BY <1>1, <2>3, <4>1
        <5> QED
          BY <2>3, <4>1, <5>1 DEF Behind
      <4> QED
        BY <4>1 DEF Read
    <3>2. Sound(f, d, i)
      BY <1>6, <3>1 DEF WellFormed
    <3>3. IsBlock(f, d[i])
      BY <1>3, <1>4, <2>3, <3>2 DEF Sound
    <3> QED
      BY <3>1, <3>3 DEF BlocksAt
  <2>4. ASSUME ~(f = "snzip" /\ Behind(d))
        PROVE  TextOf(d) \subseteq TextOf(e)
    <3>1. ASSUME NEW i \in DOMAIN d, d[i].of \in Payloads
          PROVE  \E j \in DOMAIN e : e[j].of = d[i].of /\ e[j].i = d[i].i
      <4>1. PICK j \in 1 .. c : at(j) = i
        BY <2>3, <2>4, <3>1, BlockFacts
      <4> QED
        BY <2>1, <4>1
    <3> QED
      BY <3>1 DEF TextOf
  <2> QED
    BY <1>6, <2>2, <2>4 DEF Converted
<1> QED
  BY <1>5, <1>6

(* Pieces that are put into file o alter that file and no other.           *)
LEMMA AppendToAlters ==
  ASSUME TypeOK, NEW o \in Names, fs[o] # Absent, NEW ps \in Seq(Pieces),
         fs' = AppendTo(o, ps)
  PROVE  Alters(o) /\ fs'[o].data = fs[o].data \o ps
<1>1. fs \in [Names -> Files \cup {Absent}] /\ fs[o] \in Files
  BY DEF TypeOK
<1>2. fs[o].data \o ps \in Seq(Pieces)
  BY <1>1, ConcatProperties DEF Files
<1>3. fs[o].attrs \in Attributes /\ "new" \in Attributes
  BY <1>1, FilesAssumption DEF Files
<1> DEFINE r == [data |-> fs[o].data \o ps,
                 attrs |-> IF ps = <<>> THEN fs[o].attrs ELSE "new"]
<1>4. r \in Files /\ r.data = fs[o].data \o ps
  <2>1. (IF ps = <<>> THEN fs[o].attrs ELSE "new") \in Attributes
    BY <1>3
  <2> QED
    BY <1>2, <2>1 DEF Files
<1>5. fs' = [fs EXCEPT ![o] = r]
  BY DEF AppendTo
<1> HIDE DEF r
<1> QED
  BY <1>1, <1>4, <1>5 DEF Alters

(* So does emptying the stdio buffer; when nothing fails in it, all of the *)
(* buffer has gone into the file.                                          *)
LEMMA FlushAlters ==
  ASSUME TypeOK, out \in Names, fs[out] # Absent,
         NEW n \in 0 .. Len(buf), Flush(n)
  PROVE  /\ Alters(out)
         /\ buf' = <<>> /\ ferr' \in BOOLEAN
         /\ ~ferr' => ~ferr /\ fs'[out].data = fs[out].data \o buf
<1>1. buf \in Seq(Pieces) /\ Len(buf) \in Nat
  BY DEF TypeOK
<1>2. SubSeq(buf, 1, n) \in Seq(Pieces)
  <2>1. \A i \in 1 .. n : buf[i] \in Pieces
    BY <1>1, ElementOfSeq
  <2> QED
    BY <1>1, <2>1, SubSeqProperties
<1>3. Alters(out) /\ fs'[out].data = fs[out].data \o SubSeq(buf, 1, n)
  BY <1>2, AppendToAlters DEF Flush
<1>4. ~ferr' => ~ferr /\ n = Len(buf)
  <2>1. ~ferr' => ~ferr /\ ~(n < Len(buf))
    BY Zenon DEF Flush
  <2>2. ~(n < Len(buf)) => n = Len(buf)
    BY <1>1
  <2> QED
    BY <2>1, <2>2, Zenon
<1>5. SubSeq(buf, 1, Len(buf)) = buf
  BY <1>1, SubSeqFull
<1>6. buf' = <<>> /\ ferr' \in BOOLEAN
  BY DEF Flush, TypeOK
<1> QED
  BY <1>3, <1>4, <1>5, <1>6

-----------------------------------------------------------------------------
(* The first layer: where main() is and what it has in hand.               *)

(* The file open for output is there, and is not the input.                *)
LEMMA OutputFacts ==
  ASSUME Typed, pc \in Writing \/ out # NoFile
  PROVE  /\ out \in Names \ {Stdin} /\ fs[out] \in Files
         /\ out # Stdout => out \in Names \ {Stdin, Stdout}
<1>1. CASE out = Stdout
  BY <1>1, StandardNames DEF Typed, TypeOK, InHand
<1>2. CASE out # Stdout
  <2>1. out # NoFile
    <3>1. CASE pc \in Writing
      <4>1. cmd \in Commands /\ fmt \in Formats /\ ToFile /\ optind \in Args
        BY <1>2, <3>1
        DEF Typed, TypeOK, InHand, OutputInHand, Writing, Busy, ToFile
      <4>2. out = OutName(cmd, cmd.args[optind], fmt)
        BY <1>2, <3>1, <4>1 DEF Typed, OutputInHand, In, ToFile
      <4> QED
        BY <4>1, <4>2, CommandFacts, StandardNames DEF Args
    <3>2. CASE out # NoFile
      BY <3>2
    <3> QED
      BY <3>1, <3>2
  <2>2. /\ cmd \in Commands /\ optind \in Args /\ fs[out] # Absent
        /\ out \in Outputs(cmd, cmd.args[optind])
    BY <1>2, <2>1 DEF Typed, TypeOK, OutputInHand
  <2>3. out \in Names \ {Stdin, Stdout}
    BY <2>2, CommandFacts DEF Outputs, Args
  <2> QED
    BY <2>2, <2>3 DEF Typed, TypeOK
<1> QED
  BY <1>1, <1>2

(* The input in hand is standard input or an argument, never the output.   *)
LEMMA InputFacts ==
  ASSUME Typed, pc \in Busy \/ pc = "open"
  PROVE  /\ In \in Names \ {Stdout}
         /\ pc # "open" => fs[In] \in Files
         /\ pc \in Writing => In # out
<1>1. cmd \in Commands /\ (Filter(cmd) \/ optind \in Args)
  BY DEF Typed, TypeOK, InHand
<1>2. CASE Filter(cmd)
  <2>1. In = Stdin
    BY <1>2 DEF In
  <2>2. pc \in Writing => out = Stdout
    BY <1>2 DEF Typed, OutputInHand, ToFile
  <2> QED
    BY <1>2, <2>1, <2>2, StandardNames DEF Typed, TypeOK, InHand
<1>3. CASE ~Filter(cmd)
  <2>1. /\ In = cmd.args[optind] /\ In \in Names \ {Stdin, Stdout}
        /\ In \in Seq(STRING)
    BY <1>1, <1>3, CommandFacts DEF In, Args
  <2>2. pc # "open" => fs[In] \in Files
    BY <2>1 DEF Typed, TypeOK, InHand
  <2>3. CASE pc \in Writing
    <3>1. fmt \in Formats
      BY <2>3 DEF Typed, InHand, Writing, Busy
    <3>2. out = OutName(cmd, In, fmt) \/ out = Stdout
      BY <2>3 DEF Typed, OutputInHand
    <3> QED
      BY <2>1, <2>2, <3>1, <3>2, OutNameDiffers
  <2> QED
    BY <2>1, <2>2, <2>3
<1> QED
  BY <1>2, <1>3

(* The header of a file is that of a format, or of none.                   *)
LEMMA DetectedType ==
  ASSUME NEW d
  PROVE  Detected(d) \subseteq Formats \cup {NoFormat}
<1>1. HasMagic \subseteq Formats /\ "hadoop-snappy" \in Formats
  BY DEF HasMagic, Formats
<1>2. \A f \in HasMagic : d[1] = Magic(f) => d[1].enc = f
  BY DEF Magic, Piece
<1> QED
  BY <1>1, <1>2 DEF Detected

(* Init => IInv, first layer.                                              *)
LEMMA InitTyped == Init => Typed
<1> SUFFICES ASSUME Init PROVE Typed
  OBVIOUS
<1>1. /\ cmd \in Commands /\ Len(cmd.args) \in Nat
      /\ fs \in [Names -> Files \cup {Absent}]
      /\ fs[Stdin] # Absent /\ fs[Stdout] # Absent
  BY CommandFacts, FilesAssumption DEF Init
<1>2. TypeOK
  <2>1. <<>> \in Seq(Pieces)
    BY EmptySeq
  <2>2. pc \in PCs /\ out \in {NoFile} /\ pos \in Nat /\ status \in {0, 1}
    BY DEF Init, PCs
  <2>3. fmt \in Formats \cup {NoFormat} /\ optind \in 0 .. Len(cmd.args)
    BY <1>1, FormatAssumption DEF Init
  <2>4. /\ ferr \in BOOLEAN /\ runs \in Nat
        /\ ignored \in BOOLEAN /\ abandoned \in BOOLEAN
    BY DEF Init
  <2> QED
    BY <1>1, <2>1, <2>2, <2>3, <2>4 DEF Init, TypeOK
<1>3. InHand /\ OutputInHand
  BY <1>1 DEF Init, InHand, OutputInHand, Busy, Writing
<1> QED
  BY <1>2, <1>3 DEF Typed

(* Before an output is open: options, arguments, formats.                  *)
LEMMA TypedBeforeOutput ==
  ASSUME Typed, Start \/ TakeArg \/ NoMoreArgs \/ OpenInput \/ DetectFormat
  PROVE  Typed'
<1>0. /\ Len(cmd.args) \in Nat /\ DOMAIN cmd.args = 1 .. Len(cmd.args)
      /\ Filter(cmd) <=> Len(cmd.args) = 0
  BY CommandFacts DEF Typed, TypeOK
<1>1. CASE Start
  BY <1>0, <1>1, FormatAssumption
  DEF Typed, TypeOK, InHand, OutputInHand, PCs, Busy, Writing, ToFile, In, Args,
      stream, history, Start, Leave
<1>2. CASE TakeArg
  BY <1>0, <1>2
  DEF Typed, TypeOK, InHand, OutputInHand, PCs, Busy, Writing, ToFile, In, Args,
      stream, history, TakeArg
<1>3. CASE NoMoreArgs
  BY <1>0, <1>3
  DEF Typed, TypeOK, InHand, OutputInHand, PCs, Busy, Writing, ToFile, In, Args,
      stream, history, NoMoreArgs, Leave
<1>4. CASE OpenInput
  BY <1>0, <1>4
  DEF Typed, TypeOK, InHand, OutputInHand, PCs, Busy, Writing, ToFile, In, Args,
      stream, history, OpenInput, Leave
<1>5. CASE DetectFormat
  <2>1. /\ pc = "detect" /\ fmt' \in Formats \cup {NoFormat}
        /\ UNCHANGED <<cmd, fs, optind, stream, runs, history>>
    BY <1>5, DetectedType DEF DetectFormat, Typed, TypeOK
  <2>2. \/ fmt' = NoFormat /\ Leave(1)
        \/ fmt' \in Formats /\ pc' = "create" /\ UNCHANGED status
    BY <1>5, <2>1, Zenon DEF DetectFormat
  <2> QED
    BY <1>0, <2>1, <2>2
  DEF Typed, TypeOK, InHand, OutputInHand, PCs, Busy, Writing, ToFile, In, Args,
      stream, history, Leave
<1> QED
  BY <1>1, <1>2, <1>3, <1>4, <1>5

(* What the codec puts out is a piece.                                     *)
LEMMA OutputType ==
  ASSUME Typed, pc \in Busy \ {"detect"}
  PROVE  /\ Output \in Seq(Pieces) /\ Len(Output) \in Nat
         /\ Reads(pos + 1) => pos + 1 \in 1 .. Len(Output)
                              /\ Output[pos + 1] \in Pieces
<1>1. Input \in Seq(Pieces)
  BY InputFacts DEF Files, Busy, Input
<1>2. fmt \in Formats /\ Un \in BOOLEAN /\ pos \in Nat
  BY DEF Typed, TypeOK, InHand, Un, OptUncompress
<1>3. Output \in Seq(Pieces) /\ Len(Output) \in Nat
  BY <1>1, <1>2, ConvertedType, LenProperties DEF Output
<1>4. Reads(pos + 1) => pos + 1 \in 1 .. Len(Output)
  BY <1>2, <1>3 DEF Reads
<1> QED
  BY <1>3, <1>4, ElementOfSeq

(* Opening the output.                                                     *)
LEMMA TypedCreateOutput ==
  ASSUME Typed, CreateOutput
  PROVE  Typed'
<1>1. pc = "create" /\ UNCHANGED <<cmd, optind, fmt, runs, history>>
  BY DEF CreateOutput
<1>2. fmt \in Formats /\ fs \in [Names -> Files \cup {Absent}]
  BY <1>1 DEF Typed, TypeOK, InHand, Busy
<1>3. CASE /\ Filter(cmd) \/ OptStdout(cmd)
           /\ out' = Stdout /\ pos' = 0 /\ pc' = "begin"
           /\ UNCHANGED <<fs, buf, ferr, status>>
  BY <1>1, <1>2, <1>3, StandardNames
  DEF Typed, TypeOK, InHand, OutputInHand, PCs, Busy, Writing, ToFile, In, Args,
      stream, history
<1>4. CASE /\ ~Filter(cmd) /\ ~OptStdout(cmd)
           /\ out' = OutName(cmd, In, fmt) /\ pos' = 0 /\ pc' = "begin"
           /\ fs' = [fs EXCEPT ![out'] = EmptyFile]
           /\ buf' = <<>> /\ ferr' = FALSE
           /\ UNCHANGED status
  <2>1. /\ cmd \in Commands /\ optind \in Args /\ In = cmd.args[optind]
        /\ out' \in Names \ {Stdin, Stdout}
        /\ out' \in Outputs(cmd, cmd.args[optind])
    BY <1>1, <1>2, <1>4, CommandFacts
    DEF Typed, TypeOK, InHand, In, Busy, Args, Outputs
  <2>2. EmptyFile \in Files /\ <<>> \in Seq(Pieces)
    BY FilesAssumption, EmptySeq DEF EmptyFile, Files
  <2>3. Alters(out')
    BY <1>2, <1>4, <2>1, <2>2 DEF Alters
  <2>4. TypeOK'
    BY <1>1, <1>2, <1>4, <2>1, <2>2, <2>3 DEF Typed, TypeOK, PCs, Alters, history
  <2>5. InHand'
    BY <1>1, <1>2, <1>4, <2>1, <2>3, StandardNames, NamesAssumption,
       CommandFacts
    DEF Typed, TypeOK, InHand, Alters, Busy, In, Args
  <2>6. OutputInHand'
    BY <1>1, <1>2, <1>4, <2>1, <2>3, NamesAssumption
    DEF OutputInHand, Alters, Writing, ToFile, In, Args
  <2> QED
    BY <2>4, <2>5, <2>6 DEF Typed
<1>5. CASE /\ ~Filter(cmd) /\ ~OptStdout(cmd) /\ "open" \in Faults
           /\ Leave(1) /\ UNCHANGED <<fs, stream>>
  BY <1>1, <1>2, <1>5
  DEF Typed, TypeOK, InHand, OutputInHand, PCs, Busy, Writing, ToFile, In, Args,
      stream, history, Leave
<1> QED
  BY <1>1, <1>3, <1>4, <1>5 DEF CreateOutput

(* While the output is open: a step that alters at most the output file    *)
(* and goes on to a place where it is still open keeps the first layer.    *)
LEMMA TypedWhileOpen ==
  ASSUME Typed, pc \in Writing, Alters(out) \/ UNCHANGED fs,
         UNCHANGED <<cmd, optind, fmt, out, runs, orig, before>>,
         pc' \in Writing \cup {"exiting", "loops"},
         pc' \in {"attrs", "close"} => ToFile,
         pos' \in Nat, buf' \in Seq(Pieces), ferr' \in BOOLEAN,
         status' \in {0, 1}, ignored' \in BOOLEAN, abandoned' \in BOOLEAN
  PROVE  Typed'
<1>1. /\ out \in Names /\ fs[out] \in Files
      /\ fs' \in [Names -> Files \cup {Absent}] /\ fs'[out] \in Files
      /\ \A m \in Names : fs[m] # Absent => fs'[m] # Absent
  BY OutputFacts, NamesAssumption DEF Alters, Typed, TypeOK
<1>2. TypeOK'
  BY <1>1 DEF Typed, TypeOK, PCs, Writing
<1>3. In \in Names /\ In' = In /\ ToFile' = ToFile /\ Args' = Args
  BY InputFacts DEF In, ToFile, Args, Writing, Busy
<1>4. InHand'
  BY <1>1, <1>3, StandardNames DEF Typed, InHand, Writing, Busy
<1>5. OutputInHand'
  BY <1>1, <1>3, NamesAssumption DEF Typed, OutputInHand, Writing
<1> QED
  BY <1>2, <1>4, <1>5 DEF Typed

(* The steps of the codec.                                                 *)
LEMMA TypedCodec ==
  ASSUME Typed, Codec
  PROVE  Typed' /\ (Alters(out) \/ UNCHANGED fs) /\ UNCHANGED <<cmd, optind, fmt, out, orig, before>>
<1> USE DEF Writing
<1>0. /\ pos \in Nat /\ buf \in Seq(Pieces) /\ ferr \in BOOLEAN
      /\ status \in {0, 1} /\ ignored \in BOOLEAN /\ abandoned \in BOOLEAN
      /\ pc \in {"begin", "convert"}
  BY DEF Typed, TypeOK, Codec, StartCodec, WriteDirect, DirectWriteFails,
     WriteBuffered, SpillAndWrite, SpillFails, ReadFails, OutOfMemory,
     CodecReturns
<1>1. out \in Names /\ fs[out] # Absent
  BY <1>0, OutputFacts, NamesAssumption
<1>2. /\ pos + 1 \in Nat
      /\ Reads(pos + 1) => Output[pos + 1] \in Pieces
                           /\ <<Output[pos + 1]>> \in Seq(Pieces)
  BY <1>0, OutputType DEF Busy
<1>3. CASE StartCodec
  <2>1. /\ pc' \in {"convert", "failed"}
        /\ UNCHANGED <<cmd, optind, fmt, out, pos, status, runs, history>>
    BY <1>3 DEF StartCodec
  <2>2. \/ UNCHANGED <<fs, buf, ferr>>
        \/ \E n \in 0 .. Len(buf) : Flush(n)
    BY <1>3, Zenon DEF StartCodec
  <2>3. \/ UNCHANGED <<fs, buf, ferr>>
        \/ Alters(out) /\ buf' \in Seq(Pieces) /\ ferr' \in BOOLEAN
    BY <1>1, <2>2, FlushAlters, EmptySeq DEF Typed
  <2> QED
    BY <1>0, <2>1, <2>3, TypedWhileOpen DEF history
<1>4. CASE WriteDirect
  <2>1. Alters(out)
    BY <1>1, <1>2, <1>4, AppendToAlters DEF WriteDirect, Typed
  <2> QED
    BY <1>0, <1>2, <1>4, <2>1, TypedWhileOpen DEF WriteDirect, history
<1>5. CASE DirectWriteFails
  BY <1>0, <1>5, TypedWhileOpen DEF DirectWriteFails, stream, history
<1>6. CASE WriteBuffered
  <2>1. buf' \in Seq(Pieces)
    BY <1>0, <1>2, <1>6 DEF WriteBuffered
  <2> QED
    BY <1>0, <1>2, <1>6, <2>1, TypedWhileOpen DEF WriteBuffered, history
<1>7. CASE SpillAndWrite
  <2>1. Alters(out)
    BY <1>0, <1>1, <1>7, AppendToAlters DEF SpillAndWrite, Typed
  <2> QED
    BY <1>0, <1>2, <1>7, <2>1, TypedWhileOpen DEF SpillAndWrite, history
<1>8. CASE SpillFails
  <2>1. PICK n \in 0 .. Len(buf) - 1 : fs' = AppendTo(out, SubSeq(buf, 1, n))
    BY <1>8 DEF SpillFails
  <2>2. SubSeq(buf, 1, n) \in Seq(Pieces)
    BY <1>0, ElementOfSeq, SubSeqProperties
  <2>3. Alters(out)
    BY <1>1, <2>1, <2>2, AppendToAlters DEF Typed
  <2>4. /\ pc' \in {"convert", "failed"} /\ pos' \in Nat
        /\ buf' \in Seq(Pieces) /\ ferr' \in BOOLEAN
        /\ UNCHANGED <<cmd, optind, fmt, out, status, runs, history>>
    BY <1>0, <1>2, <1>8, EmptySeq DEF SpillFails
  <2> QED
    BY <1>0, <2>3, <2>4, TypedWhileOpen DEF history
<1>9. CASE ReadFails
  BY <1>0, <1>9, TypedWhileOpen DEF ReadFails, stream
<1>10. CASE OutOfMemory
  BY <1>0, <1>10, TypedWhileOpen DEF OutOfMemory, Leave, stream, history
<1>11. CASE CodecReturns
  BY <1>0, <1>11, TypedWhileOpen DEF CodecReturns, stream, history
<1> QED
  BY <1>3, <1>4, <1>5, <1>6, <1>7, <1>8, <1>9, <1>10, <1>11 DEF Codec

(* The steps of main() after the codec.                                    *)
LEMMA TypedAfterCodec ==
  ASSUME Typed, \/ CodecFailed \/ FlushOutput \/ CopyAttributes
                \/ CloseFiles \/ KeepStdoutOpen \/ UnlinkInput
  PROVE  Typed'
<1>0. /\ pc \in Writing => out \in Names \ {Stdin} /\ fs[out] \in Files
      /\ pc \in Writing /\ out # Stdout => out \in Names \ {Stdin, Stdout}
      /\ pc \in Writing => In # out
      /\ pc \in Busy => In \in Names \ {Stdout} /\ fs[In] \in Files
  BY OutputFacts, InputFacts DEF Busy, Writing
<1>1. CASE CodecFailed
  <2>1. /\ pc = "failed" /\ pc' = "exiting" /\ status' = 1
        /\ UNCHANGED <<cmd, optind, fmt, pos, ferr, runs, orig, before, ignored>>
        /\ abandoned' \in BOOLEAN
    BY <1>1 DEF CodecFailed, Leave, Typed, TypeOK
  <2>2. CASE UNCHANGED <<fs, out, buf>>
    BY <2>1, <2>2
    DEF Typed, TypeOK, InHand, OutputInHand, PCs, Busy, Writing, ToFile, In, Args,
      stream, history
  <2>3. CASE /\ out # Stdout
             /\ fs' = [fs EXCEPT ![out] = Absent]
             /\ out' = NoFile /\ buf' = <<>>
    <3>1. out \in Names \ {Stdin, Stdout} /\ <<>> \in Seq(Pieces)
      BY <1>0, <2>1, <2>3, EmptySeq DEF Writing
    <3> QED
      BY <2>1, <2>3, <3>1, StandardNames
      DEF Typed, TypeOK, InHand, OutputInHand, PCs, Busy, Writing, ToFile, In, Args,
      stream, history
  <2> QED
    BY <1>1, <2>2, <2>3 DEF CodecFailed
<1>2. CASE FlushOutput
  <2>1. PICK n \in 0 .. Len(buf) : Flush(n)
    BY <1>2 DEF FlushOutput
  <2>2. Alters(out) /\ buf' \in Seq(Pieces) /\ ferr' \in BOOLEAN
    BY <1>0, <1>2, <2>1, FlushAlters, EmptySeq, NamesAssumption
    DEF FlushOutput, Typed, Writing
  <2>3. pc = "converted" /\ ToFile
    BY <1>2 DEF FlushOutput, Typed, OutputInHand, Writing
  <2> QED
    BY <1>2, <2>2, <2>3, TypedWhileOpen
    DEF FlushOutput, Typed, TypeOK, Writing, history
<1>3. CASE CopyAttributes
  <2>1. pc = "attrs" /\ ToFile
    BY <1>3 DEF CopyAttributes, Typed, InHand
  <2>2. Alters(out) \/ UNCHANGED fs
    <3>1. CASE fs' = [fs EXCEPT ![out].attrs = fs[In].attrs]
      <4>1. fs[In] \in Files /\ out \in Names /\ fs[out] \in Files
        BY <1>0, <2>1 DEF Busy, Writing
      <4>2. [fs[out] EXCEPT !.attrs = fs[In].attrs] \in Files
        BY <4>1 DEF Files
      <4> QED
        BY <3>1, <4>1, <4>2 DEF Alters, Typed, TypeOK
    <3> QED
      BY <1>3, <3>1 DEF CopyAttributes
  <2> QED
    BY <1>3, <2>1, <2>2, TypedWhileOpen
    DEF CopyAttributes, Typed, TypeOK, Writing, stream, history
<1>4. CASE CloseFiles
  <2>1. PICK n \in 0 .. Len(buf) : Flush(n)
    BY <1>4 DEF CloseFiles
  <2>2. Alters(out) /\ buf' \in Seq(Pieces) /\ ferr' \in BOOLEAN
    BY <1>0, <1>4, <2>1, FlushAlters, EmptySeq, NamesAssumption
    DEF CloseFiles, Typed, Writing
  <2>3. /\ pc = "close" /\ pc' = "unlink" /\ ToFile /\ out' = NoFile
        /\ ignored' \in BOOLEAN
        /\ UNCHANGED <<cmd, optind, fmt, pos, status, runs, orig, before,
                       abandoned>>
    BY <1>4, <2>2 DEF CloseFiles, Typed, InHand, TypeOK
  <2>4. \A m \in Names : fs[m] # Absent => fs'[m] # Absent
    BY <2>2, NamesAssumption DEF Alters
  <2>5. In \in Names
    BY <1>0, <2>3 DEF Busy
  <2> QED
    BY <2>2, <2>3, <2>4, <2>5, StandardNames
    DEF Typed, TypeOK, InHand, OutputInHand, PCs, Busy, Writing, ToFile, In, Args,
      stream, history, Alters
<1>5. CASE KeepStdoutOpen
  <2>1. /\ pc = "converted" /\ out = Stdout
        /\ UNCHANGED <<cmd, fs, optind, fmt, stream, runs, orig, before,
                       abandoned>>
        /\ ignored' \in BOOLEAN
    BY <1>5 DEF KeepStdoutOpen, Typed, TypeOK
  <2>2. \/ Filter(cmd) /\ Leave(0)
        \/ ~Filter(cmd) /\ pc' = "unlink" /\ UNCHANGED status
    BY <1>5, Zenon DEF KeepStdoutOpen
  <2> QED
    BY <2>1, <2>2
    DEF Typed, TypeOK, InHand, OutputInHand, PCs, Busy, Writing, ToFile, In, Args,
      stream, history, Leave
<1>6. CASE UnlinkInput
  <2>1. /\ pc = "unlink" /\ pc' = "next" /\ ~Filter(cmd)
        /\ UNCHANGED <<cmd, optind, fmt, stream, status, runs, history>>
    BY <1>6 DEF UnlinkInput, Typed, InHand
  <2>2. cmd \in Commands /\ optind \in Args /\ In = cmd.args[optind]
    BY <2>1 DEF Typed, TypeOK, InHand, In, Busy
  <2>3. In \in Names \ {Stdin, Stdout}
    BY <2>2, CommandFacts DEF Args
  <2>4. \/ UNCHANGED fs
        \/ fs' = [fs EXCEPT ![In] = Absent]
    BY <1>6 DEF UnlinkInput
  <2>5. /\ fs' \in [Names -> Files \cup {Absent}]
        /\ fs'[Stdin] # Absent /\ fs'[Stdout] # Absent
    BY <2>3, <2>4, StandardNames DEF Typed, TypeOK, InHand
  <2> QED
    BY <2>1, <2>2, <2>5
    DEF Typed, TypeOK, InHand, OutputInHand, PCs, Busy, Writing, ToFile, In, Args,
      stream, history
<1> QED
  BY <1>1, <1>2, <1>3, <1>4, <1>5, <1>6

(* The end of a run, and the next one.                                     *)
LEMMA TypedEnds ==
  ASSUME Typed, Exit \/ Kill \/ Rerun \/ UNCHANGED vars
  PROVE  Typed'
<1>1. CASE Exit
  <2>1. /\ pc = "exiting" /\ pc' = "exit"
        /\ UNCHANGED <<cmd, optind, fmt, out, pos, status, runs, orig, before,
                       abandoned>>
    BY <1>1 DEF Exit
  <2>2. CASE UNCHANGED <<fs, buf, ferr, ignored>>
    BY <2>1, <2>2
    DEF Typed, TypeOK, InHand, OutputInHand, PCs, Busy, Writing, ToFile, In, Args,
      stream, history
  <2>3. CASE /\ out # NoFile
             /\ \E n \in 0 .. Len(buf) :
                  Flush(n) /\ ignored' = (ignored \/ n < Len(buf))
    <3>1. PICK n \in 0 .. Len(buf) :
            Flush(n) /\ ignored' = (ignored \/ n < Len(buf))
      BY <2>3
    <3>2. out \in Names /\ fs[out] # Absent
      BY <2>3, OutputFacts, NamesAssumption
    <3>3. Alters(out) /\ buf' \in Seq(Pieces) /\ ferr' \in BOOLEAN
      BY <3>1, <3>2, FlushAlters, EmptySeq DEF Typed
    <3>4. ignored' \in BOOLEAN
      BY <3>1 DEF Typed, TypeOK
    <3>5. \A m \in Names : fs[m] # Absent => fs'[m] # Absent
      BY <3>3, NamesAssumption DEF Alters
    <3> QED
      BY <2>1, <3>2, <3>3, <3>4, <3>5, StandardNames
      DEF Typed, TypeOK, InHand, OutputInHand, PCs, Busy, Writing, ToFile, In, Args,
      stream, history, Alters
  <2> QED
    BY <1>1, <2>2, <2>3, Zenon DEF Exit
<1>2. CASE Kill
  BY <1>2, EmptySeq
  DEF Typed, TypeOK, InHand, OutputInHand, PCs, Busy, Writing, ToFile, In, Args,
      stream, history, Kill
<1>3. CASE Rerun
  <2>1. EmptyFile \in Files /\ <<>> \in Seq(Pieces)
    BY FilesAssumption, EmptySeq DEF EmptyFile, Files
  <2>2. /\ fs' \in [Names -> Files \cup {Absent}]
        /\ fs'[Stdin] # Absent /\ fs'[Stdout] # Absent
    BY <1>3, <2>1, StandardNames, NamesAssumption
    DEF Rerun, Typed, TypeOK, InHand
  <2>3. 0 \in 0 .. Len(cmd.args)
    BY CommandFacts DEF Typed, TypeOK
  <2>4. /\ pc' = "start" /\ optind' = 0 /\ fmt' = DefaultFormat
        /\ out' = NoFile /\ pos' = 0 /\ buf' = <<>> /\ ferr' = FALSE
        /\ status' = 0 /\ before' = fs' /\ runs' = runs + 1
        /\ UNCHANGED <<cmd, orig, ignored>> /\ abandoned' = FALSE
    BY <1>3 DEF Rerun
  <2>5. pc' \in PCs /\ status' \in {0, 1} /\ ferr' \in BOOLEAN
    BY <2>4 DEF PCs
  <2>6. fmt' \in Formats \cup {NoFormat} /\ pos' \in Nat /\ runs' \in Nat
    BY <2>4, FormatAssumption DEF Typed, TypeOK
  <2>7. TypeOK'
    BY <2>1, <2>2, <2>3, <2>4, <2>5, <2>6 DEF Typed, TypeOK
  <2>8. InHand' /\ OutputInHand'
    BY <2>2, <2>4 DEF InHand, OutputInHand, Busy, Writing
  <2> QED
    BY <2>7, <2>8 DEF Typed
<1>4. CASE UNCHANGED vars
  BY <1>4
  DEF Typed, TypeOK, InHand, OutputInHand, PCs, Busy, Writing, ToFile, In, Args,
      stream, history, vars
<1> QED
  BY <1>1, <1>2, <1>3, <1>4

(* The first layer is inductive.                                           *)
LEMMA TypedStep == Typed /\ [Next]_vars => Typed'
<1> SUFFICES ASSUME Typed, [Next]_vars
             PROVE  Typed'
  OBVIOUS
<1> QED
  BY TypedBeforeOutput, TypedCreateOutput, TypedCodec, TypedAfterCodec,
     TypedEnds DEF Next, Step, Idle

(* Every variable of the driver keeps its type, and its place in main()    *)
(* fits what it has in hand, whatever fails (snzip.c:177-458).             *)
THEOREM TypeCorrect == Spec => []TypeOK
<1>1. Typed => TypeOK
  BY DEF Typed
<1> QED
  BY InitTyped, TypedStep, <1>1, PTL DEF Spec

-----------------------------------------------------------------------------
(* The second layer: no argument is ever altered.                          *)

(* An argument is in work.                                                 *)
InWork ==
  /\ ToFile /\ optind \in Args
  /\ pc \in Busy \/ out \notin {NoFile, Stdout}

(* Nothing changes but standard output and outputs of the argument in work.*)
OutputsOnly ==
  \A m \in Names \ {Stdout} :
    fs'[m] # fs[m] => InWork /\ m \in Outputs(cmd, cmd.args[optind])

(* The file open for output is one of these.                               *)
LEMMA OutputInWork ==
  ASSUME Typed, pc \in Writing \/ out # NoFile, out # Stdout
  PROVE  InWork /\ out \in Outputs(cmd, cmd.args[optind])
<1>1. out # NoFile
  BY OutputFacts, StandardNames
<1> QED
  BY <1>1 DEF Typed, OutputInHand, InWork

(* The one step that touches another file removes the argument in hand,    *)
(* and never with -k, -c or a program name with "cat" in it.               *)
LEMMA FileSteps ==
  ASSUME Typed, [Next]_vars
  PROVE  \/ OutputsOnly
         \/ /\ UnlinkInput /\ ~OptKeep(cmd) /\ pc = "unlink"
            /\ fs' = [fs EXCEPT ![cmd.args[optind]] = Absent]
            /\ ~Filter(cmd) /\ optind \in Args
<1>1. /\ cmd \in Commands
      /\ \A k \in Args : cmd.args[k] \in Names \ {Stdin, Stdout}
      /\ fs \in [Names -> Files \cup {Absent}]
  BY CommandFacts DEF Typed, TypeOK, Args
<1>2. ASSUME NEW o \in Names,
             o = Stdout \/ (InWork /\ o \in Outputs(cmd, cmd.args[optind])),
             \A m \in Names \ {o} : fs'[m] = fs[m]
      PROVE  OutputsOnly
  BY <1>2 DEF OutputsOnly
<1>3. CASE UNCHANGED fs
  BY <1>3 DEF OutputsOnly
<1>4. CASE CreateOutput /\ fs' # fs
  <2>1. /\ pc = "create" /\ ~Filter(cmd) /\ out' = OutName(cmd, In, fmt)
        /\ fs' = [fs EXCEPT ![out'] = EmptyFile]
    BY <1>4 DEF CreateOutput
  <2>2. fmt \in Formats /\ InWork /\ In = cmd.args[optind]
    BY <1>4, <2>1 DEF CreateOutput, Typed, InHand, Busy, In, InWork, ToFile
  <2>3. out' \in Outputs(cmd, cmd.args[optind]) /\ out' \in Names
    BY <1>1, <2>1, <2>2, CommandFacts DEF Outputs, Args, InWork
  <2> QED
    BY <1>1, <1>2, <2>1, <2>2, <2>3
<1>5. ASSUME pc \in Writing \/ out # NoFile,
             \A m \in Names \ {out} : fs'[m] = fs[m]
      PROVE  OutputsOnly
  <2>1. out \in Names
    BY <1>5, OutputFacts
  <2> QED
    BY <1>2, <1>5, <2>1, OutputInWork
<1>6. CASE Codec
  <2>1. pc \in Writing
    BY <1>6 DEF Codec, StartCodec, WriteDirect, DirectWriteFails,
       WriteBuffered, SpillAndWrite, SpillFails, ReadFails, OutOfMemory,
       CodecReturns, Writing
  <2> QED
    BY <1>3, <1>5, <1>6, <2>1, TypedCodec DEF Alters
<1>7. CASE CodecFailed
  <2>1. /\ pc \in Writing
        /\ UNCHANGED fs \/ fs' = [fs EXCEPT ![out] = Absent]
    BY <1>7 DEF CodecFailed, Writing
  <2> QED
    BY <1>1, <1>3, <1>5, <2>1
<1>8. ASSUME pc \in Writing \/ out # NoFile, NEW n \in 0 .. Len(buf), Flush(n)
      PROVE  OutputsOnly
  <2>1. out \in Names /\ fs[out] # Absent
    BY <1>8, OutputFacts, NamesAssumption
  <2> QED
    BY <1>5, <1>8, <2>1, FlushAlters DEF Typed, Alters
<1>9. CASE FlushOutput \/ CloseFiles
  BY <1>8, <1>9 DEF FlushOutput, CloseFiles, Writing
<1>10. CASE CopyAttributes
  <2>1. /\ pc \in Writing
        /\ UNCHANGED fs \/ fs' = [fs EXCEPT ![out].attrs = fs[In].attrs]
    BY <1>10 DEF CopyAttributes, Writing
  <2> QED
    BY <1>1, <1>3, <1>5, <2>1
<1>11. CASE UnlinkInput /\ fs' # fs
  <2>1. /\ pc = "unlink" /\ ~Filter(cmd) /\ optind \in Args
        /\ In = cmd.args[optind]
    BY <1>11 DEF UnlinkInput, Typed, InHand, Busy, In
  <2> QED
    BY <1>11, <2>1 DEF UnlinkInput
<1>12. CASE Exit /\ fs' # fs
  <2>1. out # NoFile /\ \E n \in 0 .. Len(buf) : Flush(n)
    BY <1>12 DEF Exit
  <2> QED
    BY <1>8, <2>1
<1>13. CASE Rerun
  BY <1>1, <1>2, <1>13, StandardNames DEF Rerun
<1>14. CASE \/ Start \/ TakeArg \/ NoMoreArgs \/ OpenInput \/ DetectFormat
            \/ KeepStdoutOpen \/ Kill \/ UNCHANGED vars
  BY <1>3, <1>14 DEF Start, TakeArg, NoMoreArgs, OpenInput, DetectFormat,
     KeepStdoutOpen, Kill, vars
<1> QED
  BY <1>3, <1>4, <1>6, <1>7, <1>9, <1>10, <1>11, <1>12, <1>13, <1>14
  DEF Next, Step, Idle

(* No argument of the command line changes in the step.                    *)
ArgsSame == \A k \in Args : fs'[cmd.args[k]] = fs[cmd.args[k]]

(* With safe commands no output is an argument: an argument changes only   *)
(* by being removed.                                                       *)
LEMMA ArgumentSteps ==
  ASSUME Typed, cmd \in SafeCommands, [Next]_vars
  PROVE  \/ ArgsSame
         \/ /\ UnlinkInput /\ ~OptKeep(cmd) /\ pc = "unlink"
            /\ fs' = [fs EXCEPT ![cmd.args[optind]] = Absent]
            /\ ~Filter(cmd) /\ optind \in Args
<1>1. \A k \in Args : cmd.args[k] \in Names \ {Stdin, Stdout}
  BY CommandFacts DEF Typed, TypeOK, Args
<1>2. \A j, k \in Args : cmd.args[k] \notin Outputs(cmd, cmd.args[j])
  BY DEF SafeCommands, NoCollisions, Args
<1>3. OutputsOnly => ArgsSame
  BY <1>1, <1>2 DEF OutputsOnly, ArgsSame, InWork
<1> QED
  BY <1>3, FileSteps

(* An input comes into hand when it is opened, and the hand stays on it    *)
(* while it is in work or its output is open.                              *)
LEMMA InHandSteps ==
  ASSUME Typed, [Next]_vars
  PROVE  /\ UNCHANGED <<cmd, orig>> /\ (ignored => ignored')
         /\ ~Filter(cmd) /\ (pc' \in Busy \/ out' \notin {NoFile, Stdout}) =>
              /\ UNCHANGED optind /\ ~UnlinkInput
              /\ \/ pc \in Busy \/ out \notin {NoFile, Stdout}
                 \/ pc = "open" /\ fs[In] # Absent
<1> USE DEF Busy, stream, history
<1>0. UnlinkInput => pc' \notin Busy /\ out' \in {NoFile, Stdout}
  BY DEF UnlinkInput, Typed, OutputInHand
<1>1. CASE Start
  BY <1>0, <1>1 DEF Start, Leave, Typed, OutputInHand
<1>2. CASE TakeArg
  BY <1>0, <1>2 DEF TakeArg, Leave, Typed, OutputInHand
<1>3. CASE NoMoreArgs
  BY <1>0, <1>3 DEF NoMoreArgs, Leave, Typed, OutputInHand
<1>4. CASE OpenInput
  BY <1>0, <1>4 DEF OpenInput, Leave, Typed, OutputInHand
<1>5. CASE DetectFormat
  BY <1>0, <1>5 DEF DetectFormat, Leave, Typed, OutputInHand
<1>6. CASE CreateOutput
  BY <1>0, <1>6 DEF CreateOutput, Leave, Typed, OutputInHand
<1>7. CASE Codec
  BY <1>0, <1>7 DEF Codec, StartCodec, WriteDirect, DirectWriteFails,
     WriteBuffered, SpillAndWrite, SpillFails, ReadFails, OutOfMemory,
     CodecReturns, Leave, Typed, OutputInHand
<1>8. CASE CodecFailed
  BY <1>0, <1>8 DEF CodecFailed, Leave, Typed, OutputInHand
<1>9. CASE FlushOutput
  BY <1>0, <1>9 DEF FlushOutput, Leave, Typed, OutputInHand
<1>10. CASE CopyAttributes
  BY <1>0, <1>10 DEF CopyAttributes, Leave, Typed, OutputInHand
<1>11. CASE CloseFiles
  BY <1>0, <1>11 DEF CloseFiles, Leave, Typed, OutputInHand
<1>12. CASE KeepStdoutOpen
  BY <1>0, <1>12 DEF KeepStdoutOpen, Leave, Typed, OutputInHand
<1>13. CASE UnlinkInput
  BY <1>0, <1>13 DEF UnlinkInput, Leave, Typed, OutputInHand
<1>14. CASE Exit
  BY <1>0, <1>14 DEF Exit, Leave, Typed, OutputInHand
<1>15. CASE Kill
  BY <1>0, <1>15 DEF Kill, Leave, Typed, OutputInHand
<1>16. CASE Rerun
  BY <1>0, <1>16 DEF Rerun, Leave, Typed, OutputInHand
<1>17. CASE UNCHANGED vars
  BY <1>0, <1>17 DEF vars
<1> QED
  BY <1>1, <1>2, <1>3, <1>4, <1>5, <1>6, <1>7, <1>8, <1>9, <1>10, <1>11, <1>12, <1>13, <1>14, <1>15, <1>16, <1>17
  DEF Next, Step, Idle

(* Nothing has been altered at the start.                                  *)
LEMMA InitUntouched == Init => Untouched
  BY DEF Init, Untouched, InputsNeverAltered, Busy

(* The second layer is inductive, given the first.                         *)
LEMMA UntouchedStep == Typed /\ Untouched /\ [Next]_vars => Untouched'
<1> SUFFICES ASSUME Typed, Untouched, [Next]_vars, cmd \in SafeCommands
             PROVE  Untouched'
  <2>1. Typed /\ Untouched /\ [Next]_vars /\ cmd \notin SafeCommands
          => Untouched'
    BY InHandSteps DEF Untouched, InputsNeverAltered
  <2> QED
    BY <2>1
<1>1. /\ UNCHANGED <<cmd, orig, Args>> /\ cmd \in Commands
      /\ \A k \in Args : cmd.args[k] \in Names \ {Stdin, Stdout}
      /\ fs \in [Names -> Files \cup {Absent}]
      /\ ~Filter(cmd) /\ pc = "open" => In = cmd.args[optind] /\ optind \in Args
  BY InHandSteps, CommandFacts DEF Typed, TypeOK, Args, InHand, In
<1>2. InputsNeverAltered'
  BY <1>1, ArgumentSteps DEF Untouched, InputsNeverAltered, ArgsSame
<1>3. ASSUME ~Filter(cmd), pc' \in Busy \/ out' \notin {NoFile, Stdout}
      PROVE  fs'[cmd.args[optind]] = orig[cmd.args[optind]]
  <2>1. /\ ~UnlinkInput
        /\ \/ pc \in Busy \/ out \notin {NoFile, Stdout}
           \/ pc = "open" /\ fs[In] # Absent
    BY <1>3, InHandSteps
  <2>2. optind \in Args
    BY <1>3, <2>1 DEF Typed, InHand, OutputInHand
  <2>3. fs[cmd.args[optind]] = orig[cmd.args[optind]]
    BY <1>1, <1>3, <2>1, <2>2 DEF Untouched, InputsNeverAltered
  <2>4. ArgsSame
    BY <2>1, ArgumentSteps
  <2> QED
    BY <2>2, <2>3, <2>4 DEF ArgsSame
<1> QED
  BY <1>1, <1>2, <1>3, InHandSteps DEF Untouched

(* No input file is ever altered, only removed, and never with -k, -c or a *)
(* program name with "cat" in it, whatever fails (snzip.c:413, 452-456).   *)
THEOREM InputsSafe == Spec => []InputsNeverAltered
<1>1. Init => Typed /\ Untouched
  BY InitTyped, InitUntouched
<1>2. Typed /\ Untouched /\ [Next]_vars => (Typed /\ Untouched)'
  BY TypedStep, UntouchedStep
<1>3. Untouched => InputsNeverAltered
  BY DEF Untouched
<1> QED
  BY <1>1, <1>2, <1>3, PTL DEF Spec

-----------------------------------------------------------------------------
(* The third layer: what is written is a beginning of the conversion, and  *)
(* all of it when the argument is unlinked.                                *)

(* The argument can be unlinked: the second half of InputInHand.           *)
Ready ==
  cmd \in SafeCommands /\ ~Filter(cmd) =>
    (pc = "unlink" /\ ToFile /\ ~ignored =>
       Holds(OutName(cmd, In, fmt), In, fmt))

(* While the output is open the input stays what it is, and with it the    *)
(* conversion.                                                             *)
LEMMA SameConversion ==
  ASSUME Typed, pc \in Writing, Alters(out) \/ UNCHANGED fs,
         UNCHANGED <<cmd, optind, fmt>>
  PROVE  UNCHANGED <<In, Un, Input, Output, ToFile>>
<1>1. In' = In /\ Un' = Un /\ ToFile' = ToFile
  BY DEF In, Un, ToFile
<1>2. In \in Names /\ In # out
  BY InputFacts DEF Writing, Busy
<1>3. Input' = Input
  BY <1>1, <1>2 DEF Alters, Input
<1> QED
  BY <1>1, <1>3 DEF Output

(* What is put out is a sequence of pieces.                                *)
LEMMA PutType ==
  ASSUME Typed, pc \in Writing
  PROVE  /\ fs[out].data \in Seq(Pieces) /\ buf \in Seq(Pieces)
         /\ Put \in Seq(Pieces) /\ Len(Put) \in Nat
<1>1. fs[out].data \in Seq(Pieces) /\ buf \in Seq(Pieces)
  BY OutputFacts DEF Typed, TypeOK, Files
<1> QED
  BY <1>1, ConcatProperties, LenProperties DEF Put

(* One more piece of the conversion keeps it a beginning of it.            *)
LEMMA PutNext ==
  ASSUME Typed, pc = "convert", GoodSoFar, Reads(pos + 1),
         Put' = Put \o <<Output[pos + 1]>>, pos' = pos + 1,
         UNCHANGED <<fmt, Un, Input, Output>>
  PROVE  GoodSoFar'
<1>1. /\ pos + 1 \in 1 .. Len(Output) /\ <<Output[pos + 1]>> \in Seq(Pieces)
      /\ Len(<<Output[pos + 1]>>) = 1 /\ pos \in Nat /\ Len(Output) \in Nat
  BY OutputType DEF Typed, TypeOK, Busy
<1>2. Put \in Seq(Pieces) /\ Len(Put) = pos
  BY PutType DEF Writing, GoodSoFar
<1>3. /\ Len(Put') = pos + 1
      /\ \A i \in 1 .. pos + 1 :
           Put'[i] = IF i <= pos THEN Put[i] ELSE <<Output[pos + 1]>>[i - pos]
  BY <1>1, <1>2, ConcatProperties
<1>4. \A i \in 1 .. pos + 1 : Put'[i] = Output[i]
  <2> TAKE i \in 1 .. pos + 1
  <2>1. CASE i <= pos
    <3>1. Put'[i] = Put[i] /\ i \in 1 .. pos
      BY <1>1, <1>3, <2>1
    <3> QED
      BY <3>1 DEF GoodSoFar
  <2>2. CASE i = pos + 1
    <3>1. ~(i <= pos) /\ i - pos = 1
      BY <1>1, <2>2
    <3>2. Put'[i] = <<Output[pos + 1]>>[1]
      BY <1>3, <3>1
    <3> QED
      BY <2>2, <3>2
  <2>3. i <= pos \/ i = pos + 1
    BY <1>1
  <2> QED
    BY <2>1, <2>2, <2>3, Zenon
<1> QED
  BY <1>1, <1>3, <1>4 DEF GoodSoFar

(* What is put out stays the same: so does that it is a beginning.         *)
LEMMA PutSame ==
  ASSUME GoodSoFar, Put' = Put, UNCHANGED <<pos, fmt, Un, Input, Output>>
  PROVE  GoodSoFar'
  BY DEF GoodSoFar

(* Emptying the buffer moves what is put out, when nothing fails in it.    *)
LEMMA FlushPut ==
  ASSUME Typed, pc \in Writing, UNCHANGED out, NEW n \in 0 .. Len(buf), Flush(n)
  PROVE  /\ Alters(out) /\ buf' = <<>>
         /\ ~ferr' => ~ferr /\ Put' = Put /\ fs'[out].data = Put
<1>1. /\ Alters(out) /\ buf' = <<>>
      /\ ~ferr' => ~ferr /\ fs'[out].data = fs[out].data \o buf
  BY OutputFacts, NamesAssumption, FlushAlters DEF Typed
<1>2. ~ferr' => Put' = fs'[out].data \o <<>>
  BY <1>1 DEF Put
<1>3. Put \in Seq(Pieces)
  BY PutType
<1>4. ~ferr' => fs'[out].data = Put
  BY <1>1 DEF Put
<1>5. Put \o <<>> = Put
  BY <1>3, ConcatEmptySeq
<1> QED
  BY <1>1, <1>2, <1>4, <1>5

(* The steps of the codec write a beginning of the conversion.             *)
LEMMA WrittenCodec ==
  ASSUME Typed, Written, Codec
  PROVE  Written'
<1>0. /\ UNCHANGED <<cmd, optind, fmt, out, In, Un, Input, Output, ToFile>>
      /\ pc \in {"begin", "convert"} /\ pc \in Writing
  <2>1. pc \in {"begin", "convert"}
    BY DEF Codec, StartCodec, WriteDirect, DirectWriteFails, WriteBuffered,
       SpillAndWrite, SpillFails, ReadFails, OutOfMemory, CodecReturns
  <2> QED
    BY <2>1, TypedCodec, SameConversion DEF Writing
<1>1. /\ fs[out].data \in Seq(Pieces) /\ buf \in Seq(Pieces)
      /\ Put \in Seq(Pieces) /\ out \in Names /\ fs[out] # Absent
      /\ ferr \in BOOLEAN /\ pos \in Nat /\ Len(Output) \in Nat
  BY <1>0, PutType, OutputFacts, OutputType, NamesAssumption
  DEF Typed, TypeOK, Busy
<1>2. ASSUME Reads(pos + 1)
      PROVE  Output[pos + 1] \in Pieces /\ <<Output[pos + 1]>> \in Seq(Pieces)
  BY <1>0, <1>2, OutputType DEF Busy
<1>3. CASE StartCodec
  <2>1. /\ pc = "begin"
        /\ pc' = IF HeaderOk(fmt, Un, Input) THEN "convert" ELSE "failed"
        /\ UNCHANGED <<pos, ignored>>
    BY <1>3 DEF StartCodec, history
  <2>2. UNCHANGED <<fs, buf, ferr>> \/ \E n \in 0 .. Len(buf) : Flush(n)
    BY <1>3, Zenon DEF StartCodec
  <2>3. /\ ToFile => buf' = <<>>
        /\ ToFile /\ ~ferr' => fs'[out].data = <<>>
    <3>1. CASE UNCHANGED <<fs, buf, ferr>>
      BY <2>1, <3>1 DEF Written
    <3>2. CASE \E n \in 0 .. Len(buf) : Flush(n)
      <4>1. buf' = <<>> /\ (~ferr' => fs'[out].data = Put)
        BY <1>0, <3>2, FlushPut
      <4>2. ToFile => Put = <<>> \o <<>>
        BY <2>1 DEF Written, Put
      <4>3. <<>> \o <<>> = <<>>
        BY EmptySeq, ConcatEmptySeq
      <4> QED
        BY <4>1, <4>2, <4>3
    <3> QED
      BY <2>2, <3>1, <3>2
  <2>4. Fine' => GoodSoFar'
    <3>1. ToFile /\ ~ferr' => Put' = <<>> \o <<>>
      BY <1>0, <2>3 DEF Put
    <3>2. <<>> \o <<>> = <<>> /\ Len(<<>>) = 0
      BY EmptySeq, ConcatEmptySeq
    <3>3. ToFile => pos' = 0
      BY <2>1 DEF Written
    <3>4. Fine' => ToFile /\ ~ferr'
      BY <1>0 DEF Fine
    <3> QED
      BY <1>0, <1>1, <3>1, <3>2, <3>3, <3>4 DEF GoodSoFar
  <2> QED
    BY <1>0, <2>1, <2>3, <2>4 DEF Written, Writing
<1>4. ASSUME Reads(pos + 1), pos' = pos + 1, pc = "convert", UNCHANGED pc,
             ToFile /\ Direct(fmt, Un) => buf' = <<>>,
             Fine' => Fine /\ Put' = Put \o <<Output[pos + 1]>>
      PROVE  Written'
  <2>1. Fine' => GoodSoFar'
    BY <1>0, <1>4, PutNext DEF Written
  <2> QED
    BY <1>0, <1>4, <2>1 DEF Written, Writing
<1>5. CASE WriteDirect
  <2>1. /\ fs' = AppendTo(out, <<Output[pos + 1]>>) /\ Reads(pos + 1)
        /\ UNCHANGED <<pc, buf, ferr, ignored>> /\ pc = "convert"
        /\ pos' = pos + 1 /\ Direct(fmt, Un)
    BY <1>5 DEF WriteDirect, history
  <2>2. fs'[out].data = fs[out].data \o <<Output[pos + 1]>>
    BY <1>1, <1>2, <2>1, AppendToAlters DEF Typed
  <2>3. ToFile => buf = <<>>
    BY <1>0, <2>1 DEF Written
  <2>4. Fine' => Fine /\ ToFile
    BY <1>0, <2>1 DEF Fine
  <2>5. /\ fs[out].data \o <<>> = fs[out].data
        /\ (fs[out].data \o <<Output[pos + 1]>>) \o <<>>
             = fs[out].data \o <<Output[pos + 1]>>
    BY <1>1, <1>2, <2>1, ConcatProperties, ConcatEmptySeq
  <2>6. ToFile => Put' = Put \o <<Output[pos + 1]>>
    BY <1>0, <2>1, <2>2, <2>3, <2>5 DEF Put
  <2> QED
    BY <1>4, <2>1, <2>3, <2>4, <2>6
<1>6. CASE WriteBuffered
  <2>1. /\ buf' = Append(buf, Output[pos + 1]) /\ Reads(pos + 1)
        /\ UNCHANGED <<fs, pc, ferr, ignored>> /\ pc = "convert"
        /\ pos' = pos + 1 /\ ~Direct(fmt, Un)
    BY <1>6 DEF WriteBuffered, history
  <2>2. Append(buf, Output[pos + 1]) = buf \o <<Output[pos + 1]>>
    BY <1>1, <1>2, <2>1, AppendIsConcat
  <2>3. Put' = Put \o <<Output[pos + 1]>>
    <3>1. Put' = fs[out].data \o (buf \o <<Output[pos + 1]>>)
      BY <1>0, <2>1, <2>2 DEF Put
    <3>2. <<Output[pos + 1]>> \in Seq(Pieces)
      BY <1>2, <2>1
    <3>3. \A d, e, x \in Seq(Pieces) : (d \o e) \o x = d \o (e \o x)
      BY ConcatAssociative
    <3> QED
      BY <1>1, <3>1, <3>2, <3>3 DEF Put
  <2> QED
    BY <1>0, <1>4, <2>1, <2>3 DEF Fine
<1>7. CASE SpillAndWrite
  <2>1. /\ fs' = AppendTo(out, buf) /\ buf' = <<Output[pos + 1]>>
        /\ UNCHANGED <<pc, ferr, ignored>> /\ pc = "convert" /\ Reads(pos + 1)
        /\ pos' = pos + 1 /\ ~Direct(fmt, Un)
    BY <1>7 DEF SpillAndWrite, history
  <2>2. fs'[out].data = fs[out].data \o buf
    BY <1>1, <2>1, AppendToAlters DEF Typed
  <2>3. Put' = Put \o <<Output[pos + 1]>>
    BY <1>0, <2>1, <2>2 DEF Put
  <2> QED
    BY <1>0, <1>4, <2>1, <2>3 DEF Fine
<1>8. CASE SpillFails
  <2>1. /\ buf' = <<>> /\ ferr' = TRUE
        /\ pc = "convert" /\ pc' \in {"convert", "failed"}
    BY <1>8 DEF SpillFails
  <2>2. ~Fine'
    BY <2>1 DEF Fine
  <2> QED
    BY <1>0, <2>1, <2>2 DEF Written, Writing
<1>9. ASSUME pc = "convert", UNCHANGED <<fs, stream>>,
             \/ pc' \in {"failed", "loops", "exiting"}
             \/ pc' = "converted" /\ ignored' = TRUE
             \/ /\ pc' = "converted" /\ UNCHANGED ignored
                /\ pos = Len(Output) /\ WellFormed(fmt, Un, Input)
      PROVE  Written'
  <2>1. UNCHANGED <<pos, buf, ferr, Put>>
    BY <1>9 DEF stream, Put
  <2>2. pc' \in {"convert", "converted", "attrs", "close"} /\ Fine'
          => /\ Fine /\ GoodSoFar' /\ pc' = "converted"
             /\ pos' = Len(Output') /\ WellFormed(fmt, Un, Input)'
    <3> SUFFICES ASSUME pc' \in {"convert", "converted", "attrs", "close"}, Fine'
                 PROVE  /\ Fine /\ GoodSoFar' /\ pc' = "converted"
                        /\ pos' = Len(Output') /\ WellFormed(fmt, Un, Input)'
      OBVIOUS
    <3>1. /\ pc' = "converted" /\ UNCHANGED ignored
          /\ pos = Len(Output) /\ WellFormed(fmt, Un, Input)
      BY <1>9 DEF Fine
    <3>2. Fine
      BY <1>0, <2>1, <3>1 DEF Fine
    <3>3. GoodSoFar'
      BY <1>0, <1>9, <2>1, <3>2, PutSame DEF Written
    <3> QED
      BY <1>0, <2>1, <3>1, <3>2, <3>3
  <2> QED
    BY <1>0, <1>9, <2>1, <2>2 DEF Written, Writing
<1>10. CASE DirectWriteFails \/ ReadFails \/ OutOfMemory \/ CodecReturns
  BY <1>9, <1>10
  DEF DirectWriteFails, ReadFails, OutOfMemory, CodecReturns, Leave, history
<1> QED
  BY <1>3, <1>5, <1>6, <1>7, <1>8, <1>10 DEF Codec

(* So does every other step.                                               *)
LEMMA WrittenStep ==
  ASSUME Typed, Written, [Next]_vars
  PROVE  Written'
<1>1. CASE Codec
  BY <1>1, WrittenCodec
<1>2. CASE CreateOutput
  <2>1. CASE pc' = "begin" /\ (Filter(cmd) \/ OptStdout(cmd))
    BY <1>2, <2>1 DEF CreateOutput, Written, Writing, ToFile, Fine
  <2>2. CASE /\ pc' = "begin" /\ pos' = 0 /\ buf' = <<>>
             /\ out' = OutName(cmd, In, fmt) /\ ~Filter(cmd)
             /\ fs' = [fs EXCEPT ![out'] = EmptyFile]
    <3>1. cmd \in Commands /\ fmt \in Formats /\ optind \in Args
          /\ In = cmd.args[optind]
      BY <1>2, <2>2 DEF CreateOutput, Typed, TypeOK, InHand, Busy, In
    <3>2. out' \in Names /\ fs \in [Names -> Files \cup {Absent}]
      BY <2>2, <3>1, CommandFacts DEF Args, Typed, TypeOK
    <3>3. fs'[out'].data = <<>>
      BY <2>2, <3>2 DEF EmptyFile
    <3> QED
      BY <2>2, <3>3 DEF Written
  <2>3. CASE pc' = "exiting"
    BY <2>3 DEF Written, Writing
  <2> QED
    BY <1>2, <2>1, <2>2, <2>3 DEF CreateOutput, Leave
<1>3. CASE FlushOutput
  <2>1. PICK n \in 0 .. Len(buf) : Flush(n)
    BY <1>3 DEF FlushOutput
  <2>2. /\ UNCHANGED <<cmd, optind, fmt, out, pos, ignored>>
        /\ pc = "converted" /\ pc' = "attrs" /\ pc \in Writing
    BY <1>3 DEF FlushOutput, Writing, history
  <2>3. Alters(out) /\ buf' = <<>> /\ (~ferr' => ~ferr /\ Put' = Put)
    BY <2>1, <2>2, FlushPut
  <2>4. UNCHANGED <<In, Un, Input, Output, ToFile>>
    BY <2>2, <2>3, SameConversion
  <2>5. Fine' => Fine /\ GoodSoFar'
    BY <2>2, <2>3, <2>4, PutSame DEF Fine, Written
  <2> QED
    BY <2>2, <2>3, <2>4, <2>5 DEF Written
<1>4. CASE CopyAttributes
  <2>1. /\ UNCHANGED <<cmd, optind, fmt, out, pos, buf, ferr, ignored>>
        /\ pc = "attrs" /\ pc' = "close" /\ pc \in Writing
    BY <1>4 DEF CopyAttributes, Writing, stream, history
  <2>2. UNCHANGED fs \/ fs' = [fs EXCEPT ![out].attrs = fs[In].attrs]
    BY <1>4 DEF CopyAttributes
  <2>3. out \in Names /\ fs[out] \in Files /\ In \in Names /\ In # out
        /\ fs \in [Names -> Files \cup {Absent}]
    BY <2>1, OutputFacts, InputFacts DEF Writing, Busy, Typed, TypeOK
  <2>4. fs'[out].data = fs[out].data /\ fs'[In] = fs[In]
    BY <2>2, <2>3 DEF Files
  <2>5. UNCHANGED <<In, Un, Input, Output, ToFile, Put>>
    <3>1. In' = In /\ Un' = Un /\ ToFile' = ToFile /\ Put' = Put
      BY <2>1, <2>4 DEF In, Un, ToFile, Put
    <3>2. Input' = Input
      BY <2>4, <3>1 DEF Input
    <3> QED
      BY <2>1, <3>1, <3>2 DEF Output
  <2>6. Fine' => Fine /\ GoodSoFar'
    BY <2>1, <2>5, PutSame DEF Fine, Written
  <2> QED
    BY <2>1, <2>5, <2>6 DEF Written, Writing
<1>5. ASSUME pc' \notin Writing
      PROVE  Written'
  BY <1>5 DEF Written, Writing
<1>6. CASE \/ Start \/ TakeArg \/ NoMoreArgs \/ OpenInput \/ DetectFormat
           \/ CodecFailed \/ CloseFiles \/ KeepStdoutOpen \/ UnlinkInput
           \/ Exit \/ Kill \/ Rerun
  <2>1. pc' \notin Writing
    BY <1>6 DEF Start, TakeArg, NoMoreArgs, OpenInput, DetectFormat,
       CodecFailed, CloseFiles, KeepStdoutOpen, UnlinkInput, Exit, Kill,
       Rerun, Leave, Writing
  <2> QED
    BY <1>5, <2>1
<1>7. CASE UNCHANGED vars
  BY <1>7 DEF vars, stream, history, Written, Writing, GoodSoFar, Put, Fine,
     ToFile, Input, Output, In, Un
<1> QED
  BY <1>1, <1>2, <1>3, <1>4, <1>6, <1>7 DEF Next, Step, Idle

(* When the files are closed and no failure went by, the output holds all  *)
(* of the conversion.                                                      *)
LEMMA ReadyStep ==
  ASSUME Typed, Untouched, Written, Ready, [Next]_vars
  PROVE  Ready'
<1> SUFFICES ASSUME (cmd \in SafeCommands)', ~Filter(cmd)', (pc = "unlink")',
                    ToFile', ~ignored'
             PROVE  Holds(OutName(cmd, In, fmt), In, fmt)'
  BY DEF Ready
<1>1. /\ UNCHANGED <<cmd, orig>> /\ cmd \in SafeCommands /\ ~Filter(cmd)
      /\ ~ignored
  BY InHandSteps
<1>2. CASE CloseFiles
  <2>1. /\ UNCHANGED <<cmd, optind, fmt, pos, orig>>
        /\ pc = "close" /\ pc \in Writing /\ ignored' = (ignored \/ ferr')
    BY <1>2 DEF CloseFiles, Writing
  <2>2. PICK n \in 0 .. Len(buf) : Flush(n)
    BY <1>2 DEF CloseFiles
  <2>3. Fine
    <3>1. ~ferr' => ~ferr
      BY <2>2, Zenon DEF Flush
    <3> QED
      BY <1>1, <2>1, <3>1 DEF Fine, Typed, InHand
  <2>4. /\ optind \in Args /\ fmt \in Formats /\ In = cmd.args[optind]
        /\ out = OutName(cmd, In, fmt) /\ out \in Names
        /\ fs[out] \in Files /\ In # out /\ In \in Names /\ fs[In] \in Files
    BY <1>1, <2>1, <2>3, OutputFacts, InputFacts
    DEF Typed, InHand, OutputInHand, Busy, Writing, In, Fine
  <2>5. Alters(out) /\ fs'[out].data = Put
    <3>1. buf \in Seq(Pieces) /\ Alters(out)
          /\ (~ferr' => fs'[out].data = fs[out].data \o buf)
      BY <2>2, <2>4, FlushAlters, NamesAssumption DEF Typed, TypeOK
    <3> QED
      BY <2>1, <3>1 DEF Put
  <2>6. UNCHANGED <<In, Un, Input, Output>>
    BY <2>1, <2>5, SameConversion
  <2>7. WellFormed(fmt, Un, Input) /\ GoodSoFar /\ pos = Len(Output)
    BY <2>1, <2>3 DEF Written
  <2>8. Put = Output
    BY <2>1, <2>7, PutType, OutputType, SeqEqual DEF GoodSoFar, Busy
  <2>9. \/ TextOf(Output) = TextOf(Input)
        \/ Un /\ fmt = "snzip" /\ Behind(Input)
    <3>1. Input \in Seq(Pieces) /\ Un \in BOOLEAN
      BY <2>4 DEF Input, Files, Un, OptUncompress
    <3> QED
      BY <2>4, <2>7, <3>1, ConversionKeepsText DEF Output
  <2>10. orig[In] = fs[In] /\ orig[In] # Absent
    BY <1>1, <2>1, <2>4, NamesAssumption DEF Untouched, Busy
  <2>11. fs'[out] # Absent
    BY <2>5, NamesAssumption DEF Alters
  <2> QED
    BY <2>1, <2>4, <2>5, <2>6, <2>7, <2>8, <2>9, <2>10, <2>11
    DEF Holds, Input, Output
<1>3. CASE KeepStdoutOpen
  <2>1. pc \in Writing /\ out = Stdout /\ ToFile
    BY <1>1, <1>3 DEF KeepStdoutOpen, Writing, ToFile
  <2>2. /\ optind \in Args /\ fmt \in Formats /\ In = cmd.args[optind]
        /\ out = OutName(cmd, In, fmt) /\ cmd \in Commands
    BY <1>1, <2>1 DEF Typed, TypeOK, InHand, OutputInHand, Busy, Writing, In
  <2> QED
    BY <2>1, <2>2, CommandFacts DEF Args
<1>4. CASE UNCHANGED vars
  BY <1>1, <1>4 DEF vars, stream, history, Ready, Holds, ToFile, In, Un
<1>5. ASSUME pc' # "unlink"
      PROVE  FALSE
  BY <1>5
<1>6. CASE \/ Start \/ TakeArg \/ NoMoreArgs \/ OpenInput \/ DetectFormat
           \/ CreateOutput \/ Codec \/ CodecFailed \/ FlushOutput
           \/ CopyAttributes \/ UnlinkInput \/ Exit \/ Kill \/ Rerun
  <2>1. Codec => pc' # "unlink"
    BY DEF Codec, StartCodec, WriteDirect, DirectWriteFails, WriteBuffered,
       SpillAndWrite, SpillFails, ReadFails, OutOfMemory, CodecReturns, Leave
  <2>2. pc' # "unlink"
    BY <1>6, <2>1 DEF Start, TakeArg, NoMoreArgs, OpenInput, DetectFormat,
       CreateOutput, CodecFailed, FlushOutput, CopyAttributes, UnlinkInput,
       Exit, Kill, Rerun, Leave
  <2> QED
    BY <1>5, <2>2
<1> QED
  BY <1>2, <1>3, <1>4, <1>6 DEF Next, Step, Idle

(* An argument that is gone has all of its conversion, and no other        *)
(* argument's output is ever written over it.                              *)
LEMMA NothingLostStep ==
  ASSUME Typed, Untouched, Ready, NothingLost, [Next]_vars
  PROVE  NothingLost'
<1> SUFFICES ASSUME (cmd \in SafeCommands)', ~ignored', NEW k \in Args
             PROVE  (\/ fs[cmd.args[k]] = orig[cmd.args[k]]
                     \/ Replaced(cmd.args[k]))'
  BY InHandSteps DEF NothingLost, Args
<1> DEFINE n == cmd.args[k]
<1>1. /\ UNCHANGED <<cmd, orig, Un>> /\ cmd \in SafeCommands /\ ~ignored
      /\ cmd \in Commands
  BY InHandSteps DEF Typed, TypeOK, Un
<1>2. /\ n \in Names \ {Stdin, Stdout} /\ n \in Seq(STRING)
      /\ fs \in [Names -> Files \cup {Absent}]
      /\ \A f \in Formats : /\ OutName(cmd, n, f) \in Names \ {Stdin, Stdout}
                            /\ OutName(cmd, n, f) \in Outputs(cmd, n)
  BY <1>1, CommandFacts DEF Args, Typed, TypeOK, Outputs
<1>3. fs[n] = orig[n] \/ Replaced(n)
  BY <1>1 DEF NothingLost
<1>4. ASSUME NEW f \in Formats, Holds(OutName(cmd, n, f), n, f),
             fs'[OutName(cmd, n, f)] = fs[OutName(cmd, n, f)]
      PROVE  Replaced(n)'
  BY <1>1, <1>4 DEF Holds, Replaced
<1>5. /\ \A j \in Args : \A o \in Outputs(cmd, cmd.args[j]) : o # n
      /\ \A j \in Args : j # k => /\ cmd.args[j] # n
                                  /\ \A o \in Outputs(cmd, n) :
                                       o \notin Outputs(cmd, cmd.args[j])
  BY <1>1 DEF SafeCommands, NoCollisions, Args
<1>6. CASE OutputsOnly
  <2>1. fs'[n] = fs[n]
    BY <1>2, <1>5, <1>6 DEF OutputsOnly, InWork
  <2>2. CASE InWork /\ optind = k
    <3>1. fs[n] = orig[n]
      BY <1>1, <2>2 DEF Untouched, InWork, ToFile
    <3> QED
      BY <1>1, <2>1, <3>1
  <2>3. CASE ~InWork \/ optind # k
    <3>1. \A o \in Outputs(cmd, n) : o \in Names \ {Stdout} => fs'[o] = fs[o]
      BY <1>5, <1>6, <2>3 DEF OutputsOnly, InWork
    <3>2. Replaced(n) => Replaced(n)'
      BY <1>2, <1>4, <3>1 DEF Replaced
    <3> QED
      BY <1>1, <1>3, <2>1, <3>2
  <2> QED
    BY <2>2, <2>3
<1>7. CASE /\ UnlinkInput /\ ~OptKeep(cmd) /\ pc = "unlink"
           /\ fs' = [fs EXCEPT ![cmd.args[optind]] = Absent]
           /\ ~Filter(cmd) /\ optind \in Args
  <2>1. \A f \in Formats : fs'[OutName(cmd, n, f)] = fs[OutName(cmd, n, f)]
    <3>1. \A j \in Args : \A o \in Outputs(cmd, n) : o # cmd.args[j]
      BY <1>1 DEF SafeCommands, NoCollisions, Args
    <3> QED
      BY <1>2, <1>7, <3>1
  <2>2. CASE optind = k
    <3>1. ToFile /\ In = n /\ fmt \in Formats
      BY <1>7, <2>2 DEF ToFile, OptStdout, OptKeep, In, Typed, InHand, Busy
    <3>2. Holds(OutName(cmd, n, fmt), n, fmt)
      BY <1>1, <1>7, <3>1 DEF Ready
    <3> QED
      BY <1>1, <1>4, <2>1, <3>1, <3>2
  <2>3. CASE optind # k
    <3>1. fs'[n] = fs[n]
      BY <1>2, <1>5, <1>7, <2>3
    <3>2. Replaced(n) => Replaced(n)'
      BY <1>4, <2>1 DEF Replaced
    <3> QED
      BY <1>1, <1>3, <3>1, <3>2
  <2> QED
    BY <2>2, <2>3
<1> QED
  BY <1>6, <1>7, FileSteps

(* The three layers together are the inductive invariant of SnzipMain.     *)
LEMMA IInvLayers ==
  IInv <=> Typed /\ Untouched /\ Written /\ Ready /\ NothingLost
  BY DEF IInv, Typed, Untouched, InputInHand, Ready

(* Init => IInv: the three layers at the start of main().                  *)
LEMMA InitIInv == Init => IInv
<1> SUFFICES ASSUME Init PROVE IInv
  OBVIOUS
<1>1. Written /\ Ready /\ NothingLost
  BY DEF Init, Written, Writing, Ready, NothingLost
<1> QED
  BY <1>1, InitTyped, InitUntouched, IInvLayers

(* IInv /\ [Next]_vars => IInv', layer by layer.                            *)
LEMMA IInvStep == IInv /\ [Next]_vars => IInv'
<1> SUFFICES ASSUME IInv, [Next]_vars PROVE IInv'
  OBVIOUS
<1>1. Typed /\ Untouched /\ Written /\ Ready /\ NothingLost
  BY IInvLayers
<1>2. Typed' /\ Untouched' /\ Written' /\ Ready' /\ NothingLost'
  BY <1>1, TypedStep, UntouchedStep, WrittenStep, ReadyStep, NothingLostStep
<1> QED
  BY <1>2 DEF IInv, Typed, Untouched, InputInHand, Ready

(* The inductive invariant holds in every state of every run.              *)
THEOREM Invariant == Spec => []IInv
BY InitIInv, IInvStep, PTL DEF Spec

(* Nothing is lost: at every moment each argument is there as it was, or   *)
(* all of its conversion is, whatever is reported to fail, wherever the    *)
(* process is killed and however often it is started again                 *)
(* (snzip.c:424-456).  The conversion of a .snz file ends at its end mark. *)
THEOREM Safety == Spec => []NothingLost
<1>1. IInv => NothingLost
  BY DEF IInv
<1> QED
  BY <1>1, Invariant, PTL

(* With -c, as snzcat or as a filter no step touches any file              *)
(* (snzip.c:386, 442, 452).                                                *)
THEOREM StdoutOnly == Spec => StdoutModeTouchesNoFile
<1>1. ASSUME Typed, [Next]_vars, OptStdout(cmd) \/ Filter(cmd),
             NEW n \in Names \ {Stdout}
      PROVE  fs'[n] = fs[n]
  <2>1. ~ToFile /\ (OptStdout(cmd) => OptKeep(cmd))
    BY <1>1 DEF ToFile, OptStdout, OptKeep
  <2>2. CASE OutputsOnly
    BY <1>1, <2>1, <2>2 DEF OutputsOnly, InWork
  <2> QED
    BY <1>1, <2>1, <2>2, FileSteps
<1>2. Typed /\ [Next]_vars =>
        [OptStdout(cmd) \/ Filter(cmd)
           => \A n \in Names \ {Stdout} : fs'[n] = fs[n]]_vars
  BY <1>1
<1> QED
  BY <1>2, InitTyped, TypedStep, PTL DEF Spec, StdoutModeTouchesNoFile

-----------------------------------------------------------------------------
(* The way to the end.                                                     *)

(* How many places of main() are still ahead in the work on an argument. A *)
(* step begins another run, takes another argument, leads to a later       *)
(* place, or puts out another piece of a conversion that stays as it is.   *)
Stage ==
  CASE pc = "start" -> 13    [] pc = "open" -> 12   [] pc = "detect" -> 11
    [] pc = "create" -> 10   [] pc = "begin" -> 9   [] pc = "convert" -> 8
    [] pc = "converted" -> 7 [] pc = "attrs" -> 6   [] pc = "close" -> 5
    [] pc = "unlink" -> 4    [] pc \in {"next", "failed"} -> 3
    [] pc = "exiting" -> 2   [] pc = "loops" -> 1     [] OTHER -> 0
Closer ==
  \/ runs < runs' /\ runs' <= MaxRuns
  \/ UNCHANGED runs /\ optind < optind' /\ optind' <= Len(cmd.args)
  \/ UNCHANGED <<runs, optind>> /\ Stage' < Stage
  \/ /\ UNCHANGED <<runs, optind, pc, Output>>
     /\ pos < pos' /\ pos' <= Len(Output)

(* A codec puts out a piece, or is done with.                              *)
LEMMA CodecCloser == Typed /\ Codec => Closer
<1> SUFFICES ASSUME Typed, Codec PROVE Closer
  OBVIOUS
<1>0. UNCHANGED <<runs, optind>>
  BY DEF Codec, StartCodec, WriteDirect, DirectWriteFails, WriteBuffered,
         SpillAndWrite, SpillFails, ReadFails, OutOfMemory, CodecReturns, stream
<1>1. CASE StartCodec
  BY <1>0, <1>1 DEF StartCodec, Stage, Closer
<1>2. CASE DirectWriteFails \/ ReadFails \/ OutOfMemory \/ CodecReturns
  BY <1>0, <1>2 DEF DirectWriteFails, ReadFails, OutOfMemory, CodecReturns, Leave,
                    Stage, Closer
<1>3. CASE WriteDirect \/ WriteBuffered \/ SpillAndWrite \/ SpillFails
  <2>1. /\ pc = "convert" /\ Reads(pos + 1)
        /\ \/ pc' = "failed"
           \/ pos' = pos + 1 /\ UNCHANGED pc
    BY <1>3 DEF WriteDirect, WriteBuffered, SpillAndWrite, SpillFails
  <2>2. CASE pc' = "failed"
    BY <1>0, <2>1, <2>2 DEF Stage, Closer
  <2>3. CASE pos' = pos + 1 /\ UNCHANGED pc
    <3>1. Output' = Output
      BY <2>1, TypedCodec, SameConversion DEF Writing
    <3>2. pos \in Nat /\ pos + 1 <= Len(Output)
      BY <2>1 DEF Typed, TypeOK, Reads
    <3> QED
      BY <1>0, <2>3, <3>1, <3>2 DEF Closer
  <2> QED
    BY <2>1, <2>2, <2>3
<1> QED
  BY <1>1, <1>2, <1>3 DEF Codec

(* Every action of Next does one of the four, or changes nothing.          *)
LEMMA StepCloser == Typed /\ Next => vars' = vars \/ Closer
<1> SUFFICES ASSUME Typed, Next, vars' # vars PROVE Closer
  OBVIOUS
<1>0. optind \in Nat /\ runs \in Nat
  BY DEF Typed, TypeOK
<1>1. CASE Codec
  BY <1>1, CodecCloser
<1>2. CASE TakeArg
  <2>1. /\ optind' = optind + 1 /\ UNCHANGED runs /\ optind < Len(cmd.args)
    BY <1>2 DEF TakeArg
  <2>2. Len(cmd.args) \in Nat
    <3>1. cmd.args \in Seq(Names \ {Stdin, Stdout})
      BY CommandsAssumption DEF Typed, TypeOK
    <3> QED
      BY <3>1
  <2> QED
    BY <1>0, <2>1, <2>2 DEF Closer
<1>3. CASE Rerun
  <2>1. runs' = runs + 1 /\ runs < MaxRuns
    BY <1>3 DEF Rerun
  <2> QED
    BY <1>0, <2>1, BoundsAssumption DEF Closer
<1>4. CASE Start \/ NoMoreArgs \/ OpenInput \/ DetectFormat \/ CreateOutput
  BY <1>4 DEF Start, NoMoreArgs, OpenInput, DetectFormat, CreateOutput, Leave,
              Stage, Closer
<1>5. CASE CodecFailed \/ KeepStdoutOpen \/ FlushOutput \/ CopyAttributes
  BY <1>5 DEF CodecFailed, KeepStdoutOpen, FlushOutput, CopyAttributes, Leave,
              Stage, Closer
<1>6. CASE CloseFiles \/ UnlinkInput \/ Exit
  BY <1>6 DEF CloseFiles, UnlinkInput, Exit, Stage, Closer
<1>7. CASE Kill
  <2>1. Stage > 0
    BY <1>7 DEF Kill, Typed, TypeOK, PCs, Stage
  <2> QED
    BY <1>7, <2>1 DEF Kill, Stage, Closer
<1> QED
  BY <1>1, <1>2, <1>3, <1>4, <1>5, <1>6, <1>7 DEF Next, Step, Idle

(* Every step of the driver leads closer to the end, whatever the command  *)
(* line, the files and the failures: no argument is taken twice in a run,  *)
(* no place of main() is come to twice for an argument, and no codec puts  *)
(* out more than the conversion of its input (snzip.c:177-458).            *)
THEOREM EveryStepIsCloser == Spec => [][Closer]_vars
<1>1. Typed /\ [Next]_vars => [Closer]_vars
  BY StepCloser
<1>2. QED
  BY <1>1, InitTyped, TypedStep, PTL DEF Spec

=============================================================================
