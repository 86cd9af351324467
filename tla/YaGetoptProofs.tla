--------------------------- MODULE YaGetoptProofs ---------------------------
(***************************************************************************)
(* Theorems about YaGetopt: for every command line of every length,        *)
(* whatever its words, and with POSIXLY_CORRECT set or not.                *)
(***************************************************************************)
EXTENDS YaGetopt, SequenceTheorems, WellFoundedInduction, TLAPS

-----------------------------------------------------------------------------
(* Induction, for a set of numbers; and a function that is defined from    *)
(* its last values on downwards.                                           *)

LEMMA SetInduction ==
  ASSUME NEW S, 0 \in S, \A n \in Nat : n \in S => n + 1 \in S
  PROVE  Nat \subseteq S
<1> DEFINE T == {n \in Nat : n \notin S}
           R == OpToRel(<, Nat)
<1>1. SUFFICES ASSUME T # {} PROVE FALSE
  OBVIOUS
<1>2. IsWellFoundedOn(R, Nat)
  BY NatLessThanWellFounded
<1>3. \E x \in T : \A y \in T : ~ (<<y, x>> \in R)
  <2>1. T \subseteq Nat
    OBVIOUS
  <2> HIDE DEF T, R
  <2> QED BY <1>1, <1>2, <2>1, WFMin
<1>4. PICK x \in T : \A y \in T : ~ (<<y, x>> \in R)
  BY <1>3
<1>5. \A y \in T : ~ (y < x)
  <2>1. \A y \in Nat : y < x => <<y, x>> \in R
    BY DEF OpToRel
  <2> QED BY <1>4, <2>1
<1>6. x # 0 /\ x - 1 \in Nat
  OBVIOUS
<1>7. x - 1 \in S
  BY <1>5, <1>6
<1> QED BY <1>6, <1>7

(* The values from the number k on.                                        *)
DownTo(f, k, N, V, v, H) ==
  /\ f \in [k .. N + 2 -> V] /\ f[N + 1] = v /\ f[N + 2] = v
  /\ \A j \in k .. N : f[j] = H[j][<<f[j + 1], f[j + 2]>>]

LEMMA OneFurther ==
  ASSUME NEW N \in Nat, NEW k \in 2 .. N + 1, NEW V, NEW v \in V,
         NEW H \in [1 .. N -> [V \X V -> V]],
         NEW f, DownTo(f, k, N, V, v, H)
  PROVE  \E g : DownTo(g, k - 1, N, V, v, H)
<1>1. f \in [k .. N + 2 -> V] /\ k - 1 \in 1 .. N
  BY DEF DownTo
<1>2. PICK j : j = k - 1
  OBVIOUS
<1>3. j \in 1 .. N /\ k = j + 1 /\ f[j + 1] \in V /\ f[j + 2] \in V
  BY <1>1, <1>2
<1> DEFINE new == H[j][<<f[j + 1], f[j + 2]>>]
           g == [d \in j .. N + 2 |-> IF d = j THEN new ELSE f[d]]
<1>4. new \in V
  <2>1. H[j] \in [V \X V -> V]
    BY <1>3
  <2>2. <<f[j + 1], f[j + 2]>> \in V \X V
    BY <1>3
  <2> QED BY <2>1, <2>2
<1>5. g[j] = new /\ \A d \in j + 1 .. N + 2 : g[d] = f[d]
  BY <1>3
<1>6. g \in [j .. N + 2 -> V]
  <2>1. \A d \in j .. N + 2 : d = j \/ d \in j + 1 .. N + 2
    BY <1>3
  <2>2. \A d \in j + 1 .. N + 2 : f[d] \in V
    BY <1>1, <1>3
  <2> HIDE DEF new
  <2> QED BY <1>4, <2>1, <2>2
<1> HIDE DEF g
<1>7. g[N + 1] = v /\ g[N + 2] = v
  BY <1>3, <1>5 DEF DownTo
<1>8. ASSUME NEW d \in j .. N PROVE g[d] = H[d][<<g[d + 1], g[d + 2]>>]
  <2>1. g[d + 1] = f[d + 1] /\ g[d + 2] = f[d + 2]
    BY <1>3, <1>5
  <2>2. CASE d = j
    BY <1>5, <2>1, <2>2
  <2>3. CASE d # j
    <3>1. d \in j + 1 .. N /\ d \in j + 1 .. N + 2
      BY <1>3, <2>3
    <3>2. f[d] = H[d][<<f[d + 1], f[d + 2]>>]
      BY <1>3, <3>1 DEF DownTo
    <3> QED BY <1>5, <2>1, <3>1, <3>2
  <2> QED BY <2>2, <2>3
<1> QED BY <1>2, <1>6, <1>7, <1>8 DEF DownTo

LEMMA DownToOne ==
  ASSUME NEW N \in Nat, NEW V, NEW v \in V,
         NEW H \in [1 .. N -> [V \X V -> V]]
  PROVE  \E f : DownTo(f, 1, N, V, v, H)
<1> DEFINE S == {m \in Nat : m <= N => \E f : DownTo(f, N + 1 - m, N, V, v, H)}
<1>1. 0 \in S
  <2> DEFINE f == [d \in N + 1 .. N + 2 |-> v]
  <2>1. DownTo(f, N + 1, N, V, v, H)
    BY DEF DownTo
  <2>2. N + 1 - 0 = N + 1
    OBVIOUS
  <2> QED BY <2>1, <2>2
<1>2. ASSUME NEW m \in Nat, m \in S PROVE m + 1 \in S
  <2> SUFFICES ASSUME m + 1 <= N
               PROVE  \E f : DownTo(f, N + 1 - (m + 1), N, V, v, H)
    OBVIOUS
  <2>1. PICK f : DownTo(f, N + 1 - m, N, V, v, H)
    BY <1>2
  <2>2. PICK k : k = N + 1 - m
    OBVIOUS
  <2>3. k \in 2 .. N + 1 /\ k - 1 = N + 1 - (m + 1)
    BY <2>2
  <2>4. DownTo(f, k, N, V, v, H)
    BY <2>1, <2>2
  <2>5. \E g : DownTo(g, k - 1, N, V, v, H)
    BY <2>3, <2>4, OneFurther
  <2> QED BY <2>3, <2>5
<1>3. Nat \subseteq S
  <2> HIDE DEF S
  <2> QED BY <1>1, <1>2, SetInduction
<1>4. \E f : DownTo(f, N + 1 - N, N, V, v, H)
  <2>1. N \in S
    BY <1>3
  <2> QED BY <2>1
<1>5. N + 1 - N = 1
  OBVIOUS
<1> QED BY <1>4, <1>5


(* Pieces of a sequence.                                                   *)
LEMMA OnePiece ==
  ASSUME NEW S, NEW s \in Seq(S), NEW j \in 1 .. Len(s)
  PROVE  SubSeq(s, j, j) = <<s[j]>>
<1>1. Len(s) \in Nat /\ j \in j .. Len(s)
  OBVIOUS
<1>2. SubSeq(s, j, j) = <<s[j]>> \o SubSeq(s, j + 1, j)
  BY <1>1, SubSeqRecursiveFirst
<1>3. SubSeq(s, j + 1, j) = <<>>
  BY SubSeqEmpty
<1>4. <<s[j]>> \in Seq(S)
  OBVIOUS
<1>5. <<s[j]>> \o <<>> = <<s[j]>>
  BY <1>4, ConcatEmptySeq
<1> QED BY <1>2, <1>3, <1>5

LEMMA Pieces ==
  ASSUME NEW S, NEW s \in Seq(S), NEW j \in Int, NEW k \in Int, NEW l \in Int,
         1 <= j, j <= k, k <= l, l <= Len(s) + 1
  PROVE  /\ SubSeq(s, j, k - 1) \in Seq(S)
         /\ SubSeq(s, j, k - 1) \o SubSeq(s, k, l - 1) = SubSeq(s, j, l - 1)
<1>1. Len(s) \in Nat
  OBVIOUS
<1>2. \A n \in j .. k - 1 : s[n] \in S
  BY <1>1
<1>3. j \in 1 .. Len(s) + 1 /\ k - 1 \in j - 1 .. Len(s) /\ l - 1 \in k - 1 .. Len(s)
      /\ (k - 1) + 1 = k
  BY <1>1
<1>4. SubSeq(s, j, k - 1) \o SubSeq(s, (k - 1) + 1, l - 1) = SubSeq(s, j, l - 1)
  BY <1>3, ConcatAdjacentSubSeq
<1>5. SubSeq(s, j, k - 1) \in Seq(S)
  <2>1. j \in Int /\ k - 1 \in Int
    OBVIOUS
  <2> QED BY <1>2, <2>1, SubSeqProperties
<1> QED BY <1>3, <1>4, <1>5

LEMMA SamePieces ==
  ASSUME NEW S, NEW s \in Seq(S), NEW t \in Seq(S), NEW j \in Int, NEW k \in Int,
         1 <= j, k <= Len(s) + 1, k <= Len(t) + 1, \A n \in j .. k - 1 : s[n] = t[n]
  PROVE  SubSeq(s, j, k - 1) = SubSeq(t, j, k - 1)
<1>1. PICK l \in Int : l = k - 1
  OBVIOUS
<1>2. (\A n \in j .. l : s[n] \in S) /\ (\A n \in j .. l : t[n] \in S)
  BY <1>1
<1>3. /\ SubSeq(s, j, l) \in Seq(S)
      /\ Len(SubSeq(s, j, l)) = IF j <= l THEN l - j + 1 ELSE 0
      /\ \A n \in 1 .. l - j + 1 : SubSeq(s, j, l)[n] = s[j + n - 1]
  BY <1>2, SubSeqProperties
<1>4. /\ SubSeq(t, j, l) \in Seq(S)
      /\ Len(SubSeq(t, j, l)) = IF j <= l THEN l - j + 1 ELSE 0
      /\ \A n \in 1 .. l - j + 1 : SubSeq(t, j, l)[n] = t[j + n - 1]
  BY <1>2, SubSeqProperties
<1>5. ASSUME NEW n \in 1 .. Len(SubSeq(s, j, l))
      PROVE  SubSeq(s, j, l)[n] = SubSeq(t, j, l)[n]
  <2>1. n \in 1 .. l - j + 1
    BY <1>3
  <2>2. j + n - 1 \in j .. k - 1
    BY <1>1, <2>1
  <2> QED BY <1>3, <1>4, <2>1, <2>2
<1>6. Len(SubSeq(s, j, l)) = Len(SubSeq(t, j, l))
  BY <1>3, <1>4
<1>7. SubSeq(s, j, l) = SubSeq(t, j, l)
  BY <1>3, <1>4, <1>5, <1>6, SeqEqual
<1> QED BY <1>1, <1>7
-----------------------------------------------------------------------------
(* What a command line means is well defined, and read from the left.      *)

Opts == Seq((Flags \cup Valued) \X Seq(STRING))
Meanings ==
  [options : Opts, operands : Seq(Words), dashes : BOOLEAN, usage : BOOLEAN]

LEMMA MeaningTypes ==
  /\ Nothing \in Meanings /\ [Nothing EXCEPT !.usage = TRUE] \in Meanings
  /\ \A s \in Seq(Words) :
       /\ Meaning(<<>>, s) \in Meanings
       /\ [Meaning(<<>>, s) EXCEPT !.dashes = TRUE] \in Meanings
  /\ \A o \in Opts, m \in Meanings : Before(o, m) \in Meanings
  /\ \A s \in Seq(Words), m \in Meanings : WithOperands(s, m) \in Meanings
<1>1. <<>> \in Opts /\ <<>> \in Seq(Words)
  BY DEF Opts
<1>2. ASSUME NEW s \in Seq(Words)
      PROVE  /\ Meaning(<<>>, s) \in Meanings
             /\ [Meaning(<<>>, s) EXCEPT !.dashes = TRUE] \in Meanings
             /\ [Meaning(<<>>, s) EXCEPT !.usage = TRUE] \in Meanings
  BY <1>1 DEF Meaning, Meanings
<1>3. ASSUME NEW o \in Opts, NEW m \in Meanings
      PROVE  Before(o, m) \in Meanings
  <2>1. m.options \in Opts
    BY DEF Meanings
  <2>2. o \o m.options \in Opts
    BY <2>1 DEF Opts
  <2> QED BY <2>2 DEF Before, Meanings
<1>4. ASSUME NEW s \in Seq(Words), NEW m \in Meanings
      PROVE  WithOperands(s, m) \in Meanings
  <2>1. m.operands \in Seq(Words)
    BY DEF Meanings
  <2>2. s \o m.operands \in Seq(Words)
    BY <2>1
  <2> QED BY <2>2 DEF WithOperands, Meanings
<1> QED BY <1>1, <1>2, <1>3, <1>4 DEF Nothing

(* One option more, the rest of the word or of the command line behind it. *)
LEMMA OneOption ==
  ASSUME NEW o, NEW a, o \in Flags \cup Valued, a \in Seq(STRING)
  PROVE  << <<o, a>> >> \in Opts
BY DEF Opts

(* What the letter c of the word w means, if the one behind it means x.    *)
LetterMeans(w, value, rest, after, c, x) ==
  IF c > Len(w) THEN (IF w = <<Dash>> THEN [Nothing EXCEPT !.usage = TRUE] ELSE rest)
  ELSE IF w[c] \in Flags THEN Before(<< <<w[c], <<>> >> >>, x)
  ELSE IF w[c] \notin Valued THEN [Nothing EXCEPT !.usage = TRUE]
  ELSE IF c < Len(w) THEN Before(<< <<w[c], SubSeq(w, c + 1, Len(w))>> >>, rest)
  ELSE IF value = <<>> THEN [Nothing EXCEPT !.usage = TRUE]
  ELSE Before(<< <<w[c], value[1]>> >>, after)

LEMMA LetterMeansType ==
  ASSUME NEW w \in Seq(STRING), NEW value \in Seq(Words), NEW rest \in Meanings,
         NEW after \in Meanings, NEW c \in 2 .. Len(w) + 2, NEW x \in Meanings
  PROVE  LetterMeans(w, value, rest, after, c, x) \in Meanings
<1>1. c <= Len(w) => c \in 1 .. Len(w) /\ w[c] \in STRING
  OBVIOUS
<1>2. SubSeq(w, c + 1, Len(w)) \in Seq(STRING) /\ <<>> \in Seq(STRING)
  OBVIOUS
<1>3. value # <<>> => value[1] \in Seq(STRING)
  <2>1. value # <<>> => value[1] \in Words
    OBVIOUS
  <2> QED BY <2>1, GetoptAssumption
<1>4. \A o \in Flags \cup Valued : \A a \in Seq(STRING) :
        \A m \in Meanings : Before(<< <<o, a>> >>, m) \in Meanings
  BY OneOption, MeaningTypes
<1>5. [Nothing EXCEPT !.usage = TRUE] \in Meanings
  BY MeaningTypes
<1>6. CASE c > Len(w)
  BY <1>5, <1>6 DEF LetterMeans
<1>7. CASE ~(c > Len(w))
  <2>1. CASE w[c] \in Flags
    BY <1>2, <1>4, <1>7, <2>1 DEF LetterMeans
  <2>2. CASE w[c] \notin Flags /\ w[c] \notin Valued
    BY <1>5, <1>7, <2>2 DEF LetterMeans
  <2>3. CASE w[c] \notin Flags /\ w[c] \in Valued /\ c < Len(w)
    BY <1>2, <1>4, <1>7, <2>3 DEF LetterMeans
  <2>4. CASE w[c] \notin Flags /\ w[c] \in Valued /\ ~(c < Len(w)) /\ value = <<>>
    BY <1>5, <1>7, <2>4 DEF LetterMeans
  <2>5. CASE w[c] \notin Flags /\ w[c] \in Valued /\ ~(c < Len(w)) /\ value # <<>>
    BY <1>3, <1>4, <1>7, <2>5 DEF LetterMeans
  <2> QED BY <2>1, <2>2, <2>3, <2>4, <2>5
<1> QED BY <1>6, <1>7

LEMMA LettersAre ==
  ASSUME NEW w \in Seq(STRING), w # <<>>, NEW value \in Seq(Words),
         NEW rest \in Meanings, NEW after \in Meanings
  PROVE  /\ Letters(w, value, rest, after) \in [2 .. Len(w) + 1 -> Meanings]
         /\ \A c \in 2 .. Len(w) + 1 :
              Letters(w, value, rest, after)[c] =
                LetterMeans(w, value, rest, after, c,
                            Letters(w, value, rest, after)[c + 1])
<1> DEFINE N == Len(w)
           L(c, x) == LetterMeans(w, value, rest, after, c, x)
           last == IF w = <<Dash>> THEN [Nothing EXCEPT !.usage = TRUE] ELSE rest
           H == [c \in 1 .. N |->
                   [p \in Meanings \X Meanings |-> IF c = 1 THEN p[1] ELSE L(c, p[1])]]
<1>1. N \in Nat /\ N >= 1 /\ last \in Meanings
  BY MeaningTypes
<1>2. H \in [1 .. N -> [Meanings \X Meanings -> Meanings]]
  <2>1. ASSUME NEW c \in 1 .. N, NEW p \in Meanings \X Meanings
        PROVE  (IF c = 1 THEN p[1] ELSE L(c, p[1])) \in Meanings
    <3>1. p[1] \in Meanings
      OBVIOUS
    <3>2. c # 1 => c \in 2 .. Len(w) + 2
      BY <1>1
    <3> QED BY <3>1, <3>2, LetterMeansType
  <2> HIDE DEF L
  <2> QED BY <2>1
<1>3. PICK f : DownTo(f, 1, N, Meanings, last, H)
  <2> HIDE DEF N, H, last
  <2> QED BY <1>1, <1>2, DownToOne
<1>4. f \in [1 .. N + 2 -> Meanings] /\ f[N + 1] = last
  BY <1>3 DEF DownTo
<1> DEFINE g == [c \in 2 .. N + 1 |-> f[c]]
<1>5. ASSUME NEW c \in 2 .. N + 1 PROVE g[c] = L(c, g[c + 1])
  <2>1. CASE c = N + 1
    <3>1. g[c] = last
      BY <1>1, <1>4, <2>1
    <3>2. c > Len(w)
      BY <1>1, <2>1
    <3> QED BY <3>1, <3>2 DEF LetterMeans
  <2>2. CASE c # N + 1
    <3>1. c \in 1 .. N /\ c # 1 /\ c + 1 \in 2 .. N + 1 /\ c + 2 \in 1 .. N + 2
          /\ c + 1 \in 1 .. N + 2
      BY <1>1, <2>2
    <3>2. f[c] = H[c][<<f[c + 1], f[c + 2]>>]
      BY <1>3, <3>1 DEF DownTo
    <3>3. <<f[c + 1], f[c + 2]>> \in Meanings \X Meanings
      BY <1>4, <3>1
    <3>4. f[c] = L(c, f[c + 1])
      <4> HIDE DEF L
      <4> QED BY <3>1, <3>2, <3>3
    <3>5. g[c] = f[c] /\ g[c + 1] = f[c + 1]
      BY <3>1
    <3> QED BY <3>4, <3>5
  <2> QED BY <2>1, <2>2
<1>6. g = [c \in 2 .. N + 1 |-> L(c, g[c + 1])]
  <2> HIDE DEF L
  <2> QED BY <1>5
<1> HIDE DEF g
<1>7. Letters(w, value, rest, after) =
        [c \in 2 .. N + 1 |-> L(c, Letters(w, value, rest, after)[c + 1])]
  BY <1>6 DEF Letters, LetterMeans
<1>8. PICK r : r = Letters(w, value, rest, after)
  OBVIOUS
<1>9. r = [c \in 2 .. N + 1 |-> L(c, r[c + 1])]
  BY <1>7, <1>8
<1>10. ASSUME NEW c \in 2 .. N + 1 PROVE r[c] = L(c, r[c + 1])
  <2> HIDE DEF L
  <2> QED BY <1>9
<1>11. r \in [2 .. N + 1 -> Meanings]
  <2> DEFINE S == {m \in Nat : m < N => r[N + 1 - m] \in Meanings}
  <2>1. 0 \in S
    <3>1. N + 1 \in 2 .. N + 1 /\ N + 1 > Len(w)
      BY <1>1
    <3>2. r[N + 1] = last
      BY <1>10, <3>1 DEF LetterMeans
    <3> QED BY <1>1, <3>2
  <2>2. ASSUME NEW m \in Nat, m \in S PROVE m + 1 \in S
    <3> SUFFICES ASSUME m + 1 < N PROVE r[N + 1 - (m + 1)] \in Meanings
      OBVIOUS
    <3>1. PICK c : c = N + 1 - (m + 1)
      OBVIOUS
    <3>2. c \in 2 .. N + 1 /\ c + 1 = N + 1 - m /\ c \in 2 .. Len(w) + 2
      BY <1>1, <3>1
    <3>3. r[c + 1] \in Meanings
      BY <2>2, <3>2
    <3>4. L(c, r[c + 1]) \in Meanings
      BY <3>2, <3>3, LetterMeansType
    <3> QED BY <1>10, <3>1, <3>2, <3>4
  <2>3. Nat \subseteq S
    <3> HIDE DEF S
    <3> QED BY <2>1, <2>2, SetInduction
  <2>4. ASSUME NEW c \in 2 .. N + 1 PROVE r[c] \in Meanings
    <3>1. N + 1 - c \in Nat /\ N + 1 - c < N /\ N + 1 - (N + 1 - c) = c
      BY <1>1
    <3>2. N + 1 - c \in S
      BY <2>3, <3>1
    <3> QED BY <3>1, <3>2
  <2> HIDE DEF L
  <2> QED BY <1>9, <2>4
<1> QED BY <1>8, <1>10, <1>11

(* The same for the words of the command line.                             *)
WordMeans(k, x, y) ==
  IF given[k] = <<Dash, Dash>>
  THEN [Meaning(<<>>, SubSeq(given, k + 1, Len(given))) EXCEPT !.dashes = TRUE]
  ELSE IF IsOption(given[k]) THEN Letters(given[k], Value(k), x, y)[2]
  ELSE IF posix THEN Meaning(<<>>, SubSeq(given, k, Len(given)))
  ELSE WithOperands(<<given[k]>>, x)

LEMMA GivenWord ==
  ASSUME given \in Seq(Words), NEW k \in 1 .. Len(given)
  PROVE  /\ given[k] \in Words /\ given[k] \in Seq(STRING)
         /\ Value(k) \in Seq(Words)
         /\ Value(k) = IF k + 1 <= Len(given) THEN <<given[k + 1]>> ELSE <<>>
         /\ SubSeq(given, k, Len(given)) \in Seq(Words)
         /\ SubSeq(given, k + 1, Len(given)) \in Seq(Words)
<1>1. given[k] \in Words /\ given[k] \in Seq(STRING)
  BY GetoptAssumption
<1>2. CASE k + 1 <= Len(given)
  <2>1. Value(k) = SubSeq(given, k + 1, k + 1)
    BY <1>2 DEF Value, Minimum
  <2>2. SubSeq(given, k + 1, k + 1) = <<given[k + 1]>>
    BY <1>2, OnePiece
  <2>3. given[k + 1] \in Words
    BY <1>2
  <2> QED BY <1>1, <1>2, <2>1, <2>2, <2>3
<1>3. CASE ~(k + 1 <= Len(given))
  <2>1. Value(k) = SubSeq(given, k + 1, Len(given)) /\ k = Len(given)
    BY <1>3 DEF Value, Minimum
  <2>2. SubSeq(given, k + 1, Len(given)) = <<>>
    BY <2>1
  <2> QED BY <1>1, <1>3, <2>1, <2>2
<1> QED BY <1>2, <1>3

LEMMA WordMeansType ==
  ASSUME given \in Seq(Words), NEW k \in 1 .. Len(given),
         NEW x \in Meanings, NEW y \in Meanings
  PROVE  WordMeans(k, x, y) \in Meanings
<1>1. /\ given[k] \in Words /\ given[k] \in Seq(STRING) /\ Value(k) \in Seq(Words)
      /\ SubSeq(given, k, Len(given)) \in Seq(Words)
      /\ SubSeq(given, k + 1, Len(given)) \in Seq(Words)
  BY GivenWord
<1>2. IsOption(given[k]) => Letters(given[k], Value(k), x, y)[2] \in Meanings
  <2> SUFFICES ASSUME IsOption(given[k])
               PROVE  Letters(given[k], Value(k), x, y)[2] \in Meanings
    OBVIOUS
  <2>1. given[k] # <<>>
    BY DEF IsOption
  <2>2. 2 \in 2 .. Len(given[k]) + 1
    BY <1>1, <2>1
  <2>3. Letters(given[k], Value(k), x, y) \in [2 .. Len(given[k]) + 1 -> Meanings]
    BY <1>1, <2>1, LettersAre
  <2> QED BY <2>2, <2>3
<1>3. <<given[k]>> \in Seq(Words)
  BY <1>1
<1>4. CASE given[k] = <<Dash, Dash>>
  BY <1>1, <1>4, MeaningTypes DEF WordMeans
<1>5. CASE given[k] # <<Dash, Dash>> /\ IsOption(given[k])
  BY <1>2, <1>5 DEF WordMeans
<1>6. CASE given[k] # <<Dash, Dash>> /\ ~IsOption(given[k]) /\ posix
  BY <1>1, <1>6, MeaningTypes DEF WordMeans
<1>7. CASE given[k] # <<Dash, Dash>> /\ ~IsOption(given[k]) /\ ~posix
  BY <1>3, <1>7, MeaningTypes DEF WordMeans
<1> QED BY <1>4, <1>5, <1>6, <1>7

LEMMA MeansFromIs ==
  ASSUME given \in Seq(Words)
  PROVE  /\ MeansFrom \in [1 .. Len(given) + 2 -> Meanings]
         /\ \A k \in Len(given) + 1 .. Len(given) + 2 : MeansFrom[k] = Nothing
         /\ \A k \in 1 .. Len(given) :
              MeansFrom[k] = WordMeans(k, MeansFrom[k + 1], MeansFrom[k + 2])
<1> DEFINE N == Len(given)
           H == [k \in 1 .. N |-> [p \in Meanings \X Meanings |-> WordMeans(k, p[1], p[2])]]
           W(k, x, y) == IF k > N THEN Nothing ELSE WordMeans(k, x, y)
<1>1. N \in Nat /\ Nothing \in Meanings
  BY MeaningTypes
<1>2. H \in [1 .. N -> [Meanings \X Meanings -> Meanings]]
  <2>1. ASSUME NEW k \in 1 .. N, NEW p \in Meanings \X Meanings
        PROVE  WordMeans(k, p[1], p[2]) \in Meanings
    BY WordMeansType
  <2> QED BY <2>1
<1>3. PICK f : DownTo(f, 1, N, Meanings, Nothing, H)
  <2> HIDE DEF N, H
  <2> QED BY <1>1, <1>2, DownToOne
<1>4. f \in [1 .. N + 2 -> Meanings] /\ f[N + 1] = Nothing /\ f[N + 2] = Nothing
  BY <1>3 DEF DownTo
<1>5. ASSUME NEW k \in 1 .. N + 2 PROVE f[k] = W(k, f[k + 1], f[k + 2])
  <2>1. CASE k \in {N + 1, N + 2}
    <3>1. k > N
      BY <1>1, <2>1
    <3> QED BY <1>4, <2>1, <3>1
  <2>2. CASE k \notin {N + 1, N + 2}
    <3>1. k \in 1 .. N /\ ~(k > N) /\ k + 1 \in 1 .. N + 2 /\ k + 2 \in 1 .. N + 2
      BY <1>1, <2>2
    <3>2. f[k] = H[k][<<f[k + 1], f[k + 2]>>]
      BY <1>3, <3>1 DEF DownTo
    <3>3. <<f[k + 1], f[k + 2]>> \in Meanings \X Meanings
      BY <1>4, <3>1
    <3>4. f[k] = WordMeans(k, f[k + 1], f[k + 2])
      BY <3>1, <3>2, <3>3
    <3> QED BY <3>1, <3>4
  <2> QED BY <2>1, <2>2
<1>6. f = [k \in 1 .. N + 2 |-> W(k, f[k + 1], f[k + 2])]
  <2> HIDE DEF W
  <2> QED BY <1>4, <1>5
<1>7. MeansFrom = [k \in 1 .. N + 2 |-> W(k, MeansFrom[k + 1], MeansFrom[k + 2])]
  BY <1>6 DEF MeansFrom, WordMeans, WithOperands
<1>8. PICK r : r = MeansFrom
  OBVIOUS
<1>9. r = [k \in 1 .. N + 2 |-> W(k, r[k + 1], r[k + 2])]
  BY <1>7, <1>8
<1>10. ASSUME NEW k \in 1 .. N + 2 PROVE r[k] = W(k, r[k + 1], r[k + 2])
  <2> HIDE DEF W
  <2> QED BY <1>9
<1>11. \A k \in N + 1 .. N + 2 : r[k] = Nothing
  <2> TAKE k \in N + 1 .. N + 2
  <2>1. k \in 1 .. N + 2 /\ k > N
    BY <1>1
  <2> QED BY <1>10, <2>1
<1>12. \A k \in 1 .. N : r[k] = WordMeans(k, r[k + 1], r[k + 2])
  <2> TAKE k \in 1 .. N
  <2>1. k \in 1 .. N + 2 /\ ~(k > N)
    BY <1>1
  <2> QED BY <1>10, <2>1
<1>13. r \in [1 .. N + 2 -> Meanings]
  <2> DEFINE S == {m \in Nat : m <= N => /\ r[N + 1 - m] \in Meanings
                                          /\ r[N + 2 - m] \in Meanings}
  <2>1. 0 \in S
    <3>1. N + 1 - 0 = N + 1 /\ N + 2 - 0 = N + 2
      BY <1>1
    <3>2. r[N + 1] = Nothing /\ r[N + 2] = Nothing
      BY <1>1, <1>11
    <3> QED BY <1>1, <3>1, <3>2
  <2>2. ASSUME NEW m \in Nat, m \in S PROVE m + 1 \in S
    <3> SUFFICES ASSUME m + 1 <= N
                 PROVE  r[N + 1 - (m + 1)] \in Meanings /\ r[N + 2 - (m + 1)] \in Meanings
      OBVIOUS
    <3>1. PICK k : k = N + 1 - (m + 1)
      OBVIOUS
    <3>2. k \in 1 .. N /\ k + 1 = N + 1 - m /\ k + 2 = N + 2 - m /\ k + 1 = N + 2 - (m + 1)
      BY <1>1, <3>1
    <3>3. r[k + 1] \in Meanings /\ r[k + 2] \in Meanings
      BY <1>1, <2>2, <3>2
    <3>4. r[k] \in Meanings
      BY <1>12, <3>2, <3>3, WordMeansType
    <3> QED BY <3>1, <3>2, <3>3, <3>4
  <2>3. Nat \subseteq S
    <3> HIDE DEF S
    <3> QED BY <2>1, <2>2, SetInduction
  <2>4. ASSUME NEW k \in 1 .. N + 2 PROVE r[k] \in Meanings
    <3>1. CASE k = N + 2
      BY <1>1, <1>11, <3>1
    <3>2. CASE k # N + 2
      <4>1. N + 1 - k \in Nat /\ N + 1 - k <= N /\ N + 1 - (N + 1 - k) = k
        BY <1>1, <3>2
      <4>2. N + 1 - k \in S
        BY <2>3, <4>1
      <4> QED BY <4>1, <4>2
    <3> QED BY <3>1, <3>2
  <2> HIDE DEF W
  <2> QED BY <1>9, <2>4
<1> QED BY <1>8, <1>11, <1>12, <1>13


-----------------------------------------------------------------------------
(* What comes before, and what an input that stays the same means.         *)

LEMMA FieldsOf ==
  ASSUME NEW m \in Meanings
  PROVE  /\ m.options \in Opts /\ m.operands \in Seq(Words)
         /\ m.dashes \in BOOLEAN /\ m.usage \in BOOLEAN
         /\ \A o \in Opts :
              /\ Before(o, m).options = o \o m.options
              /\ Before(o, m).operands = m.operands
              /\ Before(o, m).dashes = m.dashes /\ Before(o, m).usage = m.usage
         /\ \A s \in Seq(Words) :
              /\ WithOperands(s, m).options = m.options
              /\ WithOperands(s, m).operands =
                   IF m.dashes THEN m.operands ELSE s \o m.operands
              /\ WithOperands(s, m).dashes = m.dashes
              /\ WithOperands(s, m).usage = m.usage
BY DEF Meanings, Before, WithOperands

LEMMA SameMeaning ==
  ASSUME NEW m \in Meanings, NEW n \in Meanings, m.options = n.options,
         m.operands = n.operands, m.dashes = n.dashes, m.usage = n.usage
  PROVE  m = n
BY DEF Meanings

LEMMA Nothings ==
  ASSUME NEW m \in Meanings
  PROVE  Before(<<>>, m) = m /\ WithOperands(<<>>, m) = m
<1>1. <<>> \in Opts /\ <<>> \in Seq(Words)
  BY DEF Opts
<1>2. <<>> \o m.options = m.options /\ <<>> \o m.operands = m.operands
  BY FieldsOf, ConcatEmptySeq DEF Opts
<1>3. Before(<<>>, m) \in Meanings /\ WithOperands(<<>>, m) \in Meanings
  BY <1>1, MeaningTypes
<1>4. Before(<<>>, m) = m
  <2>1. PICK n \in Meanings : n = Before(<<>>, m)
    BY <1>3
  <2>2. n.options = m.options /\ n.operands = m.operands /\ n.dashes = m.dashes
        /\ n.usage = m.usage
    BY <1>1, <1>2, <2>1, FieldsOf
  <2> QED BY <2>1, <2>2, SameMeaning
<1>5. WithOperands(<<>>, m) = m
  <2>1. PICK n \in Meanings : n = WithOperands(<<>>, m)
    BY <1>3
  <2>2. /\ n.options = m.options /\ n.dashes = m.dashes /\ n.usage = m.usage
        /\ n.operands = IF m.dashes THEN m.operands ELSE <<>> \o m.operands
    BY <1>1, <2>1, FieldsOf
  <2>3. n.operands = m.operands
    BY <1>2, <2>2
  <2> QED BY <2>1, <2>2, <2>3, SameMeaning
<1> QED BY <1>4, <1>5

LEMMA OptionsJoin ==
  ASSUME NEW a \in Opts, NEW b \in Opts, NEW s \in Seq(Words), NEW m \in Meanings
  PROVE  Before(a, WithOperands(s, Before(b, m))) = Before(a \o b, WithOperands(s, m))
<1>1. a \o b \in Opts
  BY DEF Opts
<1>2. m.options \in Opts
  BY FieldsOf
<1>3. (a \o b) \o m.options = a \o (b \o m.options)
  <2>1. PICK w \in Opts : w = m.options
    BY <1>2
  <2>2. (a \o b) \o w = a \o (b \o w)
    BY ConcatAssociative DEF Opts
  <2> QED BY <2>1, <2>2
<1>4. PICK x : x = Before(b, m)
  OBVIOUS
<1>5. x \in Meanings
  BY <1>4, MeaningTypes
<1>6. x.options = b \o m.options /\ x.operands = m.operands /\ x.dashes = m.dashes
      /\ x.usage = m.usage
  BY <1>4, FieldsOf
<1>7. PICK y : y = WithOperands(s, x)
  OBVIOUS
<1>8. PICK z : z = WithOperands(s, m)
  OBVIOUS
<1>9. y \in Meanings /\ z \in Meanings
  BY <1>5, <1>7, <1>8, MeaningTypes
<1>10. y.options = x.options /\ z.options = m.options /\ y.operands = z.operands
       /\ y.dashes = z.dashes /\ y.usage = z.usage
  BY <1>5, <1>6, <1>7, <1>8, FieldsOf
<1>11. PICK u : u = Before(a, y)
  OBVIOUS
<1>12. PICK v : v = Before(a \o b, z)
  OBVIOUS
<1>13. u \in Meanings /\ v \in Meanings
  BY <1>1, <1>9, <1>11, <1>12, MeaningTypes
<1>14. u.options = v.options
  <2>1. u.options = a \o y.options
    BY <1>9, <1>11, FieldsOf
  <2>2. v.options = (a \o b) \o z.options
    BY <1>1, <1>9, <1>12, FieldsOf
  <2> QED BY <1>3, <1>6, <1>10, <2>1, <2>2
<1>15. u.operands = v.operands /\ u.dashes = v.dashes /\ u.usage = v.usage
  <2>1. u.operands = y.operands /\ u.dashes = y.dashes /\ u.usage = y.usage
    BY <1>9, <1>11, FieldsOf
  <2>2. v.operands = z.operands /\ v.dashes = z.dashes /\ v.usage = z.usage
    BY <1>1, <1>9, <1>12, FieldsOf
  <2> QED BY <1>10, <2>1, <2>2
<1>16. u = v
  BY <1>13, <1>14, <1>15, SameMeaning
<1> QED BY <1>4, <1>7, <1>8, <1>11, <1>12, <1>16

LEMMA OperandsJoin ==
  ASSUME NEW s \in Seq(Words), NEW t \in Seq(Words), NEW m \in Meanings
  PROVE  WithOperands(s, WithOperands(t, m)) = WithOperands(s \o t, m)
<1>1. s \o t \in Seq(Words) /\ m.operands \in Seq(Words)
  BY FieldsOf
<1>2. (s \o t) \o m.operands = s \o (t \o m.operands)
  <2>1. PICK w \in Seq(Words) : w = m.operands
    BY <1>1
  <2>2. (s \o t) \o w = s \o (t \o w)
    BY ConcatAssociative
  <2> QED BY <2>1, <2>2
<1>3. PICK x : x = WithOperands(t, m)
  OBVIOUS
<1>4. x \in Meanings
  BY <1>3, MeaningTypes
<1>5. PICK u : u = WithOperands(s, x)
  OBVIOUS
<1>6. PICK v : v = WithOperands(s \o t, m)
  OBVIOUS
<1>7. u \in Meanings /\ v \in Meanings
  BY <1>1, <1>4, <1>5, <1>6, MeaningTypes
<1>8. x.options = m.options /\ x.dashes = m.dashes /\ x.usage = m.usage
      /\ x.operands = IF m.dashes THEN m.operands ELSE t \o m.operands
  BY <1>3, FieldsOf
<1>9. u.options = x.options /\ u.dashes = x.dashes /\ u.usage = x.usage
      /\ u.operands = IF x.dashes THEN x.operands ELSE s \o x.operands
  BY <1>4, <1>5, FieldsOf
<1>10. v.options = m.options /\ v.dashes = m.dashes /\ v.usage = m.usage
      /\ v.operands = IF m.dashes THEN m.operands ELSE (s \o t) \o m.operands
  BY <1>1, <1>6, FieldsOf
<1>11. u.operands = v.operands
  BY <1>2, <1>8, <1>9, <1>10
<1>12. u = v
  BY <1>7, <1>8, <1>9, <1>10, <1>11, SameMeaning
<1> QED BY <1>3, <1>5, <1>6, <1>12

LEMMA InputKeeps ==
  ASSUME UNCHANGED input
  PROVE  /\ MeansFrom' = MeansFrom /\ Means' = Means
         /\ \A k : Value(k)' = Value(k)
         /\ \A k : LettersAt(k)' = LettersAt(k)
<1>1. given' = given /\ posix' = posix
  BY DEF input
<1>2. MeansFrom' = MeansFrom
  BY <1>1 DEF MeansFrom, Value
<1>3. \A k : Value(k)' = Value(k)
  BY <1>1 DEF Value
<1> QED BY <1>1, <1>2, <1>3 DEF Means, LettersAt

(* Operands in a row are read as they are.                                 *)
LEMMA OperandMeans ==
  ASSUME given \in Seq(Words), posix \in BOOLEAN, NEW k \in 1 .. Len(given),
         ~IsOption(given[k])
  PROVE  MeansFrom[k] = IF posix THEN Meaning(<<>>, SubSeq(given, k, Len(given)))
                        ELSE WithOperands(<<given[k]>>, MeansFrom[k + 1])
<1>1. MeansFrom[k] = WordMeans(k, MeansFrom[k + 1], MeansFrom[k + 2])
  BY MeansFromIs
<1>2. given[k] # <<Dash, Dash>>
  <2> SUFFICES ASSUME given[k] = <<Dash, Dash>> PROVE FALSE
    OBVIOUS
  <2>1. given[k] # <<>> /\ given[k][1] = Dash
    OBVIOUS
  <2> QED BY <2>1 DEF IsOption
<1> QED BY <1>1, <1>2 DEF WordMeans

LEMMA Run ==
  ASSUME given \in Seq(Words), posix = FALSE, NEW q \in 1 .. Len(given) + 1,
         NEW p \in 1 .. q, \A n \in p .. q - 1 : ~IsOption(given[n])
  PROVE  MeansFrom[p] = WithOperands(SubSeq(given, p, q - 1), MeansFrom[q])
<1> DEFINE S == {m \in Nat : q - m >= p =>
                   MeansFrom[q - m] =
                     WithOperands(SubSeq(given, q - m, q - 1), MeansFrom[q])}
<1>1. Len(given) \in Nat /\ MeansFrom[q] \in Meanings
  <2>1. Len(given) \in Nat
    OBVIOUS
  <2>2. q \in 1 .. Len(given) + 2
    BY <2>1
  <2>3. MeansFrom \in [1 .. Len(given) + 2 -> Meanings]
    BY MeansFromIs
  <2> QED BY <2>1, <2>2, <2>3
<1>2. 0 \in S
  <2>1. q - 0 = q /\ q - 1 < q /\ q \in Int
    OBVIOUS
  <2>2. SubSeq(given, q, q - 1) = <<>>
    BY <2>1, SubSeqEmpty
  <2>3. WithOperands(<<>>, MeansFrom[q]) = MeansFrom[q]
    BY <1>1, Nothings
  <2> QED BY <2>1, <2>2, <2>3
<1>3. ASSUME NEW m \in Nat, m \in S PROVE m + 1 \in S
  <2> SUFFICES ASSUME q - (m + 1) >= p
               PROVE  MeansFrom[q - (m + 1)] =
                        WithOperands(SubSeq(given, q - (m + 1), q - 1), MeansFrom[q])
    OBVIOUS
  <2>1. PICK k : k = q - (m + 1)
    OBVIOUS
  <2>2. k \in 1 .. Len(given) /\ k + 1 = q - m /\ k \in p .. q - 1 /\ q - m >= p
        /\ k <= k + 1 /\ k + 1 <= q /\ (k + 1) - 1 = k
    BY <1>1, <2>1
  <2>3. ~IsOption(given[k])
    BY <2>2
  <2>4. MeansFrom[k] = WithOperands(<<given[k]>>, MeansFrom[k + 1])
    BY <2>2, <2>3, OperandMeans
  <2>5. MeansFrom[k + 1] = WithOperands(SubSeq(given, k + 1, q - 1), MeansFrom[q])
    BY <1>3, <2>2
  <2>6. SubSeq(given, k, k) = <<given[k]>> /\ <<given[k]>> \in Seq(Words)
    <3>1. SubSeq(given, k, k) = <<given[k]>>
      BY <2>2, OnePiece
    <3>2. given[k] \in Words
      BY <2>2
    <3> QED BY <3>1, <3>2
  <2>7. /\ SubSeq(given, k, k) \o SubSeq(given, k + 1, q - 1) = SubSeq(given, k, q - 1)
        /\ SubSeq(given, k + 1, q - 1) \in Seq(Words)
    <3>1. k \in Int /\ k + 1 \in Int /\ q \in Int /\ 1 <= k /\ q <= Len(given) + 1
          /\ 1 <= k + 1 /\ q <= q
      BY <1>1, <2>2
    <3>2. SubSeq(given, k, (k + 1) - 1) \o SubSeq(given, k + 1, q - 1)
            = SubSeq(given, k, q - 1)
      BY <2>2, <3>1, Pieces
    <3>3. SubSeq(given, k + 1, q - 1) \in Seq(Words)
      BY <2>2, <3>1, Pieces
    <3> QED BY <2>2, <3>2, <3>3
  <2>8. MeansFrom[k] = WithOperands(SubSeq(given, k, q - 1), MeansFrom[q])
    <3>1. PICK s \in Seq(Words) : s = SubSeq(given, k + 1, q - 1)
      BY <2>7
    <3>2. PICK t \in Seq(Words) : t = <<given[k]>>
      BY <2>6
    <3>3. MeansFrom[k] = WithOperands(t, WithOperands(s, MeansFrom[q]))
      BY <2>4, <2>5, <3>1, <3>2
    <3>4. WithOperands(t, WithOperands(s, MeansFrom[q])) = WithOperands(t \o s, MeansFrom[q])
      BY <1>1, OperandsJoin
    <3>5. t \o s = SubSeq(given, k, q - 1)
      BY <2>6, <2>7, <3>1, <3>2
    <3> QED BY <3>3, <3>4, <3>5
  <2> QED BY <2>1, <2>8
<1>4. Nat \subseteq S
  <2> HIDE DEF S
  <2> QED BY <1>2, <1>3, SetInduction
<1>5. PICK m \in Nat : m = q - p
  OBVIOUS
<1>6. q - m = p /\ p >= p
  BY <1>5
<1>7. m \in S
  BY <1>4
<1> QED BY <1>6, <1>7

-----------------------------------------------------------------------------
(* One step at a time.                                                     *)

LEMMA Facts ==
  ASSUME TypeOK
  PROVE  /\ given \in Seq(Words) /\ argv \in Seq(Words) /\ posix \in BOOLEAN
         /\ Len(given) \in Nat /\ Len(argv) = Len(given) /\ argc = Len(given) + 1
         /\ optind \in 1 .. Len(given) + 1 /\ charidx \in Nat \ {0}
         /\ start \in 0 .. Len(given) /\ end \in 0 .. Len(given)
         /\ options \in Opts
         /\ \A k \in 1 .. Len(given) + 2 : MeansFrom[k] \in Meanings
<1>1. given \in Seq(Words) /\ Len(given) \in Nat
  BY DEF TypeOK
<1>2. MeansFrom \in [1 .. Len(given) + 2 -> Meanings]
  BY <1>1, MeansFromIs
<1>3. \A k \in 1 .. Len(given) + 2 : MeansFrom[k] \in Meanings
  BY <1>2
<1>4. /\ argv \in Seq(Words) /\ posix \in BOOLEAN /\ Len(argv) = Len(given)
      /\ argc = Len(given) + 1 /\ optind \in 1 .. Len(given) + 1
      /\ charidx \in Nat \ {0} /\ start \in 0 .. Len(given) /\ end \in 0 .. Len(given)
  BY DEF TypeOK, argc
<1>5. options \in Opts
  BY DEF TypeOK, Opts
<1> QED BY <1>1, <1>3, <1>4, <1>5

LEMMA SegmentType ==
  ASSUME TypeOK, NEW j \in Nat, NEW k \in Int, 1 <= j, k <= argc
  PROVE  Segment(j, k) \in Seq(Words)
<1>1. \A n \in j .. k - 1 : argv[n] \in Words
  BY Facts
<1>2. j \in Int /\ k - 1 \in Int
  OBVIOUS
<1> QED BY <1>1, <1>2, SubSeqProperties DEF Segment

LEMMA PassedOverType ==
  ASSUME TypeOK
  PROVE  PassedOver \in Seq(Words)
<1>1. start \in Nat /\ end \in Int /\ end <= argc
  BY Facts
<1>2. CASE start = 0
  BY <1>2 DEF PassedOver
<1>3. CASE start # 0
  <2>1. Segment(start, end) \in Seq(Words)
    BY <1>1, <1>3, SegmentType
  <2> QED BY <1>3, <2>1 DEF PassedOver
<1> QED BY <1>2, <1>3

LEMMA NoSegment ==
  ASSUME NEW j \in Int
  PROVE  Segment(j, j) = <<>>
<1>1. j - 1 \in Int /\ j - 1 < j
  OBVIOUS
<1> QED BY <1>1, SubSeqEmpty DEF Segment

LEMMA SegmentsJoin ==
  ASSUME TypeOK, NEW j \in Nat, NEW k \in Nat, NEW l \in Nat,
         1 <= j, j <= k, k <= l, l <= argc
  PROVE  Segment(j, k) \o Segment(k, l) = Segment(j, l)
<1>1. argv \in Seq(Words) /\ l <= Len(argv) + 1
  BY Facts
<1> QED BY <1>1, Pieces DEF Segment

LEMMA OneWord ==
  ASSUME TypeOK, NEW j \in 1 .. Len(given)
  PROVE  Segment(j, j + 1) = <<argv[j]>> /\ argv[j] \in Words
<1>1. argv \in Seq(Words) /\ j \in 1 .. Len(argv) /\ (j + 1) - 1 = j
  BY Facts
<1>2. SubSeq(argv, j, j) = <<argv[j]>>
  BY <1>1, OnePiece
<1> QED BY <1>1, <1>2 DEF Segment

(* A step that leaves the words and what main() has got alone.             *)
LEMMA WordsKept ==
  ASSUME UNCHANGED <<input, argv, options>>
  PROVE  /\ given' = given /\ posix' = posix /\ argv' = argv /\ options' = options
         /\ argc' = argc /\ Means' = Means /\ MeansFrom' = MeansFrom
         /\ \A k : LettersAt(k)' = LettersAt(k)
         /\ \A j : Untouched(j)' <=> Untouched(j)
         /\ \A j, k : (Operands(j, k)' <=> Operands(j, k)) /\ Segment(j, k)' = Segment(j, k)
         /\ \A s, m : Leaves(s, m)' <=> Leaves(s, m)
<1>1. given' = given /\ posix' = posix /\ argv' = argv /\ options' = options
  BY DEF input
<1>2. Means' = Means /\ MeansFrom' = MeansFrom /\ \A k : LettersAt(k)' = LettersAt(k)
  BY InputKeeps
<1>3. \A j : Untouched(j)' <=> Untouched(j)
  BY <1>1 DEF Untouched
<1>4. \A j, k : Operands(j, k)' <=> Operands(j, k)
  BY <1>1 DEF Operands, IsOption
<1>5. \A j, k : Segment(j, k)' = Segment(j, k)
  BY <1>1 DEF Segment
<1>6. \A s, m : Leaves(s, m)' <=> Leaves(s, m)
  BY <1>1, <1>2 DEF Leaves
<1>7. argc' = argc
  BY <1>1 DEF argc
<1> QED BY <1>1, <1>2, <1>3, <1>4, <1>5, <1>6, <1>7

(* A step that leaves alone what is passed over and the position, too.     *)
LEMMA OnlyPhase ==
  ASSUME UNCHANGED <<input, argv, scan, start, end, rotation, options>>
  PROVE  /\ optind' = optind /\ charidx' = charidx /\ start' = start /\ end' = end
         /\ held' = held /\ i' = i /\ lastPos' = lastPos
         /\ PassedOver' = PassedOver /\ (InWord' <=> InWord)
         /\ UNCHANGED <<input, argv, options>>
<1>1. /\ optind' = optind /\ charidx' = charidx /\ start' = start /\ end' = end
      /\ held' = held /\ i' = i /\ lastPos' = lastPos
      /\ UNCHANGED <<input, argv, options>>
  BY DEF scan, rotation
<1>2. argv' = argv
  BY <1>1
<1>3. PassedOver' = PassedOver
  BY <1>1, <1>2 DEF PassedOver, Segment
<1>4. LettersAt(optind)' = LettersAt(optind)
  <2>1. given' = given /\ posix' = posix
    BY DEF input
  <2>2. MeansFrom' = MeansFrom
    BY <1>1, WordsKept
  <2> QED BY <1>1, <2>1, <2>2 DEF LettersAt, Value
<1>5. Leaves(PassedOver, LettersAt(optind)[charidx + 1])' <=>
        Leaves(PassedOver, LettersAt(optind)[charidx + 1])
  <2>1. Means' = Means /\ options' = options
    BY <1>1, WordsKept
  <2> QED BY <1>1, <1>3, <1>4, <2>1 DEF Leaves
<1>6. argc' = argc
  BY <1>1, WordsKept
<1>7. InWord' <=> InWord
  BY <1>1, <1>2, <1>5, <1>6 DEF InWord, IsOption
<1> QED BY <1>1, <1>3, <1>7

LEMMA CallKeeps ==
  ASSUME IInv, Call
  PROVE  IInv'
<1>1. /\ phase = "call" /\ phase' = "fetch" /\ (charidx # 1 \/ start = 0)
      /\ UNCHANGED <<input, argv, scan, start, end, rotation, options>>
  BY DEF Call
<1>2. /\ optind' = optind /\ charidx' = charidx /\ start' = start /\ end' = end
      /\ lastPos' = lastPos /\ i' = i /\ PassedOver' = PassedOver /\ (InWord' <=> InWord)
      /\ UNCHANGED <<input, argv, options>>
  BY <1>1, OnlyPhase
<1>3. /\ argv' = argv /\ given' = given /\ posix' = posix /\ options' = options
      /\ argc' = argc /\ MeansFrom' = MeansFrom
      /\ \A j : Untouched(j)' <=> Untouched(j)
      /\ \A j, k : (Operands(j, k)' <=> Operands(j, k)) /\ Segment(j, k)' = Segment(j, k)
      /\ \A s, m : Leaves(s, m)' <=> Leaves(s, m)
  BY <1>2, WordsKept
<1>4. TypeOK /\ ScanInHand
  BY DEF IInv
<1>5. TypeOK'
  BY <1>1, <1>2, <1>3, <1>4 DEF TypeOK
<1>6. PICK o : o = optind
  OBVIOUS
<1>7. o \in Nat /\ 1 <= o /\ o <= argc
  BY <1>4, <1>6, Facts
<1>8. /\ Untouched(o)
      /\ start # 0 => ~posix /\ start < end /\ end <= optind /\ Operands(start, end)
      /\ IF charidx = 1 THEN Leaves(PassedOver, MeansFrom[o]) ELSE InWord
  BY <1>1, <1>4, <1>6 DEF ScanInHand
<1>9. Untouched(optind)'
  BY <1>2, <1>3, <1>6, <1>8 DEF Untouched
<1>10. start # 0 => Operands(start, end)'
  BY <1>2, <1>3, <1>8 DEF Operands, IsOption
<1>11. ScanInHand'
  BY <1>1, <1>2, <1>3, <1>8, <1>9, <1>10 DEF ScanInHand
<1>12. FetchInHand'
  <2> SUFFICES ASSUME charidx' = 1 PROVE FetchInHand'
    BY DEF FetchInHand
  <2>1. start = 0 /\ charidx = 1
    BY <1>1, <1>2
  <2>2. Segment(o, o) = PassedOver
    BY <1>7, <2>1, NoSegment DEF PassedOver
  <2>3. Untouched(o)' /\ Leaves(Segment(o, o), MeansFrom[o])
    BY <1>3, <1>8, <2>1, <2>2
  <2>4. Operands(o, o)'
    BY <1>7 DEF Operands
  <2>5. PICK s : s = Segment(o, o)
    OBVIOUS
  <2>6. PICK m : m = MeansFrom[o]
    OBVIOUS
  <2>7. Leaves(s, m)'
    BY <1>3, <2>3, <2>5, <2>6
  <2>8. Segment(o, o)' = s /\ MeansFrom[o]' = m
    BY <1>3, <2>5, <2>6
  <2>9. Leaves(Segment(o, o), MeansFrom[o])'
    BY <2>7, <2>8 DEF Leaves
  <2>10. o \in (optind .. argc)' /\ optind' = o /\ start' = 0
    BY <1>2, <1>3, <1>6, <1>7, <2>1
  <2> QED BY <2>3, <2>4, <2>9, <2>10 DEF FetchInHand
<1>13. RotateInHand' /\ ShiftInHand' /\ ParsesTheCommandLine'
  BY <1>1 DEF RotateInHand, ShiftInHand, ParsesTheCommandLine
<1> QED BY <1>5, <1>11, <1>12, <1>13 DEF IInv

(* What is in hand where a word is looked for, said of the state after.    *)
LEMMA FetchAfter ==
  ASSUME UNCHANGED <<input, argv, options>>, NEW o, o = optind', start' = 0,
         NEW p \in o .. argc, Untouched(p), Operands(o, p), posix => p = o,
         Leaves(Segment(o, p), MeansFrom[p])
  PROVE  FetchInHand'
<1>1. /\ posix' = posix /\ argc' = argc
      /\ Untouched(p)' /\ Operands(o, p)'
      /\ Segment(o, p)' = Segment(o, p) /\ MeansFrom' = MeansFrom /\ Means' = Means
      /\ options' = options
  BY WordsKept
<1>2. Leaves(Segment(o, p), MeansFrom[p])'
  BY <1>1 DEF Leaves
<1> QED BY <1>1, <1>2 DEF FetchInHand

LEMMA CallRotatesKeeps ==
  ASSUME IInv, CallRotates
  PROVE  IInv'
<1>1. /\ phase = "call" /\ phase' = "rotate" /\ charidx = 1 /\ start # 0
      /\ lastPos' = optind - 1 /\ optind' = optind - (end - start)
      /\ charidx' = charidx /\ start' = start /\ end' = end
      /\ UNCHANGED <<input, argv, options>>
  BY DEF CallRotates
<1>2. TypeOK /\ ScanInHand
  BY DEF IInv
<1>3. PICK o : o = optind
  OBVIOUS
<1>4. /\ ~posix /\ start < end /\ end <= o /\ Untouched(o) /\ Operands(start, end)
      /\ Leaves(Segment(start, end), MeansFrom[o])
  BY <1>1, <1>2, <1>3 DEF ScanInHand, PassedOver
<1>5. /\ o \in 1 .. Len(given) + 1 /\ start \in 1 .. Len(given) /\ end \in 0 .. Len(given)
      /\ Len(given) \in Nat /\ argc = Len(given) + 1 /\ Len(argv) = Len(given)
  BY <1>1, <1>2, <1>3, Facts
<1>6. PICK s : s = start
  OBVIOUS
<1>7. PICK e : e = end
  OBVIOUS
<1>8. /\ posix' = posix /\ argc' = argc /\ given' = given /\ argv' = argv
      /\ options' = options /\ MeansFrom' = MeansFrom /\ Means' = Means
      /\ Untouched(o)' /\ Operands(s, e)' /\ Segment(s, e)' = Segment(s, e)
      /\ Segment(o, o)' = Segment(o, o)
  BY <1>1, <1>4, <1>6, <1>7, WordsKept
<1>9. lastPos' = o - 1 /\ optind' = o - (e - s) /\ optind' \in 1 .. Len(given) + 1
      /\ lastPos' + 1 = o
  <2>1. s \in 1 .. Len(given) /\ e \in 0 .. Len(given) /\ s < e /\ e <= o
    BY <1>4, <1>5, <1>6, <1>7
  <2> QED BY <1>1, <1>3, <1>5, <1>6, <1>7, <2>1
<1>10. TypeOK'
  <2>1. lastPos' \in 0 .. Len(argv)'
    BY <1>5, <1>8, <1>9
  <2> QED BY <1>1, <1>2, <1>5, <1>8, <1>9, <2>1 DEF TypeOK
<1>11. Leaves(Segment(s, e) \o Segment(o, o), MeansFrom[o])'
  <2>1. Segment(o, o) = <<>>
    BY <1>5, NoSegment
  <2>2. Segment(s, e) \in Seq(Words)
    BY <1>2, <1>5, <1>6, <1>7, SegmentType
  <2>3. Segment(s, e) \o <<>> = Segment(s, e)
    BY <2>2, ConcatEmptySeq
  <2> QED BY <1>4, <1>6, <1>7, <1>8, <2>1, <2>3 DEF Leaves
<1>12. RotateInHand'
  <2>1. 1 <= start' /\ start' <= end' /\ end' <= lastPos' + 1
        /\ optind' = lastPos' + 1 - (end' - start')
    BY <1>1, <1>4, <1>5, <1>6, <1>7, <1>9
  <2>2. o \in lastPos' + 1 .. argc'
    BY <1>5, <1>8, <1>9
  <2>3. Operands(o, o)'
    BY <1>5 DEF Operands
  <2>4. start' = s /\ end' = e
    BY <1>1, <1>6, <1>7
  <2>5. \E p \in (lastPos + 1 .. argc)' :
          /\ Untouched(p)' /\ Operands(start, end)' /\ Operands(lastPos + 1, p)'
          /\ Leaves(Segment(start, end) \o Segment(lastPos + 1, p), MeansFrom[p])'
    BY <1>8, <1>9, <1>11, <2>2, <2>3, <2>4
  <2> QED BY <1>1, <1>4, <1>8, <2>1, <2>5 DEF RotateInHand
<1>13. ScanInHand' /\ FetchInHand' /\ ShiftInHand' /\ ParsesTheCommandLine'
  BY <1>1 DEF ScanInHand, FetchInHand, ShiftInHand, ParsesTheCommandLine
<1> QED BY <1>10, <1>12, <1>13 DEF IInv

LEMMA RotateKeeps ==
  ASSUME IInv, Rotate
  PROVE  IInv'
<1>1. /\ phase = "rotate" /\ phase' = "shift" /\ start < end
      /\ end' = end - 1 /\ held' = argv[end - 1] /\ i' = end - 1
      /\ lastPos' = lastPos /\ optind' = optind /\ charidx' = charidx /\ start' = start
      /\ UNCHANGED <<input, argv, options>>
  BY DEF Rotate, scan
<1>2. TypeOK
  BY DEF IInv
<1>3. PICK l : l = lastPos
  OBVIOUS
<1>4. PICK s : s = start
  OBVIOUS
<1>5. PICK e : e = end - 1
  OBVIOUS
<1>6. /\ ~posix /\ charidx = 1 /\ 1 <= start /\ start <= end /\ end <= lastPos + 1
      /\ optind = lastPos + 1 - (end - start)
      /\ \E p \in lastPos + 1 .. argc :
         /\ Untouched(p) /\ Operands(start, end) /\ Operands(lastPos + 1, p)
         /\ Leaves(Segment(start, end) \o Segment(lastPos + 1, p), MeansFrom[p])
  BY <1>1 DEF IInv, RotateInHand
<1>7. /\ Len(given) \in Nat /\ argc = Len(given) + 1 /\ Len(argv) = Len(given)
      /\ start \in 0 .. Len(given) /\ end \in 0 .. Len(given) /\ optind \in 1 .. Len(given) + 1
  BY <1>2, Facts
<1>8. l \in 0 .. Len(given)
  BY <1>1, <1>2, <1>3, <1>7 DEF TypeOK
<1>9. /\ e \in 1 .. Len(given) /\ s \in 1 .. Len(given) /\ s <= e /\ e <= l
      /\ end = e + 1 /\ optind = l - (e - s)
  BY <1>1, <1>3, <1>4, <1>5, <1>6, <1>7, <1>8
<1>10. PICK p \in l + 1 .. argc :
         /\ Untouched(p) /\ Operands(s, e + 1) /\ Operands(l + 1, p)
         /\ Leaves(Segment(s, e + 1) \o Segment(l + 1, p), MeansFrom[p])
  BY <1>3, <1>4, <1>6, <1>9
<1>11. argv[e] \in Words /\ ~IsOption(argv[e])
  <2>1. e \in s .. (e + 1) - 1
    BY <1>9
  <2> QED BY <1>2, <1>9, <1>10, <2>1, OneWord DEF Operands
<1>12. Operands(s, e)
  <2>1. \A n \in s .. e - 1 : n \in s .. (e + 1) - 1
    BY <1>9
  <2> QED BY <1>10, <2>1 DEF Operands
<1>13. Segment(s, e + 1) = Segment(s, e) \o <<argv[e]>>
  <2>1. Segment(s, e) \o Segment(e, e + 1) = Segment(s, e + 1)
    <3>1. s \in Nat /\ e \in Nat /\ e + 1 \in Nat /\ 1 <= s /\ s <= e /\ e <= e + 1
          /\ e + 1 <= argc
      BY <1>7, <1>9
    <3> QED BY <1>2, <3>1, SegmentsJoin
  <2>2. Segment(e, e + 1) = <<argv[e]>>
    BY <1>2, <1>9, OneWord
  <2> QED BY <2>1, <2>2
<1>14. /\ posix' = posix /\ argc' = argc /\ given' = given /\ argv' = argv
       /\ options' = options /\ MeansFrom' = MeansFrom /\ Means' = Means
       /\ Untouched(p)' /\ Operands(s, e)' /\ Operands(l + 1, p)'
       /\ Segment(s, e)' = Segment(s, e) /\ Segment(l + 1, p)' = Segment(l + 1, p)
  BY <1>1, <1>10, <1>12, WordsKept
<1>15. start' = s /\ end' = e /\ held' = argv[e] /\ i' = e /\ lastPos' = l
  BY <1>1, <1>3, <1>4, <1>5
<1>16. Leaves(Segment(s, e) \o <<argv[e]>> \o Segment(l + 1, p), MeansFrom[p])'
  BY <1>10, <1>13, <1>14 DEF Leaves
<1>17. TypeOK'
  <2>1. /\ e \in 0 .. Len(argv)' /\ e \in 1 .. Len(argv)' /\ l \in 0 .. Len(argv)'
    BY <1>7, <1>8, <1>9, <1>14
  <2> QED BY <1>1, <1>2, <1>14, <1>15, <2>1 DEF TypeOK
<1>18. ShiftInHand'
  <2>1. \E q \in (lastPos + 1 .. argc)' :
          /\ Untouched(q)' /\ Operands(start, end)' /\ Operands(lastPos + 1, q)'
          /\ Leaves(Segment(start, end) \o <<held>> \o Segment(lastPos + 1, q), MeansFrom[q])'
    <3>1. p \in (lastPos + 1 .. argc)'
      BY <1>14, <1>15
    <3>2. (Segment(start, end) \o <<held>> \o Segment(lastPos + 1, p))'
             = Segment(s, e) \o <<argv[e]>> \o Segment(l + 1, p)
      BY <1>14, <1>15
    <3>3. Leaves(Segment(start, end) \o <<held>> \o Segment(lastPos + 1, p), MeansFrom[p])'
      BY <1>14, <1>16, <3>2 DEF Leaves
    <3>4. Operands(start, end)' /\ Operands(lastPos + 1, p)'
      BY <1>14, <1>15
    <3> QED BY <1>14, <3>1, <3>3, <3>4
  <2>2. ~IsOption(held)' /\ held' \in Words
    BY <1>11, <1>15 DEF IsOption
  <2>3. 1 <= start' /\ start' <= end' /\ end' <= i' /\ i' <= lastPos'
        /\ optind' = lastPos' - (end' - start')
    BY <1>1, <1>9, <1>15
  <2> QED BY <1>1, <1>6, <1>14, <2>1, <2>2, <2>3 DEF ShiftInHand
<1>19. ScanInHand' /\ FetchInHand' /\ RotateInHand' /\ ParsesTheCommandLine'
  BY <1>1 DEF ScanInHand, FetchInHand, RotateInHand, ParsesTheCommandLine
<1> QED BY <1>17, <1>18, <1>19 DEF IInv

(* The steps of the rotation that write a word write none behind lastPos,  *)
(* and none in front of the word i.                                        *)
SegmentKept(p, q) ==
  Segment(p, q)' = Segment(p, q) /\ (Operands(p, q) => Operands(p, q)')

LEMMA WordsBehindKept ==
  ASSUME TypeOK, NEW l \in 1 .. Len(given), NEW w \in Words, NEW n \in 1 .. l,
         argv' = [argv EXCEPT ![n] = w]
  PROVE  /\ argv' \in Seq(Words) /\ Len(argv') = Len(argv) /\ argv'[n] = w
         /\ \A j \in 1 .. Len(given) : j # n => argv'[j] = argv[j]
         /\ \A p \in l + 1 .. argc : \A q \in p .. argc : SegmentKept(p, q)
         /\ \A e \in 1 .. n : \A s \in 1 .. e : SegmentKept(s, e)
<1>1. argv \in Seq(Words) /\ Len(argv) = Len(given) /\ Len(given) \in Nat
      /\ argc = Len(given) + 1
  BY Facts
<1>2. n \in 1 .. Len(argv)
  BY <1>1
<1>3. argv' \in Seq(Words) /\ Len(argv') = Len(argv)
      /\ \A j \in 1 .. Len(argv) : argv'[j] = IF j = n THEN w ELSE argv[j]
  BY <1>1, <1>2, ExceptSeq
<1>4. argv'[n] = w /\ \A j \in 1 .. Len(given) : j # n => argv'[j] = argv[j]
  BY <1>1, <1>2, <1>3
<1>5. ASSUME NEW j \in Nat, NEW k \in Nat, 1 <= j, k <= argc,
             \A x \in j .. k - 1 : x # n
      PROVE  SegmentKept(j, k)
  <2>1. \A x \in j .. k - 1 : argv'[x] = argv[x]
    <3> TAKE x \in j .. k - 1
    <3>1. x \in 1 .. Len(given) /\ x # n
      BY <1>1, <1>5
    <3> QED BY <1>4, <3>1
  <2>2. j \in Int /\ k \in Int /\ 1 <= j /\ k <= Len(argv) + 1 /\ k <= Len(argv') + 1
    BY <1>1, <1>3, <1>5
  <2>3. SubSeq(argv', j, k - 1) = SubSeq(argv, j, k - 1)
    BY <1>1, <1>3, <2>1, <2>2, SamePieces
  <2>4. Operands(j, k) => Operands(j, k)'
    BY <2>1 DEF Operands, IsOption
  <2> QED BY <2>3, <2>4 DEF Segment, SegmentKept
<1>6. ASSUME NEW p \in l + 1 .. argc, NEW q \in p .. argc
      PROVE  SegmentKept(p, q)
  <2>1. p \in Nat /\ q \in Nat /\ 1 <= p /\ q <= argc /\ \A x \in p .. q - 1 : x # n
    BY <1>1
  <2> QED BY <1>5, <2>1
<1>7. ASSUME NEW e \in 1 .. n, NEW s \in 1 .. e
      PROVE  SegmentKept(s, e)
  <2>1. s \in Nat /\ e \in Nat /\ 1 <= s /\ e <= argc /\ \A x \in s .. e - 1 : x # n
    BY <1>1, <1>2
  <2> QED BY <1>5, <2>1
<1> QED BY <1>3, <1>4, <1>6, <1>7

LEMMA InShift ==
  ASSUME IInv, phase = "shift", NEW l, l = lastPos, NEW s, s = start, NEW e, e = end,
         NEW n, n = i
  PROVE  /\ ~posix /\ charidx = 1 /\ held \in Words /\ ~IsOption(held)
         /\ l \in 1 .. Len(given) /\ n \in 1 .. l /\ e \in 1 .. n /\ s \in 1 .. e
         /\ optind = l - (e - s) /\ Len(given) \in Nat /\ argc = Len(given) + 1
         /\ \E p \in l + 1 .. argc :
              /\ Untouched(p) /\ Operands(s, e) /\ Operands(l + 1, p)
              /\ Leaves(Segment(s, e) \o <<held>> \o Segment(l + 1, p), MeansFrom[p])
<1>1. /\ ~posix /\ charidx = 1 /\ held \in Words /\ ~IsOption(held)
      /\ 1 <= start /\ start <= end /\ end <= i /\ i <= lastPos
      /\ optind = lastPos - (end - start)
      /\ \E p \in lastPos + 1 .. argc :
           /\ Untouched(p) /\ Operands(start, end) /\ Operands(lastPos + 1, p)
           /\ Leaves(Segment(start, end) \o <<held>> \o Segment(lastPos + 1, p),
                     MeansFrom[p])
  BY DEF IInv, ShiftInHand
<1>2. TypeOK
  BY DEF IInv
<1>3. /\ Len(given) \in Nat /\ argc = Len(given) + 1 /\ Len(argv) = Len(given)
      /\ start \in 0 .. Len(given) /\ end \in 0 .. Len(given)
  BY <1>2, Facts
<1>4. lastPos \in 0 .. Len(argv) /\ i \in 1 .. Len(argv)
  BY <1>2 DEF TypeOK
<1>5. l \in 1 .. Len(given) /\ n \in 1 .. l /\ e \in 1 .. n /\ s \in 1 .. e
  BY <1>1, <1>3, <1>4
<1> QED BY <1>1, <1>3, <1>5

LEMMA ShiftKeeps ==
  ASSUME IInv, Shift
  PROVE  IInv'
<1>1. /\ phase = "shift" /\ phase' = "shift" /\ i < lastPos
      /\ argv' = [argv EXCEPT ![i] = argv[i + 1]] /\ i' = i + 1
      /\ held' = held /\ lastPos' = lastPos /\ optind' = optind /\ charidx' = charidx
      /\ start' = start /\ end' = end /\ UNCHANGED input /\ options' = options
  BY DEF Shift, scan
<1>2. TypeOK
  BY DEF IInv
<1>3. PICK l : l = lastPos
  OBVIOUS
<1>4. PICK s : s = start
  OBVIOUS
<1>5. PICK e : e = end
  OBVIOUS
<1>6. PICK n : n = i
  OBVIOUS
<1>7. PICK w : w = argv[n + 1]
  OBVIOUS
<1>8. /\ ~posix /\ charidx = 1 /\ held \in Words /\ ~IsOption(held)
      /\ l \in 1 .. Len(given) /\ n \in 1 .. l /\ e \in 1 .. n /\ s \in 1 .. e
      /\ optind = l - (e - s) /\ Len(given) \in Nat /\ argc = Len(given) + 1
      /\ \E p \in l + 1 .. argc :
           /\ Untouched(p) /\ Operands(s, e) /\ Operands(l + 1, p)
           /\ Leaves(Segment(s, e) \o <<held>> \o Segment(l + 1, p), MeansFrom[p])
  BY <1>1, <1>3, <1>4, <1>5, <1>6, InShift
<1>9. PICK p \in l + 1 .. argc :
         /\ Untouched(p) /\ Operands(s, e) /\ Operands(l + 1, p)
         /\ Leaves(Segment(s, e) \o <<held>> \o Segment(l + 1, p), MeansFrom[p])
  BY <1>8
<1>10. n + 1 \in 1 .. l /\ n + 1 \in 1 .. Len(given)
  BY <1>1, <1>3, <1>6, <1>8
<1>11. w \in Words /\ argv' = [argv EXCEPT ![n] = w]
  <2>1. argv[n + 1] \in Words
    BY <1>2, <1>10, OneWord
  <2> QED BY <1>1, <1>6, <1>7, <2>1
<1>12. /\ argv' \in Seq(Words) /\ Len(argv') = Len(argv) /\ argv'[n] = w
       /\ \A j \in 1 .. Len(given) : j # n => argv'[j] = argv[j]
       /\ \A a \in l + 1 .. argc : \A b \in a .. argc : SegmentKept(a, b)
       /\ \A b \in 1 .. n : \A a \in 1 .. b : SegmentKept(a, b)
  <2>1. l \in 1 .. Len(given) /\ n \in 1 .. l /\ w \in Words
    BY <1>8, <1>11
  <2>2. argv' = [argv EXCEPT ![n] = w]
    BY <1>11
  <2> QED BY <1>2, <2>1, <2>2, WordsBehindKept
<1>13. /\ Segment(s, e)' = Segment(s, e) /\ Operands(s, e)'
       /\ Segment(l + 1, p)' = Segment(l + 1, p) /\ Operands(l + 1, p)'
  <2>1. l + 1 \in l + 1 .. argc /\ p \in l + 1 .. argc
    BY <1>8
  <2>2. Segment(l + 1, p)' = Segment(l + 1, p) /\ Operands(l + 1, p)'
    BY <1>9, <1>12, <2>1 DEF SegmentKept
  <2> QED BY <1>8, <1>9, <1>12, <2>2 DEF SegmentKept
<1>14. given' = given /\ posix' = posix /\ Means' = Means /\ MeansFrom' = MeansFrom
  BY <1>1, InputKeeps DEF input
<1>15. argc' = argc
  BY <1>12 DEF argc
<1>16. Untouched(p)'
  <2>1. \A j \in p .. Len(given) : j \in 1 .. Len(given) /\ j # n
    BY <1>8
  <2> QED BY <1>9, <1>12, <1>14, <2>1 DEF Untouched
<1>17. start' = s /\ end' = e /\ held' = held /\ i' = n + 1 /\ lastPos' = l
  BY <1>1, <1>3, <1>4, <1>5, <1>6
<1>18. TypeOK'
  <2>1. /\ given' \in Seq(Words) /\ Len(argv') = Len(given') /\ posix' \in BOOLEAN
        /\ (optind \in 1 .. argc)' /\ charidx' \in Nat \ {0}
        /\ (start \in 0 .. Len(argv))' /\ (end \in 0 .. Len(argv))'
        /\ options' \in Seq((Flags \cup Valued) \X Seq(STRING))
    BY <1>1, <1>2, <1>12, <1>14, <1>15 DEF TypeOK
  <2>2. lastPos' \in 0 .. Len(argv') /\ i' \in 1 .. Len(argv')
    <3>1. Len(argv') = Len(given)
      BY <1>2, <1>12, Facts
    <3>2. l \in 0 .. Len(given) /\ n + 1 \in 1 .. Len(given)
      BY <1>8, <1>10
    <3> QED BY <1>17, <3>1, <3>2
  <2> QED BY <1>1, <1>12, <2>1, <2>2 DEF TypeOK
<1>19. ShiftInHand'
  <2>1. \E q \in (lastPos + 1 .. argc)' :
          /\ Untouched(q)' /\ Operands(start, end)' /\ Operands(lastPos + 1, q)'
          /\ Leaves(Segment(start, end) \o <<held>> \o Segment(lastPos + 1, q), MeansFrom[q])'
    <3>1. p \in (lastPos + 1 .. argc)'
      BY <1>15, <1>17
    <3>2. (Segment(start, end) \o <<held>> \o Segment(lastPos + 1, p))'
             = Segment(s, e) \o <<held>> \o Segment(l + 1, p)
      BY <1>13, <1>17
    <3>3. Leaves(Segment(start, end) \o <<held>> \o Segment(lastPos + 1, p), MeansFrom[p])'
      BY <1>1, <1>9, <1>14, <3>2 DEF Leaves
    <3>4. Operands(start, end)' /\ Operands(lastPos + 1, p)'
      BY <1>13, <1>17
    <3> QED BY <1>16, <3>1, <3>3, <3>4
  <2>2. ~IsOption(held)' /\ held' \in Words
    BY <1>8, <1>17 DEF IsOption
  <2>3. 1 <= start' /\ start' <= end' /\ end' <= i' /\ i' <= lastPos'
        /\ optind' = lastPos' - (end' - start')
    BY <1>1, <1>8, <1>10, <1>17
  <2> QED BY <1>1, <1>8, <1>14, <2>1, <2>2, <2>3 DEF ShiftInHand
<1>20. ScanInHand' /\ FetchInHand' /\ RotateInHand' /\ ParsesTheCommandLine'
  BY <1>1 DEF ScanInHand, FetchInHand, RotateInHand, ParsesTheCommandLine
<1> QED BY <1>18, <1>19, <1>20 DEF IInv

LEMMA ShiftEndsKeeps ==
  ASSUME IInv, ShiftEnds
  PROVE  IInv'
<1>1. /\ phase = "shift" /\ phase' = "rotate" /\ i >= lastPos
      /\ argv' = [argv EXCEPT ![i] = held] /\ lastPos' = lastPos - 1
      /\ optind' = optind /\ charidx' = charidx
      /\ start' = start /\ end' = end /\ UNCHANGED input /\ options' = options
  BY DEF ShiftEnds, scan
<1>2. TypeOK
  BY DEF IInv
<1>3. PICK l : l = lastPos
  OBVIOUS
<1>4. PICK s : s = start
  OBVIOUS
<1>5. PICK e : e = end
  OBVIOUS
<1>6. PICK n : n = i
  OBVIOUS
<1>7. PICK w : w = held
  OBVIOUS
<1>8. /\ ~posix /\ charidx = 1 /\ w \in Words /\ ~IsOption(w)
      /\ l \in 1 .. Len(given) /\ n \in 1 .. l /\ e \in 1 .. n /\ s \in 1 .. e
      /\ optind = l - (e - s) /\ Len(given) \in Nat /\ argc = Len(given) + 1
      /\ \E p \in l + 1 .. argc :
           /\ Untouched(p) /\ Operands(s, e) /\ Operands(l + 1, p)
           /\ Leaves(Segment(s, e) \o <<w>> \o Segment(l + 1, p), MeansFrom[p])
  BY <1>1, <1>3, <1>4, <1>5, <1>6, <1>7, InShift
<1>9. PICK p \in l + 1 .. argc :
         /\ Untouched(p) /\ Operands(s, e) /\ Operands(l + 1, p)
         /\ Leaves(Segment(s, e) \o <<w>> \o Segment(l + 1, p), MeansFrom[p])
  BY <1>8
<1>10. n = l /\ l \in Nat /\ l + 1 <= p /\ p <= argc /\ p \in Nat
  BY <1>1, <1>3, <1>6, <1>8
<1>11. argv' = [argv EXCEPT ![l] = w]
  BY <1>1, <1>6, <1>7, <1>10
<1>12. /\ argv' \in Seq(Words) /\ Len(argv') = Len(argv) /\ argv'[l] = w
       /\ \A j \in 1 .. Len(given) : j # l => argv'[j] = argv[j]
       /\ \A a \in l + 1 .. argc : \A b \in a .. argc : SegmentKept(a, b)
       /\ \A b \in 1 .. l : \A a \in 1 .. b : SegmentKept(a, b)
  <2>1. l \in 1 .. Len(given) /\ l \in 1 .. l /\ w \in Words
    BY <1>8, <1>10
  <2> QED BY <1>2, <1>11, <2>1, WordsBehindKept
<1>13. /\ Segment(s, e)' = Segment(s, e) /\ Operands(s, e)'
       /\ Segment(l + 1, p)' = Segment(l + 1, p) /\ Operands(l + 1, p)'
  <2>1. l + 1 \in l + 1 .. argc /\ p \in l + 1 .. argc
    BY <1>8
  <2>2. Segment(l + 1, p)' = Segment(l + 1, p) /\ Operands(l + 1, p)'
    BY <1>9, <1>12, <2>1 DEF SegmentKept
  <2> QED BY <1>8, <1>9, <1>10, <1>12, <2>2 DEF SegmentKept
<1>14. given' = given /\ posix' = posix /\ Means' = Means /\ MeansFrom' = MeansFrom
  BY <1>1, InputKeeps DEF input
<1>15. argc' = argc
  BY <1>12 DEF argc
<1>16. Untouched(p)'
  <2>1. \A j \in p .. Len(given) : j \in 1 .. Len(given) /\ j # l
    BY <1>8, <1>10
  <2> QED BY <1>9, <1>12, <1>14, <2>1 DEF Untouched
<1>17. start' = s /\ end' = e /\ lastPos' = l - 1
  BY <1>1, <1>3, <1>4, <1>5
<1>18. TypeOK'
  <2>1. /\ given' \in Seq(Words) /\ Len(argv') = Len(given') /\ posix' \in BOOLEAN
        /\ (optind \in 1 .. argc)' /\ charidx' \in Nat \ {0}
        /\ (start \in 0 .. Len(argv))' /\ (end \in 0 .. Len(argv))'
        /\ options' \in Seq((Flags \cup Valued) \X Seq(STRING))
    BY <1>1, <1>2, <1>12, <1>14, <1>15 DEF TypeOK
  <2>2. lastPos' \in 0 .. Len(argv')
    <3>1. Len(argv') = Len(given)
      BY <1>2, <1>12, Facts
    <3>2. l - 1 \in 0 .. Len(given)
      BY <1>8
    <3> QED BY <1>17, <3>1, <3>2
  <2> QED BY <1>1, <1>12, <2>1, <2>2 DEF TypeOK
<1>19. TypeOK' /\ (Len(given) = Len(argv))'
  BY <1>18 DEF TypeOK
<1>20. Segment(l, p)' = <<w>> \o Segment(l + 1, p) /\ Operands(l, p)'
  <2>1. argv' \in Seq(Words) /\ l \in 1 .. Len(argv')
    BY <1>2, <1>8, <1>12, Facts
  <2>2. SubSeq(argv', l, l) = <<w>>
    BY <1>12, <2>1, OnePiece
  <2>3. SubSeq(argv', l, (l + 1) - 1) \o SubSeq(argv', l + 1, p - 1) = SubSeq(argv', l, p - 1)
    <3>1. l \in Int /\ l + 1 \in Int /\ p \in Int /\ 1 <= l /\ l <= l + 1
          /\ l + 1 <= p /\ p <= Len(argv') + 1
      BY <1>2, <1>8, <1>10, <1>12, Facts
    <3> QED BY <2>1, <3>1, Pieces
  <2>4. (l + 1) - 1 = l
    BY <1>10
  <2>5. Segment(l, p)' = <<w>> \o Segment(l + 1, p)
    BY <1>13, <2>2, <2>3, <2>4 DEF Segment
  <2>6. \A x \in l .. p - 1 : ~IsOption(argv'[x])
    <3> TAKE x \in l .. p - 1
    <3>1. x = l \/ x \in l + 1 .. p - 1
      BY <1>10
    <3>2. \A y \in l + 1 .. p - 1 : ~IsOption(argv'[y])
      BY <1>13 DEF Operands, IsOption
    <3> QED BY <1>8, <1>12, <3>1, <3>2
  <2>7. Operands(l, p)'
    BY <2>6 DEF Operands, IsOption
  <2> QED BY <2>5, <2>7
<1>21. Segment(s, e) \o <<w>> \o Segment(l + 1, p) = Segment(s, e) \o (<<w>> \o Segment(l + 1, p))
  <2>1. Segment(s, e) \in Seq(Words)
    <3>1. s \in Nat /\ e \in Int /\ 1 <= s /\ e <= argc
      BY <1>8
    <3> QED BY <1>2, <3>1, SegmentType
  <2>2. Segment(l + 1, p) \in Seq(Words)
    <3>1. l + 1 \in Nat /\ p \in Int /\ 1 <= l + 1 /\ p <= argc
      BY <1>10
    <3> QED BY <1>2, <3>1, SegmentType
  <2>3. <<w>> \in Seq(Words)
    BY <1>8
  <2> QED BY <2>1, <2>2, <2>3, ConcatAssociative
<1>22. RotateInHand'
  <2>1. (l - 1) + 1 = l
    BY <1>10
  <2>2. \E q \in (lastPos + 1 .. argc)' :
          /\ Untouched(q)' /\ Operands(start, end)' /\ Operands(lastPos + 1, q)'
          /\ Leaves(Segment(start, end) \o Segment(lastPos + 1, q), MeansFrom[q])'
    <3>1. p \in (lastPos + 1 .. argc)'
      BY <1>10, <1>15, <1>17
    <3>2. (Segment(start, end) \o Segment(lastPos + 1, p))'
             = Segment(s, e) \o <<w>> \o Segment(l + 1, p)
      BY <1>13, <1>17, <1>20, <1>21, <2>1
    <3>3. Leaves(Segment(start, end) \o Segment(lastPos + 1, p), MeansFrom[p])'
      BY <1>1, <1>9, <1>14, <3>2 DEF Leaves
    <3>4. Operands(start, end)' /\ Operands(lastPos + 1, p)'
      BY <1>13, <1>17, <1>20, <2>1
    <3> QED BY <1>16, <3>1, <3>3, <3>4
  <2>3. 1 <= start' /\ start' <= end' /\ end' <= lastPos' + 1
        /\ optind' = lastPos' + 1 - (end' - start')
    BY <1>1, <1>8, <1>10, <1>17
  <2> QED BY <1>1, <1>8, <1>14, <2>2, <2>3 DEF RotateInHand
<1>23. ScanInHand' /\ FetchInHand' /\ ShiftInHand' /\ ParsesTheCommandLine'
  BY <1>1 DEF ScanInHand, FetchInHand, ShiftInHand, ParsesTheCommandLine
<1> QED BY <1>18, <1>22, <1>23 DEF IInv

LEMMA RotateEndsKeeps ==
  ASSUME IInv, RotateEnds
  PROVE  IInv'
<1>1. /\ phase = "rotate" /\ phase' = "fetch" /\ start >= end
      /\ end' = end - 1 /\ start' = 0
      /\ lastPos' = lastPos /\ optind' = optind /\ charidx' = charidx
      /\ UNCHANGED <<input, argv, options>>
  BY DEF RotateEnds, scan, rotation
<1>2. TypeOK
  BY DEF IInv
<1>3. PICK o : o = optind
  OBVIOUS
<1>4. PICK s : s = start
  OBVIOUS
<1>5. /\ ~posix /\ charidx = 1 /\ 1 <= start /\ start <= end /\ end <= lastPos + 1
      /\ optind = lastPos + 1 - (end - start)
      /\ \E p \in lastPos + 1 .. argc :
         /\ Untouched(p) /\ Operands(start, end) /\ Operands(lastPos + 1, p)
         /\ Leaves(Segment(start, end) \o Segment(lastPos + 1, p), MeansFrom[p])
  BY <1>1 DEF IInv, RotateInHand
<1>6. /\ Len(given) \in Nat /\ argc = Len(given) + 1 /\ Len(argv) = Len(given)
      /\ start \in 0 .. Len(given) /\ end \in 0 .. Len(given) /\ o \in 1 .. Len(given) + 1
      /\ lastPos \in 0 .. Len(given)
  BY <1>1, <1>2, <1>3, Facts DEF TypeOK
<1>7. start = s /\ end = s /\ lastPos + 1 = o /\ s \in 1 .. Len(given) /\ s \in Int
  BY <1>1, <1>3, <1>4, <1>5, <1>6
<1>8. PICK p \in o .. argc :
         /\ Untouched(p) /\ Operands(o, p)
         /\ Leaves(Segment(s, s) \o Segment(o, p), MeansFrom[p])
  BY <1>5, <1>7
<1>9. Segment(s, s) \o Segment(o, p) = Segment(o, p)
  <2>1. Segment(s, s) = <<>>
    BY <1>7, NoSegment
  <2>2. Segment(o, p) \in Seq(Words)
    <3>1. o \in Nat /\ p \in Int /\ 1 <= o /\ p <= argc
      BY <1>6
    <3> QED BY <1>2, <3>1, SegmentType
  <2> QED BY <2>1, <2>2, ConcatEmptySeq
<1>10. FetchInHand'
  <2>1. Leaves(Segment(o, p), MeansFrom[p])
    BY <1>8, <1>9
  <2>2. o = optind' /\ start' = 0 /\ (posix => p = o)
    BY <1>1, <1>3, <1>5
  <2> QED BY <1>1, <1>8, <2>1, <2>2, FetchAfter
<1>11. TypeOK'
  <2>1. /\ posix' = posix /\ argc' = argc /\ given' = given /\ argv' = argv
        /\ options' = options
    BY <1>1, WordsKept
  <2>2. end' \in 0 .. Len(argv') /\ start' \in 0 .. Len(argv')
    BY <1>1, <1>6, <1>7, <2>1
  <2> QED BY <1>1, <1>2, <2>1, <2>2 DEF TypeOK
<1>12. ScanInHand' /\ RotateInHand' /\ ShiftInHand' /\ ParsesTheCommandLine'
  BY <1>1, <1>5 DEF ScanInHand, RotateInHand, ShiftInHand, ParsesTheCommandLine
<1> QED BY <1>10, <1>11, <1>12 DEF IInv

LEMMA LeastOf ==
  ASSUME NEW S, S \subseteq Nat, S # {}
  PROVE  \E n \in S : \A m \in S : n <= m
<1> DEFINE R == OpToRel(<, Nat)
<1>1. IsWellFoundedOn(R, Nat)
  BY NatLessThanWellFounded
<1>2. \E n \in S : \A m \in S : ~ (<<m, n>> \in R)
  <2> HIDE DEF R
  <2> QED BY <1>1, WFMin
<1>3. PICK n \in S : \A m \in S : ~ (<<m, n>> \in R)
  BY <1>2
<1>4. \A m \in S : ~ (m < n)
  <2>1. \A m \in Nat : m < n => <<m, n>> \in R
    BY DEF OpToRel
  <2> QED BY <1>3, <2>1
<1>5. \A m \in S : n <= m
  BY <1>4
<1> QED BY <1>5

(* Where the options have ended: what is left are the operands.            *)
LEMMA EndsWith ==
  ASSUME TypeOK, NEW s \in Seq(Words), NEW m \in Meanings, Leaves(s, m), ~m.dashes,
         m.options = <<>>
  PROVE  /\ options = Means.options /\ Means.usage = m.usage
         /\ Means.operands = s \o m.operands
<1>1. options \in Opts
  BY Facts
<1>2. PICK x : x = WithOperands(s, m)
  OBVIOUS
<1>3. /\ x \in Meanings /\ x.options = <<>> /\ x.usage = m.usage
      /\ x.operands = s \o m.operands
  BY <1>2, FieldsOf, MeaningTypes
<1>4. Means = Before(options, x)
  BY <1>2 DEF Leaves
<1>5. Means.options = options \o <<>> /\ Means.usage = m.usage
      /\ Means.operands = s \o m.operands
  <2>1. /\ Before(options, x).options = options \o x.options
        /\ Before(options, x).operands = x.operands
        /\ Before(options, x).usage = x.usage
    BY <1>1, <1>3, FieldsOf
  <2> QED BY <1>3, <1>4, <2>1
<1>6. options \o <<>> = options
  BY <1>1, ConcatEmptySeq DEF Opts
<1> QED BY <1>5, <1>6

LEMMA EndsWithDashes ==
  ASSUME TypeOK, NEW s \in Seq(Words), NEW m \in Meanings, Leaves(s, m), m.dashes,
         m.options = <<>>
  PROVE  /\ options = Means.options /\ Means.usage = m.usage
         /\ Means.operands = m.operands
<1>1. options \in Opts
  BY Facts
<1>2. PICK x : x = WithOperands(s, m)
  OBVIOUS
<1>3. /\ x \in Meanings /\ x.options = <<>> /\ x.usage = m.usage
      /\ x.operands = m.operands
  BY <1>2, FieldsOf, MeaningTypes
<1>4. Means = Before(options, x)
  BY <1>2 DEF Leaves
<1>5. Means.options = options \o <<>> /\ Means.usage = m.usage
      /\ Means.operands = m.operands
  <2>1. /\ Before(options, x).options = options \o x.options
        /\ Before(options, x).operands = x.operands
        /\ Before(options, x).usage = x.usage
    BY <1>1, <1>3, FieldsOf
  <2> QED BY <1>3, <1>4, <2>1
<1>6. options \o <<>> = options
  BY <1>1, ConcatEmptySeq DEF Opts
<1> QED BY <1>5, <1>6

LEMMA InFetch ==
  ASSUME IInv, phase = "fetch", charidx = 1, NEW o, o = optind
  PROVE  /\ start = 0 /\ o \in 1 .. argc /\ o \in Nat /\ argc \in Nat
         /\ \E p \in o .. argc :
              /\ Untouched(p) /\ Operands(o, p) /\ (posix => p = o)
              /\ Leaves(Segment(o, p), MeansFrom[p])
              /\ MeansFrom[p] \in Meanings /\ Segment(o, p) \in Seq(Words)
              /\ p \in Nat /\ p <= argc /\ o <= p
<1>1. TypeOK
  BY DEF IInv
<1>2. Len(given) \in Nat /\ argc = Len(given) + 1 /\ o \in 1 .. Len(given) + 1
  BY <1>1, Facts
<1>3. start = 0
  BY DEF IInv, FetchInHand
<1>4. PICK p \in o .. argc :
         /\ Untouched(p) /\ Operands(o, p) /\ (posix => p = o)
         /\ Leaves(Segment(o, p), MeansFrom[p])
  BY DEF IInv, FetchInHand
<1>5. p \in Nat /\ p <= argc /\ o <= p /\ o \in Nat /\ 1 <= o /\ p \in 1 .. Len(given) + 2
  BY <1>2
<1>6. MeansFrom[p] \in Meanings
  BY <1>1, <1>5, Facts
<1>7. Segment(o, p) \in Seq(Words)
  <2>1. p \in Int
    BY <1>5
  <2> QED BY <1>1, <1>5, <2>1, SegmentType
<1> QED BY <1>2, <1>3, <1>4, <1>5, <1>6, <1>7

LEMMA NothingIs ==
  /\ Nothing \in Meanings /\ Nothing.options = <<>> /\ Nothing.operands = <<>>
  /\ ~Nothing.dashes /\ Nothing.usage = FALSE
  /\ \A s : /\ Meaning(<<>>, s).options = <<>> /\ Meaning(<<>>, s).operands = s
            /\ ~Meaning(<<>>, s).dashes /\ Meaning(<<>>, s).usage = FALSE
BY MeaningTypes DEF Nothing, Meaning

(* The steps behind which main() has all the options.                      *)
LEMMA Ended ==
  ASSUME TypeOK, UNCHANGED <<input, argv, options>>, phase' = "operands",
         UNCHANGED charidx, optind' \in 1 .. argc, start' \in 0 .. Len(argv),
         end' \in 0 .. Len(argv), options = Means.options, Means.usage = FALSE,
         SubSeq(argv, optind', Len(argv)) = Means.operands
  PROVE  IInv'
<1>1. /\ posix' = posix /\ argc' = argc /\ given' = given /\ argv' = argv
      /\ options' = options /\ Means' = Means
  BY WordsKept
<1>2. TypeOK'
  BY <1>1 DEF TypeOK
<1>3. ParsesTheCommandLine'
  BY <1>1 DEF ParsesTheCommandLine
<1>4. ScanInHand' /\ FetchInHand' /\ RotateInHand' /\ ShiftInHand'
  BY DEF ScanInHand, FetchInHand, RotateInHand, ShiftInHand
<1> QED BY <1>2, <1>3, <1>4 DEF IInv

LEMMA NoWordLeftKeeps ==
  ASSUME IInv, NoWordLeft
  PROVE  IInv'
<1>1. /\ phase = "fetch" /\ optind >= argc /\ phase' = "operands"
      /\ UNCHANGED <<input, argv, options>> /\ optind' = optind /\ charidx' = charidx
      /\ start' = start /\ end' = end
  BY DEF NoWordLeft, ReturnsEnd, scan
<1>2. TypeOK
  BY DEF IInv
<1>3. /\ Len(given) \in Nat /\ argc = Len(given) + 1 /\ Len(argv) = Len(given)
      /\ optind \in 1 .. Len(given) + 1 /\ given \in Seq(Words)
      /\ start \in 0 .. Len(given) /\ end \in 0 .. Len(given)
  BY <1>2, Facts
<1>4. charidx = 1
  <2> SUFFICES ASSUME charidx # 1 PROVE FALSE
    OBVIOUS
  <2>1. optind < argc
    BY <1>1 DEF IInv, ScanInHand, InWord
  <2> QED BY <1>1, <1>3, <2>1
<1>5. optind = argc
  BY <1>1, <1>3
<1>6. PICK o : o = optind
  OBVIOUS
<1>7. PICK p \in o .. argc : Leaves(Segment(o, p), MeansFrom[p])
  BY <1>1, <1>4, <1>6, InFetch
<1>8. p = Len(given) + 1 /\ o = p /\ o \in Int
  BY <1>3, <1>5, <1>6
<1>9. Segment(o, p) = <<>> /\ MeansFrom[p] = Nothing
  <2>1. Segment(o, o) = <<>>
    BY <1>8, NoSegment
  <2>2. p \in Len(given) + 1 .. Len(given) + 2
    BY <1>3, <1>8
  <2>3. MeansFrom[p] = Nothing
    BY <1>3, <2>2, MeansFromIs
  <2> QED BY <1>8, <2>1, <2>3
<1>10. options = Means.options /\ Means.usage = FALSE /\ Means.operands = <<>>
  <2>1. <<>> \in Seq(Words) /\ Leaves(<<>>, Nothing)
    BY <1>7, <1>9
  <2>2. <<>> \o <<>> = <<>>
    BY <2>1, ConcatEmptySeq
  <2> QED BY <1>2, <2>1, <2>2, NothingIs, EndsWith
<1>11. SubSeq(argv, optind', Len(argv)) = <<>>
  <2>1. Len(argv) < o /\ o \in Int /\ Len(argv) \in Int
    BY <1>3, <1>8
  <2> QED BY <1>1, <1>6, <2>1, SubSeqEmpty
<1>12. optind' \in 1 .. argc /\ start' \in 0 .. Len(argv) /\ end' \in 0 .. Len(argv)
  BY <1>1, <1>3
<1> QED BY <1>1, <1>2, <1>10, <1>11, <1>12, Ended

(* The words not touched are those of the command line.                    *)
LEMMA Rest ==
  ASSUME TypeOK, NEW p \in 1 .. argc, Untouched(p), NEW q \in p .. argc
  PROVE  /\ SubSeq(given, p, q - 1) = Segment(p, q)
         /\ SubSeq(given, p, Len(given)) = SubSeq(argv, p, Len(argv))
<1>1. /\ given \in Seq(Words) /\ argv \in Seq(Words) /\ Len(given) \in Nat
      /\ Len(argv) = Len(given) /\ argc = Len(given) + 1
  BY Facts
<1>2. ASSUME NEW k \in p .. argc PROVE SubSeq(given, p, k - 1) = SubSeq(argv, p, k - 1)
  <2>1. p \in Int /\ k \in Int /\ 1 <= p /\ k <= Len(given) + 1 /\ k <= Len(argv) + 1
    BY <1>1
  <2>2. \A n \in p .. k - 1 : given[n] = argv[n]
    <3> TAKE n \in p .. k - 1
    <3>1. n \in p .. Len(given)
      BY <1>1
    <3> QED BY <3>1 DEF Untouched
  <2> QED BY <1>1, <2>1, <2>2, SamePieces
<1>3. argc \in p .. argc /\ argc - 1 = Len(given) /\ argc - 1 = Len(argv)
  BY <1>1
<1>4. SubSeq(given, p, argc - 1) = SubSeq(argv, p, argc - 1)
  BY <1>2, <1>3
<1> QED BY <1>2, <1>3, <1>4 DEF Segment

LEMMA StopAtOperandKeeps ==
  ASSUME IInv, StopAtOperand
  PROVE  IInv'
<1>1. /\ phase = "fetch" /\ optind < argc /\ charidx = 1 /\ ~IsOption(argv[optind])
      /\ posix /\ phase' = "operands"
      /\ UNCHANGED <<input, argv, options>> /\ optind' = optind /\ charidx' = charidx
      /\ start' = start /\ end' = end
  BY DEF StopAtOperand, AtOperand, ReturnsEnd, scan
<1>2. TypeOK
  BY DEF IInv
<1>3. /\ Len(given) \in Nat /\ argc = Len(given) + 1 /\ Len(argv) = Len(given)
      /\ optind \in 1 .. Len(given) + 1 /\ given \in Seq(Words) /\ posix \in BOOLEAN
      /\ start \in 0 .. Len(given) /\ end \in 0 .. Len(given)
  BY <1>2, Facts
<1>4. PICK o : o = optind
  OBVIOUS
<1>5. o \in 1 .. Len(given) /\ o \in 1 .. argc /\ argc \in o .. argc /\ o \in Int
      /\ o \in o .. Len(given)
  BY <1>1, <1>3, <1>4
<1>6. Untouched(o) /\ Leaves(Segment(o, o), MeansFrom[o])
  BY <1>1, <1>4, InFetch
<1>7. Segment(o, o) = <<>>
  BY <1>5, NoSegment
<1>8. PICK r : r = SubSeq(given, o, Len(given))
  OBVIOUS
<1>9. r = SubSeq(argv, o, Len(argv)) /\ r \in Seq(Words)
  BY <1>2, <1>3, <1>5, <1>6, <1>8, Rest, GivenWord
<1>10. MeansFrom[o] = Meaning(<<>>, r)
  <2>1. ~IsOption(given[o])
    BY <1>1, <1>4, <1>5, <1>6 DEF Untouched
  <2> QED BY <1>1, <1>3, <1>5, <1>8, <2>1, OperandMeans
<1>11. options = Means.options /\ Means.usage = FALSE /\ Means.operands = r
  <2>1. <<>> \in Seq(Words) /\ Leaves(<<>>, Meaning(<<>>, r)) /\ Meaning(<<>>, r) \in Meanings
    <3>1. Leaves(<<>>, Meaning(<<>>, r))
      BY <1>6, <1>7, <1>10
    <3>2. Meaning(<<>>, r) \in Meanings
      BY <1>9, MeaningTypes
    <3> QED BY <3>1, <3>2
  <2>2. <<>> \o r = r
    BY <1>9, ConcatEmptySeq
  <2>3. PICK m \in Meanings : m = Meaning(<<>>, r)
    BY <2>1
  <2>4. m.options = <<>> /\ m.operands = r /\ ~m.dashes /\ m.usage = FALSE
    BY <2>3, NothingIs
  <2>5. Leaves(<<>>, m)
    BY <2>1, <2>3
  <2> QED BY <1>2, <2>1, <2>2, <2>4, <2>5, EndsWith
<1>12. optind' \in 1 .. argc /\ start' \in 0 .. Len(argv) /\ end' \in 0 .. Len(argv)
  BY <1>1, <1>3
<1>13. SubSeq(argv, optind', Len(argv)) = Means.operands
  BY <1>1, <1>4, <1>9, <1>11
<1> QED BY <1>1, <1>2, <1>11, <1>12, <1>13, Ended

(* What the words since the place looked for mean, up to an option or to   *)
(* the end.                                                                *)
LEMMA RunPassed ==
  ASSUME TypeOK, posix = FALSE, NEW o \in 1 .. argc, NEW p \in o .. argc, NEW q \in p .. argc,
         Untouched(p), Operands(p, q), Leaves(Segment(o, p), MeansFrom[p])
  PROVE  Leaves(Segment(o, q), MeansFrom[q]) /\ Untouched(q)
<1>1. /\ given \in Seq(Words) /\ Len(given) \in Nat /\ argc = Len(given) + 1
      /\ \A k \in 1 .. Len(given) + 2 : MeansFrom[k] \in Meanings
  BY Facts
<1>2. /\ p \in 1 .. argc /\ q \in 1 .. Len(given) + 1 /\ p \in 1 .. q
      /\ q \in 1 .. Len(given) + 2
      /\ o \in Nat /\ p \in Nat /\ q \in Nat /\ 1 <= o /\ o <= p /\ p <= q /\ q <= argc
      /\ 1 <= p /\ p \in Int /\ q \in Int /\ p <= argc
  BY <1>1
<1>3. \A n \in p .. q - 1 : ~IsOption(given[n])
  <2> TAKE n \in p .. q - 1
  <2>1. n \in p .. Len(given)
    BY <1>1, <1>2
  <2> QED BY <2>1 DEF Untouched, Operands
<1>4. MeansFrom[p] = WithOperands(SubSeq(given, p, q - 1), MeansFrom[q])
  BY <1>1, <1>2, <1>3, Run
<1>5. SubSeq(given, p, q - 1) = Segment(p, q)
  BY <1>2, Rest
<1>6. PICK s \in Seq(Words) : s = Segment(o, p)
  BY <1>2, SegmentType
<1>7. PICK t \in Seq(Words) : t = Segment(p, q)
  BY <1>2, SegmentType
<1>8. PICK m \in Meanings : m = MeansFrom[q]
  BY <1>1, <1>2
<1>9. WithOperands(s, WithOperands(t, m)) = WithOperands(s \o t, m)
  BY OperandsJoin
<1>10. s \o t = Segment(o, q)
  BY <1>2, <1>6, <1>7, SegmentsJoin
<1>11. Leaves(s, WithOperands(t, m))
  BY <1>4, <1>5, <1>6, <1>7, <1>8
<1>12. Leaves(s \o t, m)
  BY <1>9, <1>11 DEF Leaves
<1>13. Untouched(q)
  <2>1. \A j \in q .. Len(given) : j \in p .. Len(given)
    BY <1>1, <1>2
  <2> QED BY <2>1 DEF Untouched
<1> QED BY <1>8, <1>10, <1>12, <1>13

LEMMA PassOperandsKeeps ==
  ASSUME IInv, PassOperands
  PROVE  IInv'
<1>1. /\ phase = "fetch" /\ optind < argc /\ charidx = 1 /\ ~IsOption(argv[optind])
      /\ ~posix /\ start' = optind
      /\ IF OptionsAhead = {}
         THEN phase' = "operands" /\ UNCHANGED <<optind, end>>
         ELSE /\ end' = CHOOSE n \in OptionsAhead : \A m \in OptionsAhead : n <= m
              /\ optind' = end' /\ phase' = "option"
      /\ UNCHANGED <<input, argv, options>> /\ charidx' = charidx
  BY DEF PassOperands, AtOperand, ReturnsEnd
<1>2. TypeOK
  BY DEF IInv
<1>3. /\ Len(given) \in Nat /\ argc = Len(given) + 1 /\ Len(argv) = Len(given)
      /\ optind \in 1 .. Len(given) + 1 /\ given \in Seq(Words) /\ posix = FALSE
      /\ start \in 0 .. Len(given) /\ end \in 0 .. Len(given)
  BY <1>1, <1>2, Facts
<1>4. PICK o : o = optind
  OBVIOUS
<1>5. o \in 1 .. Len(given) /\ o \in 1 .. argc /\ o \in Nat
  BY <1>1, <1>3, <1>4
<1>6. PICK p \in o .. argc :
         /\ Untouched(p) /\ Operands(o, p) /\ Leaves(Segment(o, p), MeansFrom[p])
         /\ p \in Nat /\ p <= argc /\ o <= p
  BY <1>1, <1>4, InFetch
<1>7. /\ posix' = posix /\ argc' = argc /\ given' = given /\ argv' = argv
      /\ options' = options /\ MeansFrom' = MeansFrom /\ Means' = Means
      /\ \A j : Untouched(j)' <=> Untouched(j)
      /\ \A j, k : (Operands(j, k)' <=> Operands(j, k)) /\ Segment(j, k)' = Segment(j, k)
  BY <1>1, WordsKept
<1>8. CASE OptionsAhead = {}
  <2>1. Operands(o, argc)
    <3> SUFFICES ASSUME NEW n \in o .. argc - 1 PROVE ~IsOption(argv[n])
      BY DEF Operands
    <3>1. CASE n = o
      BY <1>1, <1>4, <3>1
    <3>2. CASE n # o
      <4>1. n \in optind + 1 .. argc - 1
        BY <1>3, <1>4, <1>5, <3>2
      <4> QED BY <1>8, <4>1 DEF OptionsAhead
    <3> QED BY <3>1, <3>2
  <2>2. Operands(p, argc)
    <3>1. \A n \in p .. argc - 1 : n \in o .. argc - 1
      BY <1>3, <1>5, <1>6
    <3> QED BY <2>1, <3>1 DEF Operands
  <2>3. argc \in p .. argc
    BY <1>3, <1>6
  <2>4. Leaves(Segment(o, argc), MeansFrom[argc])
    BY <1>2, <1>3, <1>5, <1>6, <2>2, <2>3, RunPassed
  <2>5. MeansFrom[argc] = Nothing
    <3>1. argc \in Len(given) + 1 .. Len(given) + 2
      BY <1>3
    <3> QED BY <1>3, <3>1, MeansFromIs
  <2>6. PICK r : r = Segment(o, argc)
    OBVIOUS
  <2>7. r \in Seq(Words) /\ r = SubSeq(argv, o, Len(argv))
    <3>1. argc - 1 = Len(argv) /\ o \in Nat /\ argc \in Int /\ 1 <= o /\ argc <= argc
      BY <1>3, <1>5
    <3>2. Segment(o, argc) \in Seq(Words)
      BY <1>2, <3>1, SegmentType
    <3> QED BY <2>6, <3>1, <3>2 DEF Segment
  <2>8. options = Means.options /\ Means.usage = FALSE /\ Means.operands = r
    <3>1. Leaves(r, Nothing)
      BY <2>4, <2>5, <2>6
    <3>2. r \o <<>> = r
      BY <2>7, ConcatEmptySeq
    <3> QED BY <1>2, <2>7, <3>1, <3>2, NothingIs, EndsWith
  <2>9. phase' = "operands" /\ optind' = o /\ end' = end /\ start' = o
    BY <1>1, <1>4, <1>8
  <2>10. optind' \in 1 .. argc /\ start' \in 0 .. Len(argv) /\ end' \in 0 .. Len(argv)
    BY <1>3, <1>5, <2>9
  <2>11. SubSeq(argv, optind', Len(argv)) = Means.operands
    BY <2>7, <2>8, <2>9
  <2> QED BY <1>1, <1>2, <2>8, <2>9, <2>10, <2>11, Ended
<1>9. CASE OptionsAhead # {}
  <2>1. \E n \in OptionsAhead : \A m \in OptionsAhead : n <= m
    <3>1. OptionsAhead \subseteq Nat
      <4>1. \A n \in optind + 1 .. argc - 1 : n \in Nat
        BY <1>3
      <4> QED BY <4>1 DEF OptionsAhead
    <3> QED BY <1>9, <3>1, LeastOf
  <2>2. PICK q : q = CHOOSE n \in OptionsAhead : \A m \in OptionsAhead : n <= m
    OBVIOUS
  <2>3. q \in OptionsAhead /\ \A m \in OptionsAhead : q <= m
    BY <2>1, <2>2
  <2>4. q \in o + 1 .. argc - 1 /\ IsOption(argv[q])
    BY <1>4, <2>3 DEF OptionsAhead
  <2>5. end' = q /\ optind' = q /\ phase' = "option" /\ start' = o
    BY <1>1, <1>4, <1>9, <2>2
  <2>6. Operands(o, q)
    <3> SUFFICES ASSUME NEW n \in o .. q - 1 PROVE ~IsOption(argv[n])
      BY DEF Operands
    <3>1. CASE n = o
      BY <1>1, <1>4, <3>1
    <3>2. CASE n # o
      <4>1. n \in optind + 1 .. argc - 1 /\ ~(q <= n)
        BY <1>3, <1>4, <1>5, <2>4, <3>2
      <4> QED BY <2>3, <4>1 DEF OptionsAhead
    <3> QED BY <3>1, <3>2
  <2>7. p <= q
    <3> SUFFICES ASSUME ~(p <= q) PROVE FALSE
      OBVIOUS
    <3>1. q \in o .. p - 1
      BY <1>3, <1>5, <1>6, <2>4
    <3> QED BY <1>6, <2>4, <3>1 DEF Operands
  <2>8. q \in p .. argc /\ q \in 1 .. Len(given) /\ q \in 1 .. argc /\ o < q
    BY <1>3, <1>5, <1>6, <2>4, <2>7
  <2>9. Operands(p, q)
    <3>1. \A n \in p .. q - 1 : n \in o .. q - 1
      BY <1>5, <1>6, <2>8
    <3> QED BY <2>6, <3>1 DEF Operands
  <2>10. Leaves(Segment(o, q), MeansFrom[q]) /\ Untouched(q)
    BY <1>2, <1>3, <1>5, <1>6, <2>8, <2>9, RunPassed
  <2>11. PassedOver' = Segment(o, q)
    <3>1. start' # 0 /\ start' = o /\ end' = q
      BY <1>5, <2>5
    <3>2. PassedOver' = SubSeq(argv', o, q - 1)
      BY <3>1 DEF PassedOver, Segment
    <3> QED BY <1>7, <3>2 DEF Segment
  <2>12. Leaves(PassedOver, MeansFrom[optind])'
    BY <1>7, <2>5, <2>10, <2>11 DEF Leaves
  <2>13. TypeOK'
    <3>1. optind' \in 1 .. argc' /\ start' \in 0 .. Len(argv') /\ end' \in 0 .. Len(argv')
      BY <1>3, <1>5, <1>7, <2>5, <2>8
    <3> QED BY <1>1, <1>2, <1>7, <2>5, <3>1 DEF TypeOK
  <2>14. Untouched(optind)' /\ Operands(start, end)'
    <3>1. Untouched(q)' /\ Operands(o, q)'
      BY <1>7, <2>6, <2>10
    <3> QED BY <2>5, <3>1
  <2>15. ~posix' /\ start' < end' /\ end' <= optind' /\ optind' < argc' /\ charidx' = 1
    BY <1>1, <1>3, <1>7, <2>4, <2>5, <2>8
  <2>16. IsOption(argv[optind])'
    BY <1>7, <2>4, <2>5 DEF IsOption
  <2>17. ScanInHand'
    BY <2>12, <2>14, <2>15, <2>16 DEF ScanInHand
  <2>18. FetchInHand' /\ RotateInHand' /\ ShiftInHand' /\ ParsesTheCommandLine'
    BY <2>5 DEF FetchInHand, RotateInHand, ShiftInHand, ParsesTheCommandLine
  <2> QED BY <2>13, <2>17, <2>18 DEF IInv
<1> QED BY <1>8, <1>9

LEMMA AtOptionKeeps ==
  ASSUME IInv, AtOption
  PROVE  IInv'
<1>1. /\ phase = "fetch" /\ optind < argc /\ (charidx # 1 \/ IsOption(argv[optind]))
      /\ phase' = "option"
      /\ UNCHANGED <<input, argv, scan, start, end, rotation, options>>
  BY DEF AtOption
<1>2. TypeOK
  BY DEF IInv
<1>3. /\ optind' = optind /\ charidx' = charidx /\ start' = start /\ end' = end
      /\ PassedOver' = PassedOver /\ (InWord' <=> InWord)
      /\ UNCHANGED <<input, argv, options>>
  BY <1>1, OnlyPhase
<1>4. /\ posix' = posix /\ argc' = argc /\ given' = given /\ argv' = argv
      /\ options' = options /\ MeansFrom' = MeansFrom /\ Means' = Means
      /\ \A j : Untouched(j)' <=> Untouched(j)
      /\ \A j, k : Operands(j, k)' <=> Operands(j, k)
  BY <1>3, WordsKept
<1>5. PICK o : o = optind
  OBVIOUS
<1>6. PICK s : s = start
  OBVIOUS
<1>7. PICK e : e = end
  OBVIOUS
<1>8. /\ Untouched(o) /\ IsOption(argv[o])
      /\ s # 0 => ~posix /\ s < e /\ e <= o /\ Operands(s, e)
      /\ IF charidx = 1 THEN Leaves(PassedOver, MeansFrom[o]) ELSE InWord
  <2>1. CASE charidx # 1
    <3>1. /\ Untouched(o) /\ InWord
          /\ s # 0 => ~posix /\ s < e /\ e <= o /\ Operands(s, e)
      BY <1>1, <1>5, <1>6, <1>7, <2>1 DEF IInv, ScanInHand
    <3> QED BY <1>5, <2>1, <3>1 DEF InWord
  <2>2. CASE charidx = 1
    <3>1. start = 0 /\ IsOption(argv[o]) /\ o \in Nat /\ argc \in Nat
      BY <1>1, <1>5, <2>2, InFetch
    <3>2. PICK p \in o .. argc :
             Untouched(p) /\ Operands(o, p) /\ Leaves(Segment(o, p), MeansFrom[p])
      BY <1>1, <1>5, <2>2, InFetch
    <3>3. p = o
      <4> SUFFICES ASSUME p # o PROVE FALSE
        OBVIOUS
      <4>1. o \in o .. p - 1
        BY <3>1
      <4> QED BY <3>1, <3>2, <4>1 DEF Operands
    <3>4. Segment(o, o) = PassedOver
      <4>1. o \in Int
        BY <3>1
      <4> QED BY <3>1, <4>1, NoSegment DEF PassedOver
    <3> QED BY <1>6, <2>2, <3>1, <3>2, <3>3, <3>4
  <2> QED BY <2>1, <2>2
<1>9. TypeOK'
  BY <1>1, <1>2, <1>3, <1>4 DEF TypeOK
<1>10. ScanInHand'
  <2>1. Untouched(optind)' /\ IsOption(argv[optind])' /\ optind' < argc'
    <3>1. Untouched(o)'
      BY <1>4, <1>8
    <3>2. optind' = o /\ argv' = argv
      BY <1>3, <1>4, <1>5
    <3> QED BY <1>1, <1>3, <1>4, <1>8, <3>1, <3>2 DEF IsOption
  <2>2. start' # 0 => ~posix' /\ start' < end' /\ end' <= optind' /\ Operands(start, end)'
    <3>1. start' = s /\ end' = e /\ optind' = o
      BY <1>3, <1>5, <1>6, <1>7
    <3>2. s # 0 => Operands(s, e)'
      BY <1>4, <1>8
    <3> QED BY <1>4, <1>8, <3>1, <3>2
  <2>3. charidx' = 1 => Leaves(PassedOver, MeansFrom[optind])'
    BY <1>3, <1>4, <1>5, <1>8 DEF Leaves
  <2>4. charidx' # 1 => InWord'
    BY <1>3, <1>8
  <2> QED BY <1>1, <2>1, <2>2, <2>3, <2>4 DEF ScanInHand
<1>11. FetchInHand' /\ RotateInHand' /\ ShiftInHand' /\ ParsesTheCommandLine'
  BY <1>1 DEF FetchInHand, RotateInHand, ShiftInHand, ParsesTheCommandLine
<1> QED BY <1>9, <1>10, <1>11 DEF IInv

LEMMA TwoDashesKeeps ==
  ASSUME IInv, TwoDashes
  PROVE  IInv'
<1>1. /\ phase = "option" /\ charidx = 1 /\ argv[optind] = <<Dash, Dash>>
      /\ optind' = optind + 1 /\ phase' = "operands"
      /\ UNCHANGED <<input, argv, options>> /\ charidx' = charidx
      /\ start' = start /\ end' = end
  BY DEF TwoDashes, ReturnsEnd
<1>2. TypeOK
  BY DEF IInv
<1>3. /\ Len(given) \in Nat /\ argc = Len(given) + 1 /\ Len(argv) = Len(given)
      /\ optind \in 1 .. Len(given) + 1 /\ given \in Seq(Words)
      /\ start \in 0 .. Len(given) /\ end \in 0 .. Len(given)
      /\ argv \in Seq(Words)
  BY <1>2, Facts
<1>4. PICK o : o = optind
  OBVIOUS
<1>5. Untouched(o) /\ o < argc /\ Leaves(PassedOver, MeansFrom[o])
  BY <1>1, <1>4 DEF IInv, ScanInHand
<1>6. o \in 1 .. Len(given) /\ o \in 1 .. argc /\ o \in o .. Len(given) /\ o + 1 \in 1 .. argc
  BY <1>3, <1>4, <1>5
<1>7. given[o] = <<Dash, Dash>>
  BY <1>1, <1>4, <1>5, <1>6 DEF Untouched
<1>8. PICK r : r = SubSeq(given, o + 1, Len(given))
  OBVIOUS
<1>9. r \in Seq(Words) /\ r = SubSeq(argv, o + 1, Len(argv))
  <2>1. Untouched(o + 1)
    <3>1. \A j \in o + 1 .. Len(given) : j \in o .. Len(given)
      BY <1>3, <1>6
    <3> QED BY <1>5, <3>1 DEF Untouched
  <2>2. argc \in o + 1 .. argc
    BY <1>3, <1>6
  <2> QED BY <1>2, <1>3, <1>6, <1>8, <2>1, <2>2, Rest, GivenWord
<1>10. PICK m : m = [Meaning(<<>>, r) EXCEPT !.dashes = TRUE]
  OBVIOUS
<1>11. /\ m \in Meanings /\ m.options = <<>> /\ m.operands = r /\ m.dashes /\ m.usage = FALSE
  <2>1. m \in Meanings
    BY <1>9, <1>10, MeaningTypes
  <2> QED BY <1>10, <2>1 DEF Meaning
<1>12. MeansFrom[o] = m
  BY <1>3, <1>6, <1>7, <1>8, <1>10, MeansFromIs DEF WordMeans
<1>13. options = Means.options /\ Means.usage = FALSE /\ Means.operands = r
  BY <1>2, <1>5, <1>11, <1>12, PassedOverType, EndsWithDashes
<1>14. optind' \in 1 .. argc /\ start' \in 0 .. Len(argv) /\ end' \in 0 .. Len(argv)
  BY <1>1, <1>3, <1>4, <1>6
<1>15. SubSeq(argv, optind', Len(argv)) = Means.operands
  BY <1>1, <1>4, <1>9, <1>13
<1> QED BY <1>1, <1>2, <1>13, <1>14, <1>15, Ended

(* The letter looked at: c is its place in the word.                       *)
AtChar(k, w, c) ==
  /\ k \in 1 .. Len(given) /\ w \in Words /\ w \in Seq(STRING) /\ w[1] = Dash
  /\ Word = w /\ given[k] = w /\ Len(w) \in Nat /\ Len(w) >= 1
  /\ c \in 2 .. Len(w) + 1 /\ Untouched(k)
  /\ (start # 0 => ~posix /\ start < end /\ end <= k /\ Operands(start, end))
  /\ (c > Len(w) => w = <<Dash>> /\ Letter = "nul")
  /\ (c <= Len(w) => Letter = w[c])
  /\ Behind = SubSeq(w, c + 1, Len(w)) /\ Behind \in Seq(STRING)
  /\ (Behind = <<>> <=> c >= Len(w))

LEMMA InLetter ==
  ASSUME IInv, AtLetter, NEW k, k = optind, NEW w, w = argv[k], NEW c, c = charidx + 1
  PROVE  /\ AtChar(k, w, c)
         /\ Value(k) \in Seq(Words) /\ MeansFrom[k + 1] \in Meanings
         /\ MeansFrom[k + 2] \in Meanings
         /\ (c <= Len(w) => LettersAt(k)[c + 1] \in Meanings)
         /\ Leaves(PassedOver, LetterMeans(w, Value(k), MeansFrom[k + 1], MeansFrom[k + 2],
                                           c, LettersAt(k)[c + 1]))
<1>1. TypeOK /\ phase = "option"
  BY DEF IInv, AtLetter
<1>2. /\ Len(given) \in Nat /\ argc = Len(given) + 1 /\ given \in Seq(Words)
      /\ k \in 1 .. Len(given) + 1 /\ charidx \in Nat \ {0}
      /\ \A j \in 1 .. Len(given) + 2 : MeansFrom[j] \in Meanings
  BY <1>1, Facts
<1>3. /\ Untouched(k) /\ k < argc /\ IsOption(w)
      /\ (start # 0 => ~posix /\ start < end /\ end <= k /\ Operands(start, end))
      /\ IF charidx = 1 THEN Leaves(PassedOver, MeansFrom[k]) ELSE InWord
  BY <1>1 DEF IInv, ScanInHand
<1>4. k \in 1 .. Len(given) /\ k + 1 \in 1 .. Len(given) + 2 /\ k + 2 \in 1 .. Len(given) + 2
      /\ k \in k .. Len(given)
  BY <1>2, <1>3
<1>5. given[k] = w
  BY <1>3, <1>4 DEF Untouched
<1>6. w \in Words /\ w \in Seq(STRING) /\ Value(k) \in Seq(Words)
  BY <1>2, <1>4, <1>5, GivenWord
<1>7. w # <<>> /\ w[1] = Dash /\ Len(w) \in Nat /\ Len(w) >= 1
  <2>1. w # <<>> /\ w[1] = Dash
    BY <1>3 DEF IsOption
  <2> QED BY <1>6, <2>1
<1>8. MeansFrom[k + 1] \in Meanings /\ MeansFrom[k + 2] \in Meanings
  BY <1>2, <1>4
<1>9. c \in 2 .. Len(w) + 1 /\ (c > Len(w) => Len(w) = 1)
  <2>1. CASE charidx = 1
    <3>1. PICK n \in Nat : n = Len(w)
      BY <1>7
    <3>2. c = 2 /\ n >= 1
      BY <1>7, <2>1, <3>1
    <3>3. c \in 2 .. n + 1 /\ (c > n => n = 1)
      BY <3>2
    <3> QED BY <3>1, <3>3
  <2>2. CASE charidx # 1
    <3>1. charidx < Len(w)
      BY <1>3, <2>2 DEF InWord
    <3>2. PICK x \in Nat : x = charidx
      BY <1>2
    <3>3. PICK n \in Nat : n = Len(w)
      BY <1>7
    <3>4. x # 0 /\ x # 1 /\ x < n /\ c = x + 1
      BY <1>2, <2>2, <3>1, <3>2, <3>3
    <3>5. c \in 2 .. n + 1 /\ ~(c > n)
      BY <3>4
    <3> QED BY <3>3, <3>5
  <2> QED BY <2>1, <2>2
<1>10. /\ \A d \in 2 .. Len(w) + 1 : LettersAt(k)[d] \in Meanings
       /\ \A d \in 2 .. Len(w) + 1 :
            LettersAt(k)[d] = LetterMeans(w, Value(k), MeansFrom[k + 1], MeansFrom[k + 2],
                                        d, LettersAt(k)[d + 1])
  <2>1. LettersAt(k) = Letters(w, Value(k), MeansFrom[k + 1], MeansFrom[k + 2])
    BY <1>5 DEF LettersAt
  <2>2. LettersAt(k) \in [2 .. Len(w) + 1 -> Meanings]
    BY <1>6, <1>7, <1>8, <2>1, LettersAre
  <2>3. \A d \in 2 .. Len(w) + 1 : LettersAt(k)[d] \in Meanings
    BY <2>2
  <2> QED BY <1>6, <1>7, <1>8, <2>1, <2>3, LettersAre
<1>11. Leaves(PassedOver, LettersAt(k)[c])
  <2>1. CASE charidx = 1
    <3>1. w # <<Dash, Dash>>
      BY <2>1 DEF AtLetter
    <3>2. MeansFrom[k] = Letters(given[k], Value(k), MeansFrom[k + 1], MeansFrom[k + 2])[2]
      BY <1>2, <1>3, <1>4, <1>5, <3>1, MeansFromIs DEF WordMeans
    <3>3. c = 2
      BY <2>1
    <3> QED BY <1>3, <2>1, <3>2, <3>3 DEF LettersAt
  <2>2. CASE charidx # 1
    BY <1>3, <2>2 DEF InWord
  <2> QED BY <2>1, <2>2
<1>12. Leaves(PassedOver, LetterMeans(w, Value(k), MeansFrom[k + 1], MeansFrom[k + 2],
                                      c, LettersAt(k)[c + 1]))
  BY <1>9, <1>10, <1>11
<1>13. c <= Len(w) => LettersAt(k)[c + 1] \in Meanings
  <2>1. c <= Len(w) => c + 1 \in 2 .. Len(w) + 1
    BY <1>7, <1>9
  <2> QED BY <1>10, <2>1
<1>14. (c > Len(w) => w = <<Dash>> /\ Letter = "nul") /\ (c <= Len(w) => Letter = w[c])
  <2>1. Word = w
    BY DEF Word
  <2>2. c > Len(w) => w = <<Dash>>
    <3> SUFFICES ASSUME c > Len(w) PROVE w = <<Dash>>
      OBVIOUS
    <3>1. Len(w) = 1
      BY <1>9
    <3>2. Dash \in STRING /\ <<Dash>> \in Seq(STRING) /\ Len(<<Dash>>) = 1
          /\ <<Dash>>[1] = Dash
      BY <1>6, <1>7, <3>1
    <3>3. \A d \in 1 .. Len(w) : w[d] = <<Dash>>[d]
      BY <1>7, <3>1, <3>2
    <3> QED BY <1>6, <3>1, <3>2, <3>3, SeqEqual
  <2>3. (c > Len(w) => Letter = "nul") /\ (c <= Len(w) => Letter = w[c])
    BY <1>7, <1>9, <2>1 DEF Letter
  <2> QED BY <2>2, <2>3
<1>15. /\ Behind = SubSeq(w, c + 1, Len(w)) /\ Behind \in Seq(STRING)
       /\ (Behind = <<>> <=> c >= Len(w))
  <2>1. charidx + 2 = c + 1
    BY <1>2
  <2>2. Behind = SubSeq(w, c + 1, Len(w))
    BY <2>1 DEF Behind, Word
  <2>3. c + 1 \in Int /\ Len(w) \in Int /\ \A n \in c + 1 .. Len(w) : w[n] \in STRING
    BY <1>6, <1>7, <1>9
  <2>4. /\ SubSeq(w, c + 1, Len(w)) \in Seq(STRING)
        /\ Len(SubSeq(w, c + 1, Len(w))) = IF c + 1 <= Len(w) THEN Len(w) - (c + 1) + 1 ELSE 0
    BY <2>3, SubSeqProperties
  <2>5. PICK b \in Seq(STRING) : b = SubSeq(w, c + 1, Len(w))
    BY <2>4
  <2>6. b = <<>> <=> Len(b) = 0
    OBVIOUS
  <2>7. Len(b) = 0 <=> c >= Len(w)
    BY <1>7, <1>9, <2>4, <2>5
  <2> QED BY <2>2, <2>5, <2>6, <2>7
<1>16. Word = w
  BY DEF Word
<1>17. AtChar(k, w, c)
  BY <1>3, <1>4, <1>5, <1>6, <1>7, <1>9, <1>14, <1>15, <1>16 DEF AtChar
<1> QED BY <1>6, <1>8, <1>12, <1>13, <1>17

(* Where main() prints the usage.                                          *)
LEMMA UsageKeeps ==
  ASSUME TypeOK, UNCHANGED <<input, argv, options>>, phase' = "usage",
         UNCHANGED <<start, end>>, optind' \in 1 .. argc, charidx' \in Nat \ {0},
         Leaves(PassedOver, [Nothing EXCEPT !.usage = TRUE])
  PROVE  IInv'
<1>1. /\ posix' = posix /\ argc' = argc /\ given' = given /\ argv' = argv
      /\ options' = options /\ Means' = Means
  BY WordsKept
<1>2. TypeOK'
  BY <1>1 DEF TypeOK
<1>3. PICK m : m = [Nothing EXCEPT !.usage = TRUE]
  OBVIOUS
<1>4. m \in Meanings /\ m.options = <<>> /\ ~m.dashes /\ m.usage = TRUE
  BY <1>3, MeaningTypes DEF Nothing, Meaning
<1>5. options = Means.options /\ Means.usage = TRUE
  BY <1>3, <1>4, PassedOverType, EndsWith
<1>6. ParsesTheCommandLine'
  BY <1>1, <1>5 DEF ParsesTheCommandLine
<1>7. ScanInHand' /\ FetchInHand' /\ RotateInHand' /\ ShiftInHand'
  BY DEF ScanInHand, FetchInHand, RotateInHand, ShiftInHand
<1> QED BY <1>2, <1>6, <1>7 DEF IInv

LEMMA UnknownKeeps ==
  ASSUME IInv, Usage
  PROVE  IInv'
<1>1. /\ AtLetter /\ Letter \notin Flags \cup Valued
      /\ phase' = "usage" /\ UNCHANGED <<input, argv, options>>
      /\ UNCHANGED <<start, end>>
      /\ \/ Advance
         \/ Letter = "nul" /\ charidx' = charidx + 1 /\ UNCHANGED optind
  BY DEF Usage
<1>2. TypeOK
  BY DEF IInv
<1>3. PICK k : k = optind
  OBVIOUS
<1>4. PICK w : w = argv[k]
  OBVIOUS
<1>5. PICK c : c = charidx + 1
  OBVIOUS
<1>6. /\ AtChar(k, w, c)
      /\ Leaves(PassedOver, LetterMeans(w, Value(k), MeansFrom[k + 1], MeansFrom[k + 2],
                                        c, LettersAt(k)[c + 1]))
  BY <1>1, <1>3, <1>4, <1>5, InLetter
<1>7. LetterMeans(w, Value(k), MeansFrom[k + 1], MeansFrom[k + 2], c, LettersAt(k)[c + 1])
        = [Nothing EXCEPT !.usage = TRUE]
  <2>1. CASE c > Len(w)
    BY <1>6, <2>1 DEF LetterMeans, AtChar
  <2>2. CASE ~(c > Len(w))
    <3>1. w[c] \notin Flags /\ w[c] \notin Valued
      <4>1. c <= Len(w)
        BY <1>6, <2>2 DEF AtChar
      <4> QED BY <1>1, <1>6, <4>1 DEF AtChar
    <3> QED BY <2>2, <3>1 DEF LetterMeans
  <2> QED BY <2>1, <2>2
<1>8. optind' \in 1 .. argc /\ charidx' \in Nat \ {0}
  <2>1. k \in 1 .. Len(given) /\ Len(given) \in Nat /\ argc = Len(given) + 1
        /\ charidx \in Nat \ {0}
    BY <1>2, <1>6, Facts DEF AtChar
  <2>2. optind' \in {k, k + 1} /\ charidx' \in {1, charidx + 1}
    BY <1>1, <1>3 DEF Advance
  <2> QED BY <2>1, <2>2
<1> QED BY <1>1, <1>2, <1>6, <1>7, <1>8, UsageKeeps

LEMMA ValueMissingKeeps ==
  ASSUME IInv, ValueMissing
  PROVE  IInv'
<1>1. /\ AtLetter /\ Letter \in Valued /\ Behind = <<>> /\ optind + 1 >= argc
      /\ optind' = optind + 1 /\ phase' = "usage" /\ UNCHANGED <<input, argv, options>>
      /\ UNCHANGED <<start, end>> /\ charidx' = charidx
  BY DEF ValueMissing
<1>2. TypeOK
  BY DEF IInv
<1>3. PICK k : k = optind
  OBVIOUS
<1>4. PICK w : w = argv[k]
  OBVIOUS
<1>5. PICK c : c = charidx + 1
  OBVIOUS
<1>6. /\ AtChar(k, w, c)
      /\ Leaves(PassedOver, LetterMeans(w, Value(k), MeansFrom[k + 1], MeansFrom[k + 2],
                                        c, LettersAt(k)[c + 1]))
  BY <1>1, <1>3, <1>4, <1>5, InLetter
<1>7. /\ k \in 1 .. Len(given) /\ Len(given) \in Nat /\ argc = Len(given) + 1
      /\ charidx \in Nat \ {0} /\ given \in Seq(Words)
  BY <1>2, <1>6, Facts DEF AtChar
<1>8. k = Len(given)
  BY <1>1, <1>3, <1>7
<1>9. Value(k) = <<>>
  <2>1. ~(k + 1 <= Len(given))
    BY <1>7, <1>8
  <2> QED BY <1>7, <2>1, GivenWord
<1>10. c <= Len(w) /\ ~(c > Len(w)) /\ ~(c < Len(w))
  <2>1. Letter # "nul"
    BY <1>1, GetoptAssumption
  <2>2. ~(c > Len(w)) /\ c >= Len(w) /\ c \in 2 .. Len(w) + 1 /\ Len(w) \in Nat
    BY <1>1, <1>6, <2>1 DEF AtChar
  <2> QED BY <2>2
<1>11. w[c] \in Valued /\ w[c] \notin Flags
  <2>1. w[c] \in Valued
    BY <1>1, <1>6, <1>10 DEF AtChar
  <2> QED BY <2>1, GetoptAssumption
<1>12. LetterMeans(w, Value(k), MeansFrom[k + 1], MeansFrom[k + 2], c, LettersAt(k)[c + 1])
        = [Nothing EXCEPT !.usage = TRUE]
  BY <1>9, <1>10, <1>11 DEF LetterMeans
<1>13. optind' \in 1 .. argc /\ charidx' \in Nat \ {0}
  BY <1>1, <1>3, <1>7
<1> QED BY <1>1, <1>2, <1>6, <1>12, <1>13, UsageKeeps

(* The option main() gets is the one the command line begins with.         *)
LEMMA Delivered ==
  ASSUME TypeOK, UNCHANGED <<input, argv, start, end>>, NEW a \in Seq(STRING),
         Letter \in Flags \cup Valued, options' = Append(options, <<Letter, a>>),
         NEW m \in Meanings, Leaves(PassedOver, Before(<< <<Letter, a>> >>, m))
  PROVE  /\ options' \in Seq((Flags \cup Valued) \X Seq(STRING))
         /\ PassedOver' = PassedOver /\ Means' = Means /\ MeansFrom' = MeansFrom
         /\ Means = Before(options', WithOperands(PassedOver, m))
<1>1. options \in Opts
  BY Facts
<1>2. PICK x : x = <<Letter, a>>
  OBVIOUS
<1>3. x \in (Flags \cup Valued) \X Seq(STRING) /\ <<x>> \in Opts
  BY <1>2 DEF Opts
<1>4. options' = options \o <<x>> /\ options' \in Opts
  <2>1. Append(options, x) = options \o <<x>> /\ Append(options, x) \in Opts
    BY <1>1, <1>3, AppendIsConcat, AppendProperties DEF Opts
  <2> QED BY <1>2, <2>1
<1>5. PICK s \in Seq(Words) : s = PassedOver
  BY PassedOverType
<1>6. Before(options, WithOperands(s, Before(<<x>>, m)))
        = Before(options \o <<x>>, WithOperands(s, m))
  BY <1>1, <1>3, OptionsJoin
<1>7. Means = Before(options', WithOperands(s, m))
  BY <1>2, <1>4, <1>5, <1>6 DEF Leaves
<1>8. PassedOver' = PassedOver
  BY DEF PassedOver, Segment
<1>9. Means' = Means /\ MeansFrom' = MeansFrom
  BY InputKeeps
<1> QED BY <1>4, <1>5, <1>7, <1>8, <1>9 DEF Opts

(* What of the state after does not depend on the letter.                  *)
LEMMA ScanAfter ==
  ASSUME TypeOK, UNCHANGED <<input, argv, start, end>>, phase' = "call",
         options' \in Seq((Flags \cup Valued) \X Seq(STRING)),
         NEW k, NEW w, NEW c, AtChar(k, w, c), NEW o, o = optind', o \in k .. argc,
         charidx' \in Nat \ {0},
         IF charidx' = 1 THEN Leaves(PassedOver, MeansFrom[o])' ELSE InWord'
  PROVE  IInv'
<1>1. given' = given /\ posix' = posix /\ argv' = argv /\ start' = start /\ end' = end
  BY DEF input
<1>2. argc' = argc
  BY <1>1 DEF argc
<1>3. /\ k \in 1 .. Len(given) /\ Untouched(k) /\ Len(given) \in Nat /\ argc = Len(given) + 1
      /\ (start # 0 => ~posix /\ start < end /\ end <= k /\ Operands(start, end))
      /\ end \in 0 .. Len(given)
  BY Facts DEF AtChar
<1>4. TypeOK'
  <2>1. optind' \in 1 .. argc'
    BY <1>2, <1>3
  <2> QED BY <1>1, <1>2, <2>1 DEF TypeOK
<1>5. Untouched(optind)'
  <2>1. \A j \in o .. Len(given) : j \in k .. Len(given)
    BY <1>3
  <2>2. \A j \in o .. Len(given) : argv[j] = given[j]
    BY <1>3, <2>1 DEF Untouched
  <2> QED BY <1>1, <2>2 DEF Untouched
<1>6. start' # 0 => ~posix' /\ start' < end' /\ end' <= optind' /\ Operands(start, end)'
  <2>1. start # 0 => Operands(start, end)'
    BY <1>1, <1>3 DEF Operands, IsOption
  <2>2. start # 0 => end <= o
    BY <1>3
  <2> QED BY <1>1, <1>3, <2>1, <2>2
<1>7. ScanInHand'
  <2>1. charidx' = 1 => Leaves(PassedOver, MeansFrom[optind])'
    BY DEF Leaves
  <2>2. charidx' # 1 => InWord'
    OBVIOUS
  <2> QED BY <1>5, <1>6, <2>1, <2>2 DEF ScanInHand
<1>8. FetchInHand' /\ RotateInHand' /\ ShiftInHand' /\ ParsesTheCommandLine'
  BY DEF FetchInHand, RotateInHand, ShiftInHand, ParsesTheCommandLine
<1> QED BY <1>4, <1>7, <1>8 DEF IInv

LEMMA FlagKeeps ==
  ASSUME IInv, Flag
  PROVE  IInv'
<1>1. /\ AtLetter /\ Letter \in Flags /\ options' = Append(options, <<Letter, <<>> >>)
      /\ Advance /\ phase' = "call" /\ UNCHANGED <<input, argv, start, end>>
  BY DEF Flag, Deliver
<1>2. TypeOK
  BY DEF IInv
<1>3. PICK k : k = optind
  OBVIOUS
<1>4. PICK w : w = argv[k]
  OBVIOUS
<1>5. PICK c : c = charidx + 1
  OBVIOUS
<1>6. PICK x : x = LettersAt(k)[c + 1]
  OBVIOUS
<1>7. /\ AtChar(k, w, c) /\ MeansFrom[k + 1] \in Meanings /\ MeansFrom[k + 2] \in Meanings
      /\ Value(k) \in Seq(Words) /\ (c <= Len(w) => x \in Meanings)
      /\ Leaves(PassedOver, LetterMeans(w, Value(k), MeansFrom[k + 1], MeansFrom[k + 2], c, x))
  BY <1>1, <1>3, <1>4, <1>5, <1>6, InLetter
<1>8. /\ k \in 1 .. Len(given) /\ Len(given) \in Nat /\ argc = Len(given) + 1
      /\ charidx \in Nat \ {0} /\ Len(w) \in Nat /\ w # <<>>
      /\ w \in Seq(STRING) /\ c \in 2 .. Len(w) + 1 /\ k + 1 \in k .. argc /\ k \in k .. argc
  <2>1. /\ k \in 1 .. Len(given) /\ Len(given) \in Nat /\ argc = Len(given) + 1
        /\ charidx \in Nat \ {0} /\ Len(w) \in Nat /\ Len(w) >= 1
        /\ w \in Seq(STRING) /\ c \in 2 .. Len(w) + 1
    BY <1>2, <1>7, Facts DEF AtChar
  <2>2. w # <<>>
    BY <2>1
  <2> QED BY <2>1, <2>2
<1>9. c <= Len(w) /\ ~(c > Len(w)) /\ Letter = w[c] /\ x \in Meanings
  <2>1. Letter # "nul"
    BY <1>1, GetoptAssumption
  <2>2. ~(c > Len(w))
    BY <1>7, <2>1 DEF AtChar
  <2>3. c <= Len(w)
    BY <1>8, <2>2
  <2> QED BY <1>7, <2>2, <2>3 DEF AtChar
<1>10. Leaves(PassedOver, Before(<< <<Letter, <<>> >> >>, x))
  BY <1>1, <1>7, <1>9 DEF LetterMeans
<1>11. /\ options' \in Seq((Flags \cup Valued) \X Seq(STRING))
       /\ PassedOver' = PassedOver /\ Means' = Means /\ MeansFrom' = MeansFrom
       /\ Means = Before(options', WithOperands(PassedOver, x))
  <2>1. <<>> \in Seq(STRING) /\ Letter \in Flags \cup Valued
    BY <1>1
  <2> QED BY <1>1, <1>2, <1>9, <1>10, <2>1, Delivered
<1>12. CASE Behind = <<>>
  <2>1. optind' = k + 1 /\ charidx' = 1
    BY <1>1, <1>3, <1>12 DEF Advance
  <2>2. c = Len(w)
    BY <1>7, <1>8, <1>9, <1>12 DEF AtChar
  <2>3. x = MeansFrom[k + 1]
    <3>1. c + 1 \in 2 .. Len(w) + 1 /\ c + 1 > Len(w) /\ Len(w) # 1
      BY <1>8, <2>2
    <3>2. w # <<Dash>>
      BY <3>1
    <3>3. LettersAt(k) = Letters(w, Value(k), MeansFrom[k + 1], MeansFrom[k + 2])
      BY <1>7 DEF LettersAt, AtChar
    <3>4. x = LetterMeans(w, Value(k), MeansFrom[k + 1], MeansFrom[k + 2], c + 1,
                          LettersAt(k)[(c + 1) + 1])
      BY <1>6, <1>7, <1>8, <3>1, <3>3, LettersAre
    <3> QED BY <3>1, <3>2, <3>4 DEF LetterMeans
  <2>4. Leaves(PassedOver, MeansFrom[k + 1])'
    BY <1>11, <2>3 DEF Leaves
  <2>5. charidx' \in Nat \ {0}
    BY <2>1
  <2> QED BY <1>1, <1>2, <1>7, <1>8, <1>11, <2>1, <2>4, <2>5, ScanAfter
<1>13. CASE Behind # <<>>
  <2>1. optind' = k /\ charidx' = charidx + 1
    BY <1>1, <1>3, <1>13 DEF Advance
  <2>2. c < Len(w)
    BY <1>7, <1>8, <1>13 DEF AtChar
  <2>3. charidx' = c /\ charidx' # 1 /\ charidx' \in Nat \ {0} /\ charidx' + 1 = c + 1
    BY <1>5, <1>8, <2>1
  <2>4. InWord'
    <3>1. argv' = argv /\ argc' = argc /\ LettersAt(k)' = LettersAt(k)
      <4>1. argv' = argv
        BY <1>1
      <4>2. argc' = argc
        BY <4>1 DEF argc
      <4> QED BY <1>1, <4>1, <4>2, InputKeeps
    <3>2. k < argc
      BY <1>8
    <3>3. IsOption(w)
      BY <1>7, <1>8 DEF IsOption, AtChar
    <3>4. optind' < argc' /\ IsOption(argv[optind])' /\ charidx' < Len(argv[optind])'
      BY <1>4, <2>1, <2>2, <2>3, <3>1, <3>2, <3>3 DEF IsOption
    <3>5. LettersAt(optind)' = LettersAt(k)
      BY <2>1, <3>1 DEF LettersAt, Value
    <3>6. LettersAt(optind)'[charidx' + 1] = x
      BY <1>6, <2>3, <3>5
    <3>7. Leaves(PassedOver, LettersAt(optind)[charidx + 1])'
      BY <1>11, <3>6 DEF Leaves
    <3> QED BY <3>4, <3>7 DEF InWord
  <2> QED BY <1>1, <1>2, <1>7, <1>8, <1>11, <2>1, <2>3, <2>4, ScanAfter
<1> QED BY <1>12, <1>13

LEMMA ValueBehindKeeps ==
  ASSUME IInv, ValueBehind
  PROVE  IInv'
<1>1. /\ AtLetter /\ Letter \in Valued /\ Behind # <<>>
      /\ options' = Append(options, <<Letter, Behind>>)
      /\ optind' = optind + 1 /\ charidx' = 1
      /\ phase' = "call" /\ UNCHANGED <<input, argv, start, end>>
  BY DEF ValueBehind, Deliver
<1>2. TypeOK
  BY DEF IInv
<1>3. PICK k : k = optind
  OBVIOUS
<1>4. PICK w : w = argv[k]
  OBVIOUS
<1>5. PICK c : c = charidx + 1
  OBVIOUS
<1>6. PICK b : b = Behind
  OBVIOUS
<1>7. /\ AtChar(k, w, c) /\ MeansFrom[k + 1] \in Meanings
      /\ Leaves(PassedOver, LetterMeans(w, Value(k), MeansFrom[k + 1], MeansFrom[k + 2], c,
                                        LettersAt(k)[c + 1]))
  BY <1>1, <1>3, <1>4, <1>5, InLetter
<1>8. /\ k \in 1 .. Len(given) /\ Len(given) \in Nat /\ argc = Len(given) + 1
      /\ k + 1 \in k .. argc /\ Len(w) \in Nat /\ c \in 2 .. Len(w) + 1
      /\ b \in Seq(STRING) /\ b = SubSeq(w, c + 1, Len(w)) /\ ~(c >= Len(w))
  <2>1. /\ k \in 1 .. Len(given) /\ Len(given) \in Nat /\ argc = Len(given) + 1
        /\ Len(w) \in Nat /\ c \in 2 .. Len(w) + 1
        /\ b \in Seq(STRING) /\ b = SubSeq(w, c + 1, Len(w)) /\ ~(c >= Len(w))
    BY <1>1, <1>2, <1>6, <1>7, Facts DEF AtChar
  <2> QED BY <2>1
<1>9. c < Len(w) /\ ~(c > Len(w)) /\ c <= Len(w)
  BY <1>8
<1>10. Letter = w[c] /\ w[c] \notin Flags /\ w[c] \in Valued
  <2>1. Letter = w[c]
    BY <1>7, <1>9 DEF AtChar
  <2> QED BY <1>1, <2>1, GetoptAssumption
<1>11. Leaves(PassedOver, Before(<< <<Letter, b>> >>, MeansFrom[k + 1]))
  BY <1>7, <1>8, <1>9, <1>10 DEF LetterMeans
<1>12. /\ options' \in Seq((Flags \cup Valued) \X Seq(STRING))
       /\ PassedOver' = PassedOver /\ Means' = Means /\ MeansFrom' = MeansFrom
       /\ Means = Before(options', WithOperands(PassedOver, MeansFrom[k + 1]))
  <2>1. Letter \in Flags \cup Valued /\ options' = Append(options, <<Letter, b>>)
    BY <1>1, <1>6
  <2> QED BY <1>1, <1>2, <1>7, <1>8, <1>11, <2>1, Delivered
<1>13. Leaves(PassedOver, MeansFrom[k + 1])'
  BY <1>12 DEF Leaves
<1>14. optind' = k + 1 /\ charidx' = 1 /\ charidx' \in Nat \ {0}
  BY <1>1, <1>3
<1> QED BY <1>1, <1>2, <1>7, <1>8, <1>12, <1>13, <1>14, ScanAfter

LEMMA ValueNextKeeps ==
  ASSUME IInv, ValueNext
  PROVE  IInv'
<1>1. /\ AtLetter /\ Letter \in Valued /\ Behind = <<>> /\ optind + 1 < argc
      /\ options' = Append(options, <<Letter, argv[optind + 1]>>)
      /\ optind' = optind + 2 /\ charidx' = 1
      /\ phase' = "call" /\ UNCHANGED <<input, argv, start, end>>
  BY DEF ValueNext, Deliver
<1>2. TypeOK
  BY DEF IInv
<1>3. PICK k : k = optind
  OBVIOUS
<1>4. PICK w : w = argv[k]
  OBVIOUS
<1>5. PICK c : c = charidx + 1
  OBVIOUS
<1>6. PICK b : b = argv[k + 1]
  OBVIOUS
<1>7. /\ AtChar(k, w, c) /\ MeansFrom[k + 2] \in Meanings
      /\ Leaves(PassedOver, LetterMeans(w, Value(k), MeansFrom[k + 1], MeansFrom[k + 2], c,
                                        LettersAt(k)[c + 1]))
  BY <1>1, <1>3, <1>4, <1>5, InLetter
<1>8. /\ k \in 1 .. Len(given) /\ Len(given) \in Nat /\ argc = Len(given) + 1
      /\ Len(w) \in Nat /\ c \in 2 .. Len(w) + 1 /\ c >= Len(w) /\ given \in Seq(Words)
  BY <1>1, <1>2, <1>7, Facts DEF AtChar
<1>9. k + 2 \in k .. argc /\ k + 1 <= Len(given) /\ k + 1 \in k .. Len(given)
      /\ k + 1 \in 1 .. Len(given)
  BY <1>1, <1>3, <1>8
<1>10. b = given[k + 1] /\ b \in Words /\ b \in Seq(STRING)
  <2>1. b = given[k + 1]
    BY <1>6, <1>7, <1>9 DEF AtChar, Untouched
  <2>2. given[k + 1] \in Words
    BY <1>8, <1>9
  <2> QED BY <2>1, <2>2, GetoptAssumption
<1>11. Value(k) = <<b>>
  BY <1>8, <1>9, <1>10, GivenWord
<1>12. c <= Len(w) /\ ~(c > Len(w)) /\ ~(c < Len(w))
  <2>1. Letter # "nul"
    BY <1>1, GetoptAssumption
  <2>2. ~(c > Len(w))
    BY <1>7, <2>1 DEF AtChar
  <2> QED BY <1>8, <2>2
<1>13. Letter = w[c] /\ w[c] \notin Flags /\ w[c] \in Valued
  <2>1. Letter = w[c]
    BY <1>7, <1>12 DEF AtChar
  <2> QED BY <1>1, <2>1, GetoptAssumption
<1>14. Leaves(PassedOver, Before(<< <<Letter, b>> >>, MeansFrom[k + 2]))
  <2>1. <<b>> # <<>> /\ <<b>>[1] = b
    OBVIOUS
  <2>2. LetterMeans(w, <<b>>, MeansFrom[k + 1], MeansFrom[k + 2], c, LettersAt(k)[c + 1])
          = Before(<< <<w[c], b>> >>, MeansFrom[k + 2])
    BY <1>12, <1>13, <2>1 DEF LetterMeans
  <2> QED BY <1>7, <1>11, <1>13, <2>2
<1>15. /\ options' \in Seq((Flags \cup Valued) \X Seq(STRING))
       /\ PassedOver' = PassedOver /\ Means' = Means /\ MeansFrom' = MeansFrom
       /\ Means = Before(options', WithOperands(PassedOver, MeansFrom[k + 2]))
  <2>1. Letter \in Flags \cup Valued /\ options' = Append(options, <<Letter, b>>)
    BY <1>1, <1>3, <1>6
  <2> QED BY <1>1, <1>2, <1>7, <1>10, <1>14, <2>1, Delivered
<1>16. Leaves(PassedOver, MeansFrom[k + 2])'
  BY <1>15 DEF Leaves
<1>17. optind' = k + 2 /\ charidx' = 1 /\ charidx' \in Nat \ {0}
  BY <1>1, <1>3
<1> QED BY <1>1, <1>2, <1>7, <1>9, <1>15, <1>16, <1>17, ScanAfter

-----------------------------------------------------------------------------
LEMMA InitIInv == Init => IInv
<1> SUFFICES ASSUME Init PROVE IInv
  OBVIOUS
<1>1. /\ argv = given /\ optind = 1 /\ charidx = 1 /\ start = 0 /\ end = 0
      /\ options = <<>> /\ phase = "call" /\ posix \in BOOLEAN
  BY DEF Init
<1>2. given \in Seq(Words)
  <2>1. PICK n \in 0 .. MaxWords : given \in [1 .. n -> Words]
    BY DEF Init
  <2>2. n \in Nat
    BY GetoptAssumption
  <2> QED BY <2>1, <2>2
<1>3. TypeOK
  BY <1>1, <1>2 DEF TypeOK, argc
<1>4. Leaves(<<>>, MeansFrom[1])
  <2>1. MeansFrom[1] \in Meanings
    BY <1>2, <1>3, Facts
  <2>2. Before(<<>>, WithOperands(<<>>, MeansFrom[1])) = MeansFrom[1]
    BY <2>1, Nothings
  <2> QED BY <1>1, <2>2 DEF Leaves, Means
<1>5. ScanInHand
  BY <1>1, <1>4 DEF ScanInHand, Untouched, PassedOver
<1>6. FetchInHand /\ RotateInHand /\ ShiftInHand /\ ParsesTheCommandLine
  BY <1>1 DEF FetchInHand, RotateInHand, ShiftInHand, ParsesTheCommandLine
<1> QED BY <1>3, <1>5, <1>6 DEF IInv

LEMMA StutterKeeps ==
  ASSUME IInv, UNCHANGED vars
  PROVE  IInv'
<1>1. /\ phase' = phase /\ UNCHANGED <<input, argv, scan, start, end, rotation, options>>
  BY DEF vars
<1>2. /\ optind' = optind /\ charidx' = charidx /\ start' = start /\ end' = end
      /\ held' = held /\ i' = i /\ lastPos' = lastPos
      /\ PassedOver' = PassedOver /\ (InWord' <=> InWord)
      /\ given' = given /\ posix' = posix /\ argv' = argv /\ options' = options
      /\ Means' = Means /\ MeansFrom' = MeansFrom /\ argc' = argc
  BY <1>1, OnlyPhase, WordsKept
<1>3. TypeOK' /\ ParsesTheCommandLine'
  BY <1>1, <1>2 DEF IInv, TypeOK, ParsesTheCommandLine
<1>4. ScanInHand'
  BY <1>1, <1>2 DEF IInv, ScanInHand, Untouched, Operands, IsOption, Leaves
<1>5. FetchInHand'
  BY <1>1, <1>2 DEF IInv, FetchInHand, Untouched, Operands, IsOption, Leaves, Segment
<1>6. RotateInHand'
  BY <1>1, <1>2 DEF IInv, RotateInHand, Untouched, Operands, IsOption, Leaves, Segment
<1>7. ShiftInHand'
  BY <1>1, <1>2 DEF IInv, ShiftInHand, Untouched, Operands, IsOption, Leaves, Segment
<1> QED BY <1>3, <1>4, <1>5, <1>6, <1>7 DEF IInv

LEMMA NextIInv == IInv /\ [Next]_vars => IInv'
<1> SUFFICES ASSUME IInv, [Next]_vars PROVE IInv'
  OBVIOUS
<1>1. CASE Call
  BY <1>1, CallKeeps
<1>2. CASE CallRotates
  BY <1>2, CallRotatesKeeps
<1>3. CASE Rotate
  BY <1>3, RotateKeeps
<1>4. CASE Shift
  BY <1>4, ShiftKeeps
<1>5. CASE ShiftEnds
  BY <1>5, ShiftEndsKeeps
<1>6. CASE RotateEnds
  BY <1>6, RotateEndsKeeps
<1>7. CASE NoWordLeft
  BY <1>7, NoWordLeftKeeps
<1>8. CASE StopAtOperand
  BY <1>8, StopAtOperandKeeps
<1>9. CASE PassOperands
  BY <1>9, PassOperandsKeeps
<1>10. CASE AtOption
  BY <1>10, AtOptionKeeps
<1>11. CASE TwoDashes
  BY <1>11, TwoDashesKeeps
<1>12. CASE Usage
  BY <1>12, UnknownKeeps
<1>13. CASE Flag
  BY <1>13, FlagKeeps
<1>14. CASE ValueBehind
  BY <1>14, ValueBehindKeeps
<1>15. CASE ValueNext
  BY <1>15, ValueNextKeeps
<1>16. CASE ValueMissing
  BY <1>16, ValueMissingKeeps
<1>17. CASE UNCHANGED vars
  BY <1>17, StutterKeeps
<1> QED
  BY <1>1, <1>2, <1>3, <1>4, <1>5, <1>6, <1>7, <1>8, <1>9, <1>10, <1>11, <1>12, <1>13,
     <1>14, <1>15, <1>16, <1>17 DEF Next, Rotation, NextWord, ShortOpts, Idle

(* Between any two steps the options main() has got, the operands passed   *)
(* over and what the words not yet read mean make up what the command line *)
(* means (ya_getopt.c:94-178).                                             *)
THEOREM NothingIsLost == Spec => []IInv
<1>1. Init => IInv
  BY InitIInv
<1>2. IInv /\ [Next]_vars => IInv'
  BY NextIInv
<1> QED BY <1>1, <1>2, PTL DEF Spec

(* optind, start, end and the indices of the rotation never leave argv.    *)
THEOREM TypeCorrect == Spec => []TypeOK
<1>1. IInv => TypeOK
  BY DEF IInv
<1> QED BY <1>1, NothingIsLost, PTL

(* However options and operands are mixed, and however many words there    *)
(* are, main() gets the options in their order with their arguments and    *)
(* the operands in theirs, and prints the usage for a wrong command line   *)
(* only (ya_getopt.c:94-178, snzip.c:252-298).                             *)
THEOREM ParsesEveryCommandLine == Spec => []ParsesTheCommandLine
<1>1. IInv => ParsesTheCommandLine
  BY DEF IInv
<1> QED BY <1>1, NothingIsLost, PTL
====
