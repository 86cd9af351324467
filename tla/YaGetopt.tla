------------------------------ MODULE YaGetopt ------------------------------
(***************************************************************************)
(* The command line where the system has no getopt(): ya_getopt() of       *)
(* win32/ya_getopt.c and the loop of main() that calls it.  Operands are   *)
(* moved behind the options, one word at a time.                           *)
(*                                                                         *)
(* A word is the sequence of its characters.  argv is argv[1], argv[2] and *)
(* so on of the code; char c of a word is word[c + 1].                     *)
(*                                                                         *)
(* A definition Mut... is a plausible bug in the one after it.             *)
(***************************************************************************)
EXTENDS Integers, Sequences

CONSTANTS
  Words,      \* bound: the words of a command line
  MaxWords,   \* bound: how many it has
  Flags,      \* the options without an argument ("h" is not one of these)
  Valued      \* the options with an argument

VARIABLES
  given,      \* the command line as it was
  posix,      \* POSIXLY_CORRECT is set
  argv,       \* the words as they are now
  optind,     \* ya_optind
  charidx,    \* ya_charidx
  start, end, \* the operands passed over: from start to before end
  held, i, lastPos,  \* the rotation: arg, i, last_pos
  options,    \* history: the options main() has got, with their arguments
  phase

ASSUME GetoptAssumption ==
  /\ Words \subseteq Seq(STRING) /\ MaxWords \in Nat
  /\ Flags \cup Valued \subseteq STRING \ {"nul"} /\ Flags \cap Valued = {}

input == <<given, posix>>
scan == <<optind, charidx>>
rotation == <<held, i, lastPos>>
vars == <<input, argv, scan, start, end, rotation, options, phase>>

argc == Len(argv) + 1
Dash == "-"
Minimum(m, n) == IF m <= n THEN m ELSE n
IsOption(w) == w # <<>> /\ w[1] = Dash

Init ==
  /\ given \in UNION {[1 .. n -> Words] : n \in 0 .. MaxWords}
  /\ posix \in BOOLEAN /\ argv = given
  /\ optind = 1 /\ charidx = 1 /\ start = 0 /\ end = 0
  /\ held = <<>> /\ i = 0 /\ lastPos = 0 /\ options = <<>> /\ phase = "call"

-----------------------------------------------------------------------------
(* What a call begins with: the words since the operands passed over are   *)
(* moved in front of them, the last operand first.                         *)

Call ==
  /\ phase = "call" /\ (charidx # 1 \/ start = 0)
  /\ phase' = "fetch"
  /\ UNCHANGED <<input, argv, scan, start, end, rotation, options>>

MutCallRotates ==
  /\ phase = "call" /\ charidx = 1 /\ start # 0
  /\ lastPos' = optind /\ optind' = optind - (end - start)
  /\ phase' = "rotate"
  /\ UNCHANGED <<input, argv, charidx, start, end, held, i, options>>

CallRotates ==
  /\ phase = "call" /\ charidx = 1 /\ start # 0
  /\ lastPos' = optind - 1 /\ optind' = optind - (end - start)
  /\ phase' = "rotate"
  /\ UNCHANGED <<input, argv, charidx, start, end, held, i, options>>

Rotate ==
  /\ phase = "rotate" /\ start < end
  /\ end' = end - 1 /\ held' = argv[end - 1] /\ i' = end - 1
  /\ phase' = "shift"
  /\ UNCHANGED <<input, argv, scan, start, lastPos, options>>

Shift ==
  /\ phase = "shift" /\ i < lastPos
  /\ argv' = [argv EXCEPT ![i] = argv[i + 1]] /\ i' = i + 1
  /\ UNCHANGED <<input, scan, start, end, held, lastPos, options, phase>>

MutShiftEnds ==
  /\ phase = "shift" /\ i >= lastPos
  /\ argv' = [argv EXCEPT ![i] = held]
  /\ phase' = "rotate"
  /\ UNCHANGED <<input, scan, start, end, rotation, options>>

ShiftEnds ==
  /\ phase = "shift" /\ i >= lastPos
  /\ argv' = [argv EXCEPT ![i] = held] /\ lastPos' = lastPos - 1
  /\ phase' = "rotate"
  /\ UNCHANGED <<input, scan, start, end, held, i, options>>

RotateEnds ==
  /\ phase = "rotate" /\ start >= end
  /\ end' = end - 1 /\ start' = 0 /\ phase' = "fetch"
  /\ UNCHANGED <<input, argv, scan, rotation, options>>

-----------------------------------------------------------------------------
(* The next word.                                                          *)

ReturnsEnd == phase' = "operands"
AtOperand ==
  phase = "fetch" /\ optind < argc /\ charidx = 1 /\ ~IsOption(argv[optind])
OptionsAhead == {n \in optind + 1 .. argc - 1 : IsOption(argv[n])}

NoWordLeft ==
  /\ phase = "fetch" /\ optind >= argc
  /\ ReturnsEnd
  /\ UNCHANGED <<input, argv, scan, start, end, rotation, options>>

StopAtOperand ==
  /\ AtOperand /\ posix
  /\ ReturnsEnd
  /\ UNCHANGED <<input, argv, scan, start, end, rotation, options>>

PassOperands ==
  /\ AtOperand /\ ~posix
  /\ start' = optind
  /\ IF OptionsAhead = {}
     THEN ReturnsEnd /\ UNCHANGED <<optind, end>>
     ELSE /\ end' = CHOOSE n \in OptionsAhead : \A m \in OptionsAhead : n <= m
          /\ optind' = end' /\ phase' = "option"
  /\ UNCHANGED <<input, argv, charidx, rotation, options>>

AtOption ==
  /\ phase = "fetch" /\ optind < argc /\ (charidx # 1 \/ IsOption(argv[optind]))
  /\ phase' = "option"
  /\ UNCHANGED <<input, argv, scan, start, end, rotation, options>>

(* "--": the operands passed over stay where they are, in front of optind. *)
TwoDashes ==
  /\ phase = "option" /\ charidx = 1 /\ argv[optind] = <<Dash, Dash>>
  /\ optind' = optind + 1 /\ ReturnsEnd
  /\ UNCHANGED <<input, argv, charidx, start, end, rotation, options>>

-----------------------------------------------------------------------------
(* ya_getopt_shortopts(), and what main() does with what it returns.       *)

AtLetter ==
  phase = "option" /\ ~(charidx = 1 /\ argv[optind] = <<Dash, Dash>>)
Word == argv[optind]
Letter == IF charidx + 1 > Len(Word) THEN "nul" ELSE Word[charidx + 1]
Behind == SubSeq(Word, charidx + 2, Len(Word))
Deliver(arg) == options' = Append(options, <<Letter, arg>>)

(* On to the next letter, or to the next word.                             *)
Advance ==
  IF Behind = <<>> THEN optind' = optind + 1 /\ charidx' = 1
                   ELSE charidx' = charidx + 1 /\ UNCHANGED optind

(* An unknown option, "-" among them, and "h" make main() print the usage  *)
(* and exit.  Behind the end of "-" the code looks at a byte that does not *)
(* belong to it (line 208), which may be anything.                         *)
Usage ==
  /\ AtLetter /\ Letter \notin Flags \cup Valued
  /\ \/ Advance
     \/ Letter = "nul" /\ charidx' = charidx + 1 /\ UNCHANGED optind
  /\ phase' = "usage"
  /\ UNCHANGED <<input, argv, start, end, rotation, options>>

Flag ==
  /\ AtLetter /\ Letter \in Flags
  /\ Deliver(<<>>)
  /\ Advance
  /\ phase' = "call"
  /\ UNCHANGED <<input, argv, start, end, rotation>>

ValueBehind ==
  /\ AtLetter /\ Letter \in Valued /\ Behind # <<>>
  /\ Deliver(Behind)
  /\ optind' = optind + 1 /\ charidx' = 1 /\ phase' = "call"
  /\ UNCHANGED <<input, argv, start, end, rotation>>

ValueNext ==
  /\ AtLetter /\ Letter \in Valued /\ Behind = <<>> /\ optind + 1 < argc
  /\ Deliver(argv[optind + 1])
  /\ optind' = optind + 2 /\ charidx' = 1 /\ phase' = "call"
  /\ UNCHANGED <<input, argv, start, end, rotation>>

ValueMissing ==
  /\ AtLetter /\ Letter \in Valued /\ Behind = <<>> /\ optind + 1 >= argc
  /\ optind' = optind + 1 /\ phase' = "usage"
  /\ UNCHANGED <<input, argv, charidx, start, end, rotation, options>>

Rotation == CallRotates \/ Rotate \/ Shift \/ ShiftEnds \/ RotateEnds
NextWord == NoWordLeft \/ StopAtOperand \/ PassOperands \/ AtOption \/ TwoDashes
ShortOpts == Usage \/ Flag \/ ValueBehind \/ ValueNext \/ ValueMissing
Idle == phase \in {"operands", "usage"} /\ UNCHANGED vars

Next == Call \/ Rotation \/ NextWord \/ ShortOpts \/ Idle

Spec == Init /\ [][Next]_vars

-----------------------------------------------------------------------------
(* Properties.                                                             *)

(* What a command line means, read from the left: the options with their   *)
(* arguments, and the operands.  An operand with a "--" somewhere behind   *)
(* it is not among them, unless POSIXLY_CORRECT has ended the options at   *)
(* it.                                                                     *)
Meaning(opts, operands) ==
  [options |-> opts, operands |-> operands, dashes |-> FALSE, usage |-> FALSE]
Nothing == Meaning(<<>>, <<>>)
Before(opts, m) == [m EXCEPT !.options = opts \o @]

(* A word with options from each of its letters on; rest is what the next  *)
(* word, and after, what the one behind it begin.                          *)
Letters(w, value, rest, after) ==
  LET mean[c \in 2 .. Len(w) + 1] ==
        IF c > Len(w) THEN (IF w = <<Dash>> THEN [Nothing EXCEPT !.usage = TRUE] ELSE rest)
        ELSE IF w[c] \in Flags THEN Before(<< <<w[c], <<>> >> >>, mean[c + 1])
        ELSE IF w[c] \notin Valued THEN [Nothing EXCEPT !.usage = TRUE]
        ELSE IF c < Len(w)
             THEN Before(<< <<w[c], SubSeq(w, c + 1, Len(w))>> >>, rest)
        ELSE IF value = <<>> THEN [Nothing EXCEPT !.usage = TRUE]
        ELSE Before(<< <<w[c], value[1]>> >>, after)
  IN mean

(* The words from each on, and all of them.                                *)
Value(k) == SubSeq(given, k + 1, Minimum(k + 1, Len(given)))
MeansFrom ==
  LET n == Len(given)
      mean[k \in 1 .. n + 2] ==
        IF k > n THEN Nothing
        ELSE IF given[k] = <<Dash, Dash>>
             THEN [Meaning(<<>>, SubSeq(given, k + 1, n)) EXCEPT !.dashes = TRUE]
        ELSE IF IsOption(given[k])
             THEN Letters(given[k], Value(k), mean[k + 1], mean[k + 2])[2]
        ELSE IF posix THEN Meaning(<<>>, SubSeq(given, k, n))
        ELSE IF mean[k + 1].dashes THEN mean[k + 1]
        ELSE [mean[k + 1] EXCEPT !.operands = <<given[k]>> \o @]
  IN mean
Means == MeansFrom[1]

(* The type invariant: optind, start and end stay within the words.        *)
TypeOK ==
  /\ given \in Seq(Words) /\ argv \in Seq(Words) /\ Len(argv) = Len(given)
  /\ posix \in BOOLEAN /\ optind \in 1 .. argc /\ charidx \in Nat \ {0}
  /\ start \in 0 .. Len(argv) /\ end \in 0 .. Len(argv)
  /\ phase \in {"shift", "rotate"} => lastPos \in 0 .. Len(argv)
  /\ phase = "shift" => i \in 1 .. Len(argv)
  /\ options \in Seq((Flags \cup Valued) \X Seq(STRING))
  /\ phase \in {"call", "rotate", "shift", "fetch", "option", "operands", "usage"}

(* main() gets the options in their order with their arguments, and argv   *)
(* from optind on holds the operands in theirs, however options and        *)
(* operands are mixed; the usage is printed for a wrong command line only  *)
(* (ya_getopt.c:94-178, snzip.c:252-298).                                  *)
ParsesTheCommandLine ==
  /\ phase \in {"operands", "usage"} =>
       /\ options = Means.options
       /\ (phase = "usage") = Means.usage
  /\ phase = "operands" => SubSeq(argv, optind, Len(argv)) = Means.operands

-----------------------------------------------------------------------------
(* The inductive invariant (YaGetoptProofs): what main() has got, the      *)
(* operands passed over and what the words not yet read mean are together  *)
(* what the command line means.                                            *)

WithOperands(ops, m) ==
  IF m.dashes THEN m ELSE [m EXCEPT !.operands = ops \o @]
Leaves(ops, m) == Means = Before(options, WithOperands(ops, m))
LettersAt(k) == Letters(given[k], Value(k), MeansFrom[k + 1], MeansFrom[k + 2])

(* The words from p on have not been touched; those from j to before k are *)
(* operands.                                                               *)
Untouched(p) == \A j \in p .. Len(given) : argv[j] = given[j]
Operands(j, k) == \A n \in j .. k - 1 : ~IsOption(argv[n])
Segment(j, k) == SubSeq(argv, j, k - 1)
PassedOver == IF start = 0 THEN <<>> ELSE Segment(start, end)

(* Between two words, and within one, the operands passed over are where   *)
(* start and end say.                                                      *)
InWord ==
  /\ optind < argc /\ IsOption(argv[optind]) /\ charidx < Len(argv[optind])
  /\ Leaves(PassedOver, LettersAt(optind)[charidx + 1])
ScanInHand ==
  phase \in {"call", "option"} \/ (phase = "fetch" /\ charidx # 1) =>
    /\ Untouched(optind)
    /\ start # 0 =>
         ~posix /\ start < end /\ end <= optind /\ Operands(start, end)
    /\ phase = "option" => optind < argc /\ IsOption(argv[optind])
    /\ IF charidx = 1 THEN Leaves(PassedOver, MeansFrom[optind]) ELSE InWord

(* Where a new word is looked for they are in front of those not read.     *)
FetchInHand ==
  phase = "fetch" /\ charidx = 1 =>
    /\ start = 0
    /\ \E p \in optind .. argc :
         /\ Untouched(p) /\ Operands(optind, p) /\ (posix => p = optind)
         /\ Leaves(Segment(optind, p), MeansFrom[p])

(* While they are moved some still are in front of the words read since,   *)
(* one may be in hand, and the others are behind lastPos.                  *)
RotateInHand ==
  phase = "rotate" =>
    /\ ~posix /\ charidx = 1
    /\ 1 <= start /\ start <= end /\ end <= lastPos + 1
    /\ optind = lastPos + 1 - (end - start)
    /\ \E p \in lastPos + 1 .. argc :
         /\ Untouched(p) /\ Operands(start, end) /\ Operands(lastPos + 1, p)
         /\ Leaves(Segment(start, end) \o Segment(lastPos + 1, p), MeansFrom[p])
ShiftInHand ==
  phase = "shift" =>
    /\ ~posix /\ charidx = 1 /\ held \in Words /\ ~IsOption(held)
    /\ 1 <= start /\ start <= end /\ end <= i /\ i <= lastPos
    /\ optind = lastPos - (end - start)
    /\ \E p \in lastPos + 1 .. argc :
         /\ Untouched(p) /\ Operands(start, end) /\ Operands(lastPos + 1, p)
         /\ Leaves(Segment(start, end) \o <<held>> \o Segment(lastPos + 1, p),
                   MeansFrom[p])

IInv ==
  /\ TypeOK /\ ScanInHand /\ FetchInHand /\ RotateInHand /\ ShiftInHand
  /\ ParsesTheCommandLine

=============================================================================
