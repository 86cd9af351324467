------------------------------ MODULE RawFormat ------------------------------
(***************************************************************************)
(* The raw format: raw_compress and raw_uncompress of raw_format.cpp, the  *)
(* FileSource and FileSink they give to the snappy library, and            *)
(* write_full() of snzip.c.                                                *)
(*                                                                         *)
(* The library (external) asks the source for bytes with Peek, takes some  *)
(* with Skip, and gives bytes to the sink with Append.  To compress it     *)
(* takes as many as the source has announced; to uncompress it takes all   *)
(* until Peek returns none, and then accepts or refuses what it has read.  *)
(* A byte is known by its position, in the file and in what was made.      *)
(*                                                                         *)
(* A definition Mut... is a plausible bug in the one after it.             *)
(***************************************************************************)
EXTENDS Integers, Sequences

CONSTANTS
  FileSizes,  \* bound: the sizes of the file read
  SizeArgs,   \* the arguments of -s, if it is given
  BufSize,    \* the size of the buffer of FileSource
  Appended,   \* bound: how many bytes the library appends at a time
  MaxMade,    \* bound: how many it appends in all
  Faults      \* which calls may fail: "read", "write"

ASSUME RawAssumption ==
  /\ FileSizes \subseteq Nat /\ SizeArgs \subseteq Nat
  /\ BufSize \in Nat \ {0} /\ Appended \subseteq Nat \ {0} /\ MaxMade \in Nat

VARIABLES
  mode,     \* "compress" or "uncompress"
  file,     \* the size of the file
  pipe,     \* the file is a pipe, whose st_size is 0
  sizeArg,  \* uncompressed_source_len, -1 without -s
  want,     \* how many bytes the library still needs to compress; 1 until it
            \* has seen the end of what it uncompresses
  rest,     \* restsize_
  ptr, end, \* the positions ptr_ and end_ stand for
  peeked,   \* what Peek has returned in *len
  taken,    \* history: the bytes the library has taken
  srcErr,   \* err_ of the source
  made,     \* how many bytes the library has appended
  left,     \* write_full: count
  sent,     \* history: the bytes written to outfd
  sinkErr,  \* err_ of the sink
  phase

given == <<mode, file, pipe, sizeArg>>
source == <<rest, ptr, end, srcErr>>
sink == <<made, left, sent, sinkErr>>
vars == <<given, want, source, peeked, taken, sink, phase>>

Minimum(m, n) == IF m <= n THEN m ELSE n
Positions(first, n) == [i \in 1 .. n |-> first + i - 1]

-----------------------------------------------------------------------------
(* The size raw_compress announces: that of -s, or of the file.            *)
StatSize == IF pipe THEN 0 ELSE file
Announced == IF sizeArg = -1 THEN StatSize ELSE sizeArg

Init ==
  /\ mode \in {"compress", "uncompress"} /\ file \in FileSizes
  /\ pipe \in BOOLEAN /\ sizeArg \in SizeArgs \cup {-1}
  /\ want = (IF mode = "compress" THEN Announced ELSE 1)
  /\ rest = (IF mode = "compress" THEN Announced ELSE -1)
  /\ ptr = 0 /\ end = 0 /\ peeked = 0 /\ taken = <<>> /\ srcErr = FALSE
  /\ made = 0 /\ left = 0 /\ sent = <<>> /\ sinkErr = FALSE
  /\ phase = "library"

MutClampNothing(n) == n
Clamp(n) == IF rest > 0 THEN Minimum(n, rest) ELSE n

(* Peek: nothing when nothing is left to be read, what is in the buffer,   *)
(* or what read() brings, which is fewer bytes than asked for as it likes, *)
(* and none at the end of the file.                                        *)
PeekNothing ==
  /\ phase = "library" /\ want > 0 /\ rest = 0
  /\ peeked' = 0 /\ phase' = "peeked"
  /\ UNCHANGED <<given, want, source, taken, sink>>

PeekBuffer ==
  /\ phase = "library" /\ want > 0 /\ rest # 0 /\ ptr # end
  /\ peeked' = Clamp(end - ptr) /\ phase' = "peeked"
  /\ UNCHANGED <<given, want, source, taken, sink>>

ReadSizes == IF file = end THEN {0} ELSE 1 .. Minimum(BufSize, file - end)

MutPeekRereads ==
  /\ phase = "library" /\ want > 0 /\ rest # 0
  /\ \E n \in ReadSizes :
       ptr' = end /\ end' = end + n /\ peeked' = Clamp(n)
  /\ phase' = "peeked"
  /\ UNCHANGED <<given, want, rest, srcErr, taken, sink>>

PeekRead ==
  /\ phase = "library" /\ want > 0 /\ rest # 0 /\ ptr = end
  /\ \E n \in ReadSizes :
       ptr' = end /\ end' = end + n /\ peeked' = Clamp(n)
  /\ phase' = "peeked"
  /\ UNCHANGED <<given, want, rest, srcErr, taken, sink>>

(* read() is interrupted (EINTR), and asked again.                         *)
ReadInterrupted ==
  /\ phase = "library" /\ want > 0 /\ rest # 0 /\ ptr = end
  /\ UNCHANGED vars

MutPeekFailsSilently ==
  /\ phase = "library" /\ want > 0 /\ rest # 0 /\ ptr = end
  /\ "read" \in Faults
  /\ rest' = 0 /\ peeked' = 0 /\ phase' = "peeked"
  /\ UNCHANGED <<given, want, ptr, end, srcErr, taken, sink>>

PeekFails ==
  /\ phase = "library" /\ want > 0 /\ rest # 0 /\ ptr = end
  /\ "read" \in Faults
  /\ rest' = 0 /\ srcErr' = TRUE /\ peeked' = 0 /\ phase' = "peeked"
  /\ UNCHANGED <<given, want, ptr, end, taken, sink>>

MutSkip(n) ==
  /\ ptr' = ptr + n
  /\ rest' = rest - n
Skip(n) ==
  /\ ptr' = ptr + n
  /\ rest' = IF rest > 0 THEN rest - n ELSE rest

(* The library takes bytes of those it has seen.                           *)
Take ==
  /\ phase = "peeked" /\ peeked > 0
  /\ \E n \in 1 .. peeked :
       /\ taken' = taken \o Positions(ptr, n)
       /\ IF mode = "compress" THEN n <= want /\ want' = want - n
                               ELSE UNCHANGED want
       /\ Skip(n)
  /\ phase' = "library"
  /\ UNCHANGED <<given, end, srcErr, peeked, sink>>

(* Without a byte more to come, uncompressing comes to its end, compressing *)
(* asks again.                                                             *)
NothingToTake ==
  /\ phase = "peeked" /\ peeked = 0
  /\ phase' = "library"
  /\ want' = IF mode = "compress" THEN want ELSE 0
  /\ UNCHANGED <<given, source, peeked, taken, sink>>

-----------------------------------------------------------------------------
(* The sink.                                                               *)

MutAppendAfterError(n) ==
  /\ left' = n /\ phase' = "write"
AppendBytes(n) ==
  IF sinkErr THEN phase' = "library" /\ UNCHANGED left
             ELSE left' = n /\ phase' = "write"

(* The library makes some bytes of what it has taken.                      *)
AppendSome ==
  /\ phase = "library"
  /\ \E n \in Appended :
       made + n <= MaxMade /\ made' = made + n /\ AppendBytes(n)
  /\ UNCHANGED <<given, want, source, peeked, taken, sent, sinkErr>>

MutWriteRestart ==
  /\ phase = "write" /\ left > 0
  /\ \E n \in 1 .. left :
       sent' = sent \o Positions(made - Minimum(made, 2), n) /\ left' = left - n
  /\ UNCHANGED <<given, want, source, peeked, taken, made, sinkErr, phase>>

(* The loop of write_full(): write() takes as many bytes as it likes.      *)
WriteSome ==
  /\ phase = "write" /\ left > 0
  /\ \E n \in 1 .. left :
       sent' = sent \o Positions(made - left, n) /\ left' = left - n
  /\ UNCHANGED <<given, want, source, peeked, taken, made, sinkErr, phase>>

WriteInterrupted == phase = "write" /\ left > 0 /\ UNCHANGED vars

WriteFails ==
  /\ phase = "write" /\ left > 0 /\ "write" \in Faults
  /\ sinkErr' = TRUE /\ left' = 0 /\ phase' = "library"
  /\ UNCHANGED <<given, want, source, peeked, taken, made, sent>>

MutWriteForever == phase = "write" /\ left = 0 /\ UNCHANGED vars

WriteEnds ==
  /\ phase = "write" /\ left = 0
  /\ phase' = "library"
  /\ UNCHANGED <<given, want, source, peeked, taken, sink>>

MutReturnUnchecked ==
  /\ phase = "library" /\ want = 0
  /\ phase' = IF srcErr THEN "failed" ELSE "done"
  /\ UNCHANGED <<given, want, source, peeked, taken, sink>>

(* The library has all it needs and has made all it makes of it.           *)
Return ==
  /\ phase = "library" /\ want = 0
  /\ phase' = IF srcErr \/ sinkErr THEN "failed" ELSE "done"
  /\ UNCHANGED <<given, want, source, peeked, taken, sink>>

(* snappy does not accept what it reads.                                   *)
Invalid ==
  /\ phase = "library" /\ mode = "uncompress"
  /\ phase' = "failed"
  /\ UNCHANGED <<given, want, source, peeked, taken, sink>>

Source == PeekNothing \/ PeekBuffer \/ PeekRead \/ PeekFails
Library == Take \/ NothingToTake \/ AppendSome \/ Return \/ Invalid
Sink == WriteSome \/ WriteFails \/ WriteEnds
Interrupted == ReadInterrupted \/ WriteInterrupted
Ended == {"done", "failed"}
Idle == phase \in Ended /\ UNCHANGED vars

Next == Source \/ Library \/ Sink \/ Interrupted \/ Idle

Spec == Init /\ [][Next]_vars

(* read() and write() are not interrupted for ever, and the library makes  *)
(* no endless output without asking for more input.                        *)
FairSpec ==
  /\ Spec
  /\ WF_vars(PeekNothing \/ PeekBuffer \/ PeekRead) /\ WF_vars(Take \/ NothingToTake)
  /\ WF_vars(WriteSome \/ WriteEnds) /\ WF_vars(Return)

-----------------------------------------------------------------------------
(* Properties.                                                             *)

(* The type invariant.                                                     *)
TypeOK ==
  /\ mode \in {"compress", "uncompress"} /\ file \in Nat /\ pipe \in BOOLEAN
  /\ sizeArg \in Nat \cup {-1}
  /\ want \in Nat /\ rest \in Nat \cup {-1}
  /\ ptr \in Nat /\ end \in Nat /\ peeked \in Nat
  /\ taken \in Seq(Nat) /\ sent \in Seq(Nat)
  /\ made \in Nat /\ left \in Nat /\ srcErr \in BOOLEAN /\ sinkErr \in BOOLEAN
  /\ phase \in {"library", "peeked", "write", "done", "failed"}

(* The bytes reach the library in their order, each once, however read()   *)
(* splits them up, and what it makes reaches the file in the same way      *)
(* however write() does (raw_format.cpp:103-141, snzip.c:625-641).         *)
InOrder(s) == \A i \in DOMAIN s : s[i] = i - 1
BytesInOrder == InOrder(taken) /\ InOrder(sent)

(* The library is never shown, nor takes, more than the size it has been   *)
(* told: what follows it in the file stays there (raw_format.cpp:128-130). *)
(* Success means that exactly that size has been compressed, or the whole  *)
(* file uncompressed, and that all the library made of it has been written *)
(* (raw_format.cpp:179-183, 190-194): to the library a read error looks    *)
(* like the end of the file.                                               *)
WithinAnnounced ==
  mode = "compress" => Len(taken) + (IF phase = "peeked" THEN peeked ELSE 0) <= Announced
SuccessIsExact ==
  /\ WithinAnnounced
  /\ phase = "done" =>
       /\ Len(taken) = IF mode = "compress" THEN Announced ELSE file
       /\ Len(sent) = made

(* It comes to an end, unless it compresses and the file has fewer bytes   *)
(* than announced, or read() fails: then nobody tells the library to stop  *)
(* asking for the rest (raw_format.cpp:113-120).                           *)
Hungry == mode = "compress" /\ (srcErr \/ file < Announced)
Terminates == <>(phase \in Ended \/ Hungry)

-----------------------------------------------------------------------------
(* The inductive invariant.                                                *)

(* What the library has taken is the file up to ptr, which is in the       *)
(* buffer or right behind it.                                              *)
SourceInHand ==
  /\ ptr <= end /\ end <= file
  /\ Len(taken) = ptr /\ InOrder(taken)

(* What is left to be read is what the library wants, as long as read()    *)
(* has not failed; after that nothing is.                                  *)
RestInHand ==
  /\ mode = "compress" =>
       want = Announced - ptr /\ rest = (IF srcErr THEN 0 ELSE want)
  /\ mode = "uncompress" =>
       /\ want \in {0, 1} /\ rest = (IF srcErr THEN 0 ELSE -1)
       /\ want = 0 => srcErr \/ ptr = file

(* What Peek has shown can be taken; it shows nothing at the end only.     *)
PeekedInHand ==
  phase = "peeked" =>
    /\ want > 0 /\ peeked <= end - ptr
    /\ mode = "compress" => peeked <= rest
    /\ peeked = 0 => srcErr \/ ptr = file

(* What has been written is what the library made, but for what            *)
(* write_full() still has to write.                                        *)
SinkInHand ==
  /\ InOrder(sent)
  /\ phase = "write" => ~sinkErr /\ left <= made /\ Len(sent) = made - left
  /\ phase # "write" /\ ~sinkErr => Len(sent) = made

Finished == phase = "done" => want = 0 /\ ~srcErr /\ ~sinkErr

IInv ==
  TypeOK /\ SourceInHand /\ RestInHand /\ PeekedInHand /\ SinkInHand /\ Finished

=============================================================================
