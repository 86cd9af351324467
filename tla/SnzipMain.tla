------------------------------ MODULE SnzipMain ------------------------------
(***************************************************************************)
(* The driver of snzip: main() of snzip.c from the parsed options to the   *)
(* exit status, with the stdio buffer of the output stream, the file       *)
(* system it works on, and the part of every codec that the driver and the *)
(* user see: what it writes where, and which failures it reports.          *)
(*                                                                         *)
(* Data are pieces.  A text is a sequence of plain pieces; a compressed    *)
(* file is a magic piece (formats with a header), one piece per plain      *)
(* piece, and an end piece (formats whose reader knows where data end).    *)
(* A file name is the sequence of its parts between dots: "a.tar.sz" is    *)
(* <<"a", "tar", "sz">>.                                                   *)
(*                                                                         *)
(* The history variables orig, before, ignored and abandoned appear in     *)
(* properties only: no guard reads them.  A definition Mut... is a         *)
(* plausible bug in the one after it; no action uses it.                   *)
(***************************************************************************)
EXTENDS Integers, Sequences, FiniteSets

CONSTANTS
  Absent,        \* the value of a name no file has
  Payloads,      \* the texts a piece can belong to
  Attributes,    \* the times, modes and owners a file can have
  Names,         \* the names a run can touch, Stdin and Stdout included
  Commands,      \* the command lines
  InitialFiles,  \* the file systems a run can start from
  DefaultFormat, \* DEFAULT_FORMAT, chosen by configure
  BufCap,        \* how many pieces the stdio buffer of the output holds
  Faults,        \* the failures the environment may inject
  MaxRuns        \* bound: how often the user runs the command

VARIABLES
  cmd,      \* the command line
  fs,       \* the file system: name -> file, or Absent
  pc,       \* where main() is
  optind,   \* the argument in work (0 before the first)
  fmt,      \* the local fmt of main()
  out,      \* the open output file (NoFile: none; Stdout: stdout)
  pos,      \* pieces the codec has put out so far
  buf,      \* the pieces in the stdio buffer of outfp
  ferr,     \* the error flag of outfp
  status,   \* the exit status
  runs,     \* runs of the command so far
  orig,     \* history: the file system before the first run
  before,   \* history: the file system before this run
  ignored,  \* history: a failure went by that the code does not look at
  abandoned \* history: the code gave up its output where it does not unlink

stream == <<out, pos, buf, ferr>>
history == <<orig, before, ignored, abandoned>>
vars == <<cmd, fs, pc, optind, fmt, stream, status, runs, history>>

-----------------------------------------------------------------------------
(* The format table, and what the codecs have in common.                   *)

Formats == {"framing2", "hadoop-snappy", "raw", "iwa", "framing", "snzip",
            "snappy-java", "snappy-in-java", "comment-43"}

SuffixOf ==
  [f \in Formats |-> IF f \in {"framing2", "framing"} THEN "sz"
                     ELSE IF f = "snzip" THEN "snz"
                     ELSE IF f \in {"raw", "iwa"} THEN f
                     ELSE "snappy"]

NoFormat == "NULL"

(* Formats whose files begin with a magic, and those with an end a reader  *)
(* can miss: an end mark, or the length in front of a raw stream.          *)
HasMagic == Formats \ {"hadoop-snappy", "raw", "iwa"}
HasEnd == {"snzip", "comment-43", "raw"}

(* Codecs that write to the descriptor, not through stdio, and those of    *)
(* them that call fflush(outfp) before they do.                            *)
Direct(f, un) ==
  \/ f = "raw"
  \/ un /\ f \in {"snzip", "snappy-java", "snappy-in-java"}
MutFlushesNever(f, un) == FALSE
FlushesFirst(f, un) == Direct(f, un) /\ f # "raw"

(* Codecs that write headers with putc(), whose result none looks at, and  *)
(* those that ask ferror(outfp) before they return.                        *)
UsesPutc(f, un) == ~un /\ f \notin {"raw", "hadoop-snappy"}
ChecksFerror(f, un) ==
  \/ f \in {"framing2", "framing", "iwa"}
  \/ ~un /\ f \in {"hadoop-snappy", "comment-43"}

(* Codecs that call exit(1), or abort, when memory runs out; the others    *)
(* return an error.                                                        *)
DiesWithoutMemory ==
  {"hadoop-snappy", "snzip", "snappy-java", "snappy-in-java", "raw"}

(* When a codec asks for memory: an encoder with a work buffer after its    *)
(* header, two decoders again for every block that is larger.              *)
AllocatesAt(f, un, n) ==
  \/ n = IF ~un /\ f \in DiesWithoutMemory \cap HasMagic THEN 1 ELSE 0
  \/ un /\ f \in {"hadoop-snappy", "snappy-java"}

-----------------------------------------------------------------------------
(* Pieces, files and what a codec makes of one.                            *)

Piece(e, p, n) == [enc |-> e, of |-> p, i |-> n]
Magic(f) == Piece(f, "magic", 0)
EndMark(f) == Piece(f, "end", 0)

Pieces == [enc : Formats \cup {"plain", "damaged"},
           of : Payloads \cup {"magic", "end"}, i : Nat]

Files == [data : Seq(Pieces), attrs : Attributes]
EmptyFile == [data |-> <<>>, attrs |-> "new"]

Lead(f) == IF f \in HasMagic THEN 1 ELSE 0
Trail(f) == IF f \in HasEnd THEN 1 ELSE 0

Encoded(f, d) ==
  [j \in 1 .. Lead(f) + Len(d) + Trail(f) |->
     IF j <= Lead(f) THEN Magic(f)
     ELSE IF j <= Lead(f) + Len(d) THEN [d[j - Lead(f)] EXCEPT !.enc = f]
     ELSE EndMark(f)]

(* The pieces a decoder gets to: that of snzip stops at the first end mark *)
(* and does not look at what is behind it.                                 *)
Read(f, d) ==
  {i \in DOMAIN d :
     f = "snzip" => \A k \in 1 .. i - 1 : d[k] # EndMark(f)}
Behind(d) == \E i \in 1 .. Len(d) - 1 : d[i] = EndMark("snzip")

(* The blocks among them, and where block j of the input is.               *)
IsBlock(f, p) == p.enc = f /\ p.of \in Payloads
BlocksAt(f, d) == {i \in Read(f, d) : IsBlock(f, d[i])}
BlockIndex(f, d, j) ==
  CHOOSE i \in BlocksAt(f, d) :
    Cardinality({k \in BlocksAt(f, d) : k <= i}) = j
Decoded(f, d) ==
  [j \in 1 .. Cardinality(BlocksAt(f, d)) |->
     [d[BlockIndex(f, d, j)] EXCEPT !.enc = "plain"]]

(* What a decoder takes at place i.  Files of the formats with chunks can  *)
(* be concatenated: those of framing have their magic skipped, those of    *)
(* comment-43 begin again behind an end mark, and with nothing else.       *)
AfterEnd(f, d, i) == f = "comment-43" /\ i > 1 /\ d[i - 1] = EndMark(f)
Sound(f, d, i) ==
  \/ IsBlock(f, d[i]) /\ ~AfterEnd(f, d, i)
  \/ /\ f \in HasMagic /\ d[i] = Magic(f)
     /\ i = 1 \/ f \in {"framing2", "framing"} \/ AfterEnd(f, d, i)
  \/ /\ f \in HasEnd /\ d[i] = EndMark(f)
     /\ ~AfterEnd(f, d, i) /\ (f = "raw" => i = Len(d))

EndFound(f, d) ==
  IF f = "snzip" THEN \E i \in DOMAIN d : d[i] = EndMark(f)
  ELSE d # <<>> /\ d[Len(d)] = EndMark(f)

(* The whole output of a codec, and what makes an input one that the       *)
(* decoder accepts to its end.                                             *)
Converted(f, un, d) == IF un THEN Decoded(f, d) ELSE Encoded(f, d)
HeaderOk(f, un, d) == un /\ f \in HasMagic => d # <<>> /\ d[1] = Magic(f)
EndOk(f, un, d) == un /\ f \in HasEnd => EndFound(f, d)
WellFormed(f, un, d) ==
  /\ HeaderOk(f, un, d) /\ EndOk(f, un, d)
  /\ un => \A i \in Read(f, d) : Sound(f, d, i)

(* Decoders that take any EOF of getc() between two blocks, also one that  *)
(* stands for a read error, for the end of the file: those of Java, and    *)
(* that of comment-43 behind an end mark with more to come.                *)
ErrorIsEnd(f, un, d, n) ==
  /\ un
  /\ \/ f \in {"snappy-java", "snappy-in-java"}
     \/ /\ f = "comment-43"
        /\ \E r \in 2 .. Len(d) :
             /\ d[r - 1] = EndMark(f)
             /\ \A i \in 1 .. r - 1 : Sound(f, d, i)
             /\ Cardinality({k \in BlocksAt(f, d) : k < r}) = n

(* find_stream_format_by_file_header: a magic decides; else hadoop-snappy  *)
(* is assumed when the second word is no larger than one of its buffers,   *)
(* which the first bytes of any other file may be or not be.               *)
Detected(d) ==
  IF d = <<>> THEN {NoFormat}
  ELSE IF \E f \in HasMagic : d[1] = Magic(f) THEN {d[1].enc}
  ELSE IF d[1].enc = "hadoop-snappy" THEN {"hadoop-snappy"}
  ELSE {NoFormat, "hadoop-snappy"}

-----------------------------------------------------------------------------
(* The command line: what main() takes from the name it is called by and   *)
(* from its options.                                                       *)

Stdin == <<"(stdin)">>
Stdout == <<"(stdout)">>
NoFile == <<>>

OptUncompress(c) == "d" \in c.flags \/ "un" \in c.prog \/ "cat" \in c.prog
OptStdout(c) == "c" \in c.flags \/ "cat" \in c.prog
MutKeepOnlyByK(c) == "k" \in c.flags \/ "cat" \in c.prog
OptKeep(c) == {"c", "k"} \cap c.flags # {} \/ "cat" \in c.prog
Filter(c) == c.args = <<>>

HasSuffix(n) == Len(n) > 1
Suffix(n) == n[Len(n)]
KnownSuffix(n) == \E f \in Formats : SuffixOf[f] = Suffix(n)
Skipped(c, n) == HasSuffix(n) /\ (OptUncompress(c) # KnownSuffix(n))

OutName(c, n, f) ==
  IF ~OptUncompress(c) THEN Append(n, SuffixOf[f])
  ELSE IF HasSuffix(n) /\ Suffix(n) = SuffixOf[f]
       THEN SubSeq(n, 1, Len(n) - 1)
       ELSE Append(n, "out")

In == IF Filter(cmd) THEN Stdin ELSE cmd.args[optind]
Un == OptUncompress(cmd)
Input == fs[In].data
Output == Converted(fmt, Un, Input)

-----------------------------------------------------------------------------
(* The output stream.                                                      *)

AppendTo(n, ps) ==
  [fs EXCEPT ![n] = [data |-> fs[n].data \o ps,
                     attrs |-> IF ps = <<>> THEN fs[n].attrs ELSE "new"]]

(* Empty the stdio buffer into the file.  When a write fails, what was     *)
(* not written is dropped and the error flag is set.                       *)
Flush(n) ==
  /\ n \in 0 .. Len(buf)
  /\ n = Len(buf) \/ "fflush" \in Faults
  /\ fs' = AppendTo(out, SubSeq(buf, 1, n))
  /\ buf' = <<>>
  /\ ferr' = (ferr \/ n < Len(buf))

-----------------------------------------------------------------------------
(* main(): options, and the loop over the arguments.                       *)

Init ==
  /\ cmd \in Commands
  /\ fs \in InitialFiles
  /\ pc = "start" /\ optind = 0 /\ fmt = DefaultFormat
  /\ out = NoFile /\ pos = 0 /\ buf = <<>> /\ ferr = FALSE
  /\ status = 0 /\ runs = 1
  /\ orig = fs /\ before = fs /\ ignored = FALSE /\ abandoned = FALSE

Leave(s) == pc' = "exiting" /\ status' = s

MutStartAnyFormat ==
  /\ pc = "start"
  /\ IF "h" \in cmd.flags THEN Leave(0) /\ UNCHANGED fmt
     ELSE IF "?" \in cmd.flags \/ (Filter(cmd) /\ ~Un /\ cmd.tty)
     THEN Leave(1) /\ UNCHANGED fmt
     ELSE /\ fmt' = IF cmd.t = NoFormat THEN DefaultFormat ELSE cmd.t
          /\ pc' = IF Filter(cmd) THEN "detect" ELSE "next"
          /\ UNCHANGED status
  /\ UNCHANGED <<cmd, fs, optind, stream, runs, history>>

(* -h and a bad option end in show_usage(); an unknown -t name, and        *)
(* compressed data for a terminal, are refused.                            *)
Start ==
  /\ pc = "start"
  /\ IF "h" \in cmd.flags THEN Leave(0) /\ UNCHANGED fmt
     ELSE IF \/ "?" \in cmd.flags
             \/ cmd.t \notin Formats \cup {NoFormat}
             \/ Filter(cmd) /\ ~Un /\ cmd.tty
     THEN Leave(1) /\ UNCHANGED fmt
     ELSE /\ fmt' = IF cmd.t = NoFormat THEN DefaultFormat ELSE cmd.t
          /\ pc' = IF Filter(cmd) THEN "detect" ELSE "next"
          /\ UNCHANGED status
  /\ UNCHANGED <<cmd, fs, optind, stream, runs, history>>

MutTakeArgSticks ==
  /\ pc = "next" /\ optind < Len(cmd.args)
  /\ IF Skipped(cmd, cmd.args[optind + 1])
     THEN UNCHANGED <<pc, optind>>
     ELSE optind' = optind + 1 /\ pc' = "open"
  /\ UNCHANGED <<cmd, fs, fmt, stream, status, runs, history>>

(* The head of the while loop and the suffix check, with its continue.     *)
TakeArg ==
  /\ pc = "next" /\ optind < Len(cmd.args)
  /\ optind' = optind + 1
  /\ pc' = IF Skipped(cmd, cmd.args[optind + 1]) THEN "next" ELSE "open"
  /\ UNCHANGED <<cmd, fs, fmt, stream, status, runs, history>>

NoMoreArgs ==
  /\ pc = "next" /\ optind = Len(cmd.args)
  /\ Leave(0)
  /\ UNCHANGED <<cmd, fs, optind, fmt, stream, runs, history>>

MutOpenInputGoesOn ==
  /\ pc = "open"
  /\ \/ fs[In] # Absent /\ pc' = "detect"
     \/ (fs[In] = Absent \/ "open" \in Faults) /\ pc' = "next"
  /\ UNCHANGED <<cmd, fs, optind, fmt, stream, status, runs, history>>

OpenInput ==
  /\ pc = "open"
  /\ \/ fs[In] # Absent /\ pc' = "detect" /\ UNCHANGED status
     \/ (fs[In] = Absent \/ "open" \in Faults) /\ Leave(1)
  /\ UNCHANGED <<cmd, fs, optind, fmt, stream, runs, history>>

DetectFormat ==
  /\ pc = "detect"
  /\ fmt' \in IF Un /\ cmd.t = NoFormat THEN Detected(Input) ELSE {fmt}
  /\ IF fmt' = NoFormat THEN Leave(1) ELSE pc' = "create" /\ UNCHANGED status
  /\ UNCHANGED <<cmd, fs, optind, stream, runs, history>>

(* fopen(outfile, "wb") empties a file that is there already.  The error   *)
(* exit also stands for a name longer than PATH_MAX.                       *)
CreateOutput ==
  /\ pc = "create"
  /\ \/ /\ Filter(cmd) \/ OptStdout(cmd)
        /\ out' = Stdout /\ pos' = 0 /\ pc' = "begin"
        /\ UNCHANGED <<fs, buf, ferr, status>>
     \/ /\ ~Filter(cmd) /\ ~OptStdout(cmd)
        /\ out' = OutName(cmd, In, fmt) /\ pos' = 0 /\ pc' = "begin"
        /\ fs' = [fs EXCEPT ![out'] = EmptyFile]
        /\ buf' = <<>> /\ ferr' = FALSE
        /\ UNCHANGED status
     \/ /\ ~Filter(cmd) /\ ~OptStdout(cmd) /\ "open" \in Faults
        /\ Leave(1)
        /\ UNCHANGED <<fs, stream>>
  /\ UNCHANGED <<cmd, optind, fmt, runs, history>>

-----------------------------------------------------------------------------
(* fmt->compress and fmt->uncompress, one piece of output at a time.       *)

StartCodec ==
  /\ pc = "begin"
  /\ pc' = IF HeaderOk(fmt, Un, Input) THEN "convert" ELSE "failed"
  /\ IF HeaderOk(fmt, Un, Input) /\ FlushesFirst(fmt, Un)
     THEN \E n \in 0 .. Len(buf) : Flush(n)
     ELSE UNCHANGED <<fs, buf, ferr>>
  /\ UNCHANGED <<cmd, optind, fmt, out, pos, status, runs, history>>

Reads(j) ==
  /\ j <= Len(Output)
  /\ Un => \A i \in 1 .. BlockIndex(fmt, Input, j) : Sound(fmt, Input, i)

(* write_full() on the descriptor.                                         *)
WriteDirect ==
  /\ pc = "convert" /\ Direct(fmt, Un) /\ Reads(pos + 1)
  /\ fs' = AppendTo(out, <<Output[pos + 1]>>)
  /\ pos' = pos + 1
  /\ UNCHANGED <<cmd, pc, optind, fmt, out, buf, ferr, status, runs, history>>

DirectWriteFails ==
  /\ pc = "convert" /\ Direct(fmt, Un) /\ Reads(pos + 1)
  /\ "write" \in Faults
  /\ pc' = "failed"
  /\ UNCHANGED <<cmd, fs, optind, fmt, stream, status, runs, history>>

WriteBuffered ==
  /\ pc = "convert" /\ ~Direct(fmt, Un) /\ Reads(pos + 1)
  /\ Len(buf) < BufCap
  /\ buf' = Append(buf, Output[pos + 1])
  /\ pos' = pos + 1
  /\ UNCHANGED <<cmd, fs, pc, optind, fmt, out, ferr, status, runs, history>>

(* The buffer is full: stdio writes it out first.                          *)
SpillAndWrite ==
  /\ pc = "convert" /\ ~Direct(fmt, Un) /\ Reads(pos + 1)
  /\ Len(buf) = BufCap
  /\ fs' = AppendTo(out, buf)
  /\ buf' = <<Output[pos + 1]>>
  /\ pos' = pos + 1
  /\ UNCHANGED <<cmd, pc, optind, fmt, out, ferr, status, runs, history>>

(* That write fails: stdio drops what it could not write.  fwrite() tells  *)
(* the codec, which gives up; putc() tells it too, but no codec listens:   *)
(* the piece at hand is damaged and the codec goes on.                     *)
SpillFails ==
  /\ pc = "convert" /\ ~Direct(fmt, Un) /\ Reads(pos + 1)
  /\ Len(buf) = BufCap /\ "spill" \in Faults
  /\ \E n \in 0 .. Len(buf) - 1 : fs' = AppendTo(out, SubSeq(buf, 1, n))
  /\ buf' = <<>> /\ ferr' = TRUE
  /\ \/ pc' = "failed" /\ UNCHANGED pos
     \/ UsesPutc(fmt, Un) /\ pos' = pos + 1 /\ UNCHANGED pc
  /\ UNCHANGED <<cmd, optind, fmt, out, status, runs, history>>

(* A read fails.  Every encoder but raw, whose library loops, and every    *)
(* decoder reports it; three decoders may take it for the end of the file. *)
ReadFails ==
  /\ pc = "convert" /\ "read" \in Faults
  /\ \/ /\ pc' = IF fmt = "raw" /\ ~Un THEN "loops" ELSE "failed"
        /\ UNCHANGED ignored
     \/ ErrorIsEnd(fmt, Un, Input, pos) /\ pc' = "converted" /\ ignored' = TRUE
  /\ UNCHANGED <<cmd, fs, optind, fmt, stream, status, runs, orig, before,
                 abandoned>>

(* A second header in a file of snappy-java is taken for the length of a   *)
(* block, with a first byte that makes it larger than any memory.          *)
TooLarge ==
  /\ Un /\ fmt = "snappy-java" /\ ~Reads(pos + 1)
  /\ \E i \in 2 .. Len(Input) :
       Input[i] = Magic(fmt) /\ \A k \in 1 .. i - 1 : Sound(fmt, Input, k)

(* malloc or realloc fails.  What is in the buffer is written by exit();   *)
(* exit() inside a codec leaves the output file where it is.               *)
OutOfMemory ==
  /\ pc = "convert"
  /\ ("nomem" \in Faults /\ AllocatesAt(fmt, Un, pos)) \/ TooLarge
  /\ IF fmt \in DiesWithoutMemory
     THEN Leave(1) /\ abandoned' = TRUE
     ELSE pc' = "failed" /\ UNCHANGED <<status, abandoned>>
  /\ UNCHANGED <<cmd, fs, optind, fmt, stream, runs, orig, before, ignored>>

MutReturnsWithoutEnd ==
  /\ pc = "convert" /\ ~Reads(pos + 1) /\ ~TooLarge
  /\ pc' = IF pos < Len(Output) \/ (ferr /\ ChecksFerror(fmt, Un))
           THEN "failed" ELSE "converted"
  /\ UNCHANGED <<cmd, fs, optind, fmt, stream, status, runs, history>>

MutReturnsUnlinking ==
  /\ pc = "convert" /\ ~Reads(pos + 1) /\ ~TooLarge
  /\ pc' = IF ferr /\ ChecksFerror(fmt, Un) THEN "failed" ELSE "converted"
  /\ fs' = IF OptKeep(cmd) THEN fs ELSE [fs EXCEPT ![In] = Absent]
  /\ UNCHANGED <<cmd, optind, fmt, stream, status, runs, history>>

(* The codec returns: an input cut short or damaged, or an error flag it   *)
(* asks for, makes it fail.                                                *)
CodecReturns ==
  /\ pc = "convert" /\ ~Reads(pos + 1) /\ ~TooLarge
  /\ pc' = IF /\ pos = Len(Output) /\ WellFormed(fmt, Un, Input)
              /\ ~(ferr /\ ChecksFerror(fmt, Un))
           THEN "converted" ELSE "failed"
  /\ UNCHANGED <<cmd, fs, optind, fmt, stream, status, runs, history>>

-----------------------------------------------------------------------------
(* main() after the codec.                                                 *)

MutFailedLeavesOutput ==
  /\ pc = "failed"
  /\ Leave(1)
  /\ UNCHANGED <<cmd, fs, optind, fmt, stream, runs, history>>

(* The partial output is unlinked, unless it is stdout; the stream on it   *)
(* stays open to the end, with nowhere to write to.                        *)
CodecFailed ==
  /\ pc = "failed"
  /\ Leave(1)
  /\ IF out = Stdout
     THEN UNCHANGED <<fs, out, buf, abandoned>>
     ELSE \/ /\ fs' = [fs EXCEPT ![out] = Absent]
             /\ out' = NoFile /\ buf' = <<>> /\ UNCHANGED abandoned
          \/ "unlink" \in Faults /\ abandoned' = TRUE /\ UNCHANGED <<fs, out, buf>>
  /\ UNCHANGED <<cmd, optind, fmt, pos, ferr, runs, orig, before, ignored>>

MutNoFlush ==
  /\ pc = "converted" /\ out # Stdout
  /\ pc' = "attrs"
  /\ UNCHANGED <<cmd, fs, optind, fmt, stream, status, runs, history>>

(* fflush(outfp): its result is not looked at.                             *)
FlushOutput ==
  /\ pc = "converted" /\ out # Stdout
  /\ \E n \in 0 .. Len(buf) : Flush(n)
  /\ pc' = "attrs"
  /\ UNCHANGED <<cmd, optind, fmt, out, pos, status, runs, history>>

(* copy_file_attributes(): a call that fails is only traced.               *)
CopyAttributes ==
  /\ pc = "attrs"
  /\ \/ fs' = [fs EXCEPT ![out].attrs = fs[In].attrs]
     \/ "attrs" \in Faults /\ UNCHANGED fs
  /\ pc' = "close"
  /\ UNCHANGED <<cmd, optind, fmt, stream, status, runs, history>>

(* fclose(outfp) writes what the buffer still holds; its result is not     *)
(* looked at, and neither is an error flag the codec did not ask for.      *)
CloseFiles ==
  /\ pc = "close"
  /\ \E n \in 0 .. Len(buf) : Flush(n)
  /\ ignored' = (ignored \/ ferr')
  /\ out' = NoFile
  /\ pc' = "unlink"
  /\ UNCHANGED <<cmd, optind, fmt, pos, status, runs, orig, before, abandoned>>

(* stdout is neither flushed nor closed; the filter returns at once.       *)
KeepStdoutOpen ==
  /\ pc = "converted" /\ out = Stdout
  /\ IF Filter(cmd) THEN Leave(0) ELSE pc' = "unlink" /\ UNCHANGED status
  /\ ignored' = (ignored \/ ferr)
  /\ UNCHANGED <<cmd, fs, optind, fmt, stream, runs, orig, before, abandoned>>

MutUnlinkAlways ==
  /\ pc = "unlink"
  /\ fs' = [fs EXCEPT ![In] = Absent]
  /\ pc' = "next"
  /\ UNCHANGED <<cmd, optind, fmt, stream, status, runs, history>>

UnlinkInput ==
  /\ pc = "unlink"
  /\ \/ ~OptKeep(cmd) /\ fs' = [fs EXCEPT ![In] = Absent]
     \/ (OptKeep(cmd) \/ "unlink" \in Faults) /\ UNCHANGED fs
  /\ pc' = "next"
  /\ UNCHANGED <<cmd, optind, fmt, stream, status, runs, history>>

(* exit() flushes the streams that are open; nobody can tell whether it    *)
(* could.                                                                  *)
Exit ==
  /\ pc = "exiting"
  /\ IF out = NoFile
     THEN UNCHANGED <<fs, buf, ferr, ignored>>
     ELSE \E n \in 0 .. Len(buf) :
            Flush(n) /\ ignored' = (ignored \/ n < Len(buf))
  /\ pc' = "exit"
  /\ UNCHANGED <<cmd, optind, fmt, out, pos, status, runs, orig, before,
                 abandoned>>

-----------------------------------------------------------------------------
(* The environment: a signal ends the process, the user runs it again.     *)

Kill ==
  /\ pc \notin {"exit", "killed"} /\ "kill" \in Faults
  /\ pc' = "killed" /\ buf' = <<>>
  /\ UNCHANGED <<cmd, fs, optind, fmt, out, pos, ferr, status, runs, history>>

Rerun ==
  /\ pc \in {"exit", "killed"} /\ runs < MaxRuns
  /\ runs' = runs + 1
  /\ pc' = "start" /\ optind' = 0 /\ fmt' = DefaultFormat
  /\ out' = NoFile /\ pos' = 0 /\ buf' = <<>> /\ ferr' = FALSE /\ status' = 0
  /\ fs' = [fs EXCEPT ![Stdout] = EmptyFile]
  /\ before' = fs' /\ abandoned' = FALSE
  /\ UNCHANGED <<cmd, orig, ignored>>

Idle == pc \in {"exit", "killed", "loops"} /\ UNCHANGED vars

Codec ==
  \/ StartCodec \/ WriteDirect \/ DirectWriteFails \/ WriteBuffered
  \/ SpillAndWrite \/ SpillFails \/ ReadFails \/ OutOfMemory \/ CodecReturns

Step ==
  \/ Start \/ TakeArg \/ NoMoreArgs \/ OpenInput \/ DetectFormat
  \/ CreateOutput \/ Codec \/ CodecFailed \/ FlushOutput \/ CopyAttributes
  \/ CloseFiles \/ KeepStdoutOpen \/ UnlinkInput \/ Exit

Next == Step \/ Kill \/ Rerun \/ Idle

Spec == Init /\ [][Next]_vars

(* One thread: while the process is alive and scheduled, it goes on.       *)
FairSpec == Spec /\ WF_vars(Step)

-----------------------------------------------------------------------------
(* Properties.                                                             *)

Args == DOMAIN cmd.args

(* The hypothesis most of them need: the arguments are different files and *)
(* no output, in whatever format, is an argument or the output of another. *)
Outputs(c, n) == {OutName(c, n, f) : f \in Formats}
NoCollisions(c) ==
  \A j, k \in DOMAIN c.args :
    /\ c.args[k] \notin Outputs(c, c.args[j])
    /\ j # k => /\ c.args[j] # c.args[k]
                 /\ Outputs(c, c.args[j]) \cap Outputs(c, c.args[k]) = {}
SafeCommands == {c \in Commands : NoCollisions(c)}

ASSUME BoundsAssumption == BufCap \in Nat /\ MaxRuns \in Nat
ASSUME FormatAssumption == DefaultFormat \in Formats
ASSUME PayloadsAssumption == Payloads \cap {"magic", "end"} = {}
ASSUME NamesAssumption ==
  /\ {Stdin, Stdout} \subseteq Names /\ NoFile \notin Names
  /\ Names \subseteq Seq(STRING)
  /\ Absent \notin Files
ASSUME FilesAssumption ==
  /\ "new" \in Attributes
  /\ \A f \in InitialFiles :
       /\ f \in [Names -> Files \cup {Absent}]
       /\ f[Stdin] # Absent /\ f[Stdout] # Absent
ASSUME CommandsAssumption ==
  \A c \in Commands :
    /\ c.args \in Seq(Names \ {Stdin, Stdout})
    /\ \A k \in DOMAIN c.args :
         Outputs(c, c.args[k]) \subseteq Names \ {Stdin, Stdout}

(* File o holds all of what converting argument n with format f gives, and *)
(* by that all of its text; but the rest of a .snz file is never read.     *)
TextOf(d) == {<<d[j].of, d[j].i>> : j \in {j \in DOMAIN d : d[j].of \in Payloads}}
Holds(o, n, f) ==
  /\ orig[n] # Absent /\ fs[o] # Absent
  /\ WellFormed(f, Un, orig[n].data)
  /\ fs[o].data = Converted(f, Un, orig[n].data)
  /\ \/ TextOf(fs[o].data) = TextOf(orig[n].data)
     \/ Un /\ f = "snzip" /\ Behind(orig[n].data)

Replaced(n) == \E f \in Formats : Holds(OutName(cmd, n, f), n, f)

PCs == {"start", "next", "open", "detect", "create", "begin", "convert",
        "converted", "failed", "attrs", "close", "unlink", "exiting", "exit",
        "killed", "loops"}

(* The type invariant of the driver.                                       *)
TypeOK ==
  /\ cmd \in Commands
  /\ fs \in [Names -> Files \cup {Absent}]
  /\ pc \in PCs
  /\ optind \in 0 .. Len(cmd.args)
  /\ fmt \in Formats \cup {NoFormat}
  /\ out \in Names \cup {NoFile}
  /\ pos \in Nat
  /\ buf \in Seq(Pieces)
  /\ ferr \in BOOLEAN /\ status \in {0, 1} /\ runs \in Nat
  /\ orig \in [Names -> Files \cup {Absent}]
  /\ before \in [Names -> Files \cup {Absent}]
  /\ ignored \in BOOLEAN /\ abandoned \in BOOLEAN

(* No input file is ever altered; one is removed only without -k, -c and a *)
(* program name with "cat" in it (snzip.c:413 opens, 455 unlinks).         *)
InputsNeverAltered ==
  cmd \in SafeCommands =>
    \A k \in Args : \/ fs[cmd.args[k]] = orig[cmd.args[k]]
                    \/ fs[cmd.args[k]] = Absent /\ ~OptKeep(cmd)

(* Whatever fails that the code looks at, wherever it is killed and how-   *)
(* ever often it is run again: each argument is there as it was, or all of *)
(* its conversion is (snzip.c:424-456: convert, flush, close, unlink).     *)
(* What a .snz file has behind its end mark is no part of its conversion.  *)
NothingLost ==
  cmd \in SafeCommands /\ ~ignored =>
    \A k \in Args : \/ fs[cmd.args[k]] = orig[cmd.args[k]]
                    \/ Replaced(cmd.args[k])

(* An output that is neither what was there before the run nor complete is *)
(* the one the process is at work on, or was when it was killed; main()    *)
(* leaves none when it returns (snzip.c:426-437 unlink it).  Only exit()   *)
(* inside a codec does, and an unlink() that fails.                        *)
NoPartialOutput ==
  cmd \in SafeCommands /\ ~ignored =>
    \A k \in Args : \A f \in Formats :
      LET o == OutName(cmd, cmd.args[k], f) IN
      \/ o = out /\ (pc \notin {"exiting", "exit"} \/ abandoned)
      \/ fs[o] \in {before[o], Absent}
      \/ \E g \in Formats : Holds(o, cmd.args[k], g)

(* Exit status 0 after a run over files: each argument was passed over for *)
(* its suffix or is converted completely, but for what a .snz file has     *)
(* behind its end mark (snzip.c:424-440, 457).                             *)
StatusZeroMeansDone ==
  /\ pc = "exit" /\ status = 0 /\ "h" \notin cmd.flags
  /\ cmd \in SafeCommands /\ ~ignored /\ ~OptStdout(cmd)
  => \A k \in Args : Skipped(cmd, cmd.args[k]) \/ Replaced(cmd.args[k])

(* A removed input has left its time, mode and owner to its replacement    *)
(* (snzip.c:443-444: all data are written before the attributes are set).  *)
AttributesFollow ==
  cmd \in SafeCommands /\ ~ignored /\ "attrs" \notin Faults =>
    \A k \in Args :
      LET n == cmd.args[k] IN
      fs[n] = orig[n] \/ \E f \in Formats :
        LET o == OutName(cmd, n, f) IN
        Holds(o, n, f) /\ fs[o].attrs = orig[n].attrs

(* What is on its way to standard output, and the argument it comes from.  *)
Inputs == IF Filter(cmd) THEN <<Stdin>> ELSE cmd.args
ToStdout == fs[Stdout].data \o (IF out = Stdout THEN buf ELSE <<>>)
From(k, p) ==
  /\ orig[Inputs[k]] # Absent
  /\ \E j \in DOMAIN orig[Inputs[k]].data :
       LET o == orig[Inputs[k]].data[j] IN
       o.of \in Payloads /\ o.of = p.of

(* Standard output gets the arguments in the order of the command line and *)
(* each in its own order, though some codecs write through the stdio       *)
(* buffer and others past it (fflush() in snzip-format.c:193,              *)
(* snappy-java-format.c:162 and snappy-in-java-format.c:177).              *)
StdoutInOrder ==
  \A x, y \in DOMAIN ToStdout : \A j, k \in DOMAIN Inputs :
    x < y /\ From(j, ToStdout[x]) /\ From(k, ToStdout[y])
    => j < k \/ (j = k /\ ToStdout[x].i < ToStdout[y].i)

(* Exit status 0 after writing to standard output: all of every argument   *)
(* that was not passed over is there (snzip.c:313-335, 424-457), but for   *)
(* what a .snz file has behind its end mark.                               *)
StdoutComplete ==
  /\ pc = "exit" /\ status = 0 /\ "h" \notin cmd.flags /\ ~ignored
  /\ OptStdout(cmd) \/ Filter(cmd)
  => \A k \in DOMAIN Inputs :
       LET d == orig[Inputs[k]].data
           o == fs[Stdout].data
       IN  \/ Skipped(cmd, Inputs[k])
           \/ Un /\ Behind(d)
           \/ {d[j].i : j \in {j \in DOMAIN d : d[j].of \in Payloads}} =
              {o[x].i : x \in {x \in DOMAIN o : From(k, o[x])}}

(* Together: standard output is the concatenation of what the arguments    *)
(* give, in their order, none missing when the status is 0.                *)
StdoutIsConcatenation == StdoutInOrder /\ StdoutComplete

(* With -c, as snzcat or as a filter no step touches any file              *)
(* (snzip.c:255-257, 265-268, 386, 442, 452).                              *)
StdoutModeTouchesNoFile ==
  [][OptStdout(cmd) \/ Filter(cmd)
       => \A n \in Names \ {Stdout} : fs'[n] = fs[n]]_vars

(* The process comes to an end: each suffix passed over, each file and     *)
(* each failure leads on (snzip.c:337-458).  The one exception: a source   *)
(* that cannot be read leaves the snappy library in its loop.              *)
Terminates == <>(pc \in {"exit", "killed"} \/ (pc = "loops" /\ fmt = "raw"))

(* The driver implements the promise of FileReplacement.                   *)
ArgNames == {cmd.args[k] : k \in Args}
Promise == INSTANCE FileReplacement WITH
  Items <- Names,
  kept <- [n \in Names |-> n \in ArgNames => fs[n] = orig[n]],
  converted <- [n \in Names |-> n \in ArgNames /\ Replaced(n)]
ImplementsFileReplacement == Promise!Spec

(* What the manual says without a condition (README.md:87 and 122): the    *)
(* original of a file that was converted is deleted, and nothing else is.  *)
DeletedMeansConverted ==
  \A k \in Args : fs[cmd.args[k]] = orig[cmd.args[k]] \/ Replaced(cmd.args[k])

-----------------------------------------------------------------------------
(* Why nothing is lost: the inductive invariant.  What it says of single   *)
(* steps of main() holds for every command line; that the inputs are as    *)
(* they were needs arguments and outputs that do not collide.              *)

Busy == {"detect", "create", "begin", "convert", "converted", "failed",
         "attrs", "close", "unlink"}
Writing == {"begin", "convert", "converted", "failed", "attrs", "close"}
ToFile == ~Filter(cmd) /\ ~OptStdout(cmd)

(* Where main() is: what it has in hand at each place.                     *)
InHand ==
  /\ fs[Stdin] # Absent /\ fs[Stdout] # Absent
  /\ pc \in {"next", "unlink"} => ~Filter(cmd)
  /\ pc = "open" => ~Filter(cmd) /\ optind \in Args
  /\ pc \in Busy => /\ Filter(cmd) \/ optind \in Args
                    /\ fs[In] # Absent
  /\ pc \in Busy \ {"detect"} => fmt \in Formats
  /\ pc \in {"next", "open", "detect"} => fmt \in Formats \cup {NoFormat}
  /\ pc \in {"attrs", "close"} => ToFile

(* Which file is open for output.                                          *)
OutputInHand ==
  /\ pc \in Writing =>
       out = IF ToFile THEN OutName(cmd, In, fmt) ELSE Stdout
  /\ out \notin {NoFile, Stdout} =>
       /\ ToFile /\ optind \in Args
       /\ pc \notin {"start", "next", "open", "detect", "create", "unlink"}
       /\ out \in Outputs(cmd, cmd.args[optind])
       /\ fs[out] # Absent

(* What the codec has put out, in the file and in the stdio buffer: when   *)
(* nothing went wrong it is a beginning of the conversion, and at the end  *)
(* all of it.                                                              *)
Fine == ToFile /\ ~ferr /\ ~ignored
Put == fs[out].data \o buf
GoodSoFar ==
  /\ pos = Len(Put) /\ pos <= Len(Output)
  /\ \A j \in 1 .. pos : Put[j] = Output[j]
Written ==
  /\ pc = "begin" /\ ToFile => pos = 0 /\ buf = <<>> /\ fs[out].data = <<>>
  /\ pc \in Writing /\ ToFile /\ Direct(fmt, Un) => buf = <<>>
  /\ pc \in {"convert", "converted", "attrs", "close"} /\ Fine => GoodSoFar
  /\ pc \in {"converted", "attrs", "close"} /\ Fine =>
       pos = Len(Output) /\ WellFormed(fmt, Un, Input)

(* The input in hand is as it was, and converted when it is to be removed. *)
InputInHand ==
  cmd \in SafeCommands /\ ~Filter(cmd) =>
    /\ pc \in Busy \/ out \notin {NoFile, Stdout} =>
         fs[cmd.args[optind]] = orig[cmd.args[optind]]
    /\ pc = "unlink" /\ ToFile /\ ~ignored =>
         Holds(OutName(cmd, In, fmt), In, fmt)

IInv ==
  /\ TypeOK /\ InHand /\ OutputInHand /\ Written
  /\ InputsNeverAltered /\ InputInHand /\ NothingLost

=============================================================================
