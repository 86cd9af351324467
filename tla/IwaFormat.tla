------------------------------ MODULE IwaFormat ------------------------------
(***************************************************************************)
(* The iwa format: compress and uncompress of iwa-format.c.  It has        *)
(* neither header nor end mark, and -b is not looked at.                   *)
(* A definition Mut... is a plausible bug in the one after it.             *)
(***************************************************************************)
EXTENDS BlockStream

IwaTextMax == 65536     \* MAX_UNCOMPRESSED_DATA_LEN
IwaDataMax == 16777215  \* MAX_DATA_LEN

IwaBegin ==
  /\ phase = "start" /\ format = "iwa"
  /\ Begin(<<>>, Fresh(IwaTextMax))

(* The identifier, the length in three bytes, the data.                    *)
IwaBlock ==
  /\ Encoding("iwa") /\ HasInput
  /\ \E c \in CompressedSizes(Chunk) : Put(Block(c % 2^24, c, taken, Chunk))

IwaEnd == Encoding("iwa") /\ FinishChecked(<<>>)

IwaOpen ==
  /\ Opening("iwa")
  /\ wb' = Buffers(IwaDataMax, IwaTextMax)
  /\ phase' = "blocks"
  /\ UNCHANGED <<text, writer, stream, mishaps, reader>>

IwaDone == Decoding("iwa", "blocks") /\ AtEnd /\ Turn("done")

MutIwaReadSkips ==
  /\ Decoding("iwa", "blocks") /\ ~AtEnd
  /\ IF Found("block") /\ This.len >= 4 THEN Hold(wb)
     ELSE IF Found("unknown") THEN Pass("blocks")
     ELSE Turn("failed")

(* A block is taken for too short when its data are less than four bytes.  *)
IwaRead ==
  /\ Decoding("iwa", "blocks") /\ ~AtEnd
  /\ IF Found("block") /\ This.len >= 4 THEN Hold(wb) ELSE Turn("failed")

(* There is no second or third byte of a length, and the -1 that is or-ed  *)
(* into it leaves a length near 2^64, which is not (size_t)EOF unless all  *)
(* the bits below are set: fread() is told to read that much.              *)
IwaOverread ==
  /\ Decoding("iwa", "blocks") /\ ~AtEnd
  /\ This.kind = "block" /\ This.len % 2^16 # 65535
  /\ \/ This.cut /\ UNCHANGED mishaps
     \/ "read" \in Faults /\ mishaps' = mishaps \cup {"call"}
  /\ phase' = "overread"
  /\ UNCHANGED <<text, writer, wb, stream, reader>>

(* It finds the end of the file.  Where the system lets a file be read on  *)
(* after a read error, it may write behind the buffer.                     *)
IwaOverreads ==
  /\ Decoding("iwa", "overread")
  /\ \/ Turn("failed")
     \/ "call" \in mishaps /\ Turn("died")

(* snappy is told the size of the buffer.  fwrite() of a block without     *)
(* bytes returns 0: the loop is left, and no error flag is set.            *)
IwaWrite ==
  /\ Decoding("iwa", "held")
  /\ IF ~Acceptable(This) \/ This.n > wb.uc THEN Turn("failed")
     ELSE IF This.n = 0 THEN Turn("done")
     ELSE Written(wb)

IwaCompress == IwaBegin \/ IwaBlock \/ IwaEnd
IwaUncompress ==
  \/ IwaOpen \/ IwaDone \/ IwaRead \/ IwaOverread \/ IwaOverreads
  \/ IwaWrite

=============================================================================
