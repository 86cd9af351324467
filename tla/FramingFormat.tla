---------------------------- MODULE FramingFormat ----------------------------
(***************************************************************************)
(* The framing formats: compress and uncompress of framing2-format.c, and, *)
(* with other constants, of framing-format.c, which differs in the number  *)
(* of length bytes and in its limits only.                                 *)
(*                                                                         *)
(* Texts are compressed one after the other into one stream (cat of        *)
(* several .sz files); on its way the stream may be damaged, cut short, or *)
(* get chunks another encoder could have written; then it is uncompressed. *)
(* A chunk records its identifier, the value of its length bytes, which    *)
(* bytes of which text it holds, and what the reader will find out about   *)
(* it: cut says the file ends within it, good that its data are sound.     *)
(*                                                                         *)
(* A definition Mut... is a plausible bug in the one after it.             *)
(***************************************************************************)
EXTENDS Integers, Sequences, FiniteSets

CONSTANTS
  Radix,      \* values of a length byte: 256
  LenBytes,   \* length bytes of a chunk: 3 (framing2), 2 (framing)
  MaxBlock,   \* MAX_UNCOMPRESSED_DATA_LEN
  Streams,    \* how many texts are compressed
  TextSizes,  \* bound: the sizes they may have
  MaxEdits,   \* bound: how many things happen to the stream on its way
  Faults      \* which calls may fail: "read", "putc", "fwrite"

VARIABLES
  size,    \* the size of each text
  cur,     \* the text being compressed
  taken,   \* how much of it has been read
  oerr,    \* the error flag of outfp while compressing
  stream,  \* the chunks written
  edits,   \* history: what happened to the stream on its way
  phase,   \* "encode", "wire", "decode"; "done", "failed" for what the stream
           \* holds, or "stopped" by a call that failed
  at,      \* the chunk uncompress reads next
  got      \* the chunks whose data it has written

encoder == <<cur, taken, oerr>>
decoder == <<at, got>>
vars == <<size, encoder, stream, edits, phase, decoder>>

-----------------------------------------------------------------------------
(* Chunks.                                                                 *)

Compressed == 0     \* COMPRESSED_DATA_IDENTIFIER
Uncompressed == 1   \* UNCOMPRESSED_DATA_IDENTIFIER
StreamId == 255     \* the first byte of stream_header
ChecksumLen == 4

Chunk(id, len, t, first, n) ==
  [id |-> id, len |-> len, text |-> t, first |-> first, n |-> n,
   size |-> len, cut |-> FALSE, good |-> TRUE]

StreamHeader == Chunk(StreamId, 6, 0, 0, 0)
IsData(c) == c.id \in {Compressed, Uncompressed}

(* The value the length bytes of a chunk carry, of this many.              *)
LengthValues == Radix^LenBytes
LengthField(n) == n % LengthValues

(* What the #defines of the two files promise: a stored block with its     *)
(* checksum, and the stream header, have a length the bytes can carry.     *)
(* The driver calls compress once at least.                                *)
ASSUME FramingAssumption ==
  /\ MaxBlock \in Nat \ {0} /\ LengthValues \in Nat
  /\ MaxBlock + ChecksumLen < LengthValues /\ 6 < LengthValues
  /\ Streams \in Nat \ {0} /\ TextSizes \subseteq Nat /\ MaxEdits \in Nat

(* snappy_max_compressed_length() of the library, and the sizes its        *)
(* encoder may return.                                                     *)
MaxCompressedLength(n) == 32 + n + n \div 6
CompressedSizes(n) == 3 .. MaxCompressedLength(n)

(* A block is stored as it is unless compression saves an eighth of it.    *)
DataChunk(t, first, n, c) ==
  LET stored == c >= n - n \div 8
      len == (IF stored THEN n ELSE c) + ChecksumLen
  IN [Chunk(IF stored THEN Uncompressed ELSE Compressed,
            LengthField(len), t, first, n) EXCEPT !.size = len]

-----------------------------------------------------------------------------
(* Compression.                                                            *)

Init ==
  /\ size \in [1 .. Streams -> TextSizes]
  /\ cur = 0 /\ taken = 0 /\ oerr = FALSE
  /\ stream = <<>> /\ edits = {} /\ phase = "encode"
  /\ at = 1 /\ got = <<>>

Left == IF cur = 0 THEN 0 ELSE size[cur] - taken
Minimum(m, n) == IF m <= n THEN m ELSE n

(* The call of compress for the next text: the stream header.              *)
BeginText ==
  /\ phase = "encode" /\ cur < Streams /\ Left = 0 /\ ~oerr
  /\ cur' = cur + 1 /\ taken' = 0
  /\ \/ stream' = Append(stream, StreamHeader) /\ UNCHANGED oerr
     \/ "putc" \in Faults /\ oerr' = TRUE /\ UNCHANGED stream
  /\ UNCHANGED <<size, edits, phase, decoder>>

(* One turn of the loop: fread, compress, the header bytes by putc, whose  *)
(* failure shows in ferror(outfp) only, and the data by fwrite.            *)
CompressBlock ==
  /\ phase = "encode" /\ Left > 0
  /\ LET n == Minimum(Left, MaxBlock) IN
     /\ taken' = taken + n
     /\ \/ \E c \in CompressedSizes(n) :
             stream' = Append(stream, DataChunk(cur, taken, n, c))
           /\ UNCHANGED oerr
        \/ "putc" \in Faults /\ oerr' = TRUE /\ UNCHANGED stream
  /\ UNCHANGED <<size, cur, edits, phase, decoder>>

MutEncodeEndsUnchecked ==
  /\ phase = "encode" /\ cur = Streams /\ Left = 0
  /\ phase' = "wire"
  /\ UNCHANGED <<size, encoder, stream, edits, decoder>>

(* The end of the last text, and of any other when something failed: the   *)
(* driver unlinks what compress has returned an error for.                 *)
EncodeEnds ==
  /\ phase = "encode" /\ (cur = Streams \/ oerr) /\ Left = 0
  /\ phase' = IF oerr THEN "stopped" ELSE "wire"
  /\ UNCHANGED <<size, encoder, stream, edits, decoder>>

EncodeFails ==
  /\ phase = "encode" /\ cur > 0
  /\ "read" \in Faults \/ ("fwrite" \in Faults /\ Left > 0)
  /\ phase' = "stopped"
  /\ UNCHANGED <<size, encoder, stream, edits, decoder>>

-----------------------------------------------------------------------------
(* What may happen to the stream on its way.                               *)

(* Chunks this encoder never writes.                                       *)
Foreign ==
  [skippable |-> Chunk(128, 2, 0, 0, 0),  reserved |-> Chunk(2, 2, 0, 0, 0),
   short |-> Chunk(Uncompressed, 3, 0, 0, 0),
   emptyStored |-> Chunk(Uncompressed, ChecksumLen, 0, 0, 0),
   emptyCompressed |-> Chunk(Compressed, ChecksumLen + 1, 0, 0, 0)]

InsertForeign ==
  \E kind \in DOMAIN Foreign, i \in 1 .. Len(stream) :
    /\ stream' = SubSeq(stream, 1, i) \o <<Foreign[kind]>>
                   \o SubSeq(stream, i + 1, Len(stream))
    /\ edits' = edits \cup {kind}

CutAtChunk ==
  /\ stream # <<>>
  /\ stream' = SubSeq(stream, 1, Len(stream) - 1)
  /\ edits' = edits \cup {"cut"}

CutInChunk ==
  /\ stream # <<>>
  /\ stream' = [stream EXCEPT ![Len(stream)].cut = TRUE]
  /\ edits' = edits \cup {"cut in chunk"}

Corrupt ==
  \E i \in 1 .. Len(stream) :
    /\ IsData(stream[i]) \/ i = 1
    /\ stream' = [stream EXCEPT ![i].good = FALSE]
    /\ edits' = edits \cup {"corrupt"}

Wire ==
  /\ phase = "wire" /\ Cardinality(edits) < MaxEdits
  /\ InsertForeign \/ CutAtChunk \/ CutInChunk \/ Corrupt
  /\ edits' # edits
  /\ UNCHANGED <<size, encoder, phase, decoder>>

-----------------------------------------------------------------------------
(* Decompression.                                                          *)

Current == stream[at]
More == phase = "decode" /\ at <= Len(stream)

(* Length bytes that are not those of the data make the reader take other  *)
(* bytes for the data, which the checksum then does not fit.               *)
Sound(c) == ~c.cut /\ c.good /\ c.len = c.size

(* The stream header is read here, or by the format detection before.      *)
StartDecode ==
  /\ phase = "wire"
  /\ IF stream # <<>> /\ stream[1].id = StreamId /\ Sound(stream[1])
     THEN phase' = "decode" /\ at' = 2
     ELSE phase' = "failed" /\ UNCHANGED at
  /\ UNCHANGED <<size, encoder, stream, edits, got>>

MutWriteUnverified ==
  /\ More /\ IsData(Current) /\ Current.len >= ChecksumLen /\ ~Current.cut
  /\ IF Current.n = 0
     THEN phase' = "done" /\ UNCHANGED decoder
     ELSE got' = Append(got, at) /\ at' = at + 1 /\ UNCHANGED phase
  /\ UNCHANGED <<size, encoder, stream, edits>>

(* A data chunk.  fwrite() of a block without bytes returns 0, not 1: the  *)
(* loop is left as for a write error, and no error flag is set.            *)
WriteData ==
  /\ More /\ IsData(Current) /\ Current.len >= ChecksumLen /\ Sound(Current)
  /\ IF Current.n = 0
     THEN phase' = "done" /\ UNCHANGED decoder
     ELSE got' = Append(got, at) /\ at' = at + 1 /\ UNCHANGED phase
  /\ UNCHANGED <<size, encoder, stream, edits>>

MutSkipTwo ==
  /\ More /\ Current.id >= 128 /\ ~Current.cut
  /\ at' = at + 2
  /\ UNCHANGED <<size, encoder, stream, edits, phase, got>>

MutSkipReserved ==
  /\ More /\ ~IsData(Current) /\ ~Current.cut
  /\ at' = at + 1
  /\ UNCHANGED <<size, encoder, stream, edits, phase, got>>

(* Chunk types 0x80 to 0xff, among them the header of the next stream.     *)
SkipChunk ==
  /\ More /\ Current.id >= 128 /\ ~Current.cut
  /\ at' = at + 1
  /\ UNCHANGED <<size, encoder, stream, edits, phase, got>>

MutRejectNotUnsound ==
  /\ More
  /\ IF IsData(Current) THEN Current.len < ChecksumLen \/ ~Sound(Current)
                        ELSE Current.id < 128 \/ Current.cut
  /\ IF IsData(Current) /\ ~Current.cut
     THEN at' = at + 1 /\ UNCHANGED phase
     ELSE phase' = "failed" /\ UNCHANGED at
  /\ UNCHANGED <<size, encoder, stream, edits, got>>

(* Too short, cut or unsound data; types 0x02 to 0x7f; a cut other chunk.  *)
RejectChunk ==
  /\ More
  /\ IF IsData(Current) THEN Current.len < ChecksumLen \/ ~Sound(Current)
                        ELSE Current.id < 128 \/ Current.cut
  /\ phase' = "failed"
  /\ UNCHANGED <<size, encoder, stream, edits, decoder>>

EndOfStream ==
  /\ phase = "decode" /\ at > Len(stream)
  /\ phase' = "done"
  /\ UNCHANGED <<size, encoder, stream, edits, decoder>>

(* A read error is seen by the next read_data() or by ferror(infp), a      *)
(* write error by ferror(outfp) after the loop.                            *)
DecodeFails ==
  /\ phase = "decode"
  /\ "read" \in Faults \/ ("fwrite" \in Faults /\ More /\ IsData(Current))
  /\ phase' = "stopped"
  /\ UNCHANGED <<size, encoder, stream, edits, decoder>>

Encode == BeginText \/ CompressBlock \/ EncodeEnds \/ EncodeFails
Decode == StartDecode \/ WriteData \/ SkipChunk \/ RejectChunk
            \/ EndOfStream \/ DecodeFails
Idle == phase \in {"done", "failed", "stopped"} /\ UNCHANGED vars

Next == Encode \/ Wire \/ Decode \/ Idle

Spec == Init /\ [][Next]_vars

-----------------------------------------------------------------------------
(* Properties.                                                             *)

Chunks ==
  [id : 0 .. 255, len : Nat, text : Nat, first : Nat, n : Nat, size : Nat,
   cut : BOOLEAN, good : BOOLEAN]

(* The type invariant.                                                     *)
TypeOK ==
  /\ size \in [1 .. Streams -> Nat]
  /\ cur \in 0 .. Streams /\ taken \in Nat /\ oerr \in BOOLEAN
  /\ cur > 0 => taken <= size[cur]
  /\ stream \in Seq(Chunks)
  /\ edits \subseteq DOMAIN Foreign \cup {"cut", "cut in chunk", "corrupt"}
  /\ phase \in {"encode", "wire", "decode", "done", "failed", "stopped"}
  /\ at \in 1 .. Len(stream) + 1 /\ got \in Seq(Nat)

(* The length bytes of every chunk written carry its length: what a block  *)
(* may grow to fits them (framing2-format.c:78-96, framing-format.c:77-95).*)
LengthFits == \A i \in DOMAIN stream : stream[i].len = stream[i].size

(* What the chunks written so far hold is the texts from their beginning,  *)
(* each byte once and in order: the first block starts the first text that *)
(* is not empty, a block goes on where the last one ended or begins the    *)
(* next text when that ended the one before.                               *)
Block(x) == stream[got[x]]
StartsText(t) == \A u \in 1 .. t - 1 : size[u] = 0
Follows(c, d) ==
  \/ d.text = c.text /\ d.first = c.first + c.n
  \/ /\ d.text > c.text /\ d.first = 0 /\ c.first + c.n = size[c.text]
     /\ \A u \in c.text + 1 .. d.text - 1 : size[u] = 0
TextInOrder ==
  /\ got # <<>> => Block(1).first = 0 /\ StartsText(Block(1).text)
  /\ \A x \in 1 .. Len(got) - 1 : Follows(Block(x), Block(x + 1))

(* A stream that has met nothing but skippable chunks is not refused, and  *)
(* comes out complete when uncompress succeeds, several streams in one     *)
(* file as their texts one after the other (test/test.sh:41-46), whichever *)
(* call may have failed on the way: a chunk putc() has lost makes compress *)
(* fail (framing2-format.c:108-117).                                       *)
Complete ==
  IF got = <<>> THEN \A t \in 1 .. Streams : size[t] = 0
  ELSE LET last == Block(Len(got)) IN
       /\ last.first + last.n = size[last.text]
       /\ \A t \in last.text + 1 .. Streams : size[t] = 0
RoundTrip ==
  edits \subseteq {"skippable"} =>
    phase # "failed" /\ (phase = "done" => Complete)

(* No block with a wrong checksum, or less than whole, is ever written     *)
(* (framing2-format.c:193-225: read, uncompress, check, then write).       *)
OnlySoundData == \A x \in DOMAIN got : IsData(Block(x)) /\ Sound(Block(x))

(* Damage is reported: when uncompress succeeds without having met a chunk *)
(* with no data, there was no damaged, cut or reserved chunk in the file.  *)
DamageReported ==
  /\ phase = "done" /\ edits \cap {"emptyStored", "emptyCompressed"} = {}
  => \A i \in DOMAIN stream :
       /\ IsData(stream[i]) => Sound(stream[i]) /\ stream[i].len >= ChecksumLen
       /\ ~IsData(stream[i]) => stream[i].id >= 128 /\ ~stream[i].cut

=============================================================================
