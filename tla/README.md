# A verification project for snzip

snzip is a command line compressor in the manner of gzip for nine file
formats built on the snappy library. This directory holds TLA+ models of its
driver, of all nine codecs, of the CRC32C checksum and of the option parser it
brings for Windows; the TLC configurations that model-check them; and theorems
about them that the TLA+ proof system (TLAPS) checks for every value of the
constants. `PROJECT.json` maps each definition to the lines of `src/` it stands
for.

    tlc -config main_files.cfg MCSnzipMain.tla      (also main_stdout, main_rerun)
    tlc -config framing_stream.cfg FramingFormat.tla
    tlc -config hadoop_stream.cfg HadoopSnappyFormat.tla
    tlc -config blocks.cfg BlockFormats.tla
    tlc -config raw.cfg RawFormat.tla
    tlc -config crc.cfg MCCrc32c.tla
    tlc -config getopt.cfg MCYaGetopt.tla
    tlapm SnzipMainProofs.tla                       (and the other *Proofs.tla)

## The system

snzip is a sequential program. What makes it hard is not threads but the
order of effects on files: buffered and unbuffered output that mix, failures
that are reported late or not at all, a process that can be killed between
any two system calls, lengths that files give and that decide how much goes
into which buffer, and files from elsewhere that are cut or damaged.

| component | state | operations | talks to |
|---|---|---|---|
| driver, `snzip.c` `main()` | options, `optind`, the local `fmt`, `infp`, `outfp` and its stdio buffer, exit status | parse options, take an argument, pass over by suffix, open, detect, create the output, convert, flush, copy attributes, close, unlink, exit | the file system; a codec through the function pointers of `stream_format_t` |
| format table and detection, `snzip.c:89-191` | a static table; the two words of hadoop-snappy detection in globals | find a format by name, by suffix, by header | driver; the hadoop-snappy decoder reads what detection has read |
| framing2 and framing codecs | position in the stream, error flags | one chunk at a time, with checksum | snappy, CRC32C, stdio |
| hadoop-snappy codec | words read ahead, remaining source length | blocks of several compressed parts | snappy, work buffer, stdio |
| snzip codec | block size, work buffers | varint lengths, end mark | snappy, work buffer, write_full |
| snappy-java and snappy-in-java codecs | work buffers | blocks with a length, the second with a checksum | snappy, work buffer, write_full, CRC32C |
| comment-43 codec | a state machine over block types | header, data and end blocks | snappy, stdio, CRC32C |
| iwa codec | - | blocks with three length bytes | snappy, stdio |
| raw codec, `raw_format.cpp` | source window and rest size, sink descriptor | Peek, Skip, Append | the snappy library calls it |
| work buffer and `write_full`, `snzip.c:580-641` | capacity | init, resize, free; the retry loop around `write` | codecs |
| CRC32C | tables, the implementation chosen at the first call | bytewise, eight bytes at a time, SSE4.2 | codecs |
| `ya_getopt` | `optind`, position in a word, permuted operands | the next option | driver, where the C library has no getopt_long |

### What makes each part correct

* Driver: an input goes only after all of its conversion is in the output;
  a failure leaves the input and no partial output; status 0 means that
  everything was done; attributes are those of the input; several inputs on
  standard output come in order; the run ends.
* Codecs: decoding what was encoded gives it back, also when the user
  concatenates files; what is written was checked before; a stream that is
  cut or damaged is reported; every length fits its field.
* Work buffer, `write_full`: no write beyond the capacity; all or an error.
* CRC32C: all implementations compute the same remainder and read only the
  buffer they were given.
* `ya_getopt`: options and operands are each delivered once, operands in order.

The hazards these properties are for, each at its line, are listed in
`PROJECT.json` under "hazards".

## The modules

Models refer to each other in one direction: the driver (`SnzipMain`) sees a
codec as pieces that come in and go out and as a way to fail; the modules of
the codecs say why a codec behaves so, with the sizes, buffers and lengths the
driver does not see. A definition `Mut...` is a plausible bug in the one after
it, which `PROJECT.json` pairs with the property that would find it.

### `SnzipMain`: the driver

One action per step of `main()`; `pc` says where it is.

| state | in the code |
|---|---|
| `cmd` | the options and arguments, parsed: program name parts (`un`, `cat`), flags, `-t`, operands, whether stdout is a terminal |
| `fs` | the file system: name -> data and attributes, or `Absent`; standard input and output are two of the names |
| `optind`, `fmt` | the variables of the same name; `fmt` lives across arguments as it does in the code |
| `out`, `buf`, `ferr` | `outfp`: the file, its stdio buffer, its error flag |
| `pos` | how much of its output the codec has put out |
| `status` | the exit status |
| `orig`, `before`, `ignored`, `abandoned` | history: the files at first and before this run; whether a failure went by that the code does not look at; whether the code gave up an output without unlinking it |

The actions follow the text of `main()`: `Start` (snzip.c:229-335), `TakeArg`
with the suffix check, `OpenInput`, `DetectFormat`, `CreateOutput`, the codec,
`CodecFailed`, `FlushOutput`, `CopyAttributes`, `CloseFiles`, `UnlinkInput`,
`Exit`. The environment's are `Kill` and `Rerun`.

Data are pieces: a text is a sequence of plain pieces, a compressed file a
magic piece, one piece per plain piece, and an end piece, as its format has
them. Files may be several, one behind the other: `Read` is how far a decoder
looks (that of snzip not beyond its end mark), `Sound` what it takes at each place (a
second header is skipped by framing2 and framing, begins the next stream of comment-43,
and is refused by the others; snappy-java takes it for a length larger than any memory and exits,
`TooLarge`), and `BlockIndex` where the blocks are that come out.
That is as much as the driver's properties can tell apart. What of a
codec the driver sees is kept: whether it writes through stdio or to the
descriptor, whether it flushes first, whether it uses `putc()` without looking
at the result, whether it asks `ferror(outfp)` at the end, whether it exits
or returns when memory runs out, and whether it takes a read error for the
end of the file. These are the sets at the top of the module; all nine
formats are in them.

Failures are constants of a run (`Faults`): `open`, `write` (on the
descriptor), `spill` (stdio empties a full buffer), `fflush` (the last
buffer), `read`, `nomem`, `unlink`, `attrs`, `kill`.

`ignored` deserves a word. The code does not look at the results of `fflush`
and `fclose`; the encoders of snzip, snappy-java and snappy-in-java never ask
`ferror(outfp)`, so a buffer `putc()` could not write is dropped without a
word; the decoders of the two Java formats take a read error between blocks
for the end of the file, and that of comment-43 one between two streams
(`ErrorIsEnd`). Then data are lost. The safety properties are stated
for runs in which nothing of that kind happened (`~ignored`); the run
`main_fflush_fails` shows one in which it did (and with `Faults` = {"read"} one
in which the second text of a comment-43 file is lost).

Three more things the properties do not claim, because the program does otherwise.
What a `.snz` file has behind its end mark is passed over and the input deleted with
status 0, as README.md:242-243 of the repository says ("ignored for now"): a file
`Holds` a conversion when it has all of the text, or all that is in front of the end mark of
such a file (`Behind`). `NoPartialOutput` exempts an output the
code has given up (`abandoned`): by `exit()` inside a codec, or when the `unlink` of a partial output
fails; and the output in work, before `main()` has turned away from it or after a kill. And an argument
passed over for its suffix leaves the status at 0 (`StatusZeroMeansDone` names it).

The safety properties are also stated for `SafeCommands`, whose outputs collide neither with each
other nor with an argument: with `snzip -d a.sz a.snz` the second file
overwrites what the first, already deleted, became.

### `FileReplacement`: the promise

Two booleans per file: the original is kept, the conversion is complete. The
original may go only when the conversion is complete, and the conversion may
become incomplete again only while the original is kept. `SnzipMain` shows
that it implements this with `kept` as "the argument is as it was" and
`converted` as "some output holds all of its conversion"
(`ImplementsFileReplacement`).

### `FramingFormat`: framing2 and framing

The encoder (one or several texts into one stream, as with `cat a.sz b.sz`),
the stream on its way (cut at or in a chunk, damaged, or with chunks of other
encoders in it), and the decoder, one chunk per step. A chunk records its
identifier, the value of its length bytes, which bytes of which text it
holds, and whether it is complete and sound; the checksum and snappy are
abstracted to that and to a size. framing-format.c is the same module with
two length bytes and other limits. A call that fails leads to the phase
"stopped", a stream that is refused to "failed", so that the properties can tell
one from the other.

A data chunk without data, which snzip never writes but another encoder
may, ends the decoder with success before the end of the file, since
`fwrite` of zero bytes returns 0 (framing2-format.c:222). `DamageReported` and
`RoundTrip` are stated for files without one.

### `HadoopSnappyFormat`: hadoop-snappy

The whole life of a file: an encoder (`writer`: snzip itself, or Hadoop's,
whose blocks have several parts), the stream on its way, and the decoder,
entered after detection (`StartDetected`, with the two words detection has
read) or by `-t` (`StartByName`).

| state | in the code |
|---|---|
| `blockSize`, `taken` | the argument of `-b`; how much of the text has been read |
| `wb` | the capacities of the work buffer, `wb.clen` and `wb.uclen` |
| `stream` | the file: words (`source`, `length`) and data items |
| `source`, `length` | `source_len`, `compressed_len` |
| `at`, `got` | the position in the file; which data have been written |
| `mishaps` | history: what happened to the file, and whether a call failed |

Sizes are real: `-b` is converted to `size_t` and the input size of a block
is computed in it (`Wrapped`), so an argument below the overhead, or a
negative one, wraps around as in the code. With `-b 38` the input size is 0,
`fread` of 0 bytes returns 0, and compress succeeds with an empty file
(hadoop-snappy-format.c:57). Data are abstracted to what they
hold and whether snappy accepts them. Two simplifications: damage that snappy
accepts is left out, as the format has no checksum that could see it; and a
word that is read as one of another kind (in files written by snzip) always
leads to rejection, while the program may first try to read data of some length.

Files whose first block is larger than snzip's default are not recognized as
hadoop-snappy (snzip.c:184): `FindsOwnFiles` needs
`MaxInput(blockSize) <= MaxInput(0)`.

### `BlockStream` and the five formats built from it

snzip, snappy-java, snappy-in-java, iwa and comment-43 write a text block by
block. `BlockStream` has what they share: the state, the items a stream is made
of, what may happen to it on its way, and the kinds of steps their functions
are made of (`Put` is one turn of a compress loop, `Hold` and `Written` the two
halves of an uncompress loop, and so on).

| state | in the code |
|---|---|
| `format`, `blockSize` | the format; the argument of `-b` |
| `size`, `taken` | the text and how much of it has been read |
| `wb` | the capacities of the buffers: `wb.clen` and `wb.uclen`, or those of the arrays on the stack |
| `oerr` | `ferror(outfp)` while compressing |
| `stream` | the items: header, blocks, end mark, with the value of the length bytes, the length of the data, the bytes of the text they hold, whether the file ends within, and what became of the data |
| `phase` | the place in compress and uncompress; for comment-43 also the state of `process_block` |
| `at`, `got` | the next item; the blocks that were written |
| `mishaps` | history: what happened to the stream, and whether a call failed |

`SnzipFormat`, `SnappyJavaFormat`, `SnappyInJavaFormat`, `IwaFormat` and
`Comment43Format` each hold compress and uncompress of one source file, with the
numbers of the code: block sizes and the header byte of snzip, its lengths of
seven bits a byte, the buffers of snappy-java that grow with the file, the
stored blocks and checksums of snappy-in-java, the limits of iwa, the block types of
comment-43. `BlockFormats` puts them together and states the properties.

Three places where a failed read is not what it seems are steps of their own. A read
error where a second stream of comment-43 could begin is success (`CommentDone`; comment-43-format.c:170-173,
no `ferror`), as one between two blocks is in the formats of Java: `ReadErrorEnds` and
`IgnoresCalls` name them. In iwa a missing second or third byte of a length leaves a length near 2^64
that passes the test of line 134 (`IwaOverread`); the `fread` that follows finds the end of
the file, or, where a file can be read on after a read error, may write behind its
buffer (`IwaOverreads`, phase "died"). `BuffersFit` is about the lengths a file can give; of
this read it says only that a missing byte is what leads to it. And the reader of snzip
shifts the bytes of a length in an `int`, so that the fifth byte may overflow (`AsSize`): lengths
come back below 2^31, and the largest block is 2^26.

### `RawFormat`: raw, and `write_full`

The library (external) takes bytes from a `FileSource` by `Peek` and `Skip` and
gives bytes to a `FileSink` by `Append`, as many at a time as it likes. Bytes are
positions in the file.

| state | in the code |
|---|---|
| `rest`, `ptr`, `end`, `srcErr` | `restsize_`, `ptr_`, the end of the buffer, `err_` of the source |
| `peeked` | `*len` of Peek |
| `want` | what the library still needs |
| `left`, `sent` | `count` in `write_full` and what `write` has taken |
| `sinkErr` | `err_` of the sink |
| `sizeArg`, `pipe` | `-s`; whether `st_size` says nothing |

### `Crc32c`, `MCCrc32c`

The three implementations, their choice at the first call, and the loops of
each: head bytes to an aligned address, slices of eight, tail bytes. A register
is the set of the positions of its one bits, so that `^` and the shifts are what
they are; an entry of a table is computed from the polynomial (`Entry`). A buffer
has its address and its bytes, which are any of `Texts`. The reference is
the division bit by bit (`Remainder`).

### `YaGetopt`, `MCYaGetopt`

`ya_getopt()` called until it returns -1. `optind` and `charidx` are the variables
of the same name, `start` and `end` the operands passed over, `held`, `i`,
`lastPos` the loop that moves them one word at a time. The reference (`Means`) reads
a command line from the left. Operands in front of a `--` are not moved behind it:
`optind` then points past them and `main()` never sees them (ya_getopt.c:159);
`Means` says so.

### `MCSnzipMain`

Command lines and file systems for TLC. The modules `...Proofs` hold the theorems.

## The runs

| run | shows |
|---|---|
| `main_files` | compressing, and decompressing sound, cut, damaged, empty, foreign and concatenated files, by header, suffix and `-t`, with every failure: `InputsNeverAltered`, `NothingLost`, `NoPartialOutput`, `StatusZeroMeansDone`, `TypeOK` |
| `main_stdout` | `-c`, `snzcat` and the filter, codecs that buffer followed by codecs that do not, concatenated files: `StdoutIsConcatenation`, `StdoutModeTouchesNoFile`; and `Terminates` |
| `main_rerun` | killed or failed anywhere and started again, concatenated files too: `ImplementsFileReplacement`, `AttributesFollow` |
| `framing_stream` | two texts, up to two edits, failing calls: `TextInOrder`, `RoundTrip`, `OnlySoundData`, `DamageReported`, `TypeOK` |
| `hadoop_stream` | six values of `-b` around the overhead, Hadoop's encoder, one mishap, failing calls: `BuffersFit`, `TextInOrder`, `BlockAccounts`, `RoundTrip`, `SuccessIsWhole`, `FindsOwnFiles`, `Terminates`, `TypeOK` |
| `blocks` | the five block formats with the sizes of the code, up to two mishaps, failing calls: `BuffersFit`, `TextInOrder`, `OnlySoundData`, `RoundTrip`, `SuccessIsWhole`, `StreamsAreFramed`, `ReadsOwnFiles`, `Terminates`, `TypeOK` |
| `raw` | short and interrupted reads and writes, sizes of `-s` that are and are not that of the file: `BytesInOrder`, `SuccessIsExact`, `Terminates`, `TypeOK` |
| `crc` | every alignment, the lengths around each loop, three builds, both processors, first and later calls: `ReturnsRemainder`, `LoadsInBuffer` |
| `getopt` | all command lines of up to five of nine words, with and without POSIXLY_CORRECT: `ParsesTheCommandLine`, `TypeOK` |

Three runs show where the program does not do what its documents say:

| run | the document and the program |
|---|---|
| `main_fflush_fails` | the original is deleted as its conversion has taken its place (README.md:87 and 122 of the repository); `fflush` and `fclose` of the output fail unnoticed (snzip.c:443, 449), the input is deleted, status 0 |
| `snzip_block_size` | "The block size must be power of two" (snzip-format.c:81); the test before it asks for the wrong number, so that 2^27 is refused and every size that is no power of two passes with 28 in the header, which the decoder refuses |
| `iwa_one_byte` | iwa can be compressed and uncompressed (README.md:220-222); a last block of one byte becomes 3 bytes, which the decoder takes for too few (iwa-format.c:138) |

### Bounds, and why they are enough

* `main_*`: two arguments (in `main_stdout` up to three), as the interesting
  interactions are between an argument and the one before it: its output, its
  format in `fmt`, its pieces in the buffer of standard output. Texts of up to
  three pieces, a buffer of two (`BufCap`): header, data and end fill the buffer
  and spill it at every position, and something is left in it when the codec
  returns. `MaxRuns` = 2 in `main_rerun`: what a second run can find is what one
  run can leave; the theorems have no such bound. A concatenated file is two files
  of one piece each (`Two`): the end mark, the second header and what is between them are
  at places of their own. States: `main_files` 88810, `main_stdout` 21889, `main_rerun` 18823.
* `framing_stream`: `Radix` 4, two length bytes and blocks of 8 keep the
  proportions of the formats: a block with its checksum fits the length bytes,
  an incompressible block would not. Texts are empty, of one byte, and of one
  byte more than a block; there are two in a stream. `MaxEdits` bounds what
  happens to the stream: two edits are the least that can hide each other.
* `hadoop_stream` has a `size_t` of 1024 values, a default buffer of 60 and
  memory for 62. The overhead of a buffer of b bytes is b / 6 + 32. `BlockSizes`
  has an argument below it (37, wraps around, no memory), one where the input
  size is 0 (38), one above it with blocks of one byte (39), one between (50),
  one larger than the default (69) and a negative one (1019 is what -5 becomes). The default makes blocks of 18 bytes; text sizes
  are 0, small, one block, one more, and four blocks. `MaxBlocks` bounds the
  blocks of a text, `PartSizes` the parts of Hadoop's encoder, `MaxEdits` the
  mishaps.
* `blocks` (the largest, 0.9 million states) uses the numbers of the code. The
  arguments of `-b` are none, the smallest and the largest there is a test for (1, 2,
  2^26, 2^27), one in between (2^16), and some that are no power of two (3, 65535); the text sizes are at the limits of one to four bytes of seven bits and
  just above the blocks of each format. `MaxBlocks` = 3 gives a first, a middle
  and a last block. Of what snappy may return the smallest size, one close to
  the text, and the largest are tried: the code asks only whether an
  eighth was saved and whether it fits. `MaxEdits` = 2.
* `raw`: a buffer of two bytes and files of up to four, so that a read ends
  before, at and behind the buffer, and `-s` is below, at and above the file.
* `crc`: addresses modulo 4 and lengths around each loop up to 31 (head, one to
  three slices, tail). `MCTexts` has one byte that is not 0, in each place, so that a
  byte in the wrong table shows, and a text of each length without such gaps; other
  contents are covered by the theorem `IsTheRemainder`. That the
  nine tables of crc32.c have the entries `Entry` computes was verified by comparing
  all 9 x 256 of them outside of the run.
* `getopt`: five words are enough for two operands, an option with its argument and
  `--` in every order.

### Fairness

`Terminates` of the driver assumes weak fairness of the steps of the process
only: it is one thread that waits for nothing but its files, so while it is
alive it goes on. `Kill` and `Rerun` are never forced. There is one exception: after a read
error the library the raw encoder runs under does not come back (`pc = "loops"`).

In `hadoop_stream` and `blocks` compress and uncompress go on, and no call is
forced to fail: the end never depends on a failure. In `raw` reads and writes that
could succeed eventually do (`EINTR` does not come for ever), and the library makes no
endless output without asking for input. The exception here is `Hungry`: with
a `-s` larger than the file, or after a read error, nobody tells the library to
stop asking while it compresses; `SuccessIsExact` shows that this never ends in success.

## What is proved

All theorems hold for every value of the constants: any command lines, names,
files, texts, block sizes, lengths, failures, edits and number of runs, under the
assumptions stated as `ASSUME`s in the modules: arguments are names other than
standard input and output, so are the outputs made from them, initial files are well typed, a
piece of text is not taken for a header or an end mark, a
block with its checksum fits the length bytes, memory is bounded as in the modules.

`SnzipMainProofs`, the driver: `Invariant` (the inductive invariant `IInv`),
`Safety` (`Spec => []NothingLost`), `InputsSafe` (`InputsNeverAltered`), `StdoutOnly`
(`StdoutModeTouchesNoFile`), `TypeCorrect`.

`NothingLost` is not inductive: at `UnlinkInput` one must know that the output
is complete. `IInv` carries that through `main()` in layers, proved one
on top of the other. `Typed` says what is in hand at each place (the input is
there, which file is open). With it, `FileSteps` shows that a step changes
nothing but outputs of the argument in work, or removes that argument without
`-k`, `-c`. `Untouched` says that no argument but a removed one differs from the
original. `Written` says that the file and the stdio buffer together are a
beginning of the conversion (`GoodSoFar`), kept by each write, each spill and
each flush that does not fail, and all of it when the codec has returned; so
when the files are closed the output `Holds` the conversion, and `UnlinkInput`
keeps `NothingLost`. That later arguments do not undo it follows from
`NoCollisions`, the hypothesis that outputs and arguments have different names.
That a conversion `Holds` the text is `ConversionKeepsText`: the blocks of a file have
ranks from 1 on without gaps (`Rank`, `BlockFacts`), so that the output of a decoder which
found every place sound has all of them, those of concatenated files too, and is what was in front of
the first end mark for `.snz`.

`SnzipPromiseProofs`, what the user relies on:

* `Refinement`: every behaviour whose command is a safe one and in which no failure goes by unseen
  implements `FileReplacement`; `ReportedFailuresAreSafe`: so does every
  behaviour when only calls the code looks at can fail. Each action maps to a step of the
  promise or to none; `OutputsStay` says that a step for one
  argument leaves all outputs of the others alone.
* `NothingPartial`, `StatusIsTrue`, `AttributesAreKept` (`NoPartialOutput`,
  `StatusZeroMeansDone`, `AttributesFollow`). Each has a layer on top of `IInv`:
  which outputs there may be (`Accounted`, and `LeftIsAbandoned`: an output still open when `main()` has returned is one it gave up), what is settled of the arguments
  behind `optind` (`SettledSoFar`), whose attributes an output has
  (`AttributesInHand`).
* `StdoutIsTold` (`StdoutIsConcatenation`), for any number of arguments, any
  formats and any buffer. The hypothesis `ToldApart` says that a piece of text tells which
  argument and which place in it it comes from (so no argument is given
  twice), and that standard output is empty at first; otherwise "in order" has no meaning. The run's
  initial states satisfy it.

The layer for standard output is `StdoutInHand`, which TLC has checked as well. `Concatenated`
says how far `main()` is (input `Front`, and `Depth` pieces of it): nothing of a
later piece is on standard output or in the buffer (`NoneBehind`), and unless the error
flag is set nothing earlier is missing (`NoneMissing`). A write of the codec moves the front to
the place of the next block of the input (`Place`, `Taking`: a decoder that has put out n blocks stands
behind the n-th, with headers and end marks between two of them; nothing is asked of what follows
the end mark of a `.snz` file, `GoesOn`), a flush or a loss cuts the end off (`Shorter`). It is only kept
because nothing is in the stdio buffer when a codec writes past it
(`BufferInHand`): three decoders flush it first, and `raw`, which does not,
is never chosen by detection, so when it is used at all it is used for every
argument, and nobody has put anything into the buffer. The error flag of `stdout` stays
for all arguments that follow; that is why it must be clear, or `ignored` set, between
two of them.

`FramingFormatProofs`:

* `LengthsFit`: a block is stored unless compression saves an eighth, so its
  length is bounded whatever snappy returns.
* `Soundness`, `Reported`: what the decoder has gone past is sound, and it only
  succeeds at the end of the stream, unless a chunk without data stopped it;
  the encoder never writes such a chunk.
* `TypeCorrect`, `Invariant`.
* `WritesInOrder` (`TextInOrder`) and `EverythingComesBack` (`RoundTrip`).

The argument for the last two is about the data chunks that hold something: each goes
on in the texts where the one before it ended, with texts without a byte and
chunks without data between them (`Leads`, `OrderedIn`). Compression builds the stream so, and what happens
on its way keeps it so, as chunks are cut off at the end only and what is put between
holds nothing. The decoder has written exactly these chunks up to where
it is (`WrittenSoFar`), and a stream that has met nothing but skippable chunks
is readable to its end (`Readable`).

`HadoopSnappyProofs`:

* `BuffersSafe`, `BlocksFit`: buffers hold what is put into them, and blocks fit
  a reader, for every `-b`. `OverheadIsEnough` is the arithmetic: where the input
  size wraps around, memory runs out before a block is made, and elsewhere
  n + n / 6 + 32 is at most b for n = b - b / 6 - 32.
* `InOrder`: `Spec => []TextInOrder`. The invariant says that the data of the
  stream hold the text in order (`Ordered`, kept by encoders and by every
  mishap), and that the reader has written exactly the data it has passed
  (`Passed`).
* `BlocksAddUp`, `OnlyWholeFilesSucceed`, `TextComesBack`, `OwnFilesAreFound`
  (`BlockAccounts`, `SuccessIsWhole`, `RoundTrip`, `FindsOwnFiles`), from a
  second invariant, `BlocksKept`.
* `TypeCorrect`, `Invariant`.

`BlocksKept` adds the grammar of a stream to the first invariant. A block is its
word, then parts of a word and data, and only the last item can be cut off
(`Parsed`); what the word of a block of two parts says is what they add up to
(`Sums`); a file of snzip nothing has happened to has blocks of one part that fit the
buffers (`OwnBlocks`). `BlockInHand` says where in a block the reader is and that
the length it has left and the part it has come past make up the word. So a block whose last
part is missing leaves a remaining length that is not 0, and the end of the file
is refused there; and a reader that stands between blocks has all data up to
there. `RoundTrip` is about blocks with room for a byte (`RoomForText`), as with an
input size of 0 compress succeeds with an empty file.

`BlockFormatsProofs`, the five block formats:

* `LengthBytes`: the varint uncompress reads is the one compress has written, for
  every length below 2^31, which is what the `int` it is shifted in holds.
* `BuffersAreSafe`, `WritesInOrder`, `WritesSoundData`, `SucceedsAtTheEnd`,
  `AcceptsCompleteStreams` (`BuffersFit`, `TextInOrder`, `OnlySoundData`,
  `SuccessIsWhole`, `StreamsAreFramed`), `TypeCorrect`, `Invariant`.

The inductive invariant has the items of the stream (`ItemsInHand`), where compress
is in the text (`WriterInHand`), that every item uncompress has passed was written or
holds nothing (`ReaderInHand`), the sizes of the fixed buffers
(`BuffersInHand`) and the states of comment-43 (`FramedSoFar`: what has been read when it succeeds is
whole streams, and all of the file unless a read failed between two). There is one lemma per
kind of step of `BlockStream`; each format's actions are cases of them.

* `TextComesBack` (`RoundTrip`) and `OwnFilesAreRead` (`ReadsOwnFiles`), from a
  second invariant, `FilesKept`.

`FilesKept` follows a file through its life. While it is written: no block is
empty, an end mark is behind all of the text, and the buffers are those of the block
size. On its way: what was not cut off is still as long as the text, or twice as
long when a second file was put behind it (`TextInHand`). While it is read: where
uncompress can stop (`StoppedAtEnd`) and after which failed calls (`CallsInHand`), and, for a file nothing has happened to,
that each item is one compress has made (`OwnFile`) and the buffers it is read with are
large enough (`OwnReader`). `ReadsOwnFiles` is stated for the block sizes
a reader can be expected to take (`Readable`): powers of two for snzip, buffers
that fit memory for snappy-java, no last block of one byte for iwa.

`RawFormatProofs`: `InOrderBothWays` (`BytesInOrder`), `Exact` (`SuccessIsExact`),
`TypeCorrect`, `Invariant`. What the library has taken is the file up to `ptr`
(`SourceInHand`); the rest size is what the library wants, or 0 after an error
(`RestInHand`); so a source that has failed can only look like the end of the
file, where `err()` is asked, and success means the announced size.

`Crc32cProofs`: `ReadsInBuffer` (`LoadsInBuffer`) and `TakesEveryByte`: no read goes
past the end of a buffer of any length, words are aligned, and every byte has
gone into the register when the checksum is returned. `Parts` is the arithmetic of head, slices
and tail, where `length - init_bytes` must not wrap. `IsTheRemainder`
(`ReturnsRemainder`): for any bytes, any length and any address, each of the
three implementations returns the remainder of the division bit by bit.

That argument starts at what one bit does. `StepLinear` says that a step of the division
of an exclusive or is the exclusive or of two steps, and `Shifted` that a
register with nothing below bit n is only moved by n steps. From these, by
induction over the number of bits: `Absorbs`, that the next bits of the buffer can go
into the register one by one or all at once before the division, which is what the
instruction does (`Reads`); and `Peels`, that the lowest byte of a register can be taken
off and divided by itself, with the table for the number of bytes it is moved
through. One peel is the loop of single bytes (`ReadsOne`), eight of them are a slice
(`ReadsEight`), where the loop's two words and its order of adding up
have to give the same eight bytes (`XorOrder`). The inductive invariant is `Remains`, on top of
`IInv`: within a call the register is the one of the definition after `pos`
bytes. `Register` and `Divided` are recursive functions; that they have the values
their equations say is `Recursion`, proved from the well-foundedness
of the natural numbers like the induction itself (`SetInduction`).

`YaGetoptProofs`: `ParsesEveryCommandLine` (`ParsesTheCommandLine`) for command
lines and option strings of every length; `TypeCorrect`; `NothingIsLost`, the inductive invariant. It
says, at each place of `ya_getopt()`, that the options `main()` has got, the operands
passed over and what the words not yet read mean are together what the command line
means. The operands are where `start` and `end` say; while argv is rotated
(`RotateInHand`, `ShiftInHand`) some of them are in front of the words
read since, one is in `held`, and the others are behind `lastPos`. What words
mean is a recursive function (`MeansFrom`, and `Letters` within a word), which has a value
for each command line as that has an end: `SetInduction` is
the induction, from the well-foundedness of the natural numbers. TLC has checked
the invariant on all command lines of up to four words.

All modules but those of the checksum and the options have `EveryStepIsCloser`, the half of
`Terminates` that needs no fairness: `Spec => [][Closer]_vars`, where a step that is `Closer`
makes smaller the first number it changes of a few, each with a bound. For codecs these are the
stages still ahead, texts still to be read (framing) and what is left to do in the
stage: text, kinds of mishaps, items. For the driver: runs, arguments, places of
`main()` ahead (`Stage`) and pieces of the conversion, which stays the same while
the codec writes since the output is never the input. So no turn of a loop leaves all as it
was, and nothing goes round for ever: `blocks` needs for this that the buffer
compress reads into is never empty, which `FilesKept` says. `raw` has the exception
of its `Terminates`, `Hungry`: Peek shows nothing before the end only when
`read()` has failed (`PeekedInHand`), so only a library that compresses can ask again in vain.
What the theorems leave to TLC is that some step can always be taken.

### Only model-checked

* Liveness (all `Terminates`): that the end is reached under fairness is out of
  the prover's reach, as is ENABLED; that every step comes closer to it is proved.
* That the numbers in the tables of crc32.c are the entries `Entry` computes is
  neither: it was verified by comparison (see the bounds).

`LengthFits` of framing and `BlocksFitReader` of hadoop-snappy are proved and not
checked by a run.

## What is not modelled

* In the driver: the options `-B` (`-b` with a power of two), `-R` and `-W` (sizes of
  the stdio buffers) and `-T` (tracing), the text of messages, `PATH_MAX` (an error exit of
  `CreateOutput` stands for it), directories, links and permissions of the
  file system, the bytes inside a piece; reads that fail during detection (of a codec they are
  modelled); `fread` of iwa behind its buffer (a phase of `IwaFormat` only).
* In the codecs: a failing `fstat` of an open file in raw_compress; a negative argument of
  `-s` (`RawAssumption`: `strtoull` makes a size near 2^64 of it); damage that snappy
  accepts in hadoop-snappy, which has no checksum; a wrong word in a file of
  Hadoop's encoder.
* In the checksum: the rotation and addition of `masked_crc32c`, which writers and readers do alike.
* In `ya_getopt`: long options, optional arguments, option strings that begin
  with `+`, `-` or `:`; `main()` uses none of them.
* The snappy library is external: the sizes it may return, whether it accepts
  its input and, for raw, in what portions it asks and gives.
* The build system and packaging have no behaviour of the program.

## Plan

Done, the most important first: the driver and its promise, since data are lost
when it is wrong; framing2, the default format; hadoop-snappy, the one
with the most arithmetic and the only one detected without a magic; then the
other codecs, the checksum and the option parser. What is left:

1. Header detection at the level of words, composed with the driver.
2. Long options of `ya_getopt`, should `main()` come to use them.
