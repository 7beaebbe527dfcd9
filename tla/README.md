# Specifications of the MGZ compressor

TLA+ specifications, model-checking configurations and machine-checked proofs
for the code of this repository: the MGZ codec in C and the Qt application that
runs it. All paths below are relative to the repository; `format.c:395` is a
line of a source file.

Run a model check with `tlc -config MCMgzFile.cfg MCMgzFile.tla`, a proof check
with `tlapm BatchProofs.tla`. `PROJECT.json` lists the runs, the mutants that
show each property can fail, the source lines of each definition, the hazards
and the theorems.

## 1. The system

| Part | Source | State it keeps | Operations |
| --- | --- | --- | --- |
| LZ77 codec | `lz77.c` | hash heads, links, position, output of one call | compress a block, decompress a token stream |
| Huffman coder, bit I/O | `huff.c`, `bitstream.c` | code lengths, codes, decode tree, bit position | encode and decode the token stream |
| CRC-32 | `checksum.c` | a 32-bit word | begin, update, finish |
| MGZ container | `format.c` | two open files, position, checksum, block count | compress a file, decompress a file |
| GZIP decoder | `gzip/gzip_decode.c` | bit buffer, 32 KiB window, output buffer | decompress a file |
| Compression worker | `gui/CompressionWorker.*` | requests, cancel flag | `run` on its own thread, `requestCancel` |
| Batch control | `gui/MainWindow.*` | file list, active rows, counters, worker pointers, close flag | user actions, slots on worker signals, close event, destructor |
| Output planning | `gui/MainWindow.cpp` | output path of each row | propose, number, resolve existing |
| Drop area, overlay, CLIs, builds | | none that matters here | |

How they interact. `MainWindow::startProcessing` copies the list into requests,
makes a `QThread` and a `CompressionWorker`, and connects them. The worker calls
the codec functions one file at a time; their progress callback emits a signal
and returns whether to go on. The threads share one atomic flag (`cancelled_`).
Everything else crosses as posted events of the GUI thread, in FIFO order:
`taskStarted`, `taskProgress`, `taskFinished`, `allFinished`, the call of
`QThread::quit`, and `finished`. A file function reads blocks of 64 KiB; each
goes through `lz77_compress` and `huffman_compress` and is stored as it is when
that does not make it smaller. The header is written first as a placeholder and
again, with sizes and checksum, at the end.

What is hard here: two batches whose events overlap; message boxes, which run a
nested event loop in the middle of a slot; zero timers; raw pointers to rows in
queued closures; the end of the program while threads run; library calls that
fail late because stdio buffers; a process killed between two writes; damaged
archives; the uninitialised link table of the match search; boundaries of
window, match length and block; bits that cross bytes while the trailer behind
them is read in bytes; names that collide once a suffix or a number is added.

What makes each part correct:

* LZ77: a block comes back; the buffers are never exceeded, whatever the stream;
  both loops end.
* Huffman: the code is a prefix code for the lengths, damaged lengths are
  refused, a stream comes back.
* Container: an archive reported as written holds the source; whatever is
  reported as restored is the source; a failed call leaves no output and has a
  cause.
* GZIP: output only with matching CRC and size, the trailer is read at the right
  byte, the output is complete when success is reported.
* Batch: signals find their own row; one worker; counters and result card tell
  the truth; the program never ends in the middle of a file; batches, threads,
  an accepted close and the program end.
* Output planning: no two outputs and no output and input share a path; a file
  is written over only when the user said so.

## 2. Modules

| Module | Models | Used by |
| --- | --- | --- |
| `BatchProcessing` | window, message boxes, event queue, timers, worker threads | `MCBatch`, `BatchProofs` |
| `BatchReport` | abstract: what a batch may tell the user | `BatchProcessing` |
| `OutputPaths` | the names of the outputs, the question about existing ones | `MCOutputPaths` |
| `Lz77Format` | limits and token layout | the three below |
| `Lz77Encoder`, `Lz77Decoder` | the two functions, one action for each step of their loops | `Lz77Codec` |
| `Lz77Codec` | a block through both, or any stream through the decoder | `Lz77Proofs` |
| `HuffmanLengths` | `build_code_lengths`: heap, merges, depths | the two below |
| `HuffmanCodes` | `build_canonical_codes`, `build_decode_tree` | `HuffmanCodec` |
| `HuffmanCodec` | `huffman_compress`, the checks of `format.c`, `huffman_decompress` | |
| `MgzFile` | the two file functions on a disk that fails | `MCMgzFile` |
| `DeflateTrees` | `huffman_build` of the GZIP decoder | `GzipInflate` |
| `GzipInflate` | bit reader, blocks, tables, ring and buffer of the GZIP decoder | `GzipFile` |
| `GzipFile` | `gzip_decompress_file` | `MCGzipFile` |
| `FileCall` | abstract: a call of a file function is all or nothing | `MgzFile`, `GzipFile` |
| `Powers` | the powers of two that the code writes as shifts | `DeflateTrees`, `NatLemmas` |
| `BatchProofs`, `Lz77Proofs`, `GzipProofs`, `MgzProofs`, `OutputProofs`, `HuffmanProofs`, `HuffmanCodecProofs` | theorems: one module for each component, two for the Huffman coder | |
| `NatLemmas` | induction on naturals, recursive functions, powers, quotients | the proofs |

Two abstract specifications say what a caller may rely on, and three detailed
ones are shown to implement them by a refinement mapping:

* `BatchReport` knows the rows and the card. A batch begins with its rows ready,
  a row starts, then finishes with one of three outcomes and keeps it, and the
  card appears at the end and claims no more than the rows say. The title that
  speaks of a cancellation claims nothing: a cancel may come after the last file
  was written and still decide the title (`CompressionWorker.cpp:87`). `ReportsInOrder`
  of `BatchProcessing` maps the rows of `taskState`, what `showResult` chose and
  `processing_` to it; queue, threads, message boxes and timers are hidden.
* `FileCall` knows the output file and what it should hold. A call is refused
  and changes nothing, or opens the file, and then leaves it complete or
  leaves none; only a kill leaves a part. `AllOrNothing` maps `MgzFile` to it,
  `GzipAllOrNothing` maps `GzipFile`. The output is the file on the disk; what a
  call owes is the archive of its source, what the header of an archive
  announces, or what a GZIP stream says.

### BatchProcessing

A row is an address from `Task`; a freed address may be used again by a new row,
as an allocator does. `tasks`, `activeTasks`, `processing`, `closeWhenFinished`,
`resultSuccess`, `resultFailure`, `workerThread` and `workerPtr` are the fields
of `MainWindow` with those names; `resultCard` is the title shown or `hidden`.
`events` is the queue of the GUI thread, `removals` and `closePosts` are zero
timers, whose order relative to the queue is left open. `dialogs` is the stack
of message boxes: while one is open the user may only answer it, but events and
timers are delivered, so `SetMode`, `StartClicked` and `CloseRequested` are the
code up to `exec()` and `AnswerMode`, `AnswerExisting` and `AnswerClose` the
code after it. Each slot of `startProcessing` is one action `Handle...`; each
worker step ends where it emits a signal or reads the flag. A codec call is a
bounded number of callbacks and an arbitrary outcome: it fails at any time, it
succeeds after its first callback, it gives up at a callback that returned 0.

Taken together as one step: the destructor's tests of its pointers and the calls
after them; the end of a thread and the destruction of its worker, which clears
the `QPointer`. Left out: progress percentages, texts, output folder, suffix and
the early returns for an invalid one (nothing changes there), which mode is on
(it selects a codec, whose outcome is arbitrary), statistics other than the two
counters.

### Lz77Format, Lz77Encoder, Lz77Decoder, Lz77Codec

The variables are those of the two functions. `previous` is a function on the
positions that were written; reading it elsewhere is reading memory that
`malloc` returned, modelled as any value of the table's range. `marks` and
`token` are history variables: where each token ends in the block and in the
stream. The sizes (`Radix` 256, `MinMatch` 3, `MaxMatch` 258, `Window` 32768,
`MaxChain` 128, `HashBase` 251, `HashSize` 65536) are constants; the hash is
computed in `uint32_t` and reduced by a mask, and as 65536 divides 2^32 the
wrap-around does not show in the result. `Init` takes a block to encode and
decode, or a stream and a capacity that did not come from the encoder
(`ForeignStream`). `lz77_decompress` gets the size of the
block as its capacity, which is what `format.c:327` passes.

### HuffmanLengths, HuffmanCodes, HuffmanCodec

One action for each round of a loop: of the leaf loop, of `heap_push` and
`heap_pop`, of the code loop, of the loops of `build_decode_tree`, of the bit
loops. Nodes and heap slots count from 1, so a child that is none, -1 in the
code, is 0. Four parts are functions instead, as they keep no state
between their steps that a property could see: the count of the frequencies, the
insertion sort (the order it compares by is strict, so its result is unique),
the recursive walk that assigns the lengths, given by the nodes it meets at each
depth (`Level`), and `increment_code`, whose result
is given directly. `hpc`, `cpc` and `tpc` say where each helper is, `phase` which
of the two functions runs. A code is a sequence of
bits, as its array of one bit for each element is in the code.

A payload is a record with the fields that `format.c` reads; its bytes have
`ByteBits` bits, 8 in the code, and `bit_writer_write` and `BitAt` pack and
unpack them. `MaxCodeBits` is 255 for 256 symbols, so a length byte of an
archive is never out of range, and neither is one of a `Payload` here. `Init`
takes either a text to write and read back, or a payload that was not written
here (`foreign`), which is damaged or comes from another program. Left out: the
growth of the writer's buffer and a failing `realloc`, the guards against 64-bit
overflow, and the test of `token_size` against twice the block, which comes
before the payload is read and is independent of it.

### MgzFile

A file is a sequence of items: bytes, or for an archive a header and blocks. A
block item holds the bytes its payload stands for; that those bytes come back is
the subject of `Lz77Codec`. A checksum is the bytes it was computed from, so two
contents never share one: a collision of CRC-32 is not considered. Which blocks
get smaller by coding is a constant (`Shrinking`) and fixes the method byte.
`buffer` is what stdio holds: `StdioFlush` moves a part of it to the disk at any
time (its first flush holds more than the 32 bytes of the header, as a stdio
buffer does), `fclose` moves all of it or, when it fails, a part. `Kill` ends
the process between any two steps. `DamageArchive` applies one change to an
archive that a successful call left. Every call of the library may fail, and
every progress callback may cancel. `remove` is taken to succeed. `good`,
`abandoned` and `fault` are history variables. Left out: statistics, the byte
totals for the progress bar, and the guard against more than 2^32 - 1 blocks.

### DeflateTrees, GzipInflate, GzipFile

`bits`, `bit_count`, `window`, `output_size`, `buffer`, `crc`, `final` and
`success` are the variables of those names. The bytes of the stream are chosen
when `fgetc` asks for them (`Fetch`), which may also find the end of the file;
every other action is one call of `bit_reader_read` with what its caller does
with the value, so `pc` names the read that comes next and `Width` its bits. A
tree is given by the paths of its symbols instead of an array of children;
`huffman_decode` walks it bit by bit. A CRC is the bytes it was computed from.
`plain` (what the stream says so far) and `used` (bits consumed) are history.
`output_copy` is one action for each byte, as the buffer may be flushed, and the
call cancelled, in the middle of it. Sizes, tables and alphabets are constants;
the code has bytes of 8 bits, 286 and 30 meaningful symbols, a ring of 32 KiB
and a buffer of 64 KiB.

The header is one choice, accepted or rejected: nothing else depends on its
fields. Left out: statistics, the guards against 2^32 blocks and 2^64 bytes, and
an output that is another name of the input, which is the subject of
`mgz_aliased` and the same comparison of names here (`gzip_decode.c:856`).

### OutputPaths

A path is a directory and a name, a name the sequence of its parts between the
dots, a part a word and the numbers " (n)" put behind it; so `a (1).mgz` and
what `makeNumberedPath` makes of `a.mgz` are the same value. Paths that differ in
case are one path: this is how the code compares them. `tasks` has the rows with
`inputPath`, `format` and `outputPath`, `location` stands for the combo box and
the chosen folder, `inputPaths` for the set of that name while the question is
open. Every loop that numbers until a name is free is `FirstFree`, and each of
the three loops over the rows is `Settle` with the names it avoids. While the
question is open only queued removals (`pending`) are handled, as by the nested
event loop. A batch runs its requests in order (`Process`, `Refuse`); what
`BatchProcessing` models of threads and cancellation is here only that it may
end early. Left out: a suffix that `startProcessing` rejects and a missing
folder (it returns before anything changes), and files that other programs make
or remove meanwhile.

## 3. Runs

| Run | Question | Bounds |
| --- | --- | --- |
| `batch_two_batches` | safety across batches; implements `BatchReport` | two batches, two rows, one callback for each call |
| `batch_liveness` | does everything end? result card and removed rows | two batches, one row, one queued removal |
| `batch_pending_close` | finding 2 | two batches, one row |
| `batch_cancel_reaches` | finding 1 | two batches, one row |
| `lz77_codec` | round trip and bounds | blocks of 0 to 8 bytes over 3 values, window 4, matches of 3 to 4, chains of 2, 4 hash values; any stream of 0 to 9 bytes with capacity 0, 3 or 5 |
| `huffman_codec` | optimal code, round trip, any table and payload | 4 symbols, 7 nodes, codes of at most 3 bits; texts of 1 to 6 symbols; payloads of at most 2 bytes of 2 bits and 3 announced symbols |
| `mgz_file` | faults, kills, damage; implements `FileCall` | sources of 0 to 5 bytes, blocks of 2, three calls |
| `mgz_aliased` | finding 3 | one call, output path leads to the input |
| `mgz_placeholder` | finding 4 | source of at most one byte, two calls |
| `gzip_file` | any stream; implements `FileCall` | bytes of 2 bits, streams of 7 bytes, 13 with a dynamic block; length of a stored block in 3 bits, more than a byte; ring of 3, buffer of 2; 7 and 4 symbols, codes of at most 3 bits, 13 nodes |
| `output_paths` | collisions of names | up to six files in two folders, three rows, two suffixes, one queued removal, one batch |
| `output_replanned` | finding 5 | the same |

Why the bounds are enough. Two batches are what overlap needs: the code keeps
pointers to the current batch only, and a third would meet the second as the
second meets the first. Two rows give a first, a last, a finished and a waiting
one. Removals do nothing while a batch runs, so one row, of which one click is
queued, is enough for the result card. Eight bytes with a window of four hold literals, a match of each length,
overlapping matches, candidates that are too far, chains cut off by their limit,
hash collisions (27 triples on 4 values) and the unhashed last two bytes. A
radix of three makes `MaxMatch` 4 and the window 4 need both bytes of a field.
Four symbols give every shape of a Huffman tree up to its greatest depth, which
a text of six symbols is the first to need (frequencies 3, 1, 1, 1), and a heap
of three levels. All 256 tables are tried: those that fit the code space, those
that overfill it, and those that leave gaps, of which 3, 3, 3 just fits the
seven nodes and 3, 3, 3, 3 does not. Two bytes of two bits hold codes that cross a byte,
a partly used last byte with and without padding, bits that end inside a code,
and too few or too many symbols. Nine bytes of stream hold a match after literals, and every truncation. Five
bytes in blocks of two hold no block, full blocks, and a short last one. Seven
bytes of GZIP stream hold a literal, a copy that overlaps itself and a second
copy that reaches back the full ring, or one byte further, stored blocks and
every end of the file inside a field that takes more than one byte; thirteen hold a dynamic block with repeated lengths, a literal and a
copy, after its tables. The ring is shorter than what comes out and the buffer
is flushed inside copies. Seven codes of three bits are more than thirteen nodes
hold; all tables of up to seven lengths are compared with the reference. Three
rows give a name that collides with an input and with another output at once,
and a third row to remove; files left by an earlier batch are among those that
may exist at first, so a second batch adds nothing. The
theorems of section 5 do not depend on these bounds.

All runs check for deadlock too: each specification names the states in which it may stop
(`Terminated`, `Stopped`).

## 4. Fairness

* `BatchProcessing`: the GUI thread delivers its events (`HandleEvent`) and
  fires its timers, its `main` goes on after the event loop ended
  (`DestroyWindow`, `ExitProgram`), and each worker thread is scheduled. This is
  what Qt's event loop and the operating system provide. A codec call ends: it
  reads finite files. Nothing is assumed of the user, who may leave a message
  box open for ever.
* `Lz77Codec`, `HuffmanCodec`, `GzipFile`: a running function goes on; its
  library calls return.
* `OutputPaths`: none; it has no liveness property.
* `MgzFile`: a call that has begun goes on, or is killed. Calls, kills, flushes
  and damage are not fair.

## 5. What is proved

`tlapm` checks these for every value of the constants that satisfies the named
assumptions. Each component has an inductive invariant of its own, proved with one
lemma for each action. `IInv` of `BatchProcessing` and `IInv` of `Lz77Codec` are
invariants of runs too. The others stand at the head of the proof modules; TLC
evaluates them when a module that extends the proof module is run with the
constants of the component, except for the parts that claim a path for every
node of the decode tree, which it cannot enumerate.

`BatchProofs` (from `BoundsAssumption`: at least one batch, finitely many
addresses):

* `TypeCorrect`, and `InvariantHolds`: `IInv` of `BatchProcessing` is inductive.
* `SignalsAreFresh`, `SingleWorker`, `ExitIsSafe`, `CardPointersLive`,
  `CountersTrue` and `CardTrue` follow from it.
* `ReportRefined`: the application implements `BatchReport`.

Why an invariant is needed: `SignalsHitTheirTask` alone is not inductive, as it
says nothing of a worker that has yet to send. `IInv` adds what the code relies
on. `QueueInv`: signals and `allFinished` in the queue belong to the current
batch, and after an `allFinished` comes no signal of a task, so `processing_`
may fall when it is handled. `BatchInv`: while `processing_` holds, the list,
`activeTasks_` and the requests of the batch are the same sequence, and only the
worker of the current batch is in `run()`. `UiInv`: a message box other than the
closing question is open only in an idle window, alone, so that the code after
it cannot meet a batch. `RowInv`: what the rows show and what is still queued
and still to be sent by the worker add up to one start and one end for each row,
in the order of the rows; without it neither the counters nor the title of the
card can be compared with the rows, as the window learns of them one event at a
time. The refinement uses the same parts: a slot changes the row that the batch
would change next.

`Lz77Proofs` (from `FormatAssumption` and the encoder's assumption; these are
`lz77.h` and `lz77.c` with any sizes for which a field fits 16 bits):

* `CodecInvariant`: `IInv` of `Lz77Codec` is inductive.
* `BlockSurvives`: decoding never fails and returns the block.
* `BufferSuffices`: the encoder stays within twice the size of the block.
* `ChainsAreInitialised`: the search reads only links that were written.
* `MatchesAreReal`: a match agrees byte for byte and lies in the window.
* `DecoderStaysInBounds`: on any stream, well formed or not, and with any
  capacity, the decoder reads and writes inside its buffers.

The argument: `ChainInv` says that heads and links lead to smaller positions
that can be hashed and were inserted, hence written. `MarksInv` says what lies
between two marks: a literal that is the byte of the block, or a match whose
fields decode to a length and a distance at which the block agrees with itself.
`DecoderInv` walks the decoder along the marks; inside a match the byte it
copies was produced before and agrees with the byte it stands for, even when the
match overlaps itself.

`MgzProofs` (from `SizesAssumption`, and for calls whose output path does not
lead to their input, `~Aliased`; finding 3 is what happens otherwise):

* `MgzInvariant`: `MgzInv` is inductive; `MgzTypeOK`, `ArchiveHoldsSource`,
  `RestoresSource` and `FailsForCause` follow.
* `InputOnlyRead`: `SourceKept`, the property that the run `mgz_aliased`
  violates, holds once the paths are apart.
* `MgzImplementsFileCall`: `AllOrNothing`.

`MgzInv` follows a call block by block. `Compressing`: what is on the disk and
what stdio holds, taken together, is a placeholder and the blocks of the source
so far, however they are divided by flushes; `Reach` ties the number of blocks
to the bytes read. `Decompressing`: what the output will hold is a beginning of
the source as long as the archive is a good one. `ArchiveTells` is about the
archive between the calls: each header in it tells the source, except for the
placeholder of an unfinished one, which is followed by blocks it does not count;
this is why a damaged archive cannot be restored to something else.

`GzipProofs` (from `DeflateAssumption`, `TableAssumption`, `TreeAssumption` and
`ModulusAssumption`: any width of a byte and of the fields, any ring, buffer and
tables):

* `GzipInvariant`: `GzipInv` is inductive.
* `TreesOfTables`: `BuildMatchesReference`, for tables and codes of any length.
* `RingServesCopies`: `WindowHoldsTheEnd`.
* `ReaderNeverAhead`: `ReaderStaysBehind`.
* `GzipImplementsFileCall`: `GzipAllOrNothing`.

`SinkHoldsPrefix` says that file and buffer together are the beginning of what
the stream says, `RingHoldsTheEnd` where each of the last bytes lies in the
ring, and `CopyStands` that every byte a copy still owes is the one a distance
before it; so a copy that overlaps itself reads only what it has emitted. The
bound of `ReaderStaysBehind` is one that the proof corrected: a field wider than
a byte leaves up to its width, and not only a byte, in the bit buffer when the
file ends inside it (`gzip_decode.c:333-339`). The call fails there, so nothing
follows from those bits; the run now has such a field.

`huffman_build` counts in two ways, by lengths (`left`, `next_code`) and by
symbols, and refuses for five reasons; the reference knows the space that the
symbols before one take, and refuses for three. In units of the longest code
what is left after `l` bits and the first code of `l` bits are the space that
the shorter codes leave and take (`AvailableIs`, `next_codeIs`), and the code of
a symbol is where the symbols before it end (`SymbolCodeIs`). So each symbol has
an interval of the code space, and no two overlap (`SymbolsApart`). A path that
begins another is the number of the other without its last digits (`PathsTell`),
which would put one interval into another. Hence, when the lengths fit, the tests
for a code that is too long and for a path that is blocked never refuse a table
that `left` let pass; when they do not fit, `left` is negative at the end.

`OutputProofs` (from `PathAssumption` and `FilesAssumption`: any files, folders,
words, suffixes and rows):

* `OutputInvariant`: `OutputInv` is inductive.
* `OutputsKeptApart` and `ReplacesOnlyWhenAsked` follow from it.
* `InputsSurviveUnlessReplanned`: finding 5 shows an input destroyed, and this
  shows that the removal handled behind the question is the only way to it.

The loops that number a name until it is free need two facts. Among the numbers
from 1 on, one more of them than there are names taken, one gives a free name,
since different numbers give different names (`SomeNumberIsFree`). `Settle`,
whose recursion is over the places of the list, gives every row a name that it
avoids no more and no row before it has (`SettleFacts`). `QuestionInv` keeps
what was planned until the answer comes, or says that it is outdated.

`HuffmanProofs` (from `SymbolsAssumption`):

* `HeapKeepsOrder`: `HeapInv` is inductive, for any number of symbols and nodes.
* `LeastIsPopped`: `PoppedLeast`.
* `LengthsFromForest`: `ForestInv` is inductive.
* `LengthsAreOptimal`: `LengthsOptimal`; no table of lengths that fits the code
  space makes the text shorter.
* `CodesStandInOrder`: `CodesInv` is inductive, for every table of lengths, the
  ones of a damaged archive included.
* `CodesFit`: `CodesFitTheTable`.

Between two rounds of a sift the heap has one slot out of order, so the order of
the heap is not an invariant; `HeapOrder` exempts that slot and says how its
children stand to its parent. That the root comes before all others follows from
the least slot it would not come before, whose parent it does.

`Forest` says that the nodes are leaves of different symbols and mergers of two
earlier nodes that nothing else was merged with, and that the heap holds the
nodes below no other. `LeavesFirst` counts them: each merger leaves one node
less, so the array has room for every one and the heap never runs empty before
the last. A node lies below later ones only, so no depth exceeds its limit, and
the shares of the code space below a node add up to its own: the lengths of a
text with two symbols fill the code space, which is why
`build_canonical_codes` does not refuse them.

That these lengths are the best ones needs one more invariant: `Thrift`, each
merger took the two lightest nodes that nothing was merged with then, and weighs
what they weigh together. Take any other table that fits the code space, as
depths of the leaves, whether it comes from a tree or not. The two lightest
leaves may trade places with the deepest ones (`TwoDeepest`); if one of them is
still deeper than the other it may move up, as the space it leaves is a multiple
of its share (`TwoSiblings`); and as siblings they may be taken for one leaf of
their weight, one level up, which saves that weight (`Joined`). Merger by merger
the table has paid at least what all of them weigh (`LeastCost`), and the tree of
`build_code_lengths` costs just that (`OwnCost`).

That no code begins with another does not follow from the last code alone, and a
table that overfills the code space has to be refused at the right symbol.
`CodesInv` therefore counts: the value of a code, in units of the longest one,
is the sum of the shares of the codes before it (`CodesFillUp`), and the code
that `increment_code` and the appended zeros make is the one where that sum
ends; a code of ones has no follower exactly if the space is full.
`CodesAscend` says that the codes stand in the order of branches.

`HuffmanCodecProofs` (from the same, and `PayloadAssumption`):

* `TreeStandsForCodes`: `TreeInv` is inductive.
* `TreeFits`: `TreeFitsTheCodes`.
* `DecodesWhatWasCoded`: `DecodedIsCoded`, for any payload.
* `TextsSurvive`: `TextSurvives`, for any text.

`TreeInv` gives each node the bits that lead to it: no two nodes have the same,
each is the beginning of a code, and a leaf has a whole one. As no code begins
with another a way is never blocked by a leaf and never ends on an inner node,
so those two tests of `build_decode_tree` cannot fail after
`build_canonical_codes`; only the end of the array can.

The last two theorems need everything before them. Their invariant, `DecodeInv`,
joins the invariants of lengths, codes and tree with four about the payload.
`PhaseInv` says which helper has run on what. `ReadInv` is enough for
`DecodedIsCoded`: the bits read are the codes of the symbols put out and then
the path of the node reached. `TextInv` is about a text. Its bits, taken as one
sequence across the bytes (`Packed` says that the last byte ends with zeros, so
adding a bit changes no other), are the codes of the symbols written and the
beginning of one more. `CodesInPlace` says that each code is where the ones
before it end; hence the lengths alone determine the codes (`Standard`), and the
reader, which makes its own codes from the lengths in the payload, has those of
the writer. What it reads next is then the code of the next symbol, so its walk
through the tree ends at that symbol. It is refused nothing on the way: the
lengths of a text with two symbols fill the code space, so every beginning of a
code that is not a whole one goes on with both bits, and the nodes of the tree
are fewer than twice the symbols (`RoomIfFull`); a text of one symbol has a code
of one bit.

`NatLemmas` holds what these proofs share: the least element of a set of
naturals, from which induction on naturals follows without a theorem that takes
an operator, the existence of the functions that a recursion defines, sums over
the numbers up to a bound, and the arithmetic of powers of two, quotients and
remainders. The folds of the community modules are brought down to these sums
(`SpaceIsTaken`).

Only model-checked: liveness (all properties with `~>` or `<>`), which the prover
does not reach. Every invariant of a passing run is proved.

## 6. Findings

1. `batch_cancel_reaches`. `MainWindow.cpp:1157` resets `worker_` without asking
   whose thread has ended. When the user starts a second batch between the
   `allFinished` and the `finished` of the first, the second can no longer be
   cancelled, and a close waits for its natural end.
2. `batch_pending_close`. `MainWindow.cpp:1303` sets `closeWhenFinished_` after
   a message box behind which the batch may have ended. The window then stays
   open, and closes at the end of a later batch.
3. `mgz_aliased`. `format.c:347` compares names. With another name of the input
   as output, `fopen(..., "wb")` empties the input, and the call reports success.
4. `mgz_placeholder`. The placeholder header (`format.c:385`) is the header of
   an empty file. If a compression fails before a block is on the disk and the
   process is killed before `remove`, decompression of what is left succeeds.
5. `output_replanned`. `MainWindow.cpp:936` keeps the outputs off the inputs and
   then asks about existing files in a nested event loop. A click on a remove
   button that was queued before Start is handled there, and `removeTask` plans
   the outputs anew (`:760`) without looking at the inputs. With the rows `a`,
   `a.mgz` and a third one, of which the third goes, the output of `a` becomes
   `a.mgz` again; "Replace Existing" starts the batch as it stands, and the
   second input is emptied before it is read.

## 7. Plan

What a next version would add: the growing buffer of the bit writer and its
failing `realloc`, and the fields of the GZIP header.

## 8. Not modelled

CRC-32 as a polynomial (out of a model checker's reach; a checksum of some bytes
is those bytes). Drawing, animation and the conversion of a drop into paths,
which change no state a property could be about. The command line programs,
which parse arguments around one call. Build files. Texts of messages, and with
them the test of a failure's message for the letters "cancel"
(`MainWindow.cpp:1121`), which decides whether the row of a failed file says
"Failed" or "Cancelled": in the model that is the outcome of the call. `remove`
is taken to succeed wherever it is called.
