------------------------------ MODULE MgzFile ------------------------------
(***************************************************************************)
(* mgz_compress_file and mgz_decompress_file (format.c), called one after  *)
(* the other on a source file, its archive and the restored file.  Any     *)
(* library call may fail, the progress callback may cancel, the process    *)
(* may be killed between two steps, and a finished archive may be damaged. *)
(*                                                                         *)
(* Data: a file is a sequence of items, the bytes of a plain file or the   *)
(* headers and blocks of an archive.  A block item holds the bytes its     *)
(* payload stands for (Lz77Codec shows that they come back).  The CRC of   *)
(* some bytes is those bytes: two contents never share one.                *)
(***************************************************************************)
EXTENDS Integers, Sequences, SequencesExt

CONSTANTS
    Byte,           \* values of a byte
    BlockSize,      \* MGZ_BLOCK_SIZE
    Shrinking,      \* the blocks that LZ77 and Huffman coding make smaller
    Aliased,        \* does the output path of a compression lead to its input?
    MaxSize,        \* bound: bytes of the source
    MaxCalls        \* bound: calls of the codec

ASSUME SizesAssumption ==
    /\ BlockSize \in Nat \ {0}
    /\ Aliased \in BOOLEAN
    /\ MaxSize \in Nat
    /\ MaxCalls \in Nat

VARIABLES
    source,     \* history: what the plain file held at first
    disk,       \* the files, as the disk has them
    op,         \* the call that runs: "none", "compress" or "decompress"
    target,     \* its output file
    pc,         \* where it is
    rpos,       \* items read from its input
    ferror,     \* the sticky error flag of its input
    header,     \* the header a decompression has read
    bytes,      \* the bytes seen so far: original_size and crc in one
    blocks,     \* block_count, block_index
    buffer,     \* items given to stdio that are not on the disk yet
    success,    \* success
    result,     \* how the last call ended
    calls,      \* calls so far
    fault,      \* history: has a library call failed, or was it cancelled?
    good,       \* history: the archive is as a successful call left it
    abandoned   \* history: the archive of a failed call was not removed

callVars == <<op, target, header, calls>>
posVars  == <<rpos, ferror, bytes, blocks>>
histVars == <<good, abandoned>>
vars == <<source, disk, callVars, pc, posVars, buffer, success, result, fault,
          histVars>>

Min2(a, b) == IF a < b THEN a ELSE b

\* The files.  A file that does not exist has no items.
NoFile == [there |-> FALSE, items |-> <<>>]
File(items) == [there |-> TRUE, items |-> items]

\* The items of an archive (write_file_header, write_block_header).
Header(size, crc, count) ==
    [kind |-> "header", size |-> size, crc |-> crc, count |-> count]

Block(data) ==
    [kind |-> "block",
     method |-> IF data \in Shrinking THEN "lz77_huffman" ELSE "stored",
     size |-> Len(data), data |-> data]

\* Bytes that are neither a valid header nor a decodable block.
Junk == [kind |-> "junk"]

Placeholder == Header(0, <<>>, 0)

ExpectedBlocks(size) ==
    IF size = 0 THEN 0 ELSE ((size - 1) \div BlockSize) + 1

Input == disk[IF op = "compress" THEN "plain" ELSE "archive"].items
Left  == Len(Input) - rpos
Idle  == op = "none"

ToClose == pc' = "close" /\ fault' = TRUE

Init ==
    /\ source \in UNION {[1 .. n -> Byte] : n \in 0 .. MaxSize}
    /\ disk = [plain |-> File(source), archive |-> NoFile, restored |-> NoFile]
    /\ op = "none"
    /\ target = "archive"
    /\ pc = "idle"
    /\ rpos = 0
    /\ ferror = FALSE
    /\ header = Placeholder
    /\ bytes = <<>>
    /\ blocks = 0
    /\ buffer = <<>>
    /\ success = FALSE
    /\ result = "none"
    /\ calls = 0
    /\ fault = FALSE
    /\ good = FALSE
    /\ abandoned = FALSE

----------------------------------------------------------------------------
\* mgz_compress_file

\* Both files are open and the output is empty; what follows up to the loop
\* (memory, placeholder header, first progress report) may send it to cleanup.
Begin(call, out, first, firstItems) ==
    /\ calls' = calls + 1
    /\ op' = call
    /\ target' = out
    /\ disk' = [disk EXCEPT ![out] = File(<<>>)]
    /\ good' = (good /\ out # "archive")
    /\ abandoned' = (abandoned /\ out # "archive")
    /\ rpos' = first
    /\ ferror' = FALSE
    /\ bytes' = <<>>
    /\ blocks' = 0
    /\ buffer' = firstItems
    /\ success' = FALSE
    /\ result' = "none"
    /\ \/ pc' = "block" /\ fault' = FALSE
       \/ ToClose
    /\ UNCHANGED source

\* A return before the output is opened: nothing has changed.
Refuse ==
    /\ calls' = calls + 1
    /\ result' = "refused"
    /\ UNCHANGED <<source, disk, op, target, header, pc, posVars, buffer,
                   success, fault, histVars>>

StartCompress ==
    /\ Idle /\ calls < MaxCalls
    /\ \/ /\ Begin("compress", IF Aliased THEN "plain" ELSE "archive", 0,
                   <<Placeholder>>)
          /\ UNCHANGED header
       \/ Refuse

\* Mutant: a read error ends the file like its end does.
CompressBlockIgnoresError ==
    /\ op = "compress" /\ pc = "block"
    /\ \E n \in 0 .. Min2(BlockSize, Left) :
         LET data == SubSeq(Input, rpos + 1, rpos + n) IN
         /\ ferror' = (ferror \/ n < Min2(BlockSize, Left))
         /\ IF n = 0
            THEN pc' = "seek" /\ UNCHANGED <<rpos, bytes, blocks, buffer, fault>>
            ELSE /\ rpos' = rpos + n
                 /\ bytes' = bytes \o data
                 /\ blocks' = blocks + 1
                 /\ buffer' = Append(buffer, Block(data))
                 /\ UNCHANGED <<pc, fault>>
    /\ UNCHANGED <<source, disk, callVars, success, result, histVars>>

\* Mutant: after a read error the read is tried again for ever.
CompressBlockRetries ==
    /\ op = "compress" /\ pc = "block"
    /\ \E n \in 0 .. Min2(BlockSize, Left) :
         LET data == SubSeq(Input, rpos + 1, rpos + n) IN
         /\ ferror' = (ferror \/ n < Min2(BlockSize, Left))
         /\ IF n = 0
            THEN /\ pc' = IF ferror' THEN "block" ELSE "seek"
                 /\ UNCHANGED <<rpos, bytes, blocks, buffer, fault>>
            ELSE /\ rpos' = rpos + n
                 /\ bytes' = bytes \o data
                 /\ blocks' = blocks + 1
                 /\ buffer' = Append(buffer, Block(data))
                 /\ UNCHANGED <<pc, fault>>
    /\ UNCHANGED <<source, disk, callVars, success, result, histVars>>

\* One round of the loop.  fread returns less than a full block at the end of
\* the file or on an error, and an error stays in ferror.
CompressBlock ==
    /\ op = "compress" /\ pc = "block"
    /\ \E n \in 0 .. Min2(BlockSize, Left) :
         LET data == SubSeq(Input, rpos + 1, rpos + n) IN
         /\ ferror' = (ferror \/ n < Min2(BlockSize, Left))
         /\ IF n = 0
            THEN /\ IF ferror' THEN ToClose ELSE pc' = "seek" /\ UNCHANGED fault
                 /\ UNCHANGED <<rpos, bytes, blocks, buffer>>
            ELSE /\ rpos' = rpos + n
                 /\ bytes' = bytes \o data
                 /\ \/ \* no memory to compress, or the write fails
                       ToClose /\ UNCHANGED <<blocks, buffer>>
                    \/ /\ blocks' = blocks + 1
                       /\ buffer' = Append(buffer, Block(data))
                       /\ \/ UNCHANGED <<pc, fault>>
                          \/ ToClose    \* cancelled by the callback
    /\ UNCHANGED <<source, disk, callVars, success, result, histVars>>

\* fseek writes what stdio still holds; the header is written over the
\* placeholder and flushed.
SeekToHeader ==
    /\ op = "compress" /\ pc = "seek"
    /\ \/ /\ disk' = [disk EXCEPT ![target].items = @ \o buffer]
          /\ buffer' = <<>>
          /\ pc' = "header"
          /\ UNCHANGED fault
       \/ ToClose /\ UNCHANGED <<disk, buffer>>
    /\ UNCHANGED <<source, callVars, posVars, success, result, histVars>>

FinishHeader ==
    /\ op = "compress" /\ pc = "header"
    /\ \/ /\ disk' = [disk EXCEPT ![target].items[1] =
                        Header(Len(bytes), bytes, blocks)]
          /\ success' = TRUE
          /\ pc' = "close"
          /\ UNCHANGED fault
       \/ ToClose /\ UNCHANGED <<disk, success>>
    /\ UNCHANGED <<source, callVars, posVars, buffer, result, histVars>>

----------------------------------------------------------------------------
\* mgz_decompress_file

\* read_file_header accepts the first bytes of the archive.
HeaderOK ==
    LET items == disk["archive"].items IN
    /\ items # <<>>
    /\ items[1].kind = "header"
    /\ items[1].count = ExpectedBlocks(items[1].size)

StartDecompress ==
    /\ Idle /\ calls < MaxCalls
    /\ \/ /\ HeaderOK
          /\ header' = disk["archive"].items[1]
          /\ Begin("decompress", "restored", 1, <<>>)
       \/ Refuse

\* The next block, as read_block_header, the size and method checks and
\* decode_compressed_block accept it.
BlockOK ==
    LET item == Input[rpos + 1]
        expected == IF blocks + 1 < header.count THEN BlockSize
                    ELSE header.size - Len(bytes)
    IN /\ Left > 0
       /\ item.kind = "block"
       /\ item.size # 0 /\ item.size = expected
       /\ item.size = Len(item.data)

\* Mutant: the last block has to be a full one too.
DecompressBlockFullOnly ==
    /\ op = "decompress" /\ pc = "block" /\ blocks < header.count
    /\ IF BlockOK /\ Input[rpos + 1].size = BlockSize
       THEN /\ rpos' = rpos + 1
            /\ bytes' = bytes \o Input[rpos + 1].data
            /\ buffer' = buffer \o Input[rpos + 1].data
            /\ blocks' = blocks + 1
            /\ UNCHANGED <<pc, fault>>
       ELSE pc' = "close" /\ UNCHANGED <<rpos, bytes, blocks, buffer, fault>>
    /\ UNCHANGED <<source, disk, callVars, ferror, success, result, histVars>>

DecompressBlock ==
    /\ op = "decompress" /\ pc = "block" /\ blocks < header.count
    /\ \/ /\ BlockOK
          /\ rpos' = rpos + 1
          /\ bytes' = bytes \o Input[rpos + 1].data
          /\ buffer' = buffer \o Input[rpos + 1].data
          /\ blocks' = blocks + 1
          /\ \/ UNCHANGED <<pc, fault>>
             \/ ToClose     \* cancelled by the callback
       \/ /\ ~BlockOK
          /\ pc' = "close"
          /\ UNCHANGED <<rpos, bytes, blocks, buffer, fault>>
       \/ \* no memory, or a read or write fails
          ToClose /\ UNCHANGED <<rpos, bytes, blocks, buffer>>
    /\ UNCHANGED <<source, disk, callVars, ferror, success, result, histVars>>

\* Mutant: bytes after the last block go unnoticed.
ContentOKWithTrailing == Len(bytes) = header.size /\ bytes = header.crc

\* The checks after the last block: size, trailing data, CRC.
ContentOK ==
    /\ Len(bytes) = header.size
    /\ Left = 0
    /\ bytes = header.crc

FinishDecompress ==
    /\ op = "decompress" /\ pc = "block" /\ blocks = header.count
    /\ \/ /\ ContentOK
          /\ disk' = [disk EXCEPT ![target].items = @ \o buffer]
          /\ buffer' = <<>>
          /\ success' = TRUE
          /\ pc' = "close"
          /\ UNCHANGED fault
       \/ /\ ~ContentOK
          /\ pc' = "close"
          /\ UNCHANGED <<disk, buffer, success, fault>>
       \/ \* fgetc or fflush fails
          ToClose /\ UNCHANGED <<disk, buffer, success>>
    /\ UNCHANGED <<source, callVars, posVars, result, histVars>>

----------------------------------------------------------------------------
\* cleanup, which both functions share, and the return

Return(how) ==
    /\ op' = "none"
    /\ pc' = "idle"
    /\ result' = how

\* Mutant: the output of a failed call is never closed.
CloseFilesLeaksOutput ==
    /\ pc = "close"
    /\ \/ /\ success
          /\ buffer' = <<>>
          /\ Return(IF op = "compress" THEN "compressed" ELSE "restored")
          /\ good' = (good \/ target = "archive")
       \/ ~success /\ pc' = "remove" /\ UNCHANGED <<buffer, op, result, good>>
    /\ UNCHANGED <<source, disk, target, header, calls, posVars, success, fault,
                   abandoned>>

\* Mutant: a file that cannot be closed is reported but stays.
CloseFilesKeepsFile ==
    /\ pc = "close"
    /\ \E n \in 0 .. Len(buffer) :
         disk' = [disk EXCEPT ![target].items = @ \o SubSeq(buffer, 1, n)]
    /\ buffer' = <<>>
    /\ \/ /\ success
          /\ \/ /\ Return(IF op = "compress" THEN "compressed" ELSE "restored")
                /\ UNCHANGED fault
             \/ Return("failed") /\ fault' = TRUE
          /\ good' = (good \/ target = "archive")
       \/ ~success /\ pc' = "remove" /\ UNCHANGED <<op, result, fault, good>>
    /\ UNCHANGED <<source, target, header, calls, posVars, success, abandoned>>

\* fclose writes what stdio still holds, or part of it when that fails too;
\* after a success there is nothing left to write.
CloseFiles ==
    /\ pc = "close"
    /\ \E n \in 0 .. Len(buffer) :
         disk' = [disk EXCEPT ![target].items = @ \o SubSeq(buffer, 1, n)]
    /\ buffer' = <<>>
    /\ \/ /\ success
          /\ Return(IF op = "compress" THEN "compressed" ELSE "restored")
          /\ good' = (good \/ target = "archive")
          /\ UNCHANGED <<success, fault>>
       \/ /\ success
          /\ success' = FALSE
          /\ pc' = "remove"
          /\ fault' = TRUE
          /\ UNCHANGED <<op, result, good>>
       \/ /\ ~success
          /\ pc' = "remove"
          /\ UNCHANGED <<op, result, success, fault, good>>
    /\ UNCHANGED <<source, target, header, calls, posVars, abandoned>>

RemoveOutput ==
    /\ pc = "remove"
    /\ disk' = [disk EXCEPT ![target] = NoFile]
    /\ Return("failed")
    /\ UNCHANGED <<source, target, header, calls, posVars, buffer, success,
                   fault, histVars>>

----------------------------------------------------------------------------
\* What happens around the calls

\* stdio hands part of its buffer to the disk.  The first part is a full
\* buffer and so holds more than the 32 bytes of the header.
StdioFlush ==
    /\ pc = "block"
    /\ \E n \in 1 .. Len(buffer) :
         /\ op = "compress" /\ disk[target].items = <<>> => n >= 2
         /\ disk' = [disk EXCEPT ![target].items = @ \o SubSeq(buffer, 1, n)]
         /\ buffer' = SubSeq(buffer, n + 1, Len(buffer))
    /\ UNCHANGED <<source, callVars, pc, posVars, success, result, fault, histVars>>

\* The process is killed: what stdio held is gone, what the disk has stays.
Kill ==
    /\ ~Idle
    /\ buffer' = <<>>
    /\ success' = FALSE
    /\ Return("killed")
    /\ abandoned' = (abandoned \/ (pc = "remove" /\ target = "archive"))
    /\ UNCHANGED <<source, disk, target, header, calls, posVars, fault, good>>

\* One damage to an archive: an item is lost, unreadable, changed or repeated,
\* two items change places, or something follows the last.
Damaged(items) ==
    {RemoveAt(items, i) : i \in DOMAIN items}
    \cup {[items EXCEPT ![i] = Junk] : i \in DOMAIN items}
    \cup {[items EXCEPT ![i].size = @ + 1] : i \in DOMAIN items}
    \cup {[items EXCEPT ![1].count = @ + 1]}
    \cup {[items EXCEPT ![i].data[j] = b] :
             i \in DOMAIN items \ {1}, j \in {1}, b \in Byte}
    \cup {InsertAt(items, i, items[i]) : i \in DOMAIN items}
    \cup {[items EXCEPT ![i] = items[j], ![j] = items[i]] :
             i \in DOMAIN items, j \in DOMAIN items}
    \cup {Append(items, Junk)}

DamageArchive ==
    /\ Idle /\ good
    /\ \E items \in Damaged(disk["archive"].items) \ {disk["archive"].items} :
         disk' = [disk EXCEPT !["archive"].items = items]
    /\ good' = FALSE
    /\ UNCHANGED <<source, callVars, pc, posVars, buffer, success, result, fault,
                   abandoned>>

\* The user makes no more calls.
Stopped == Idle /\ UNCHANGED vars

Call ==
    \/ CompressBlock
    \/ SeekToHeader
    \/ FinishHeader
    \/ DecompressBlock
    \/ FinishDecompress
    \/ CloseFiles
    \/ RemoveOutput

Next ==
    \/ StartCompress
    \/ StartDecompress
    \/ Call
    \/ StdioFlush
    \/ Kill
    \/ DamageArchive
    \/ Stopped

\* A call that runs goes on; calls, kills and damage come when they like.
Spec == Init /\ [][Next]_vars /\ WF_vars(Call)

----------------------------------------------------------------------------

TypeOK ==
    /\ source \in Seq(Byte)
    /\ \A f \in DOMAIN disk :
         disk[f].there \in BOOLEAN /\ (~disk[f].there => disk[f].items = <<>>)
    /\ op \in {"none", "compress", "decompress"}
    /\ target \in DOMAIN disk
    /\ pc \in {"idle", "block", "seek", "header", "close", "remove"}
    /\ op = "none" <=> pc = "idle"
    /\ rpos \in Nat
    /\ ferror \in BOOLEAN /\ success \in BOOLEAN /\ fault \in BOOLEAN
    /\ good \in BOOLEAN /\ abandoned \in BOOLEAN
    /\ bytes \in Seq(Byte)
    /\ blocks \in Nat
    /\ calls \in 0 .. MaxCalls
    /\ op = "none" => buffer = <<>>
    /\ result \in {"none", "refused", "compressed", "restored", "failed", "killed"}

\* Block k of the source.
SourceBlock(k) ==
    SubSeq(source, (k - 1) * BlockSize + 1, Min2(k * BlockSize, Len(source)))

\* An archive that a successful compression left is the source, whole, in full
\* blocks but for the last, behind a header that matches: whatever read error,
\* flush or earlier call there was (format.c:395-486).
GoodArchive ==
    good =>
      LET items == disk["archive"].items
          count == ExpectedBlocks(Len(source))
      IN /\ Len(items) = count + 1
         /\ items[1] = Header(Len(source), source, count)
         /\ \A k \in 1 .. count : items[k + 1] = Block(SourceBlock(k))

\* A decompression that reports success has restored the source, even from an
\* archive that a killed compression left or that was damaged since; the one
\* exception is a failed compression that was killed before its "remove".
RestoredIsSource ==
    result = "restored" /\ ~abandoned => disk["restored"] = File(source)

\* The same without the exception: the sizes and checksums of the archive are
\* those of the original file (README.md:107-109).  The placeholder header of
\* format.c:385 is the valid header of an empty file, so it is violated.
HeaderTellsOriginal ==
    result = "restored" => disk["restored"] = File(source)

\* What a successful call owes its caller: the archive of the source, or the
\* bytes whose checksum the header of the archive holds.
Owed ==
    IF target = "restored" THEN header.crc
    ELSE <<Header(Len(source), source, ExpectedBlocks(Len(source)))>>
         \o [k \in 1 .. ExpectedBlocks(Len(source)) |-> Block(SourceBlock(k))]

Ended == IF result \in {"compressed", "restored"} THEN "ok" ELSE result

Caller == INSTANCE FileCall
            WITH running <- ~Idle, output <- disk[target], owed <- Owed,
                 ended <- Ended

\* All or nothing: a call that reports success has written what it owes, one
\* that fails after it opened its output leaves none (format.c:498-513), one
\* that refuses touches nothing; only a kill leaves a part.
AllOrNothing == Caller!Spec

\* A call fails for a reason: a library call failed, the user cancelled, or
\* the archive is not one that a successful compression left.
FailureHasCause ==
    result = "failed" => fault \/ (target = "restored" /\ ~good)

\* Every call returns.
CallReturns == ~Idle ~> Idle

\* The input of a call is only read: "input and output paths must differ"
\* (format.c:349, format.c:524).
SourceKept == [][disk'["plain"] = disk["plain"]]_vars

====
