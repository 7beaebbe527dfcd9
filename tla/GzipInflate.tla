---------------------------- MODULE GzipInflate ----------------------------
(***************************************************************************)
(* The DEFLATE decoder of gzip/gzip_decode.c: the bit reader, the blocks,  *)
(* the tables of a dynamic block, and the output with its ring window and  *)
(* its buffer.                                                             *)
(*                                                                         *)
(* The bytes of the file are chosen when fgetc asks for them.  One action  *)
(* is one call of bit_reader_read, with what the caller does with the      *)
(* value; a call that needs more bits fetches its bytes first.             *)
(***************************************************************************)
EXTENDS DeflateTrees

CONSTANTS
    ByteBits,           \* bits of a byte: 8
    StoredBits,         \* bits of the length of a stored block: 16
    HlitBits, HdistBits, HclenBits, CodeBits,   \* 5, 5, 4, 3
    MinCodeLengths,     \* code lengths a dynamic block has at least: 4
    code_length_order,
    RepeatBits, RepeatBase,         \* of the symbols 16, 17 and 18
    length_extra_bits, length_bases,
    distance_extra_bits, distance_bases,
    FixedLiterals, FixedDistances,  \* the tables of build_fixed_trees
    OutputWindow,       \* OUTPUT_WINDOW_SIZE
    OutputBuffer,       \* OUTPUT_BUFFER_SIZE
    MaxInput,           \* bound: bytes of the stream
    MaxDynamicInput     \* the same bound when it has a dynamic block

VARIABLES
    pc,             \* the read that comes next, or what the call does then
    bits,           \* BitReader.bits
    bit_count,      \* BitReader.bit_count
    bytes_read,     \* bytes fetched since the header
    used,           \* history: bits consumed since the header
    final,          \* final_block
    tables,         \* of a dynamic block: counts, lengths and their tree
    trees,          \* literal_tree and distance_tree
    node,           \* where huffman_decode stands
    symbol,         \* the symbol whose extra bits come next
    left,           \* bytes still to copy or to store
    distance,       \* distance of the copy
    window,         \* InflateOutput.window
    output_size,    \* InflateOutput.output_size
    buffer,         \* InflateOutput.buffer
    crc,            \* InflateOutput.crc: the bytes it was updated with
    disk,           \* the output file
    plain           \* history: what the stream says so far

readVars  == <<bits, bit_count, bytes_read, used>>
blockVars == <<final, tables, trees, node, symbol, left, distance>>
sinkVars  == <<window, output_size, buffer, crc, disk>>

Byte       == 0 .. pow2[ByteBits] - 1
EndOfBlock == pow2[ByteBits]

NoTables == [literals |-> 0, distances |-> 0, codes |-> 0, lengths |-> <<>>,
             tree |-> <<>>]
NoTrees  == [literal |-> <<>>, distance |-> <<>>]

ASSUME DeflateAssumption ==
    /\ ByteBits \in Nat \ {0}
    /\ OutputWindow \in Nat \ {0} /\ OutputBuffer \in Nat \ {0}
    /\ {StoredBits, HlitBits, HdistBits, HclenBits, CodeBits} \subseteq Nat

\* What the static tables hold (gzip_decode.c:64-134, 644-662).
ASSUME TableAssumption ==
    /\ RepeatBits \in [1 .. 3 -> Nat]
    /\ length_bases \in Seq(Nat \ {0}) /\ distance_bases \in Seq(Nat)
    /\ length_extra_bits \in [DOMAIN length_bases -> Nat]
    /\ distance_extra_bits \in [DOMAIN distance_bases -> Nat]
    /\ DOMAIN FixedLiterals \subseteq Nat /\ DOMAIN FixedDistances \subseteq Nat

InflateInit ==
    /\ bits = 0 /\ bit_count = 0 /\ bytes_read = 0 /\ used = 0
    /\ final = FALSE
    /\ tables = NoTables /\ trees = NoTrees
    /\ node = <<>> /\ symbol = 0 /\ left = 0 /\ distance = 0
    /\ window = [i \in 0 .. OutputWindow - 1 |-> 0]
    /\ output_size = 0
    /\ buffer = <<>> /\ crc = <<>>
    /\ plain = <<>>

Fail == pc' = "close"

----------------------------------------------------------------------------
\* bit_reader_read

Decodes == {"codeSymbol", "symbol", "distance"}

\* The bits that the next read asks for; nothing else reads the stream.
Width ==
    CASE pc = "final"                              -> 1
      [] pc \in Decodes                            -> 1
      [] pc = "type"                               -> 2
      [] pc \in {"storedLength", "storedInverted"} -> StoredBits
      [] pc = "storedByte"                         -> ByteBits
      [] pc = "hlit"                               -> HlitBits
      [] pc = "hdist"                              -> HdistBits
      [] pc = "hclen"                              -> HclenBits
      [] pc = "codeLength"                         -> CodeBits
      [] pc = "repeat"        -> RepeatBits[symbol - MaxBits]
      [] pc = "lengthExtra"   -> length_extra_bits[symbol - EndOfBlock]
      [] pc = "distanceExtra" -> distance_extra_bits[symbol + 1]
      [] OTHER                                     -> 0

\* Mutant: the reader fetches one byte more than it needs.
FetchAhead ==
    /\ Width > 0 /\ bit_count <= Width
    /\ \/ /\ bytes_read < (IF tables = NoTables THEN MaxInput
                                                ELSE MaxDynamicInput)
          /\ \E byte \in Byte : bits' = bits + byte * pow2[bit_count]
          /\ bit_count' = bit_count + ByteBits
          /\ bytes_read' = bytes_read + 1
          /\ UNCHANGED pc
       \/ Fail /\ UNCHANGED <<bits, bit_count, bytes_read>>
    /\ UNCHANGED <<used, blockVars, sinkVars, plain>>

\* One byte more, the end of the file, or a read error.
Fetch ==
    /\ bit_count < Width
    /\ \/ /\ bytes_read < (IF tables = NoTables THEN MaxInput
                                                ELSE MaxDynamicInput)
          /\ \E byte \in Byte : bits' = bits + byte * pow2[bit_count]
          /\ bit_count' = bit_count + ByteBits
          /\ bytes_read' = bytes_read + 1
          /\ UNCHANGED pc
       \/ Fail /\ UNCHANGED <<bits, bit_count, bytes_read>>
    /\ UNCHANGED <<used, blockVars, sinkVars, plain>>

At(place) == pc = place /\ bit_count >= Width

Value == bits % pow2[Width]

Consume(n) ==
    /\ bits' = bits \div pow2[n]
    /\ bit_count' = bit_count - n
    /\ used' = used + n
    /\ UNCHANGED bytes_read

\* bit_reader_align_byte after n bits were consumed.
ConsumeAndAlign(n) == Consume(n + ((bit_count - n) % ByteBits))

Read(place, next) == At(place) /\ Consume(Width) /\ pc' = next

----------------------------------------------------------------------------
\* output_flush, output_emit

\* fwrite may fail and the callback may cancel; bytes that cannot be written
\* are not counted.
output_flush(pending, next) ==
    \/ /\ disk' = [disk EXCEPT !.items = @ \o pending]
       /\ crc' = crc \o pending
       /\ buffer' = <<>>
       /\ pc' \in {next, "close"}
    \/ /\ pending # <<>>
       /\ buffer' = pending
       /\ Fail
       /\ UNCHANGED <<disk, crc>>

\* Mutant: the ring is written one place ahead of where it is read.
output_emitAhead(value, next) ==
    /\ window' = [window EXCEPT ![(output_size + 1) % OutputWindow] = value]
    /\ output_size' = output_size + 1
    /\ IF Len(buffer) + 1 = OutputBuffer
       THEN output_flush(Append(buffer, value), next)
       ELSE /\ buffer' = Append(buffer, value)
            /\ pc' = next
            /\ UNCHANGED <<disk, crc>>

output_emit(value, next) ==
    /\ window' = [window EXCEPT ![output_size % OutputWindow] = value]
    /\ output_size' = output_size + 1
    /\ IF Len(buffer) + 1 = OutputBuffer
       THEN output_flush(Append(buffer, value), next)
       ELSE /\ buffer' = Append(buffer, value)
            /\ pc' = next
            /\ UNCHANGED <<disk, crc>>

----------------------------------------------------------------------------
\* inflate_deflate_stream, inflate_stored_block

ReadFinal ==
    /\ Read("final", "type")
    /\ final' = (Value = 1)
    /\ UNCHANGED <<tables, trees, node, symbol, left, distance, sinkVars, plain>>

FixedTrees ==
    [literal  |-> huffman_build(FixedLiterals, FALSE).paths,
     distance |-> huffman_build(FixedDistances, FALSE).paths]

ReadType ==
    /\ At("type")
    /\ CASE Value = 0 -> /\ ConsumeAndAlign(Width)
                         /\ pc' = "storedLength"
                         /\ UNCHANGED trees
         [] Value = 1 -> /\ Consume(Width)
                         /\ trees' = FixedTrees
                         /\ pc' = "symbol"
         [] Value = 2 -> Consume(Width) /\ pc' = "hlit" /\ UNCHANGED trees
         [] Value = 3 -> Consume(Width) /\ Fail /\ UNCHANGED trees
    /\ UNCHANGED <<final, tables, node, symbol, left, distance, sinkVars, plain>>

ReadStoredLength ==
    /\ Read("storedLength", "storedInverted")
    /\ left' = Value
    /\ UNCHANGED <<final, tables, trees, node, symbol, distance, sinkVars, plain>>

ReadStoredInverted ==
    /\ At("storedInverted")
    /\ Consume(Width)
    /\ pc' = IF left + Value # pow2[StoredBits] - 1 THEN "close"
             ELSE IF left = 0 THEN "blockEnd" ELSE "storedByte"
    /\ UNCHANGED <<blockVars, sinkVars, plain>>

CopyStored ==
    /\ At("storedByte")
    /\ Consume(Width)
    /\ plain' = Append(plain, Value)
    /\ left' = left - 1
    /\ output_emit(Value, IF left = 1 THEN "blockEnd" ELSE "storedByte")
    /\ UNCHANGED <<final, tables, trees, node, symbol, distance>>

\* The progress report that may cancel, then the next block or the end.
BlockEnd ==
    /\ pc = "blockEnd"
    /\ \/ ~final /\ pc' = "final" /\ UNCHANGED readVars
       \/ final /\ pc' = "flush" /\ ConsumeAndAlign(0)
       \/ Fail /\ UNCHANGED readVars
    /\ trees' = NoTrees
    /\ UNCHANGED <<final, tables, node, symbol, left, distance, sinkVars, plain>>

----------------------------------------------------------------------------
\* huffman_decode

Tree == CASE pc = "codeSymbol" -> tables.tree
          [] pc = "symbol"     -> trees.literal
          [] pc = "distance"   -> trees.distance

Child == Append(node, Value)

\* The bit leads to a symbol.
Decoded(place, s) ==
    /\ At(place)
    /\ s \in DOMAIN Tree /\ Tree[s] = Child
    /\ Consume(1)
    /\ node' = <<>>

\* Mutant: a bit that leads nowhere is read again.
FollowBitForgiving ==
    /\ pc \in Decodes /\ At(pc)
    /\ \A s \in DOMAIN Tree : Tree[s] # Child
    /\ IF Child \in Nodes(Tree) /\ Len(Child) < MaxBits
       THEN node' = Child /\ Consume(1)
       ELSE UNCHANGED <<readVars, node>>
    /\ UNCHANGED <<pc, final, tables, trees, symbol, left, distance, sinkVars,
                   plain>>

\* The bit leads further down, or nowhere.
FollowBit ==
    /\ pc \in Decodes /\ At(pc)
    /\ \A s \in DOMAIN Tree : Tree[s] # Child
    /\ Consume(1)
    /\ IF Child \in Nodes(Tree) /\ Len(Child) < MaxBits
       THEN node' = Child /\ UNCHANGED pc
       ELSE node' = <<>> /\ Fail
    /\ UNCHANGED <<final, tables, trees, symbol, left, distance, sinkVars, plain>>

----------------------------------------------------------------------------
\* build_dynamic_trees

ReadCounts ==
    /\ \/ /\ At("hlit")
          /\ tables' = [tables EXCEPT !.literals = Value + EndOfBlock + 1]
          /\ pc' = IF tables'.literals > EndOfBlock + 1 + Len(length_bases)
                   THEN "close" ELSE "hdist"
       \/ /\ At("hdist")
          /\ tables' = [tables EXCEPT !.distances = Value + 1]
          /\ pc' = "hclen"
       \/ /\ At("hclen")
          /\ tables' = [tables EXCEPT !.codes = Value + MinCodeLengths]
          /\ pc' = "codeLength"
    /\ Consume(Width)
    /\ UNCHANGED <<final, trees, node, symbol, left, distance, sinkVars, plain>>

\* The lengths come in the order of code_length_order; the others are zero.
CodeLengths(lengths) ==
    [s \in 0 .. MaxBits + 3 |->
        LET i == CHOOSE k \in DOMAIN code_length_order : code_length_order[k] = s
        IN IF i <= Len(lengths) THEN lengths[i] ELSE 0]

ReadCodeLength ==
    /\ At("codeLength")
    /\ Consume(Width)
    /\ LET lengths == Append(tables.lengths, Value) IN
       IF Len(lengths) < tables.codes
       THEN tables' = [tables EXCEPT !.lengths = lengths] /\ UNCHANGED pc
       ELSE \E built \in {huffman_build(CodeLengths(lengths), FALSE)} :
               /\ tables' = [tables EXCEPT !.lengths = <<>>, !.tree = built.paths]
               /\ pc' = IF built.ok THEN "codeSymbol" ELSE "close"
    /\ UNCHANGED <<final, trees, node, symbol, left, distance, sinkVars, plain>>

Total == tables.literals + tables.distances

\* The lengths of the literals, and behind them those of the distances.
LiteralLengths(lengths) ==
    [s \in DOMAIN FixedLiterals |->
        IF s < tables.literals THEN lengths[s + 1] ELSE 0]

DistanceLengths(lengths) ==
    [s \in DOMAIN FixedDistances |->
        IF s < tables.distances THEN lengths[tables.literals + s + 1] ELSE 0]

\* n lengths more; the last ones complete the tables.
AddLengths(n, length) ==
    LET lengths == tables.lengths \o [i \in 1 .. n |-> length] IN
       IF Len(lengths) < Total
       THEN /\ tables' = [tables EXCEPT !.lengths = lengths]
            /\ pc' = "codeSymbol"
            /\ UNCHANGED trees
       ELSE /\ tables' = [NoTables EXCEPT !.codes = tables.codes]
            /\ \E literal \in {huffman_build(LiteralLengths(lengths), FALSE)},
                  distant \in {huffman_build(DistanceLengths(lengths), TRUE)} :
               IF lengths[EndOfBlock + 1] # 0 /\ literal.ok /\ distant.ok
               THEN /\ trees' = [literal  |-> literal.paths,
                                 distance |-> distant.paths]
                    /\ pc' = "symbol"
               ELSE Fail /\ UNCHANGED trees

ReadLength ==
    /\ \E s \in 0 .. MaxBits + 3 :
         /\ Decoded("codeSymbol", s)
         /\ IF s <= MaxBits
            THEN AddLengths(1, s) /\ UNCHANGED symbol
            ELSE /\ symbol' = s
                 /\ pc' = IF s = MaxBits + 1 /\ tables.lengths = <<>>
                          THEN "close" ELSE "repeat"
                 /\ UNCHANGED <<tables, trees>>
    /\ UNCHANGED <<final, left, distance, sinkVars, plain>>

ReadRepeat ==
    /\ At("repeat")
    /\ Consume(Width)
    /\ LET n == RepeatBase[symbol - MaxBits] + Value IN
       IF n > Total - Len(tables.lengths)
       THEN Fail /\ UNCHANGED <<tables, trees>>
       ELSE AddLengths(n, IF symbol = MaxBits + 1 THEN Last(tables.lengths)
                                                  ELSE 0)
    /\ symbol' = 0
    /\ UNCHANGED <<final, node, left, distance, sinkVars, plain>>

----------------------------------------------------------------------------
\* inflate_compressed_block

ReadSymbol ==
    /\ \E s \in DOMAIN FixedLiterals :
         /\ Decoded("symbol", s)
         /\ \/ /\ s < EndOfBlock
               /\ plain' = Append(plain, s)
               /\ output_emit(s, "symbol")
               /\ UNCHANGED symbol
            \/ /\ s >= EndOfBlock
               /\ symbol' = IF s = EndOfBlock THEN 0 ELSE s
               /\ pc' = IF s = EndOfBlock THEN "blockEnd"
                        ELSE IF s > EndOfBlock + Len(length_bases) THEN "close"
                        ELSE "lengthExtra"
               /\ UNCHANGED <<sinkVars, plain>>
    /\ UNCHANGED <<final, tables, trees, left, distance>>

ReadLengthExtra ==
    /\ Read("lengthExtra", "distance")
    /\ left' = length_bases[symbol - EndOfBlock] + Value
    /\ UNCHANGED <<final, tables, trees, node, symbol, distance, sinkVars, plain>>

ReadDistance ==
    /\ \E s \in DOMAIN FixedDistances :
         /\ Decoded("distance", s)
         /\ symbol' = s
         /\ pc' = IF s >= Len(distance_bases) THEN "close" ELSE "distanceExtra"
    /\ UNCHANGED <<final, tables, trees, left, distance, sinkVars, plain>>

\* What a copy stands for: the bytes from d before the end, over and over.
Repeated(d, n) ==
    [i \in 1 .. n |-> plain[Len(plain) - d + 1 + ((i - 1) % d)]]

ReadDistanceExtra ==
    /\ At("distanceExtra")
    /\ Consume(Width)
    /\ LET d == distance_bases[symbol + 1] + Value IN
       IF d = 0 \/ d > OutputWindow \/ d > output_size
       THEN Fail /\ UNCHANGED <<distance, plain>>
       ELSE /\ distance' = d
            /\ plain' = plain \o Repeated(d, left)
            /\ pc' = "copy"
    /\ symbol' = 0
    /\ UNCHANGED <<final, tables, trees, node, left, sinkVars>>

\* One round of the loop of output_copy.
CopyByte ==
    /\ pc = "copy"
    /\ left' = left - 1
    /\ output_emit(window[(output_size - distance) % OutputWindow],
                   IF left = 1 THEN "symbol" ELSE "copy")
    /\ UNCHANGED <<readVars, final, tables, trees, node, symbol, distance, plain>>

Inflate ==
    \/ Fetch
    \/ ReadFinal \/ ReadType \/ BlockEnd
    \/ ReadStoredLength \/ ReadStoredInverted \/ CopyStored
    \/ FollowBit
    \/ ReadCounts \/ ReadCodeLength \/ ReadLength \/ ReadRepeat
    \/ ReadSymbol \/ ReadLengthExtra \/ ReadDistance \/ ReadDistanceExtra
    \/ CopyByte

====
