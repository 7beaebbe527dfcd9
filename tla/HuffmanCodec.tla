---------------------------- MODULE HuffmanCodec ----------------------------
(***************************************************************************)
(* huffman_compress writes a text as the payload of a block, and           *)
(* huffman_decompress reads one, behind the checks of format.c: either the *)
(* payload just written, or any other one with the same layout.            *)
(***************************************************************************)
EXTENDS HuffmanCodes

CONSTANTS
    ByteBits,       \* bits of a byte: 8
    MaxData,        \* bound: bytes of a payload that was not written here
    MaxTokens       \* bound: symbols such a payload announces

ASSUME PayloadAssumption ==
    ByteBits \in Nat \ {0} /\ MaxData \in Nat /\ MaxTokens \in Nat

VARIABLES
    phase,      \* which function runs, and its end: "ok" or "fail"
    foreign,    \* history: was the payload not written here?
    payload,    \* code lengths, packed bits, their number, number of symbols
    written,    \* symbols of the text that are written
    wbit,       \* bits written of the next one's code
    rpos,       \* bits read
    node,       \* the tree node they lead to
    out         \* the symbols decoded

writeVars == <<written, wbit>>
readVars  == <<rpos, node, out>>
vars == <<lenVars, codeVars, treeVars, phase, foreign, payload, writeVars,
          readVars>>

Payload == [lengths : [Symbol -> 0 .. MaxCodeBits],
            data : UNION {[1 .. n -> 0 .. pow2[ByteBits] - 1] : n \in 0 .. MaxData},
            bit_count : 0 .. MaxData * ByteBits,
            token_size : 0 .. MaxTokens]

Empty == [lengths |-> [s \in Symbol |-> 0], data |-> <<>>,
          bit_count |-> 0, token_size |-> 0]

Init ==
    /\ \/ /\ text \in UNION {[1 .. n -> Symbol] : n \in 1 .. MaxText}
          /\ phase = "lengths" /\ foreign = FALSE /\ payload = Empty
       \/ /\ payload \in Payload
          /\ phase = "payload" /\ foreign = TRUE /\ text = <<>>
    /\ LenInit /\ CodesIdle /\ TreeIdle
    /\ written = 0 /\ wbit = 0
    /\ rpos = 0 /\ node = 1 /\ out = <<>>

Shift(position) == ByteBits - 1 - (position % ByteBits)

----------------------------------------------------------------------------
\* huffman_compress

LengthsStep ==
    /\ phase = "lengths"
    /\ BuildLengths
    /\ UNCHANGED <<codeVars, treeVars, phase, foreign, payload, writeVars, readVars>>

CodesBegin ==
    /\ phase = "lengths" /\ hpc = "done"
    /\ StartCodes(lengths)
    /\ phase' = "codes"
    /\ hpc' = "returned"
    /\ UNCHANGED <<text, symbol, nodes, heapVars, popped, lengths>>
    /\ UNCHANGED <<treeVars, foreign, payload, writeVars, readVars>>

\* Both functions build the codes.
CodesStep ==
    /\ phase \in {"codes", "table"}
    /\ BuildCodes
    /\ UNCHANGED <<lenVars, treeVars, phase, foreign, payload, writeVars, readVars>>

WriteBegin ==
    /\ phase = "codes" /\ cpc = "ok"
    /\ phase' = "write"
    /\ UNCHANGED <<lenVars, codeVars, treeVars, foreign, payload, writeVars, readVars>>

\* Mutant: a new byte is begun after each full one, not before the next bit.
bit_writer_writeEarly(bit) ==
    LET count == payload.bit_count
        value == bit * pow2[Shift(count)]
    IN payload' = [payload EXCEPT
            !.bit_count = count + 1,
            !.data = IF count = 0 THEN <<value>>
                     ELSE LET d == [@ EXCEPT ![Len(@)] = @ + value]
                          IN IF Shift(count) = 0 THEN Append(d, 0) ELSE d]

\* The first bit of a byte is its highest; the rest of a new byte is zero.
bit_writer_write(bit) ==
    LET count == payload.bit_count
        data  == payload.data
        value == bit * pow2[Shift(count)]
    IN payload' = [payload EXCEPT
            !.bit_count = count + 1,
            !.data = IF count % ByteBits = 0 THEN Append(data, value)
                     ELSE [data EXCEPT ![Len(data)] = @ + value]]

WriteBit ==
    LET code == codes[text[written + 1]] IN
    /\ phase = "write" /\ written < Len(text)
    /\ bit_writer_write(code[wbit + 1])
    /\ IF wbit + 1 = Len(code)
       THEN wbit' = 0 /\ written' = written + 1
       ELSE wbit' = wbit + 1 /\ UNCHANGED written
    /\ UNCHANGED <<lenVars, codeVars, treeVars, phase, foreign, readVars>>

WriteEnd ==
    /\ phase = "write" /\ written = Len(text)
    /\ payload' = [payload EXCEPT !.lengths = lengths,
                                  !.token_size = Len(text)]
    /\ phase' = "payload"
    /\ UNCHANGED <<lenVars, codeVars, treeVars, foreign, writeVars, readVars>>

----------------------------------------------------------------------------
\* decode_compressed_block and huffman_decompress

\* The checks of format.c: sizes that agree, and zeros behind the last bit.
PayloadOK ==
    LET count == payload.bit_count
        bytes == Len(payload.data)
        used  == count % ByteBits
    IN /\ payload.token_size # 0
       /\ count # 0 /\ count <= bytes * ByteBits
       /\ (count - 1) \div ByteBits + 1 = bytes
       /\ used # 0 => Last(payload.data) % pow2[ByteBits - used] = 0

CheckPayload ==
    /\ phase = "payload"
    /\ IF PayloadOK
       THEN phase' = "table" /\ StartCodes(payload.lengths)
       ELSE phase' = "fail" /\ UNCHANGED codeVars
    /\ UNCHANGED <<lenVars, treeVars, foreign, payload, writeVars, readVars>>

TreeBegin ==
    /\ phase = "table" /\ cpc = "ok"
    /\ StartTree
    /\ phase' = "tree"
    /\ UNCHANGED <<lenVars, codeVars, foreign, payload, writeVars, readVars>>

TreeStep ==
    /\ phase = "tree"
    /\ BuildTree
    /\ UNCHANGED <<lenVars, codeVars, phase, foreign, payload, writeVars, readVars>>

ReadBegin ==
    /\ phase = "tree" /\ tpc = "ok"
    /\ phase' = "read"
    /\ UNCHANGED <<lenVars, codeVars, treeVars, foreign, payload, writeVars, readVars>>

\* bit_reader_read.
BitAt(position) ==
    (payload.data[position \div ByteBits + 1] \div pow2[Shift(position)]) % 2

ReadFails == phase' = "fail" /\ UNCHANGED <<node, out>>

ReadBit ==
    LET next == tree[node].child[BitAt(rpos)] IN
    /\ phase = "read" /\ rpos < payload.bit_count
    /\ rpos' = rpos + 1
    /\ IF next = None
       THEN ReadFails
       ELSE IF tree[next].symbol = Inner
       THEN node' = next /\ UNCHANGED <<phase, out>>
       ELSE IF Len(out) >= payload.token_size
       THEN ReadFails
       ELSE /\ out' = Append(out, tree[next].symbol)
            /\ node' = 1
            /\ UNCHANGED phase
    /\ UNCHANGED <<lenVars, codeVars, treeVars, foreign, payload, writeVars>>

\* Mutant: bits that end in the middle of a code are accepted.
ReadEndAnywhere ==
    /\ phase = "read" /\ rpos = payload.bit_count
    /\ phase' = IF Len(out) = payload.token_size THEN "ok" ELSE "fail"
    /\ UNCHANGED <<lenVars, codeVars, treeVars, foreign, payload, writeVars, readVars>>

ReadEnd ==
    /\ phase = "read" /\ rpos = payload.bit_count
    /\ phase' = IF node = 1 /\ Len(out) = payload.token_size
                THEN "ok" ELSE "fail"
    /\ UNCHANGED <<lenVars, codeVars, treeVars, foreign, payload, writeVars, readVars>>

\* A helper has returned 0.
HelperFails ==
    /\ \/ phase = "lengths" /\ hpc = "fail"
       \/ phase \in {"codes", "table"} /\ cpc = "fail"
       \/ phase = "tree" /\ tpc = "fail"
    /\ phase' = "fail"
    /\ UNCHANGED <<lenVars, codeVars, treeVars, foreign, payload, writeVars, readVars>>

Step ==
    \/ LengthsStep \/ CodesBegin \/ CodesStep
    \/ WriteBegin \/ WriteBit \/ WriteEnd
    \/ CheckPayload
    \/ TreeBegin \/ TreeStep
    \/ ReadBegin \/ ReadBit \/ ReadEnd
    \/ HelperFails

Terminated == phase \in {"ok", "fail"} /\ UNCHANGED vars

Next == Step \/ Terminated

Spec == Init /\ [][Next]_vars /\ WF_vars(Step)

----------------------------------------------------------------------------

\* A text that was written is read back: nothing on the way is refused, and
\* the result is the text (huff.c:315-397).
TextSurvives ==
    ~foreign => /\ phase # "fail"
                /\ phase = "ok" => out = text

\* What the decoder has taken from any payload is the codes of what it has
\* put out and the beginning of one more; it ends well only at the end of a
\* code, with all bits used and as many symbols as announced, never more.
DecodedIsCoded ==
    LET bits == [i \in 1 .. payload.bit_count |-> BitAt(i - 1)]
        done == FlattenSeq([i \in DOMAIN out |-> codes[out[i]]])
    IN phase \in {"read", "ok"} =>
         /\ Len(out) <= payload.token_size
         /\ Len(done) <= rpos /\ IsPrefixOf(done, bits)
         /\ Walk(SubSeq(bits, Len(done) + 1, rpos)) = node
         /\ phase = "ok" => /\ Len(done) = payload.bit_count
                            /\ Len(out) = payload.token_size

\* Both functions return, whatever the payload holds.
HuffmanEnds == <>(phase \in {"ok", "fail"})

====
