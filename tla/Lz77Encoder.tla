---------------------------- MODULE Lz77Encoder ----------------------------
(***************************************************************************)
(* lz77_compress (lz77.c): a hash-chain match finder and its token stream. *)
(* Offsets are 0-based as in the code; In(p) is input[p].  A byte is a     *)
(* number below Radix.                                                     *)
(* Entries of the array "previous" exist once written: malloc leaves the   *)
(* others uninitialised, and reading one yields any value.                 *)
(***************************************************************************)
EXTENDS Lz77Format

CONSTANTS
    MaxChain,   \* LZ77_MAX_CHAIN: 128
    HashBase,   \* 251
    HashSize,   \* LZ77_HASH_SIZE: 65536
    MaxInput    \* bound: bytes of one block

ASSUME EncoderAssumption ==
    /\ MaxChain \in Nat
    /\ HashBase \in Nat
    /\ HashSize \in Nat \ {0}
    /\ MaxInput \in Nat

VARIABLES
    input,         \* the block
    epc,           \* which part of the main loop is next
    position,      \* position
    head,          \* head[hash_bytes]
    previous,      \* previous[position], where written
    candidate,     \* candidate
    searched,      \* searched
    bestLength,    \* best_length
    bestDistance,  \* best_distance
    advance,       \* bytes the token just emitted stands for
    inserted,      \* how many of them insert_position has seen
    encoded,       \* the bytes written to the output
    marks          \* history: where each token ends, in both streams

searchVars == <<candidate, searched, bestLength, bestDistance>>
tableVars  == <<head, previous>>
outVars    == <<encoded, marks>>
encVars == <<input, epc, position, searchVars, tableVars, advance, inserted,
             outVars>>

In(p) == input[p + 1]
Size  == Len(input)

hash_bytes(p) ==
    ((In(p) * HashBase + In(p + 1)) * HashBase + In(p + 2)) % HashSize

EncTypeOK ==
    /\ input \in Seq(Byte)
    /\ epc \in {"token", "search", "emit", "insert", "done"}
    /\ position \in Nat
    /\ head \in [0 .. HashSize - 1 -> Int]
    /\ \A p \in DOMAIN previous : previous[p] \in Int
    /\ candidate \in Int
    /\ searched \in Nat
    /\ bestLength \in Nat
    /\ bestDistance \in Nat
    /\ advance \in Nat
    /\ inserted \in Nat
    /\ encoded \in Seq(Byte)
    /\ marks \in Seq([at : Nat, offset : Nat])

EncInit ==
    /\ input \in UNION {[1 .. n -> Byte] : n \in 0 .. MaxInput}
    /\ epc = "token"
    /\ position = 0
    /\ head = [h \in 0 .. HashSize - 1 |-> -1]
    /\ previous = [p \in {} |-> -1]
    /\ candidate = -1
    /\ searched = 0
    /\ bestLength = 0
    /\ bestDistance = 0
    /\ advance = 0
    /\ inserted = 0
    /\ encoded = <<>>
    /\ marks = <<[at |-> 0, offset |-> 0]>>

----------------------------------------------------------------------------

\* The head of the main loop: look up the chain if three bytes are left.
BeginToken ==
    /\ epc = "token"
    /\ position < Size
    /\ bestLength' = 0
    /\ bestDistance' = 0
    /\ searched' = 0
    /\ IF position + MinMatch <= Size
       THEN candidate' = head[hash_bytes(position)] /\ epc' = "search"
       ELSE epc' = "emit" /\ UNCHANGED candidate
    /\ UNCHANGED <<input, position, tableVars, advance, inserted, outVars>>

\* Mutant: a candidate is tried however far behind it is.
SearchEndsAnywhere == candidate < 0 \/ searched >= MaxChain

SearchEnds ==
    \/ candidate < 0
    \/ searched >= MaxChain
    \/ position - candidate > Window

\* length bytes at c and at position agree, and no more do below the limit.
Limit == IF Size - position > MaxMatch THEN MaxMatch ELSE Size - position

Agree(c, length) == \A i \in 0 .. length - 1 : In(c + i) = In(position + i)

MatchLength(c, length) ==
    /\ Agree(c, length)
    /\ length < Limit => In(c + length) # In(position + length)

\* previous[c]: any value where nothing was written.
Previous(c) == IF c \in DOMAIN previous THEN {previous[c]} ELSE -1 .. Size - 1

EndSearch ==
    /\ epc = "search"
    /\ SearchEnds
    /\ epc' = "emit"
    /\ UNCHANGED <<input, position, searchVars, tableVars, advance, inserted,
                   outVars>>

\* One iteration of the chain search.
TryCandidate ==
    /\ epc = "search"
    /\ ~SearchEnds
    /\ \E length \in 0 .. Limit :
         /\ MatchLength(candidate, length)
         /\ IF length > bestLength
            THEN bestLength' = length /\ bestDistance' = position - candidate
            ELSE UNCHANGED <<bestLength, bestDistance>>
         /\ IF length > bestLength /\ length = Limit
            THEN epc' = "emit" /\ UNCHANGED <<candidate, searched>>
            ELSE /\ candidate' \in Previous(candidate)
                 /\ searched' = searched + 1
                 /\ UNCHANGED epc
    /\ UNCHANGED <<input, position, tableVars, advance, inserted, outVars>>

Emit(bytes, covers) ==
    /\ encoded' = encoded \o bytes
    /\ marks' = Append(marks, [at |-> position + covers,
                               offset |-> Len(encoded')])
    /\ advance' = covers
    /\ inserted' = 0
    /\ epc' = "insert"
    /\ UNCHANGED <<input, position, searchVars, tableVars>>

\* Mutant: the best match is taken however short it is.
EmitMatchAnyLength ==
    /\ epc = "emit"
    /\ bestLength >= 1
    /\ Emit(MatchToken(bestLength, bestDistance), bestLength)

EmitMatch ==
    /\ epc = "emit"
    /\ bestLength >= MinMatch
    /\ Emit(MatchToken(bestLength, bestDistance), bestLength)

EmitLiteral ==
    /\ epc = "emit"
    /\ bestLength < MinMatch
    /\ Emit(LiteralToken(In(position)), 1)

\* Mutant: head is updated first, and the entry then points to itself.
insert_positionHeadFirst(p) ==
    IF p + MinMatch > Size
    THEN UNCHANGED tableVars
    ELSE /\ previous' = [q \in DOMAIN previous \cup {p} |->
                            IF q = p THEN p ELSE previous[q]]
         /\ head' = [head EXCEPT ![hash_bytes(p)] = p]

\* insert_position for the next byte the token covers.
insert_position(p) ==
    IF p + MinMatch > Size
    THEN UNCHANGED tableVars
    ELSE /\ previous' = [q \in DOMAIN previous \cup {p} |->
                            IF q = p THEN head[hash_bytes(p)] ELSE previous[q]]
         /\ head' = [head EXCEPT ![hash_bytes(p)] = p]

\* Mutant: the loop does not step over the bytes too near the end to hash.
InsertNextStops ==
    /\ epc = "insert"
    /\ inserted < advance
    /\ insert_position(position + inserted)
    /\ inserted' = IF position + inserted + MinMatch > Size THEN inserted
                   ELSE inserted + 1
    /\ UNCHANGED <<input, epc, position, searchVars, advance, outVars>>

InsertNext ==
    /\ epc = "insert"
    /\ inserted < advance
    /\ insert_position(position + inserted)
    /\ inserted' = inserted + 1
    /\ UNCHANGED <<input, epc, position, searchVars, advance, outVars>>

Advance ==
    /\ epc = "insert"
    /\ inserted = advance
    /\ position' = position + advance
    /\ epc' = "token"
    /\ UNCHANGED <<input, searchVars, tableVars, advance, inserted, outVars>>

FinishEncoding ==
    /\ epc = "token"
    /\ position >= Size
    /\ epc' = "done"
    /\ UNCHANGED <<input, position, searchVars, tableVars, advance, inserted,
                   outVars>>

Encode ==
    \/ BeginToken
    \/ EndSearch
    \/ TryCandidate
    \/ EmitMatch
    \/ EmitLiteral
    \/ InsertNext
    \/ Advance
    \/ FinishEncoding

----------------------------------------------------------------------------

\* The encoded stream fits the buffer of 2 * input_size bytes (lz77.c:44)
\* at every moment, with room for the token about to be written.
FitsBuffer == Len(encoded) <= 2 * Size

\* The chain search never reads an entry of "previous" that was not written,
\* and follows the chain strictly backwards (lz77.c:97).
ChainInitialised ==
    epc = "search" /\ candidate >= 0 =>
        /\ candidate \in DOMAIN previous
        /\ candidate < position
        /\ previous[candidate] < candidate

\* A match the encoder settles on is real: so many bytes agree, at a distance
\* that the decoder has already produced and that fits the window.
BestIsMatch ==
    epc \in {"search", "emit"} /\ bestLength > 0 =>
        /\ bestDistance \in 1 .. Window
        /\ bestDistance <= position
        /\ position + bestLength <= Size
        /\ bestLength <= MaxMatch
        /\ Agree(position - bestDistance, bestLength)

\* How far the tokens written so far reach, and how far the chains do.
Reached == IF epc = "insert" THEN position + advance ELSE position
Indexed == IF epc = "insert" THEN position + inserted ELSE position

PositionInv ==
    /\ position <= Size
    /\ epc \in {"search", "emit", "insert"} => position < Size
    /\ epc = "search" => position + MinMatch <= Size
    /\ epc = "insert" => inserted <= advance /\ position + advance <= Size
    /\ epc = "done" => position = Size
    /\ Len(encoded) <= 2 * Reached

\* Chains hold written entries only and lead strictly backwards.
ChainInv ==
    /\ DOMAIN previous \subseteq 0 .. Indexed - 1
    /\ \A h \in 0 .. HashSize - 1 : head[h] = -1 \/ head[h] \in DOMAIN previous
    /\ \A p \in DOMAIN previous :
         previous[p] = -1 \/ (previous[p] \in DOMAIN previous /\ previous[p] < p)
    /\ epc = "search" => candidate = -1 \/ candidate \in DOMAIN previous

\* The token between mark k and mark k + 1: a literal, or a match.
LiteralAt(k) ==
    LET a == marks[k].at
        o == marks[k].offset
    IN /\ marks[k + 1].at = a + 1 /\ a < Size
       /\ marks[k + 1].offset = o + 2
       /\ encoded[o + 1] = TOKEN_LITERAL
       /\ encoded[o + 2] = In(a)

MatchAt(k) ==
    LET a == marks[k].at
        o == marks[k].offset
        len == Value(encoded[o + 2], encoded[o + 3])
        dist == Value(encoded[o + 4], encoded[o + 5])
    IN /\ marks[k + 1].at = a + len /\ a + len <= Size
       /\ marks[k + 1].offset = o + 5
       /\ encoded[o + 1] = TOKEN_MATCH
       /\ len \in MinMatch .. MaxMatch
       /\ dist \in 1 .. Window /\ dist <= a
       /\ \A i \in 0 .. len - 1 : In(a - dist + i) = In(a + i)

\* The encoded bytes are well-formed tokens that retell the input so far.
MarksInv ==
    /\ Len(marks) >= 1
    /\ marks[1] = [at |-> 0, offset |-> 0]
    /\ marks[Len(marks)] = [at |-> Reached, offset |-> Len(encoded)]
    /\ \A k \in 1 .. Len(marks) - 1 :
         /\ marks[k + 1].offset <= Len(encoded)
         /\ LiteralAt(k) \/ MatchAt(k)

====
