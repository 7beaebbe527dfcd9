---------------------------- MODULE DeflateTrees ----------------------------
(***************************************************************************)
(* huffman_build (gzip/gzip_decode.c): the code of a table of lengths, and *)
(* the tables it refuses.  A node of the tree is the path of bits that     *)
(* leads to it, a tree the paths of its symbols.                           *)
(***************************************************************************)
EXTENDS Powers, Integers, Sequences, FiniteSets, SequencesExt, FiniteSetsExt

CONSTANTS
    MaxBits,    \* DEFLATE_MAX_BITS
    MaxNodes,   \* HUFFMAN_MAX_NODES
    MaxSymbols  \* bound: symbols of a table in AllTablesMatch

ASSUME TreeAssumption ==
    MaxBits \in Nat \ {0} /\ MaxNodes \in Nat \ {0} /\ MaxSymbols \in Nat

Used(lengths)     == {s \in DOMAIN lengths : lengths[s] # 0}
Counts(lengths,n) == Cardinality({s \in Used(lengths) : lengths[s] = n})

\* The codes of n bits that no shorter code has taken, less those of n bits.
Available(lengths) ==
    LET left[n \in 0 .. MaxBits] ==
            IF n = 0 THEN 1 ELSE 2 * left[n - 1] - Counts(lengths, n)
    IN left

next_code(lengths) ==
    LET code[n \in 1 .. MaxBits] ==
            IF n = 1 THEN 0 ELSE 2 * (code[n - 1] + Counts(lengths, n - 1))
    IN code

SymbolCode(lengths, s) ==
    next_code(lengths)[lengths[s]]
      + Cardinality({r \in Used(lengths) : r < s /\ lengths[r] = lengths[s]})

Path(code, n) == [i \in 1 .. n |-> (code \div pow2[n - i]) % 2]

Nodes(paths) ==
    {<<>>} \cup UNION {{SubSeq(paths[s], 1, k) : k \in 1 .. Len(paths[s])} :
                            s \in DOMAIN paths}

NoTree == [ok |-> FALSE, paths |-> <<>>]

PathsOf(lengths) ==
    [s \in Used(lengths) |-> Path(SymbolCode(lengths, s), lengths[s])]

\* Mutant: a length whose codes have run out goes unnoticed.
huffman_buildUnchecked(lengths, allow_empty) ==
    IF \/ Used(lengths) = {} /\ ~allow_empty
       \/ Cardinality(Nodes(PathsOf(lengths))) > MaxNodes
    THEN NoTree
    ELSE [ok |-> TRUE, paths |-> PathsOf(lengths)]

\* An empty table may be allowed; a table that takes more codes than there
\* are, or a tree that outgrows its array, is refused.  The paths are bound
\* by a set so that TLC works them out once.
huffman_build(lengths, allow_empty) ==
    LET Built(paths) ==
            IF \/ Used(lengths) = {} /\ ~allow_empty
               \/ \E n \in 1 .. MaxBits : Available(lengths)[n] < 0
               \/ \E s \in Used(lengths) :
                     SymbolCode(lengths, s) >= pow2[lengths[s]]
               \/ \E r, s \in Used(lengths) :
                     r # s /\ IsPrefix(paths[r], paths[s])
               \/ Cardinality(Nodes(paths)) > MaxNodes
            THEN NoTree
            ELSE [ok |-> TRUE, paths |-> paths]
    IN CHOOSE tree \in {Built(paths) : paths \in {PathsOf(lengths)}} : TRUE

----------------------------------------------------------------------------

\* The share of the code space, in units of the longest code, that the
\* symbols of a set take.
Space(lengths, symbols) ==
    MapThenSumSet(LAMBDA s : pow2[MaxBits - lengths[s]], symbols)

Before(lengths, s) ==
    {r \in Used(lengths) : \/ lengths[r] < lengths[s]
                           \/ lengths[r] = lengths[s] /\ r < s}

\* What huffman_build has to answer for a table.
Reference(lengths, allow) ==
    LET used    == Used(lengths)
        fits    == Space(lengths, used) <= pow2[MaxBits]
        code(s) == Space(lengths, Before(lengths, s))
                     \div pow2[MaxBits - lengths[s]]
        paths   == [s \in used |-> Path(code(s), lengths[s])]
    IN IF /\ used # {} \/ allow
          /\ fits
          /\ Cardinality(Nodes(paths)) <= MaxNodes
       THEN [ok |-> TRUE, paths |-> paths]
       ELSE NoTree

Tables == UNION {[0 .. n - 1 -> 0 .. MaxBits] : n \in 1 .. MaxSymbols}

\* Constant: huffman_build agrees with it on every short table.
AllTablesMatch ==
    \A lengths \in Tables, allow \in BOOLEAN :
        huffman_build(lengths, allow) = Reference(lengths, allow)

====
