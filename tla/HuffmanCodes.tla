---------------------------- MODULE HuffmanCodes ----------------------------
(***************************************************************************)
(* build_canonical_codes and build_decode_tree (huff.c): from a table of   *)
(* code lengths, which may come from a damaged archive, to the code of     *)
(* each symbol, and from the codes to the tree the decoder walks.  A code  *)
(* is a sequence of bits; tree nodes count from 1, child 0 is none.        *)
(***************************************************************************)
EXTENDS HuffmanLengths

Bit  == {0, 1}
None == 0

VARIABLES
    cpc,        \* which part of build_canonical_codes is next
    table,      \* its argument
    order,      \* the symbols in use, by length and then by symbol
    coded,      \* how many of them have their code
    current,    \* the first previous_length bits of current
    codes       \* codes; <<>> for a symbol without one

VARIABLES
    tpc,        \* which part of build_decode_tree is next
    tree,       \* its nodes
    tsymbol,    \* the symbol whose code is entered
    depth,      \* bits of that code entered so far
    at          \* the node they lead to

codeVars == <<cpc, table, order, coded, current, codes>>
treeVars == <<tpc, tree, tsymbol, depth, at>>

Fresh == [child |-> [b \in Bit |-> None], symbol |-> Inner]

CodesIdle ==
    /\ cpc = "idle"
    /\ table = [s \in Symbol |-> 0]
    /\ order = <<>>
    /\ coded = 0
    /\ current = <<>>
    /\ codes = [s \in Symbol |-> <<>>]

TreeIdle ==
    /\ tpc = "idle"
    /\ tree = <<Fresh>>
    /\ tsymbol = 0
    /\ depth = 0
    /\ at = 1

----------------------------------------------------------------------------

\* The order that the insertion sort makes; it is a strict one.
Earlier(arg, s, t) == arg[s] < arg[t] \/ (arg[s] = arg[t] /\ s < t)

Sorted(arg) ==
    LET used == {s \in Symbol : arg[s] # 0}
    IN CHOOSE sorted \in [1 .. Cardinality(used) -> used] :
          \A i, j \in DOMAIN sorted : i < j => Earlier(arg, sorted[i], sorted[j])

\* The call of build_canonical_codes.
StartCodes(arg) ==
    /\ table' = arg
    /\ order' = Sorted(arg)
    /\ coded' = 0
    /\ current' = <<>>
    /\ codes' = [s \in Symbol |-> <<>>]
    /\ cpc' = IF order' = <<>> THEN "fail" ELSE "code"

\* increment_code: the last zero becomes one, the ones behind it zero.
CanIncrement(bits) == 0 \in ToSet(bits)

Incremented(bits) ==
    LET zero == Max({i \in DOMAIN bits : bits[i] = 0})
    IN [i \in DOMAIN bits |->
           IF i < zero THEN bits[i] ELSE IF i = zero THEN 1 ELSE 0]

Padded(bits, length) ==
    [i \in 1 .. length |-> IF i <= Len(bits) THEN bits[i] ELSE 0]

Give(s, code) ==
    /\ codes' = [codes EXCEPT ![s] = code]
    /\ current' = code
    /\ coded' = coded + 1
    /\ UNCHANGED <<cpc, table, order>>

FirstCode ==
    /\ cpc = "code" /\ coded = 0
    /\ LET s == order[1] IN Give(s, Padded(<<>>, table[s]))

\* Mutant: the code is not incremented before it is made longer.
NextCodeRepeats ==
    /\ cpc = "code" /\ coded \in 1 .. Len(order) - 1
    /\ LET s == order[coded + 1] IN Give(s, Padded(current, table[s]))

NextCode ==
    /\ cpc = "code" /\ coded \in 1 .. Len(order) - 1
    /\ CanIncrement(current)
    /\ LET s == order[coded + 1]
       IN Give(s, Padded(Incremented(current), table[s]))

\* No code of this length is left.
NoCodeLeft ==
    /\ cpc = "code" /\ coded \in 1 .. Len(order) - 1
    /\ ~CanIncrement(current)
    /\ cpc' = "fail"
    /\ UNCHANGED <<table, order, coded, current, codes>>

EndCodes ==
    /\ cpc = "code" /\ coded = Len(order)
    /\ cpc' = "ok"
    /\ UNCHANGED <<table, order, coded, current, codes>>

BuildCodes == FirstCode \/ NextCode \/ NoCodeLeft \/ EndCodes

----------------------------------------------------------------------------

\* The call of build_decode_tree.
StartTree ==
    /\ tpc' = "symbol"
    /\ tree' = <<Fresh>>
    /\ tsymbol' = 0
    /\ UNCHANGED <<depth, at>>

TreeFails == tpc' = "fail" /\ UNCHANGED <<tree, tsymbol, depth, at>>

\* Mutant: a symbol without a code is looked at again and again.
NextSymbolStays ==
    /\ tpc = "symbol" /\ tsymbol < Symbols
    /\ IF codes[tsymbol] = <<>>
       THEN UNCHANGED <<tpc, tsymbol, depth, at>>
       ELSE tpc' = "bit" /\ depth' = 0 /\ at' = 1 /\ UNCHANGED tsymbol
    /\ UNCHANGED tree

NextSymbol ==
    /\ tpc = "symbol" /\ tsymbol < Symbols
    /\ IF codes[tsymbol] = <<>>
       THEN tsymbol' = tsymbol + 1 /\ UNCHANGED <<tpc, depth, at>>
       ELSE tpc' = "bit" /\ depth' = 0 /\ at' = 1 /\ UNCHANGED tsymbol
    /\ UNCHANGED tree

\* Mutant: the limit on the nodes is not tested.
EnterBitUnlimited ==
    LET bit == codes[tsymbol][depth + 1]
        next == tree[at].child[bit]
    IN /\ tpc = "bit" /\ depth < Len(codes[tsymbol])
       /\ IF tree[at].symbol # Inner
          THEN TreeFails
          ELSE /\ IF next # None
                  THEN at' = next /\ UNCHANGED tree
                  ELSE /\ at' = Len(tree) + 1
                       /\ tree' = Append([tree EXCEPT
                                            ![at].child[bit] = at'], Fresh)
               /\ depth' = depth + 1
               /\ UNCHANGED <<tpc, tsymbol>>

\* One round of the inner loop.
EnterBit ==
    LET bit == codes[tsymbol][depth + 1]
        next == tree[at].child[bit]
    IN /\ tpc = "bit" /\ depth < Len(codes[tsymbol])
       /\ IF \/ tree[at].symbol # Inner
             \/ next = None /\ Len(tree) >= MaxNodes
          THEN TreeFails
          ELSE /\ IF next # None
                  THEN at' = next /\ UNCHANGED tree
                  ELSE /\ at' = Len(tree) + 1
                       /\ tree' = Append([tree EXCEPT
                                            ![at].child[bit] = at'], Fresh)
               /\ depth' = depth + 1
               /\ UNCHANGED <<tpc, tsymbol>>

\* The code ends at a node that must be new.
EndCode ==
    /\ tpc = "bit" /\ depth = Len(codes[tsymbol])
    /\ IF tree[at] # Fresh
       THEN TreeFails
       ELSE /\ tree' = [tree EXCEPT ![at].symbol = tsymbol]
            /\ tsymbol' = tsymbol + 1
            /\ tpc' = "symbol"
            /\ UNCHANGED <<depth, at>>

EndTree ==
    /\ tpc = "symbol" /\ tsymbol = Symbols
    /\ tpc' = "ok"
    /\ UNCHANGED <<tree, tsymbol, depth, at>>

BuildTree == NextSymbol \/ EnterBit \/ EndCode \/ EndTree

----------------------------------------------------------------------------

IsPrefixOf(a, b) == Len(a) <= Len(b) /\ SubSeq(b, 1, Len(a)) = a

\* Whatever the table says: the symbols get codes of their lengths, none a
\* prefix of another, exactly if the lengths fit the code space (README.md:
\* "The decoder validates the ... Canonical Huffman table").
CodesFitTheTable ==
    LET used == {s \in Symbol : table[s] # 0} IN
    /\ cpc = "ok" =>
         /\ \A s \in Symbol : Len(codes[s]) = table[s]
         /\ \A s, t \in used : s # t => ~IsPrefixOf(codes[s], codes[t])
    /\ cpc = "ok"   => used # {} /\ Kraft(table) <= pow2[MaxCodeBits]
    /\ cpc = "fail" => used = {} \/ Kraft(table) > pow2[MaxCodeBits]

\* The node that a sequence of bits leads to, or None.
Walk(bits) ==
    LET node[k \in 0 .. Len(bits)] ==
            IF k = 0 THEN 1
            ELSE IF node[k - 1] = None THEN None
            ELSE tree[node[k - 1]].child[bits[k]]
    IN node[Len(bits)]

\* The distinct nodes that the codes need.
CodePaths == UNION {{SubSeq(codes[s], 1, k) : k \in 0 .. Len(codes[s])} :
                      s \in Symbol}

\* The tree stays in its array, a finished one leads along each code to the
\* symbol of that code, and a table is refused here only when its codes need
\* more nodes than there are (huff.c:290-308).
TreeFitsTheCodes ==
    /\ Len(tree) <= MaxNodes
    /\ tpc = "ok" =>
         \A s \in Symbol : codes[s] # <<>> =>
             Walk(codes[s]) # None /\ tree[Walk(codes[s])].symbol = s
    /\ tpc = "fail" => Cardinality(CodePaths) > MaxNodes

====
