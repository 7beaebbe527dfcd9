--------------------------- MODULE HuffmanLengths ---------------------------
(***************************************************************************)
(* build_code_lengths (huff.c): from the frequencies of the symbols in a   *)
(* text to a Huffman tree, built with a binary heap, and from the tree to  *)
(* the length of each symbol's code.  Nodes and heap slots count from 1.   *)
(***************************************************************************)
EXTENDS Integers, Sequences, FiniteSets, SequencesExt, FiniteSetsExt, Powers

CONSTANTS
    Symbols,        \* HUFFMAN_SYMBOLS: 256
    MaxCodeBits,    \* HUFFMAN_MAX_CODE_BITS: 255
    MaxText         \* bound: bytes of a text

ASSUME SymbolsAssumption ==
    /\ Symbols \in Nat /\ Symbols >= 2
    /\ MaxCodeBits \in Nat /\ MaxCodeBits >= Symbols - 1
    /\ MaxText \in Nat

Symbol   == 0 .. Symbols - 1
MaxNodes == Symbols * 2 - 1
Inner    == -1      \* the symbol of a node that is no leaf

VARIABLES
    text,       \* input: the symbols to code
    hpc,        \* which part of build_code_lengths is next
    symbol,     \* symbol of the leaf loop
    nodes,      \* nodes
    heap,       \* heap.items up to heap.size
    slot,       \* index of the loop in heap_push or heap_pop
    popped,     \* what heap_pop returned for the node to be made
    lengths     \* lengths

heapVars == <<heap, slot>>
lenVars  == <<text, hpc, symbol, nodes, heapVars, popped, lengths>>

Frequency(s) == Cardinality({i \in DOMAIN text : text[i] = s})

Leaf(s) == [frequency |-> Frequency(s), left |-> 0, right |-> 0,
            symbol |-> s, minimum_symbol |-> s]

\* A strict total order of the nodes.
node_less(l, r) ==
    IF nodes[l].frequency # nodes[r].frequency
    THEN nodes[l].frequency < nodes[r].frequency
    ELSE IF nodes[l].minimum_symbol # nodes[r].minimum_symbol
    THEN nodes[l].minimum_symbol < nodes[r].minimum_symbol
    ELSE l < r

Swapped(i, j) == [heap EXCEPT ![i] = heap[j], ![j] = heap[i]]

LenInit ==
    /\ hpc = "leaf"
    /\ symbol = 0
    /\ nodes = <<>>
    /\ heap = <<>>
    /\ slot = 1
    /\ popped = <<>>
    /\ lengths = [s \in Symbol |-> 0]

----------------------------------------------------------------------------

\* heap_push of the node that is made now; SiftUp is its loop.
MakeNode(node) ==
    /\ nodes' = Append(nodes, node)
    /\ heap' = Append(heap, Len(nodes'))
    /\ slot' = Len(heap')
    /\ hpc' = "up"

\* One round of the leaf loop.
NextLeaf ==
    /\ hpc = "leaf" /\ symbol < Symbols
    /\ symbol' = symbol + 1
    /\ IF Frequency(symbol) = 0
       THEN UNCHANGED <<hpc, nodes, heapVars>>
       ELSE MakeNode(Leaf(symbol))
    /\ UNCHANGED <<text, popped, lengths>>

EndLeaves ==
    /\ hpc = "leaf" /\ symbol = Symbols
    /\ hpc' = "merge"
    /\ UNCHANGED <<text, symbol, nodes, heapVars, popped, lengths>>

\* Mutant: the parent of a slot is computed as if slots counted from 0.
SiftUpWrongParent ==
    /\ hpc = "up"
    /\ LET parent == (slot - 1) \div 2 IN
       IF parent >= 1 /\ node_less(heap[slot], heap[parent])
       THEN /\ heap' = Swapped(slot, parent)
            /\ slot' = parent
            /\ UNCHANGED hpc
       ELSE /\ hpc' = IF symbol < Symbols THEN "leaf" ELSE "merge"
            /\ UNCHANGED heapVars
    /\ UNCHANGED <<text, symbol, nodes, popped, lengths>>

\* The loop of heap_push; it returns to one of its two callers.
SiftUp ==
    /\ hpc = "up"
    /\ LET parent == slot \div 2 IN
       IF slot > 1 /\ node_less(heap[slot], heap[parent])
       THEN /\ heap' = Swapped(slot, parent)
            /\ slot' = parent
            /\ UNCHANGED hpc
       ELSE /\ hpc' = IF symbol < Symbols THEN "leaf" ELSE "merge"
            /\ UNCHANGED heapVars
    /\ UNCHANGED <<text, symbol, nodes, popped, lengths>>

\* heap_pop, called twice for each new node; SiftDown is its loop.
PopNode ==
    /\ hpc = "merge"
    /\ Len(popped) < 2 /\ Len(heap) + Len(popped) > 1
    /\ popped' = Append(popped, heap[1])
    /\ heap' = IF Len(heap) = 1 THEN <<>>
               ELSE [Front(heap) EXCEPT ![1] = Last(heap)]
    /\ slot' = 1
    /\ hpc' = "down"
    /\ UNCHANGED <<text, symbol, nodes, lengths>>

\* The least of a heap slot and its children.
Smallest ==
    CHOOSE i \in {slot, 2 * slot, 2 * slot + 1} \cap 1 .. Len(heap) :
        \A j \in {slot, 2 * slot, 2 * slot + 1} \cap 1 .. Len(heap) :
            j = i \/ node_less(heap[i], heap[j])

SiftDown ==
    /\ hpc = "down"
    /\ IF slot <= Len(heap) /\ Smallest # slot
       THEN /\ heap' = Swapped(slot, Smallest)
            /\ slot' = Smallest
            /\ UNCHANGED hpc
       ELSE hpc' = "merge" /\ UNCHANGED heapVars
    /\ UNCHANGED <<text, symbol, nodes, popped, lengths>>

\* Mutant: the new node counts for one of the two only.
MergeLosesOne ==
    /\ hpc = "merge" /\ Len(popped) = 2
    /\ LET l == nodes[popped[1]]
           r == nodes[popped[2]]
       IN MakeNode([frequency |-> r.frequency,
                    left |-> popped[1], right |-> popped[2],
                    symbol |-> Inner,
                    minimum_symbol |-> Min({l.minimum_symbol,
                                            r.minimum_symbol})])
    /\ popped' = <<>>
    /\ UNCHANGED <<text, symbol, lengths>>

\* A new node above the two that were popped.
Merge ==
    /\ hpc = "merge" /\ Len(popped) = 2
    /\ LET l == nodes[popped[1]]
           r == nodes[popped[2]]
       IN IF Len(nodes) >= MaxNodes
          THEN hpc' = "fail" /\ UNCHANGED <<nodes, heapVars>>
          ELSE MakeNode([frequency |-> l.frequency + r.frequency,
                         left |-> popped[1], right |-> popped[2],
                         symbol |-> Inner,
                         minimum_symbol |-> Min({l.minimum_symbol,
                                                 r.minimum_symbol})])
    /\ popped' = <<>>
    /\ UNCHANGED <<text, symbol, lengths>>

\* The text has one symbol only, or none.
OnlySymbol ==
    /\ hpc = "merge" /\ popped = <<>> /\ Len(nodes) <= 1
    /\ IF nodes = <<>>
       THEN hpc' = "fail" /\ UNCHANGED <<heap, lengths>>
       ELSE /\ lengths' = [lengths EXCEPT ![nodes[heap[1]].symbol] = 1]
            /\ heap' = <<>>
            /\ hpc' = "done"
    /\ UNCHANGED <<text, symbol, nodes, slot, popped>>

\* The nodes that the recursion of assign_lengths meets at each depth; the
\* root was made last.
Level[d \in Nat] ==
    IF d = 0 THEN {Len(nodes)}
    ELSE UNION {{nodes[p].left, nodes[p].right} :
                   p \in {q \in Level[d - 1] : nodes[q].symbol = Inner}}

assign_lengths ==
    /\ hpc = "merge" /\ popped = <<>> /\ Len(heap) = 1 /\ Len(nodes) > 1
    /\ LET depths(s) == {d \in 1 .. MaxCodeBits :
                            \E n \in Level[d] : nodes[n].symbol = s}
       IN IF \E n \in Level[MaxCodeBits] : nodes[n].symbol = Inner
          THEN hpc' = "fail" /\ UNCHANGED lengths
          ELSE /\ lengths' = [s \in Symbol |->
                                 IF depths(s) = {} THEN 0
                                 ELSE CHOOSE d \in depths(s) : TRUE]
               /\ hpc' = "done"
    /\ heap' = <<>>
    /\ UNCHANGED <<text, symbol, nodes, slot, popped>>

BuildLengths ==
    \/ NextLeaf
    \/ EndLeaves
    \/ SiftUp
    \/ PopNode
    \/ SiftDown
    \/ Merge
    \/ OnlySymbol
    \/ assign_lengths

----------------------------------------------------------------------------

\* heap_pop returns the least of all nodes it could: between two calls no
\* node in the heap is before one that was just taken out (huff.c:68-103).
PoppedLeast ==
    /\ \A k \in DOMAIN popped, i \in DOMAIN heap : ~node_less(heap[i], popped[k])
    /\ Len(popped) = 2 => node_less(popped[1], popped[2])

\* The sum of a function on the symbols.
Total(f) ==
    LET sum[n \in 0 .. Symbols] == IF n = 0 THEN 0 ELSE sum[n - 1] + f[n - 1]
    IN sum[Symbols]

\* The share of the code space that a code of some length takes, in units of
\* the longest code, and the shares of a table together.
Share(length) == IF length = 0 THEN 0 ELSE pow2[MaxCodeBits - length]

Kraft(table) == Total([s \in Symbol |-> Share(table[s])])

Cost(table) == Total([s \in Symbol |-> Frequency(s) * table[s]])

\* No prefix code for the symbols of the text is shorter, by comparison with
\* every table of lengths that fits the code space; and but for a text of one
\* symbol the code space is used up.
LengthsOptimal ==
    LET used == {s \in Symbol : Frequency(s) > 0}
    IN hpc = "done" =>
         /\ \A s \in Symbol : lengths[s] # 0 <=> s \in used
         /\ Cardinality(used) > 1 => Kraft(lengths) = pow2[MaxCodeBits]
         /\ \A other \in [used -> 1 .. MaxCodeBits] :
              LET table == [s \in Symbol |-> IF s \in used THEN other[s] ELSE 0]
              IN Kraft(table) <= pow2[MaxCodeBits] => Cost(lengths) <= Cost(table)

====
