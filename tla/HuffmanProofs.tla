--------------------------- MODULE HuffmanProofs ----------------------------
(***************************************************************************)
(* The code lengths that build_code_lengths makes, whatever the number of  *)
(* symbols and their frequencies, and the codes that build_canonical_codes *)
(* makes, whatever the table of lengths.                                   *)
(*                                                                         *)
(* node_less is a strict total order of the nodes (BeforeTotal,            *)
(* BeforeTransitive), and what matters of a heap is the order between a    *)
(* slot and its parent.  While heap_push sifts up or heap_pop sifts down,  *)
(* one slot is exempt from it, and HeapInv says which and how its children *)
(* stand to its parent.  That the root comes before all others follows by  *)
(* looking at the first slot it does not come before.                      *)
(*                                                                         *)
(* The nodes are a forest: first the leaves, then the mergers, each of     *)
(* which leaves one node less to merge, so that there is room for the next *)
(* one.  A node is above later than below, so no depth exceeds the number  *)
(* of mergers.  In the one tree at the end, the share of a node is that of *)
(* its two children together: what the leaves have is all of it            *)
(* (LeavesFill), and these are the lengths that assign_lengths gives.      *)
(*                                                                         *)
(* No other lengths make the text shorter.  A table that fits the code     *)
(* space gives the leaves depths; the two lightest may trade places with   *)
(* the deepest ones (TwoDeepest), become siblings (TwoSiblings) and be     *)
(* taken for one leaf a level up (Joined), at no cost.  Thrift says that   *)
(* each merger took the two lightest nodes, so every table costs at least  *)
(* what all mergers weigh (LeastCost), and this one no more (OwnCost).     *)
(*                                                                         *)
(* A code is a number: Value counts it in units of the longest code, and a *)
(* code of some length takes a Share of the numbers behind it.  The next   *)
(* code of build_canonical_codes is the one whose Value is the end of the  *)
(* share of the last one (FollowerFacts), so the codes given so far fill   *)
(* the code space from 0 on, and there is no next one exactly if the       *)
(* lengths do not fit.  That a code comes before another in the order of   *)
(* branches, not only as a number, is kept for all pairs at once.  The     *)
(* Value of each code is the share of those before it, so the lengths      *)
(* alone determine the codes (StandardUnique).                             *)
(***************************************************************************)
EXTENDS HuffmanCodec, NatLemmas, SequenceTheorems, FiniteSetTheorems

----------------------------------------------------------------------------
(* The invariant of the heap.                                              *)

Node == [frequency : Nat, left : Nat, right : Nat,
         symbol : Symbol \cup {Inner}, minimum_symbol : Symbol]

LenTypes ==
    /\ IsFiniteSet(DOMAIN text)
    /\ symbol \in 0 .. Symbols
    /\ nodes \in Seq(Node)
    /\ heap \in Seq(DOMAIN nodes)
    /\ popped \in Seq(DOMAIN nodes) /\ Len(popped) <= 2
    /\ hpc \in {"leaf", "up"} => popped = <<>>
    /\ hpc \in {"up", "down"} => slot \in Nat \ {0}
    /\ hpc = "up" => slot <= Len(heap)

\* Each node is in the heap once, and not if it is popped.
NodesOnce ==
    /\ \A i, j \in DOMAIN heap : heap[i] = heap[j] => i = j
    /\ \A i \in DOMAIN heap : heap[i] \notin ToSet(popped)

\* No slot is before its parent, but for the one that moves up, or the
\* children of the one that moves down; the children of either are not
\* before its own parent.
HeapOrder ==
    /\ \A i \in 2 .. Len(heap) :
          \/ hpc = "up"   /\ i = slot
          \/ hpc = "down" /\ i \div 2 = slot
          \/ ~node_less(heap[i], heap[i \div 2])
    /\ hpc \in {"up", "down"} /\ slot > 1 =>
          \A i \in 2 .. Len(heap) :
             i \div 2 = slot => ~node_less(heap[i], heap[slot \div 2])

HeapInv == LenTypes /\ NodesOnce /\ HeapOrder /\ PoppedLeast

----------------------------------------------------------------------------
(* The invariant of the forest and of the lengths.                         *)

Building == hpc \in {"leaf", "up", "down", "merge"}

IsParent(p, n) == nodes[p].symbol = Inner /\ n \in {nodes[p].left, nodes[p].right}

\* A leaf for each symbol that was met and is in the text, and each node in
\* the heap or below one other node.
Forest ==
    /\ \A n \in DOMAIN nodes :
          IF nodes[n].symbol = Inner
          THEN /\ nodes[n].left \in 1 .. n - 1 /\ nodes[n].right \in 1 .. n - 1
               /\ nodes[n].left # nodes[n].right
          ELSE Frequency(nodes[n].symbol) > 0 /\ nodes[n].symbol < symbol
    /\ \A s \in Symbol : s < symbol /\ Frequency(s) > 0 =>
          \E n \in DOMAIN nodes : nodes[n].symbol = s
    /\ \A m, n \in DOMAIN nodes :
          nodes[m].symbol = nodes[n].symbol /\ nodes[m].symbol # Inner => m = n
    /\ \A n, p, q \in DOMAIN nodes : IsParent(p, n) /\ IsParent(q, n) => p = q
    /\ Building => \A n \in DOMAIN nodes :
          n \in ToSet(heap) \cup ToSet(popped) <=> ~\E p \in DOMAIN nodes : IsParent(p, n)

\* The leaves come first, and each merger has left one node less to merge.
LeavesFirst(count) ==
    /\ count \in 0 .. symbol /\ count <= Len(nodes)
    /\ \A n \in DOMAIN nodes : nodes[n].symbol # Inner <=> n <= count
    /\ hpc = "leaf" \/ (hpc = "up" /\ symbol < Symbols) => count = Len(nodes)
    /\ hpc \in {"merge", "down"} => symbol = Symbols
    /\ Building => Len(nodes) + Len(heap) + Len(popped) = 2 * count

\* Each symbol of the text gets a length, and nothing fails unless there is
\* none; the lengths fill the code space, unless there is one of one bit.
LengthsStand ==
    /\ Building => lengths = [s \in Symbol |-> 0]
    /\ hpc \in {"done", "returned"} =>
          /\ \A s \in Symbol : lengths[s] # 0 <=> Frequency(s) > 0
          /\ Kraft(lengths) <= pow2[MaxCodeBits]
          /\ \/ Kraft(lengths) = pow2[MaxCodeBits]
             \/ /\ Cardinality({s \in Symbol : Frequency(s) > 0}) = 1
                /\ \A s \in Symbol : lengths[s] <= 1
    /\ hpc = "fail" => \A s \in Symbol : Frequency(s) = 0

ForestInv == Forest /\ (\E count \in 0 .. symbol : LeavesFirst(count)) /\ LengthsStand

----------------------------------------------------------------------------
(* The invariants of the codes and of the decode tree.                     *)

CodeTypes ==
    /\ cpc \in {"idle", "code", "ok", "fail"}
    /\ table \in [Symbol -> 0 .. MaxCodeBits]
    /\ coded \in 0 .. Len(order)
    /\ codes \in [Symbol -> Seq(Bit)]

\* order has each symbol in use, each later one with a code no shorter.
OrderIsSorted ==
    /\ order \in Seq(Symbol)
    /\ ToSet(order) = {s \in Symbol : table[s] # 0}
    /\ \A i, j \in DOMAIN order : i < j => Earlier(table, order[i], order[j])

\* The symbols have their codes in this order, the last one is current.
CodesGiven ==
    /\ \A s \in Symbol :
          Len(codes[s]) = IF \E i \in 1 .. coded : order[i] = s THEN table[s] ELSE 0
    /\ coded > 0 => current = codes[order[coded]]
    /\ cpc = "code" => order # <<>>

\* a comes before b, and neither begins with the other.
BranchesBefore(a, b) ==
    \E d \in DOMAIN a \cap DOMAIN b :
        /\ \A k \in 1 .. d - 1 : a[k] = b[k]
        /\ a[d] = 0 /\ b[d] = 1

CodesAscend ==
    \A i, j \in 1 .. coded :
        i < j => BranchesBefore(codes[order[i]], codes[order[j]])

\* A code as a number, in units of the longest code.
Value(bits) ==
    LET sum[k \in 0 .. Len(bits)] ==
            IF k = 0 THEN 0
            ELSE sum[k - 1] + (IF bits[k] = 1 THEN Share(k) ELSE 0)
    IN sum[Len(bits)]

\* The codes so far take up all of the code space up to the end of the last.
CodesFillUp ==
    coded > 0 => Value(current) + Share(Len(current))
                     = Kraft([s \in Symbol |-> Len(codes[s])])

\* The lengths of the symbols whose codes come before the one of s.
Sooner(arg, s) == [t \in Symbol |-> IF Earlier(arg, t, s) THEN arg[t] ELSE 0]

\* Each code is where those before it end.
CodesInPlace ==
    \A i \in 1 .. coded :
        Value(codes[order[i]]) = Kraft(Sooner(table, order[i]))

\* The lengths leave no choice of the codes.
Standard(arg, cs) ==
    /\ cs \in [Symbol -> Seq(Bit)]
    /\ \A s \in Symbol :
          /\ Len(cs[s]) = arg[s]
          /\ arg[s] # 0 => Value(cs[s]) = Kraft(Sooner(arg, s))

CodesInv ==
    /\ CodeTypes /\ OrderIsSorted /\ CodesGiven
    /\ CodesAscend /\ CodesFillUp
    /\ CodesFitTheTable

TreeTypes ==
    /\ tpc \in {"idle", "symbol", "bit", "ok", "fail"}
    /\ tree \in Seq([child : [Bit -> Nat], symbol : Symbol \cup {Inner}])
    /\ Len(tree) \in 1 .. MaxNodes
    /\ tsymbol \in 0 .. Symbols
    /\ tpc = "bit" =>
          /\ tsymbol \in Symbol /\ codes[tsymbol] # <<>>
          /\ depth \in 0 .. Len(codes[tsymbol])
          /\ at \in DOMAIN tree
    /\ tpc = "ok" => tsymbol = Symbols

\* path tells the bits that lead to each node.
PathsOfNodes(path) ==
    /\ path \in [DOMAIN tree -> CodePaths]
    /\ path[1] = <<>>
    /\ \A m, n \in DOMAIN tree : path[m] = path[n] => m = n
    /\ \A n \in DOMAIN tree, b \in Bit :
          /\ tree[n].child[b] \in {None} \cup DOMAIN tree
          /\ \A m \in DOMAIN tree :
                tree[n].child[b] = m <=> path[m] = Append(path[n], b)
    /\ \A n \in DOMAIN tree : \A k \in 0 .. Len(path[n]) :
          \E m \in DOMAIN tree : path[m] = SubSeq(path[n], 1, k)

\* Each node stands for the beginning of a code, a leaf for all of it.
TreeStands(path) ==
    /\ PathsOfNodes(path)
    /\ \A n \in DOMAIN tree : tree[n].symbol # Inner =>
          /\ tree[n].symbol < tsymbol
          /\ codes[tree[n].symbol] # <<>>
          /\ path[n] = codes[tree[n].symbol]
    /\ \A s \in Symbol : s < tsymbol /\ codes[s] # <<>> =>
          \E n \in DOMAIN tree : path[n] = codes[s] /\ tree[n].symbol = s
    /\ tpc = "bit" => path[at] = SubSeq(codes[tsymbol], 1, depth)

TreeHoldsCodes == tpc # "idle" => \E path : TreeStands(path)

TreeInv ==
    /\ TreeTypes /\ TreeHoldsCodes
    /\ tpc = "fail" => Cardinality(CodePaths) > MaxNodes

----------------------------------------------------------------------------
(* The order of the nodes, and halves.                                     *)

\* node_less, as a relation of the nodes alone.
Before(ns, l, r) ==
    IF ns[l].frequency # ns[r].frequency
    THEN ns[l].frequency < ns[r].frequency
    ELSE IF ns[l].minimum_symbol # ns[r].minimum_symbol
    THEN ns[l].minimum_symbol < ns[r].minimum_symbol
    ELSE l < r

LEMMA LessIsBefore ==
  ASSUME NEW l, NEW r PROVE node_less(l, r) = Before(nodes, l, r)
  BY DEF node_less, Before

LEMMA SymbolIsInt == Symbol \subseteq Nat
  BY SymbolsAssumption DEF Symbol

LEMMA NodeFacts ==
  ASSUME NEW ns \in Seq(Node), NEW l \in DOMAIN ns
  PROVE  l \in Nat /\ ns[l].frequency \in Nat /\ ns[l].minimum_symbol \in Nat
  <1>1. ns[l] \in Node /\ l \in Nat
    OBVIOUS
  <1> QED
    BY <1>1, SymbolIsInt DEF Node

LEMMA BeforeTotal ==
  ASSUME NEW ns \in Seq(Node), NEW l \in DOMAIN ns, NEW r \in DOMAIN ns, l # r
  PROVE  Before(ns, l, r) \/ Before(ns, r, l)
  <1>1. /\ ns[l].frequency \in Nat /\ ns[r].frequency \in Nat
        /\ ns[l].minimum_symbol \in Nat /\ ns[r].minimum_symbol \in Nat
        /\ l \in Nat /\ r \in Nat
    BY NodeFacts
  <1> QED
    BY <1>1 DEF Before

LEMMA BeforeAsymmetric ==
  ASSUME NEW ns \in Seq(Node), NEW l \in DOMAIN ns, NEW r \in DOMAIN ns, Before(ns, l, r)
  PROVE  ~Before(ns, r, l)
  <1>1. /\ ns[l].frequency \in Nat /\ ns[r].frequency \in Nat
        /\ ns[l].minimum_symbol \in Nat /\ ns[r].minimum_symbol \in Nat
        /\ l \in Nat /\ r \in Nat
    BY NodeFacts
  <1> QED
    BY <1>1 DEF Before

LEMMA BeforeTransitive ==
  ASSUME NEW ns \in Seq(Node), NEW l \in DOMAIN ns, NEW m \in DOMAIN ns, NEW r \in DOMAIN ns,
         Before(ns, l, m), Before(ns, m, r)
  PROVE  Before(ns, l, r)
  <1>1. /\ ns[l].frequency \in Nat /\ ns[r].frequency \in Nat /\ ns[m].frequency \in Nat
        /\ ns[l].minimum_symbol \in Nat /\ ns[r].minimum_symbol \in Nat
        /\ ns[m].minimum_symbol \in Nat
        /\ l \in Nat /\ r \in Nat /\ m \in Nat
    BY NodeFacts
  <1> QED
    BY <1>1 DEF Before

LEMMA Half ==
  ASSUME NEW i \in Nat, i >= 2
  PROVE  i \div 2 \in Nat /\ 1 <= i \div 2 /\ i \div 2 < i
         /\ (i = 2 * (i \div 2) \/ i = 2 * (i \div 2) + 1)
  OBVIOUS

----------------------------------------------------------------------------
(* The heap.                                                               *)

Heaped(ns, h) ==
    \A i \in 2 .. Len(h) : ~Before(ns, h[i], h[i \div 2])

\* Only the slot that moves up, or the children of the one that moves down,
\* may be before their parents.
HeapedUp(ns, h, at0) ==
    /\ \A i \in 2 .. Len(h) : i = at0 \/ ~Before(ns, h[i], h[i \div 2])
    /\ at0 > 1 => \A i \in 2 .. Len(h) :
                     i \div 2 = at0 => ~Before(ns, h[i], h[at0 \div 2])

HeapedDown(ns, h, at0) ==
    /\ \A i \in 2 .. Len(h) : i \div 2 = at0 \/ ~Before(ns, h[i], h[i \div 2])
    /\ at0 > 1 => \A i \in 2 .. Len(h) :
                     i \div 2 = at0 => ~Before(ns, h[i], h[at0 \div 2])

Once(h) == \A i, j \in DOMAIN h : h[i] = h[j] => i = j

Exchange(h, i, j) == [h EXCEPT ![i] = h[j], ![j] = h[i]]

LEMMA ExchangeFacts ==
  ASSUME NEW S, NEW h \in Seq(S), NEW i \in DOMAIN h, NEW j \in DOMAIN h, i # j,
         NEW new, new = Exchange(h, i, j)
  PROVE  /\ new \in Seq(S) /\ Len(new) = Len(h) /\ DOMAIN new = DOMAIN h
         /\ new[i] = h[j] /\ new[j] = h[i]
         /\ \A k \in DOMAIN h : k # i /\ k # j => new[k] = h[k]
         /\ Once(h) => Once(new)
         /\ \A k \in DOMAIN h : \E m \in DOMAIN h : new[k] = h[m]
  <1>1. /\ new \in Seq(S) /\ Len(new) = Len(h) /\ DOMAIN new = DOMAIN h
        /\ new[i] = h[j] /\ new[j] = h[i]
        /\ \A k \in DOMAIN h : k # i /\ k # j => new[k] = h[k]
    BY DEF Exchange
  <1>2. Once(h) => Once(new)
    BY <1>1 DEF Once
  <1>3. \A k \in DOMAIN h : \E m \in DOMAIN h : new[k] = h[m]
    BY <1>1
  <1> QED
    BY <1>1, <1>2, <1>3

\* The root is before all others.
LEMMA RootLeast ==
  ASSUME NEW ns \in Seq(Node), NEW h \in Seq(DOMAIN ns), Once(h), Heaped(ns, h)
  PROVE  \A i \in 2 .. Len(h) : Before(ns, h[1], h[i])
  <1> DEFINE T == {i \in 2 .. Len(h) : ~Before(ns, h[1], h[i])}
  <1>1. SUFFICES ASSUME T # {} PROVE FALSE
    OBVIOUS
  <1>2. T \in SUBSET Nat
    OBVIOUS
  <1>3. PICK i \in T : \A j \in T : i <= j
    <2> HIDE DEF T
    <2> QED
      BY <1>1, <1>2, LeastNat
  <1>4. /\ i \in 2 .. Len(h) /\ i \in Nat /\ i >= 2 /\ ~Before(ns, h[1], h[i])
        /\ Len(h) \in Nat /\ DOMAIN h = 1 .. Len(h)
    OBVIOUS
  <1>5. PICK p \in Nat : p = i \div 2 /\ 1 <= p /\ p < i
    BY <1>4, Half
  <1>6. 1 \in DOMAIN h /\ p \in DOMAIN h /\ i \in DOMAIN h
    BY <1>4, <1>5
  <1>7. h[1] \in DOMAIN ns /\ h[p] \in DOMAIN ns /\ h[i] \in DOMAIN ns
    BY <1>6
  <1>8. h[i] # h[p] /\ h[i] # h[1]
    <2>1. i # p /\ i # 1
      BY <1>4, <1>5
    <2> QED
      BY <1>6, <2>1 DEF Once
  <1>9. Before(ns, h[p], h[i])
    BY <1>4, <1>5, <1>7, <1>8, BeforeTotal DEF Heaped
  <1>10. CASE p = 1
    BY <1>4, <1>9, <1>10
  <1>11. CASE p # 1
    <2>1. p \in 2 .. Len(h) /\ ~(i <= p)
      BY <1>4, <1>5, <1>11
    <2>2. p \notin T
      BY <1>3, <2>1
    <2>3. Before(ns, h[1], h[p])
      BY <2>1, <2>2
    <2>4. Before(ns, h[1], h[i])
      BY <1>7, <1>9, <2>3, BeforeTransitive
    <2> QED
      BY <1>4, <2>4
  <1> QED
    BY <1>10, <1>11

LEMMA SiftsUp ==
  ASSUME NEW ns \in Seq(Node), NEW h \in Seq(DOMAIN ns), Once(h),
         NEW s \in 2 .. Len(h), HeapedUp(ns, h, s),
         NEW p, p = s \div 2, Before(ns, h[s], h[p]),
         NEW new, new = Exchange(h, s, p)
  PROVE  p \in 1 .. Len(h) /\ HeapedUp(ns, new, p)
  <1>1. Len(h) \in Nat /\ DOMAIN h = 1 .. Len(h) /\ s \in Nat /\ s >= 2
    OBVIOUS
  <1>2. p \in Nat /\ 1 <= p /\ p < s
    BY <1>1, Half
  <1>3. p \in DOMAIN h /\ s \in DOMAIN h /\ s # p
    BY <1>1, <1>2
  <1>4. /\ Len(new) = Len(h) /\ new[s] = h[p] /\ new[p] = h[s]
        /\ \A k \in DOMAIN h : k # s /\ k # p => new[k] = h[k]
    BY <1>3, ExchangeFacts
  <1>5. \A i \in 2 .. Len(h) : i \div 2 \in DOMAIN h /\ i \in DOMAIN h /\ i \div 2 < i
    BY <1>1, Half
  <1>6. \A i \in DOMAIN h : h[i] \in DOMAIN ns
    OBVIOUS
  <1>7. ASSUME NEW i \in 2 .. Len(h), i # p PROVE ~Before(ns, new[i], new[i \div 2])
    <2>1. PICK q \in DOMAIN h : q = i \div 2
      BY <1>5
    <2>2. i \in DOMAIN h /\ i # q
      BY <1>5, <2>1
    <2>3. CASE i = s
      BY <1>3, <1>4, <1>6, <2>1, <2>3, BeforeAsymmetric
    <2>4. CASE i # s /\ q = s
      <3>1. new[i] = h[i] /\ new[q] = h[p]
        BY <1>4, <1>7, <2>2, <2>4
      <3>2. ~Before(ns, h[i], h[p])
        BY <1>1, <2>1, <2>4 DEF HeapedUp
      <3> QED
        BY <2>1, <3>1, <3>2
    <2>5. CASE i # s /\ q = p
      <3>1. new[i] = h[i] /\ new[q] = h[s]
        BY <1>4, <1>7, <2>2, <2>5
      <3>2. ~Before(ns, h[i], h[p])
        BY <2>1, <2>5 DEF HeapedUp
      <3>3. ~Before(ns, h[i], h[s])
        BY <1>3, <1>6, <2>2, <3>2, BeforeTransitive
      <3> QED
        BY <2>1, <3>1, <3>3
    <2>6. CASE i # s /\ q # s /\ q # p
      <3>1. new[i] = h[i] /\ new[q] = h[q]
        BY <1>4, <1>7, <2>2, <2>1, <2>6
      <3> QED
        BY <2>1, <2>6, <3>1 DEF HeapedUp
    <2> QED
      BY <2>3, <2>4, <2>5, <2>6
  <1>8. ASSUME p > 1, NEW i \in 2 .. Len(h), i \div 2 = p
        PROVE  ~Before(ns, new[i], new[p \div 2])
    <2>1. PICK g \in DOMAIN h : g = p \div 2 /\ g < p
      <3>1. p \in 2 .. Len(h)
        BY <1>2, <1>3, <1>8
      <3> QED
        BY <1>5, <3>1
    <2>2. g # p /\ g # s /\ i \in DOMAIN h /\ i # p
      BY <1>2, <1>1, <1>5, <1>8, <2>1
    <2>3. new[g] = h[g]
      BY <1>4, <2>2
    <2>4. ~Before(ns, h[p], h[g])
      BY <1>2, <1>3, <1>8, <2>1, <1>1 DEF HeapedUp
    <2>5. CASE i = s
      BY <1>4, <2>1, <2>3, <2>4, <2>5
    <2>6. CASE i # s
      <3>1. new[i] = h[i]
        BY <1>4, <2>2, <2>6
      <3>2. ~Before(ns, h[i], h[p])
        BY <1>8, <2>6 DEF HeapedUp
      <3>3. h[i] # h[p]
        BY <1>3, <2>2 DEF Once
      <3>4. Before(ns, h[p], h[i])
        BY <1>3, <1>6, <2>2, <3>2, <3>3, BeforeTotal
      <3>5. ~Before(ns, h[i], h[g])
        BY <1>3, <1>6, <2>2, <2>4, <3>4, BeforeTransitive
      <3> QED
        BY <2>1, <2>3, <3>1, <3>5
    <2> QED
      BY <2>5, <2>6
  <1> QED
    BY <1>2, <1>1, <1>3, <1>4, <1>7, <1>8 DEF HeapedUp

\* The child that is least goes up.
LEMMA SiftsDown ==
  ASSUME NEW ns \in Seq(Node), NEW h \in Seq(DOMAIN ns), Once(h),
         NEW s \in 1 .. Len(h), HeapedDown(ns, h, s),
         NEW c \in 2 .. Len(h), c \div 2 = s, Before(ns, h[c], h[s]),
         \A i \in 2 .. Len(h) : i \div 2 = s /\ i # c => Before(ns, h[c], h[i]),
         NEW new, new = Exchange(h, s, c)
  PROVE  HeapedDown(ns, new, c)
  <1>1. Len(h) \in Nat /\ DOMAIN h = 1 .. Len(h) /\ s \in DOMAIN h /\ c \in DOMAIN h
        /\ \A i \in DOMAIN h : i \in Nat
    OBVIOUS
  <1>2. s < c
    BY <1>1, Half
  <1>3. s # c
    BY <1>1, <1>2
  <1>4. /\ Len(new) = Len(h) /\ new[s] = h[c] /\ new[c] = h[s]
        /\ \A k \in DOMAIN h : k # s /\ k # c => new[k] = h[k]
    <2>1. s \in DOMAIN h /\ c \in DOMAIN h
      BY <1>1
    <2> QED
      BY <1>3, <2>1, ExchangeFacts
  <1>5. \A i \in 2 .. Len(h) : i \div 2 \in DOMAIN h /\ i \in DOMAIN h /\ i \div 2 < i
    BY <1>1, Half
  <1>6. \A i \in DOMAIN h : h[i] \in DOMAIN ns
    OBVIOUS
  <1>7. ASSUME NEW i \in 2 .. Len(h), i \div 2 # c PROVE ~Before(ns, new[i], new[i \div 2])
    <2>1. PICK q \in DOMAIN h : q = i \div 2 /\ q < i
      BY <1>5
    <2>2. i \in DOMAIN h /\ i # q
      BY <1>1, <1>5, <2>1
    <2>3. CASE i = c
      BY <1>1, <1>4, <1>6, <2>3, BeforeAsymmetric
    <2>4. CASE i # c /\ q = s
      <3>1. new[i] = h[i] /\ new[q] = h[c]
        BY <1>4, <2>2, <2>4
      <3>2. Before(ns, h[c], h[i])
        BY <2>1, <2>4
      <3> QED
        BY <1>1, <1>6, <2>1, <2>2, <3>1, <3>2, BeforeAsymmetric
    <2>5. CASE i = s
      <3>1. new[i] = h[c] /\ new[q] = h[q]
        BY <1>4, <1>7, <2>1, <2>2, <2>5
      <3>2. ~Before(ns, h[c], h[q])
        BY <1>1, <2>1, <2>5 DEF HeapedDown
      <3> QED
        BY <2>1, <3>1, <3>2
    <2>6. CASE i # s /\ i # c /\ q # s
      <3>1. new[i] = h[i] /\ new[q] = h[q]
        BY <1>4, <1>7, <2>1, <2>2, <2>6
      <3> QED
        BY <2>1, <2>6, <3>1 DEF HeapedDown
    <2> QED
      BY <2>3, <2>4, <2>5, <2>6
  <1>8. ASSUME NEW i \in 2 .. Len(h), i \div 2 = c
        PROVE  ~Before(ns, new[i], new[c \div 2])
    <2>1. i \in DOMAIN h /\ i # c /\ i # s /\ c # s
      BY <1>1, <1>2, <1>5, <1>8
    <2>2. new[i] = h[i] /\ new[s] = h[c]
      BY <1>4, <2>1
    <2> QED
      BY <1>8, <2>1, <2>2 DEF HeapedDown
  <1> QED
    BY <1>4, <1>7, <1>8 DEF HeapedDown

\* The last element takes the place of the root that was popped.
Shrunk(h) == IF Len(h) = 1 THEN <<>> ELSE [Front(h) EXCEPT ![1] = Last(h)]

LEMMA ShrunkFacts ==
  ASSUME NEW S, NEW h \in Seq(S), h # <<>>, NEW new, new = Shrunk(h)
  PROVE  /\ new \in Seq(S) /\ Len(new) = Len(h) - 1
         /\ new # <<>> => new[1] = h[Len(h)]
         /\ \A i \in 2 .. Len(new) : new[i] = h[i]
  <1>1. Len(h) \in Nat \ {0} /\ DOMAIN h = 1 .. Len(h)
    OBVIOUS
  <1>2. CASE Len(h) = 1
    BY <1>2, EmptySeq DEF Shrunk
  <1>3. CASE Len(h) # 1
    <2> DEFINE front == SubSeq(h, 1, Len(h) - 1)
    <2>1. /\ front \in Seq(S) /\ Len(front) = Len(h) - 1
          /\ \A i \in 1 .. Len(h) - 1 : front[i] = h[i]
      BY <1>1, <1>3
    <2>2. new = [front EXCEPT ![1] = h[Len(h)]]
      BY <1>3 DEF Shrunk, Front, Last
    <2>3. h[Len(h)] \in S /\ 1 \in DOMAIN front
      BY <1>1, <1>3, <2>1
    <2> HIDE DEF front
    <2>4. /\ new \in Seq(S) /\ Len(new) = Len(front) /\ new[1] = h[Len(h)]
          /\ \A i \in DOMAIN front : i # 1 => new[i] = front[i]
      BY <2>1, <2>2, <2>3
    <2> QED
      BY <1>1, <2>1, <2>4
  <1> QED
    BY <1>2, <1>3

LEMMA ShrunkHeap ==
  ASSUME NEW ns \in Seq(Node), NEW h \in Seq(DOMAIN ns), h # <<>>, Once(h), Heaped(ns, h),
         NEW new, new = Shrunk(h)
  PROVE  /\ new \in Seq(DOMAIN ns) /\ Once(new) /\ HeapedDown(ns, new, 1)
         /\ \A i \in DOMAIN new : new[i] # h[1] /\ \E j \in 2 .. Len(h) : new[i] = h[j]
  <1>1. Len(h) \in Nat \ {0} /\ DOMAIN h = 1 .. Len(h)
    OBVIOUS
  <1>2. /\ new \in Seq(DOMAIN ns) /\ Len(new) = Len(h) - 1
        /\ new # <<>> => new[1] = h[Len(h)]
        /\ \A i \in 2 .. Len(new) : new[i] = h[i]
    BY ShrunkFacts
  <1>3. DOMAIN new = 1 .. Len(h) - 1
    BY <1>2
  <1> DEFINE old(i) == IF i = 1 THEN Len(h) ELSE i
  <1>4. \A i \in DOMAIN new : new[i] = h[old(i)] /\ old(i) \in 2 .. Len(h)
    <2> SUFFICES ASSUME NEW i \in DOMAIN new PROVE new[i] = h[old(i)] /\ old(i) \in 2 .. Len(h)
      OBVIOUS
    <2>1. i \in 1 .. Len(h) - 1
      BY <1>3
    <2>2. new # <<>>
      BY <1>1, <1>2, <2>1
    <2>3. CASE i = 1
      <3>1. old(i) = Len(h) /\ Len(h) \in 2 .. Len(h)
        BY <1>1, <2>1, <2>3
      <3> QED
        BY <1>2, <2>2, <2>3, <3>1
    <2>4. CASE i # 1
      <3>1. old(i) = i /\ i \in 2 .. Len(h) /\ i \in 2 .. Len(new)
        BY <1>1, <1>2, <2>1, <2>4, SMTT(30)
      <3> QED
        BY <1>2, <3>1
    <2> QED
      BY <2>3, <2>4
  <1>5. \A i, j \in DOMAIN new : old(i) = old(j) => i = j
    BY <1>1, <1>3
  <1> HIDE DEF old
  <1>6. Once(new)
    <2>1. \A i, j \in DOMAIN new : new[i] = new[j] => old(i) = old(j)
      <3> SUFFICES ASSUME NEW i \in DOMAIN new, NEW j \in DOMAIN new, new[i] = new[j]
                   PROVE  old(i) = old(j)
        OBVIOUS
      <3>1. old(i) \in DOMAIN h /\ old(j) \in DOMAIN h /\ h[old(i)] = h[old(j)]
        BY <1>1, <1>4
      <3> QED
        BY <3>1 DEF Once
    <2> QED
      BY <1>5, <2>1 DEF Once
  <1>7. \A i \in DOMAIN new : new[i] # h[1]
    <2> SUFFICES ASSUME NEW i \in DOMAIN new PROVE new[i] # h[1]
      OBVIOUS
    <2>1. old(i) \in DOMAIN h /\ 1 \in DOMAIN h /\ old(i) # 1
      BY <1>1, <1>4
    <2> QED
      BY <1>4, <2>1 DEF Once
  <1>8. HeapedDown(ns, new, 1)
    <2> SUFFICES ASSUME NEW i \in 2 .. Len(new), i \div 2 # 1
                 PROVE  ~Before(ns, new[i], new[i \div 2])
      BY DEF HeapedDown
    <2>1. PICK q \in Nat : q = i \div 2 /\ 1 <= q /\ q < i
      BY Half
    <2>2. i \in 2 .. Len(h) /\ q \in 2 .. Len(new)
      BY <1>1, <1>2, <2>1
    <2>3. new[i] = h[i] /\ new[q] = h[q]
      BY <1>2, <2>2
    <2> QED
      BY <2>1, <2>2, <2>3 DEF Heaped
  <1> QED
    BY <1>2, <1>4, <1>6, <1>7, <1>8

LEMMA BeforeGrows ==
  ASSUME NEW ns \in Seq(Node), NEW new, NEW l \in DOMAIN ns, NEW r \in DOMAIN ns
  PROVE  Before(Append(ns, new), l, r) = Before(ns, l, r)
  <1>1. Append(ns, new)[l] = ns[l] /\ Append(ns, new)[r] = ns[r]
    OBVIOUS
  <1> HIDE DEF Node
  <1> QED
    BY <1>1 DEF Before

\* A new node is put behind the heap.
LEMMA PushedHeap ==
  ASSUME NEW ns \in Seq(Node), NEW h \in Seq(DOMAIN ns), Once(h), Heaped(ns, h),
         NEW fresh \in Node, NEW grown, grown = Append(ns, fresh),
         NEW new, new = Append(h, Len(ns) + 1)
  PROVE  /\ grown \in Seq(Node) /\ Len(grown) = Len(ns) + 1
         /\ new \in Seq(DOMAIN grown) /\ Len(new) = Len(h) + 1
         /\ Once(new) /\ HeapedUp(grown, new, Len(h) + 1)
  <1>1. /\ Len(ns) \in Nat /\ DOMAIN ns = 1 .. Len(ns)
        /\ Len(h) \in Nat /\ DOMAIN h = 1 .. Len(h)
        /\ \A i \in DOMAIN h : h[i] \in DOMAIN ns
    OBVIOUS
  <1>2. grown \in Seq(Node) /\ Len(grown) = Len(ns) + 1 /\ DOMAIN grown = 1 .. Len(ns) + 1
    BY <1>1, AppendProperties
  <1>3. h \in Seq(DOMAIN grown) /\ Len(ns) + 1 \in DOMAIN grown
    <2>1. DOMAIN ns \subseteq DOMAIN grown
      BY <1>1, <1>2
    <2> QED
      BY <1>1, <1>2, <2>1
  <1>4. /\ new \in Seq(DOMAIN grown) /\ Len(new) = Len(h) + 1
        /\ \A i \in 1 .. Len(h) : new[i] = h[i]
        /\ new[Len(h) + 1] = Len(ns) + 1
    BY <1>3, AppendProperties
  <1>5. Once(new)
    <2>1. DOMAIN new = 1 .. Len(h) + 1
      BY <1>1, <1>4
    <2>2. \A i \in 1 .. Len(h) : new[i] # Len(ns) + 1
      BY <1>1, <1>4
    <2>3. ASSUME NEW i \in DOMAIN new, NEW j \in DOMAIN new, new[i] = new[j] PROVE i = j
      <3>1. CASE i \in 1 .. Len(h) /\ j \in 1 .. Len(h)
        BY <1>1, <1>4, <2>3, <3>1 DEF Once
      <3>2. CASE i = Len(h) + 1 \/ j = Len(h) + 1
        BY <1>1, <1>4, <2>1, <2>2, <2>3, <3>2
      <3> QED
        BY <1>1, <2>1, <3>1, <3>2
    <2> QED
      BY <2>3 DEF Once
  <1>6. HeapedUp(grown, new, Len(h) + 1)
    <2>1. ASSUME NEW i \in 2 .. Len(new), i # Len(h) + 1
          PROVE  ~Before(grown, new[i], new[i \div 2])
      <3>1. PICK q \in Nat : q = i \div 2 /\ 1 <= q /\ q < i
        BY Half
      <3>2. i \in 2 .. Len(h) /\ i \in DOMAIN h /\ q \in DOMAIN h
        BY <1>1, <1>4, <2>1, <3>1
      <3>3. new[i] = h[i] /\ new[q] = h[q] /\ h[i] \in DOMAIN ns /\ h[q] \in DOMAIN ns
        BY <1>1, <1>4, <3>2
      <3>4. ~Before(ns, h[i], h[q])
        BY <3>1, <3>2 DEF Heaped
      <3>5. Before(grown, h[i], h[q]) = Before(ns, h[i], h[q])
        BY <3>3, BeforeGrows
      <3>6. new[i \div 2] = h[q]
        BY <3>1, <3>3
      <3> QED
        BY <3>3, <3>4, <3>5, <3>6
    <2>2. \A i \in 2 .. Len(new) : i \div 2 # Len(h) + 1
      BY <1>1, <1>4, Half
    <2> QED
      BY <2>1, <2>2 DEF HeapedUp
  <1> QED
    BY <1>2, <1>4, <1>5, <1>6

----------------------------------------------------------------------------
(* The steps of build_code_lengths.                                        *)

Order(pc, ns, h, s) ==
    /\ \A i \in 2 .. Len(h) :
          \/ pc = "up"   /\ i = s
          \/ pc = "down" /\ i \div 2 = s
          \/ ~Before(ns, h[i], h[i \div 2])
    /\ pc \in {"up", "down"} /\ s > 1 =>
          \A i \in 2 .. Len(h) :
             i \div 2 = s => ~Before(ns, h[i], h[s \div 2])

First(ns, h, out0) ==
    /\ \A k \in DOMAIN out0, i \in DOMAIN h : ~Before(ns, h[i], out0[k])
    /\ Len(out0) = 2 => Before(ns, out0[1], out0[2])

LEMMA OrderMeans ==
  ASSUME NEW ns, NEW h, NEW s
  PROVE  /\ Order("up", ns, h, s) <=> HeapedUp(ns, h, s)
         /\ Order("down", ns, h, s) <=> HeapedDown(ns, h, s)
         /\ \A pc : pc \notin {"up", "down"} => (Order(pc, ns, h, s) <=> Heaped(ns, h))
  BY DEF Order, HeapedUp, HeapedDown, Heaped

LEMMA HeapInvMeans ==
  HeapInv <=> /\ LenTypes
              /\ Once(heap) /\ \A i \in DOMAIN heap : heap[i] \notin ToSet(popped)
              /\ Order(hpc, nodes, heap, slot)
              /\ First(nodes, heap, popped)
  BY DEF HeapInv, NodesOnce, HeapOrder, PoppedLeast, Once, Order, First, node_less, Before

LEMMA HeapInvMeansNext ==
  HeapInv' <=> /\ LenTypes'
               /\ Once(heap') /\ \A i \in DOMAIN heap' : heap'[i] \notin ToSet(popped')
               /\ Order(hpc', nodes', heap', slot')
               /\ First(nodes', heap', popped')
  BY DEF HeapInv, NodesOnce, HeapOrder, PoppedLeast, Once, Order, First, node_less, Before

LEMMA FrequencyNat ==
  ASSUME IsFiniteSet(DOMAIN text), NEW s PROVE Frequency(s) \in Nat
  <1> DEFINE T == {i \in DOMAIN text : text[i] = s}
  <1>1. IsFiniteSet(T)
    BY FS_Subset
  <1> HIDE DEF T
  <1>2. Cardinality(T) \in Nat
    BY <1>1, FS_CardinalityType
  <1> QED
    BY <1>2 DEF Frequency, T

LEMMA MakeNodeInv ==
  ASSUME HeapInv, hpc \notin {"up", "down"}, NEW fresh \in Node, MakeNode(fresh),
         popped' = <<>>, text' = text, symbol' \in 0 .. Symbols
  PROVE  HeapInv'
  <1>1. /\ nodes \in Seq(Node) /\ heap \in Seq(DOMAIN nodes) /\ Once(heap)
        /\ Heaped(nodes, heap)
    BY HeapInvMeans, OrderMeans DEF LenTypes
  <1>2. /\ nodes' = Append(nodes, fresh) /\ heap' = Append(heap, Len(nodes'))
        /\ slot' = Len(heap') /\ hpc' = "up"
    BY DEF MakeNode
  <1>3. Len(nodes') = Len(nodes) + 1 /\ heap' = Append(heap, Len(nodes) + 1)
    BY <1>1, <1>2, AppendProperties
  <1>4. /\ nodes' \in Seq(Node)
        /\ heap' \in Seq(DOMAIN nodes') /\ Len(heap') = Len(heap) + 1
        /\ Once(heap') /\ HeapedUp(nodes', heap', slot')
    <2>1. /\ nodes' \in Seq(Node) /\ heap' \in Seq(DOMAIN nodes')
          /\ Len(heap') = Len(heap) + 1
          /\ Once(heap') /\ HeapedUp(nodes', heap', Len(heap) + 1)
      <3>1. PICK grown, new : grown = Append(nodes, fresh) /\ new = Append(heap, Len(nodes) + 1)
        OBVIOUS
      <3>2. /\ grown \in Seq(Node) /\ new \in Seq(DOMAIN grown)
            /\ Len(new) = Len(heap) + 1
            /\ Once(new) /\ HeapedUp(grown, new, Len(heap) + 1)
        <4>1. grown \in Seq(Node)
          BY ONLY <1>1, <3>1, fresh \in Node, PushedHeap
        <4>2. new \in Seq(DOMAIN grown)
          BY ONLY <1>1, <3>1, fresh \in Node, PushedHeap
        <4>3. Len(new) = Len(heap) + 1
          BY ONLY <1>1, <3>1, fresh \in Node, PushedHeap
        <4>4. Once(new)
          BY ONLY <1>1, <3>1, fresh \in Node, PushedHeap, ZenonT(60)
        <4>5. HeapedUp(grown, new, Len(heap) + 1)
          BY ONLY <1>1, <3>1, fresh \in Node, PushedHeap, ZenonT(60)
        <4> QED
          BY ONLY <4>1, <4>2, <4>3, <4>4, <4>5
      <3>3. grown = nodes' /\ new = heap'
        BY <1>2, <1>3, <3>1
      <3> QED
        BY <3>2, <3>3
    <2> QED
      BY <1>2, <2>1
  <1>5. LenTypes'
    <2>1. popped' \in Seq(DOMAIN nodes') /\ Len(popped') = 0
      BY EmptySeq
    <2>2. slot' \in Nat \ {0} /\ slot' <= Len(heap')
      BY <1>1, <1>2, <1>4
    <2> QED
      BY <1>2, <1>4, <2>1, <2>2, HeapInvMeans DEF LenTypes
  <1>6. \A i \in DOMAIN heap' : heap'[i] \notin ToSet(popped')
    BY DEF ToSet
  <1>7. First(nodes', heap', popped')
    BY DEF First
  <1>8. Order(hpc', nodes', heap', slot')
    BY <1>2, <1>4, OrderMeans
  <1> QED
    BY <1>4, <1>5, <1>6, <1>7, <1>8, HeapInvMeansNext

LEMMA NextLeafInv == HeapInv /\ NextLeaf => HeapInv'
  <1> SUFFICES ASSUME HeapInv, NextLeaf PROVE HeapInv'
    OBVIOUS
  <1> USE DEF heapVars
  <1>1. hpc = "leaf" /\ symbol < Symbols /\ symbol' = symbol + 1 /\ popped = <<>>
        /\ text' = text /\ popped' = popped /\ symbol \in 0 .. Symbols
    BY HeapInvMeans DEF NextLeaf, LenTypes
  <1>2. symbol' \in 0 .. Symbols /\ symbol \in Symbol
    BY <1>1, SymbolsAssumption DEF Symbol
  <1>3. CASE Frequency(symbol) = 0
    <2>1. UNCHANGED <<text, hpc, nodes, heap, slot, popped>>
      BY <1>1, <1>3 DEF NextLeaf
    <2>2. LenTypes'
      BY <1>2, <2>1, HeapInvMeans DEF LenTypes
    <2> QED
      BY <2>1, <2>2, HeapInvMeans, HeapInvMeansNext
  <1>4. CASE Frequency(symbol) # 0
    <2>1. MakeNode(Leaf(symbol))
      BY <1>1, <1>4 DEF NextLeaf
    <2>2. Frequency(symbol) \in Nat
      BY FrequencyNat, HeapInvMeans DEF LenTypes
    <2>3. Leaf(symbol) \in Node
      BY <1>2, <2>2 DEF Leaf, Node
    <2> QED
      BY <1>1, <1>2, <2>1, <2>3, MakeNodeInv
  <1> QED
    BY <1>3, <1>4

\* The node that Merge makes.
LEMMA MergedNode ==
  ASSUME HeapInv, Merge, ~(Len(nodes) >= MaxNodes)
  PROVE  \E x \in Node :
            /\ MakeNode(x) /\ x.symbol = Inner /\ x.left = popped[1] /\ x.right = popped[2]
            /\ x.frequency = nodes[popped[1]].frequency + nodes[popped[2]].frequency
  <1>1. Len(popped) = 2 /\ nodes \in Seq(Node) /\ popped \in Seq(DOMAIN nodes)
    BY HeapInvMeans DEF Merge, LenTypes
  <1>7. \A k \in DOMAIN popped : popped[k] \in DOMAIN nodes
    <2>1. PICK o, S : o = popped /\ S = DOMAIN nodes
      OBVIOUS
    <2>2. o \in Seq(S)
      BY <1>1, <2>1
    <2>3. \A k \in DOMAIN o : o[k] \in S
      BY ONLY <2>2
    <2> QED
      BY <2>1, <2>3
  <1> DEFINE l == nodes[popped[1]]
             r == nodes[popped[2]]
             least == Min({l.minimum_symbol, r.minimum_symbol})
             fresh == [frequency |-> l.frequency + r.frequency,
                       left |-> popped[1], right |-> popped[2],
                       symbol |-> Inner, minimum_symbol |-> least]
  <1>2. MakeNode(fresh)
    BY DEF Merge
  <1>3. l \in Node /\ r \in Node /\ popped[1] \in Nat /\ popped[2] \in Nat
    <2>1. 1 \in DOMAIN popped /\ 2 \in DOMAIN popped
      BY <1>1
    <2>2. \A n \in DOMAIN nodes : n \in Nat /\ nodes[n] \in Node
      BY <1>1
    <2> QED
      BY <1>7, <2>1, <2>2
  <1> HIDE DEF l, r
  <1>4. least \in Symbol
    <2> DEFINE T == {l.minimum_symbol, r.minimum_symbol}
    <2>1. T \subseteq Nat /\ T \subseteq Symbol /\ T # {}
      BY <1>3, SymbolIsInt DEF Node
    <2> HIDE DEF T
    <2>2. \E x \in T : \A y \in T : x <= y
      BY <2>1, LeastNat
    <2>3. Min(T) \in T
      BY <2>2 DEF Min
    <2> QED
      BY <2>1, <2>3 DEF T
  <1> HIDE DEF least
  <1>5. fresh \in Node
    BY <1>3, <1>4 DEF Node
  <1>6. /\ fresh.symbol = Inner /\ fresh.left = popped[1] /\ fresh.right = popped[2]
        /\ fresh.frequency = nodes[popped[1]].frequency + nodes[popped[2]].frequency
    BY DEF l, r
  <1> HIDE DEF fresh
  <1> QED
    BY <1>2, <1>5, <1>6

LEMMA MergeInv == HeapInv /\ Merge => HeapInv'
  <1> SUFFICES ASSUME HeapInv, Merge PROVE HeapInv'
    OBVIOUS
  <1> USE DEF heapVars
  <1>1. hpc = "merge" /\ Len(popped) = 2 /\ popped' = <<>> /\ text' = text /\ symbol' = symbol
    BY DEF Merge
  <1>2. /\ nodes \in Seq(Node) /\ popped \in Seq(DOMAIN nodes) /\ symbol \in 0 .. Symbols
        /\ heap \in Seq(DOMAIN nodes)
    BY HeapInvMeans DEF LenTypes
  <1>3. CASE Len(nodes) >= MaxNodes
    <2>1. hpc' = "fail" /\ UNCHANGED <<nodes, heap, slot>>
      BY <1>3 DEF Merge
    <2>2. LenTypes'
      BY <1>1, <1>2, <2>1, EmptySeq, HeapInvMeans DEF LenTypes
    <2>3. Order(hpc', nodes', heap', slot')
      BY <1>1, <2>1, HeapInvMeans, OrderMeans
    <2>4. \A i \in DOMAIN heap' : heap'[i] \notin ToSet(popped')
      BY <1>1 DEF ToSet
    <2>5. First(nodes', heap', popped')
      BY <1>1 DEF First
    <2> QED
      BY <2>1, <2>2, <2>3, <2>4, <2>5, HeapInvMeans, HeapInvMeansNext
  <1>4. CASE ~(Len(nodes) >= MaxNodes)
    <2>1. PICK x \in Node : MakeNode(x)
      BY <1>4, MergedNode
    <2> QED
      BY <1>1, <1>2, <2>1, MakeNodeInv
  <1> QED
    BY <1>3, <1>4

LEMMA SiftUpInv == HeapInv /\ SiftUp => HeapInv'
  <1> SUFFICES ASSUME HeapInv, SiftUp PROVE HeapInv'
    OBVIOUS
  <1> USE DEF heapVars
  <1> DEFINE p == slot \div 2
  <1>1. /\ hpc = "up" /\ UNCHANGED <<text, symbol, nodes, popped>>
        /\ popped = <<>> /\ slot \in Nat \ {0} /\ slot <= Len(heap)
        /\ nodes \in Seq(Node) /\ heap \in Seq(DOMAIN nodes) /\ Once(heap)
    BY HeapInvMeans DEF SiftUp, LenTypes
  <1>2. HeapedUp(nodes, heap, slot)
    BY <1>1, HeapInvMeans, OrderMeans
  <1>3. ToSet(popped') = {} /\ First(nodes', heap', popped')
    BY <1>1 DEF First, ToSet
  <1>4. CASE slot > 1 /\ node_less(heap[slot], heap[p])
    <2>1. heap' = Exchange(heap, slot, p) /\ slot' = p /\ hpc' = "up"
      BY <1>1, <1>4 DEF SiftUp, Swapped, Exchange
    <2>2. slot \in 2 .. Len(heap) /\ Before(nodes, heap[slot], heap[p])
      BY <1>1, <1>4, LessIsBefore
    <2>3. p \in 1 .. Len(heap) /\ HeapedUp(nodes, heap', p)
      BY <1>1, <1>2, <2>1, <2>2, SiftsUp
    <2>4. p # slot /\ slot \in DOMAIN heap /\ p \in DOMAIN heap
      BY <1>1, <2>2, <2>3, Half
    <2> HIDE DEF p
    <2>5. heap' \in Seq(DOMAIN nodes) /\ Len(heap') = Len(heap) /\ Once(heap')
      BY <1>1, <2>1, <2>4, ExchangeFacts
    <2>6. LenTypes'
      BY <1>1, <2>1, <2>3, <2>5, HeapInvMeans DEF LenTypes
    <2>7. Order(hpc', nodes', heap', slot')
      BY <1>1, <2>1, <2>3, OrderMeans
    <2> QED
      BY <1>3, <2>5, <2>6, <2>7, HeapInvMeansNext
  <1>5. CASE ~(slot > 1 /\ node_less(heap[slot], heap[p]))
    <2>1. /\ hpc' \in {"leaf", "merge"} /\ heap' = heap /\ slot' = slot
      BY <1>5 DEF SiftUp
    <2>2. slot = 1 \/ ~Before(nodes, heap[slot], heap[p])
      BY <1>1, <1>5, LessIsBefore
    <2>3. Heaped(nodes, heap)
      BY <1>1, <1>2, <2>2 DEF Heaped, HeapedUp
    <2>4. LenTypes'
      BY <1>1, <2>1, HeapInvMeans DEF LenTypes
    <2>5. Order(hpc', nodes', heap', slot')
      BY <1>1, <2>1, <2>3, OrderMeans
    <2> QED
      BY <1>1, <1>3, <2>1, <2>4, <2>5, HeapInvMeansNext
  <1> QED
    BY <1>4, <1>5

LEMMA PopNodeInv == HeapInv /\ PopNode => HeapInv'
  <1> SUFFICES ASSUME HeapInv, PopNode PROVE HeapInv'
    OBVIOUS
  <1>1. /\ hpc = "merge" /\ hpc' = "down" /\ slot' = 1
        /\ UNCHANGED <<text, symbol, nodes>>
        /\ Len(popped) < 2 /\ Len(heap) + Len(popped) > 1
        /\ popped' = Append(popped, heap[1])
        /\ heap' = Shrunk(heap)
    BY DEF PopNode, Shrunk
  <1>2. /\ nodes \in Seq(Node) /\ heap \in Seq(DOMAIN nodes) /\ Once(heap)
        /\ popped \in Seq(DOMAIN nodes) /\ Heaped(nodes, heap)
        /\ First(nodes, heap, popped)
        /\ \A i \in DOMAIN heap : heap[i] \notin ToSet(popped)
    BY <1>1, HeapInvMeans, OrderMeans DEF LenTypes
  <1>3. heap # <<>> /\ 1 \in DOMAIN heap /\ Len(popped) \in {0, 1}
    <2>1. Len(heap) \in Nat /\ Len(popped) \in Nat /\ DOMAIN heap = 1 .. Len(heap)
      BY <1>2
    <2>2. Len(heap) # 0 /\ Len(popped) \in {0, 1}
      <3>1. \A a, b \in Nat : b < 2 /\ a + b > 1 => a # 0 /\ b \in {0, 1}
        OBVIOUS
      <3> QED
        BY <1>1, <2>1, <3>1
    <2>3. 1 \in 1 .. Len(heap)
      BY <2>1, <2>2
    <2> QED
      BY <2>1, <2>2, <2>3
  <1>4. /\ heap' \in Seq(DOMAIN nodes) /\ Once(heap') /\ HeapedDown(nodes, heap', 1)
        /\ \A i \in DOMAIN heap' :
              heap'[i] # heap[1] /\ \E j \in 2 .. Len(heap) : heap'[i] = heap[j]
    <2>1. PICK new : new = Shrunk(heap)
      OBVIOUS
    <2>2. /\ new \in Seq(DOMAIN nodes) /\ Once(new) /\ HeapedDown(nodes, new, 1)
          /\ \A i \in DOMAIN new :
                new[i] # heap[1] /\ \E j \in 2 .. Len(heap) : new[i] = heap[j]
      <3>1. nodes \in Seq(Node) /\ heap \in Seq(DOMAIN nodes) /\ heap # <<>>
            /\ Once(heap) /\ Heaped(nodes, heap)
        BY <1>2, <1>3
      <3> QED
        <4>1. Once(new)
          BY ONLY <2>1, <3>1, ShrunkHeap
        <4>2. HeapedDown(nodes, new, 1)
          BY ONLY <2>1, <3>1, ShrunkHeap
        <4>3. new \in Seq(DOMAIN nodes)
          BY ONLY <2>1, <3>1, ShrunkHeap
        <4>4. \A i \in DOMAIN new : new[i] # heap[1]
          BY ONLY <2>1, <3>1, ShrunkHeap
        <4>5. ASSUME NEW i \in DOMAIN new PROVE \E j \in 2 .. Len(heap) : new[i] = heap[j]
          BY ONLY <2>1, <3>1, <4>5, ShrunkHeap
        <4> QED
          BY ONLY <4>1, <4>2, <4>3, <4>4, <4>5
    <2> QED
      BY <1>1, <2>1, <2>2
  <1>5. /\ popped' \in Seq(DOMAIN nodes) /\ Len(popped') = Len(popped) + 1
        /\ DOMAIN popped' = 1 .. Len(popped) + 1 /\ DOMAIN popped = 1 .. Len(popped)
        /\ \A k \in 1 .. Len(popped) : popped'[k] = popped[k]
        /\ popped'[Len(popped) + 1] = heap[1]
    <2>1. heap[1] \in DOMAIN nodes
      BY <1>2, <1>3
    <2> QED
      BY <1>1, <1>2, <2>1, AppendProperties
  <1>6. \A i \in DOMAIN heap' : /\ heap'[i] \in DOMAIN nodes
                                /\ Before(nodes, heap[1], heap'[i])
                                /\ \E j \in DOMAIN heap : heap'[i] = heap[j]
    <2>1. \A j \in 2 .. Len(heap) : Before(nodes, heap[1], heap[j]) /\ j \in DOMAIN heap
      BY <1>2, RootLeast
    <2> QED
      BY <1>4, <2>1
  <1>7. First(nodes', heap', popped')
    <2>1. ASSUME NEW k \in DOMAIN popped', NEW i \in DOMAIN heap'
          PROVE  ~Before(nodes, heap'[i], popped'[k])
      <3>1. CASE k = Len(popped) + 1
        <4>1. heap[1] \in DOMAIN nodes
          BY <1>2, <1>3
        <4> QED
          BY <1>2, <1>5, <1>6, <3>1, <4>1, BeforeAsymmetric
      <3>2. CASE k # Len(popped) + 1
        <4>1. k \in DOMAIN popped /\ popped'[k] = popped[k]
          BY <1>3, <1>5, <3>2
        <4>2. PICK j \in DOMAIN heap : heap'[i] = heap[j]
          BY <1>6
        <4> QED
          BY <1>2, <4>1, <4>2 DEF First
      <3> QED
        BY <3>1, <3>2
    <2>2. Len(popped') = 2 => Before(nodes, popped'[1], popped'[2])
      <3> SUFFICES ASSUME Len(popped') = 2 PROVE Before(nodes, popped'[1], popped'[2])
        OBVIOUS
      <3>1. Len(popped) = 1 /\ 1 \in DOMAIN popped
        BY <1>3, <1>5
      <3>2. popped'[1] = popped[1] /\ popped'[2] = heap[1]
        BY <1>5, <3>1
      <3>3. ~Before(nodes, heap[1], popped[1])
        BY <1>2, <1>3, <3>1 DEF First
      <3>4. heap[1] # popped[1]
        BY <1>2, <1>3, <3>1 DEF ToSet
      <3>5. heap[1] \in DOMAIN nodes /\ popped[1] \in DOMAIN nodes
        <4>1. \A k \in DOMAIN heap : heap[k] \in DOMAIN nodes
          BY <1>2
        <4>2. \A k \in DOMAIN popped : popped[k] \in DOMAIN nodes
          BY <1>2
        <4> QED
          BY <1>3, <3>1, <4>1, <4>2
      <3> QED
        BY <1>2, <3>2, <3>3, <3>4, <3>5, BeforeTotal
    <2> QED
      BY <1>1, <2>1, <2>2 DEF First
  <1>8. \A i \in DOMAIN heap' : heap'[i] \notin ToSet(popped')
    <2> SUFFICES ASSUME NEW i \in DOMAIN heap', NEW k \in DOMAIN popped', heap'[i] = popped'[k]
                 PROVE  FALSE
      BY DEF ToSet
    <2>1. CASE k = Len(popped) + 1
      BY <1>4, <1>5, <2>1
    <2>2. CASE k # Len(popped) + 1
      <3>1. k \in DOMAIN popped /\ popped'[k] = popped[k]
        BY <1>3, <1>5, <2>2
      <3>2. PICK j \in DOMAIN heap : heap'[i] = heap[j]
        BY <1>6
      <3> QED
        BY <1>2, <3>1, <3>2 DEF ToSet
    <2> QED
      BY <2>1, <2>2
  <1>9. LenTypes'
    <2>1. Len(popped') <= 2
      <3>1. \A k \in {0, 1} : k + 1 <= 2
        OBVIOUS
      <3> QED
        BY <1>3, <1>5, <3>1
    <2> QED
      BY <1>1, <1>4, <1>5, <2>1, HeapInvMeans DEF LenTypes
  <1>10. Order(hpc', nodes', heap', slot')
    BY <1>1, <1>4, OrderMeans
  <1> QED
    BY <1>4, <1>7, <1>8, <1>9, <1>10, HeapInvMeansNext

\* The children of a slot are the slots whose parent it is.
LEMMA Children ==
  ASSUME NEW s \in Nat \ {0}, NEW n \in Nat
  PROVE  \A i \in 2 .. n : i \div 2 = s <=> i \in {2 * s, 2 * s + 1}
  OBVIOUS

\* What the comparisons of heap_pop find.
LEMMA SmallestFacts ==
  ASSUME NEW c, c = Smallest, nodes \in Seq(Node), heap \in Seq(DOMAIN nodes), Once(heap),
         slot \in 1 .. Len(heap)
  PROVE  /\ c \in DOMAIN heap /\ (c = slot \/ (c \in 2 .. Len(heap) /\ c \div 2 = slot))
         /\ c # slot => Before(nodes, heap[c], heap[slot])
         /\ \A i \in 2 .. Len(heap) : i \div 2 = slot /\ i # c => Before(nodes, heap[c], heap[i])
  <1> DEFINE T == {slot, 2 * slot, 2 * slot + 1} \cap 1 .. Len(heap)
             Least(i) == \A j \in T : j = i \/ Before(nodes, heap[i], heap[j])
  <1>1. Len(heap) \in Nat /\ DOMAIN heap = 1 .. Len(heap) /\ slot \in Nat \ {0}
        /\ T \subseteq DOMAIN heap /\ slot \in T
    OBVIOUS
  <1>2. c = CHOOSE i \in T : Least(i)
    BY DEF Smallest, node_less, Before
  <1>3. \A i \in DOMAIN heap : heap[i] \in DOMAIN nodes
    OBVIOUS
  <1>4. \A i, j \in T : i = j \/ Before(nodes, heap[i], heap[j]) \/ Before(nodes, heap[j], heap[i])
    BY <1>1, <1>3, BeforeTotal DEF Once
  <1>5. \A i, j, k \in T : Before(nodes, heap[i], heap[j]) /\ Before(nodes, heap[j], heap[k])
                            => Before(nodes, heap[i], heap[k])
    <2> SUFFICES ASSUME NEW i \in T, NEW j \in T, NEW k \in T,
                        Before(nodes, heap[i], heap[j]), Before(nodes, heap[j], heap[k])
                 PROVE  Before(nodes, heap[i], heap[k])
      OBVIOUS
    <2>1. heap[i] \in DOMAIN nodes /\ heap[j] \in DOMAIN nodes /\ heap[k] \in DOMAIN nodes
      BY <1>1, <1>3
    <2> QED
      BY <2>1, BeforeTransitive
  <1>6. \E i \in T : Least(i)
    <2> DEFINE a == slot
               b == 2 * slot
               d == 2 * slot + 1
    <2>1. T \subseteq {a, b, d} /\ a \in T
      BY <1>1
    <2> HIDE DEF T, a, b, d
    <2>2. PICK m \in T : \A j \in T : j \in {a, b} => (j = m \/ Before(nodes, heap[m], heap[j]))
      <3>1. CASE b \in T /\ Before(nodes, heap[b], heap[a])
        BY <3>1
      <3>2. CASE ~(b \in T /\ Before(nodes, heap[b], heap[a]))
        BY <1>4, <2>1, <3>2
      <3> QED
        BY <3>1, <3>2
    <2>3. CASE d \in T /\ Before(nodes, heap[d], heap[m])
      <3>1. \A j \in T : j = d \/ Before(nodes, heap[d], heap[j])
        BY <1>5, <2>1, <2>2, <2>3
      <3> QED
        BY <2>3, <3>1
    <2>4. CASE ~(d \in T /\ Before(nodes, heap[d], heap[m]))
      <3>1. \A j \in T : j = m \/ Before(nodes, heap[m], heap[j])
        BY <1>4, <2>1, <2>2, <2>4
      <3> QED
        BY <3>1
    <2> QED
      BY <2>3, <2>4
  <1>7. c \in T /\ Least(c)
    <2> HIDE DEF T, Least
    <2> QED
      BY <1>2, <1>6
  <1>8. \A i \in 2 .. Len(heap) : i \div 2 = slot <=> i \in {2 * slot, 2 * slot + 1}
    BY <1>1, Children
  <1>9. c # slot => c \in 2 .. Len(heap) /\ c \div 2 = slot
    BY <1>1, <1>7, <1>8
  <1>10. \A i \in 2 .. Len(heap) : i \div 2 = slot => i \in T
    BY <1>1, <1>8
  <1> HIDE DEF T
  <1> QED
    BY <1>1, <1>7, <1>9, <1>10

LEMMA SiftDownInv == HeapInv /\ SiftDown => HeapInv'
  <1> SUFFICES ASSUME HeapInv, SiftDown PROVE HeapInv'
    OBVIOUS
  <1> USE DEF heapVars
  <1>1. /\ hpc = "down" /\ UNCHANGED <<text, symbol, nodes, popped>>
        /\ slot \in Nat \ {0}
        /\ nodes \in Seq(Node) /\ heap \in Seq(DOMAIN nodes) /\ Once(heap)
        /\ First(nodes, heap, popped)
        /\ \A i \in DOMAIN heap : heap[i] \notin ToSet(popped)
    BY HeapInvMeans DEF SiftDown, LenTypes
  <1>2. HeapedDown(nodes, heap, slot)
    BY <1>1, HeapInvMeans, OrderMeans
  <1>3. Len(heap) \in Nat /\ DOMAIN heap = 1 .. Len(heap)
    BY <1>1
  <1>4. PICK c : c = Smallest
    OBVIOUS
  <1>5. slot <= Len(heap) =>
          /\ c \in DOMAIN heap /\ (c = slot \/ (c \in 2 .. Len(heap) /\ c \div 2 = slot))
          /\ c # slot => Before(nodes, heap[c], heap[slot])
          /\ \A i \in 2 .. Len(heap) : i \div 2 = slot /\ i # c => Before(nodes, heap[c], heap[i])
    <2> SUFFICES ASSUME slot <= Len(heap)
                 PROVE  /\ c \in DOMAIN heap
                        /\ (c = slot \/ (c \in 2 .. Len(heap) /\ c \div 2 = slot))
                        /\ c # slot => Before(nodes, heap[c], heap[slot])
                        /\ \A i \in 2 .. Len(heap) :
                              i \div 2 = slot /\ i # c => Before(nodes, heap[c], heap[i])
      OBVIOUS
    <2>1. slot \in 1 .. Len(heap)
      BY <1>1, <1>3
    <2> QED
      BY <1>1, <1>4, <2>1, SmallestFacts
  <1>6. CASE slot <= Len(heap) /\ c # slot
    <2>1. heap' = Exchange(heap, slot, c) /\ slot' = c /\ hpc' = "down"
      BY <1>1, <1>4, <1>6 DEF SiftDown, Swapped, Exchange
    <2>2. slot \in 1 .. Len(heap) /\ slot \in DOMAIN heap /\ c \in DOMAIN heap
          /\ c \in 2 .. Len(heap) /\ c \div 2 = slot
      BY <1>1, <1>3, <1>5, <1>6
    <2>3. HeapedDown(nodes, heap', c)
      BY <1>1, <1>2, <1>5, <1>6, <2>1, <2>2, SiftsDown
    <2>4. /\ heap' \in Seq(DOMAIN nodes) /\ Len(heap') = Len(heap) /\ Once(heap')
          /\ DOMAIN heap' = DOMAIN heap
          /\ \A k \in DOMAIN heap : \E m \in DOMAIN heap : heap'[k] = heap[m]
      BY <1>1, <1>6, <2>1, <2>2, ExchangeFacts
    <2>5. LenTypes'
      <3>1. slot' \in Nat \ {0} /\ hpc' = "down"
        BY <1>3, <2>1, <2>2
      <3>2. IsFiniteSet(DOMAIN text) /\ symbol \in 0 .. Symbols
            /\ popped \in Seq(DOMAIN nodes) /\ Len(popped) <= 2
        BY HeapInvMeans DEF LenTypes
      <3> QED
        BY <1>1, <2>4, <3>1, <3>2 DEF LenTypes
    <2>6. Order(hpc', nodes', heap', slot')
      BY <1>1, <2>1, <2>3, OrderMeans
    <2>7. First(nodes', heap', popped')
      BY <1>1, <2>4 DEF First
    <2>8. \A i \in DOMAIN heap' : heap'[i] \notin ToSet(popped')
      BY <1>1, <2>4
    <2> QED
      BY <2>4, <2>5, <2>6, <2>7, <2>8, HeapInvMeansNext
  <1>7. CASE ~(slot <= Len(heap) /\ c # slot)
    <2>1. hpc' = "merge" /\ heap' = heap /\ slot' = slot
      BY <1>4, <1>7 DEF SiftDown
    <2>2. ASSUME NEW i \in 2 .. Len(heap) PROVE ~Before(nodes, heap[i], heap[i \div 2])
      <3>1. CASE i \div 2 # slot
        BY <1>2, <3>1 DEF HeapedDown
      <3>2. CASE i \div 2 = slot
        <4>1. slot < i /\ i <= Len(heap) /\ i \in DOMAIN heap /\ slot \in DOMAIN heap
          BY <1>1, <1>3, <3>2, Half
        <4>2. c = slot
          BY <1>1, <1>3, <1>7, <4>1
        <4>3. Before(nodes, heap[slot], heap[i])
          BY <1>1, <1>3, <1>5, <3>2, <4>1, <4>2
        <4>4. heap[slot] \in DOMAIN nodes /\ heap[i] \in DOMAIN nodes
          BY <1>1, <4>1
        <4> QED
          BY <1>1, <3>2, <4>3, <4>4, BeforeAsymmetric
      <3> QED
        BY <3>1, <3>2
    <2>3. Heaped(nodes, heap)
      BY <2>2 DEF Heaped
    <2>4. LenTypes'
      BY <1>1, <2>1, HeapInvMeans DEF LenTypes
    <2>5. Order(hpc', nodes', heap', slot')
      BY <1>1, <2>1, <2>3, OrderMeans
    <2> QED
      BY <1>1, <2>1, <2>4, <2>5, HeapInvMeansNext
  <1> QED
    BY <1>6, <1>7

LEMMA EmptyHeapInv ==
  ASSUME HeapInv, heap' = <<>>, popped = <<>>, UNCHANGED <<text, symbol, nodes, popped>>,
         hpc' \notin {"up", "down"}
  PROVE  HeapInv'
  <1>1. LenTypes'
    <2>1. heap' \in Seq(DOMAIN nodes')
      BY EmptySeq
    <2> QED
      BY <2>1, HeapInvMeans DEF LenTypes
  <1>2. Once(heap') /\ \A i \in DOMAIN heap' : heap'[i] \notin ToSet(popped')
    BY DEF Once
  <1>3. Order(hpc', nodes', heap', slot') /\ First(nodes', heap', popped')
    BY DEF Order, First
  <1> QED
    BY <1>1, <1>2, <1>3, HeapInvMeansNext

LEMMA OnlySymbolInv == HeapInv /\ OnlySymbol => HeapInv'
  <1> SUFFICES ASSUME HeapInv, OnlySymbol PROVE HeapInv'
    OBVIOUS
  <1>1. /\ hpc = "merge" /\ popped = <<>> /\ UNCHANGED <<text, symbol, nodes, slot, popped>>
        /\ hpc' \in {"fail", "done"}
        /\ heap' = heap \/ heap' = <<>>
    BY DEF OnlySymbol
  <1>2. CASE heap' = <<>>
    BY <1>1, <1>2, EmptyHeapInv
  <1>3. CASE heap' = heap
    <2>1. LenTypes'
      BY <1>1, <1>3, HeapInvMeans DEF LenTypes
    <2>2. Order(hpc', nodes', heap', slot')
      BY <1>1, <1>3, HeapInvMeans, OrderMeans
    <2> QED
      BY <1>1, <1>3, <2>1, <2>2, HeapInvMeans, HeapInvMeansNext
  <1> QED
    BY <1>1, <1>2, <1>3

\* A move of hpc alone, outside the heap's functions.
LEMMA QuietInv ==
  ASSUME HeapInv, UNCHANGED <<text, symbol, nodes, heap, slot, popped>>,
         hpc \notin {"up", "down"}, hpc' \notin {"leaf", "up", "down"}
  PROVE  HeapInv'
  <1>1. LenTypes'
    BY HeapInvMeans DEF LenTypes
  <1>2. Order(hpc', nodes', heap', slot')
    BY HeapInvMeans, OrderMeans
  <1> QED
    BY <1>1, <1>2, HeapInvMeans, HeapInvMeansNext

LEMMA BuildLengthsInv == HeapInv /\ BuildLengths => HeapInv'
  <1> SUFFICES ASSUME HeapInv, BuildLengths PROVE HeapInv'
    OBVIOUS
  <1>1. CASE EndLeaves
    BY <1>1, QuietInv DEF EndLeaves, heapVars
  <1>2. CASE assign_lengths
    BY <1>2, EmptyHeapInv DEF assign_lengths
  <1> QED
    BY <1>1, <1>2, NextLeafInv, SiftUpInv, PopNodeInv, SiftDownInv, MergeInv, OnlySymbolInv
       DEF BuildLengths

LEMMA HeapInvInit == Init => HeapInv
  <1> SUFFICES ASSUME Init PROVE HeapInv
    OBVIOUS
  <1>1. /\ hpc = "leaf" /\ symbol = 0 /\ nodes = <<>> /\ heap = <<>> /\ slot = 1 /\ popped = <<>>
    BY DEF Init, LenInit
  <1>2. IsFiniteSet(DOMAIN text)
    <2>1. CASE text \in UNION {[1 .. n -> Symbol] : n \in 1 .. MaxText}
      <3>1. PICK n \in 1 .. MaxText : text \in [1 .. n -> Symbol]
        BY <2>1
      <3>2. DOMAIN text = 1 .. n
        BY <3>1
      <3> QED
        BY <3>2, FS_Interval
    <2>2. CASE text = <<>>
      <3>1. DOMAIN text = {}
        BY <2>2
      <3> QED
        BY <3>1, FS_EmptySet
    <2> QED
      BY <2>1, <2>2 DEF Init
  <1>3. LenTypes
    BY <1>1, <1>2, EmptySeq, SymbolsAssumption DEF LenTypes
  <1> QED
    BY <1>1, <1>3, HeapInvMeans DEF Once, Order, First

LEMMA HeapInvStep == HeapInv /\ [Next]_vars => HeapInv'
  <1> SUFFICES ASSUME HeapInv, [Next]_vars PROVE HeapInv'
    OBVIOUS
  <1>1. ASSUME UNCHANGED lenVars PROVE HeapInv'
    <2>1. UNCHANGED <<text, symbol, nodes, heap, slot, popped, hpc>>
      BY <1>1 DEF lenVars, heapVars
    <2> QED
      BY <2>1 DEF HeapInv, LenTypes, NodesOnce, HeapOrder, PoppedLeast, node_less
  <1>2. CASE LengthsStep
    BY <1>2, BuildLengthsInv DEF LengthsStep
  <1>3. CASE CodesBegin
    BY <1>3, QuietInv DEF CodesBegin, heapVars
  <1>4. CASE CodesStep \/ WriteBegin \/ WriteBit \/ WriteEnd \/ CheckPayload \/ TreeBegin
             \/ TreeStep \/ ReadBegin \/ ReadBit \/ ReadEnd \/ HelperFails
    BY <1>1, <1>4 DEF CodesStep, WriteBegin, WriteBit, WriteEnd, CheckPayload, TreeBegin,
                      TreeStep, ReadBegin, ReadBit, ReadEnd, HelperFails
  <1>5. CASE UNCHANGED vars \/ Terminated
    BY <1>1, <1>5 DEF vars, Terminated
  <1> QED
    BY <1>2, <1>3, <1>4, <1>5 DEF Next, Step

\* The heap keeps its order through every push and pop, in the middle of a
\* sift too, holds each node once and never one that was popped (huff.c:34-103).
THEOREM HeapKeepsOrder == Spec => []HeapInv
  BY HeapInvInit, HeapInvStep, PTL DEF Spec

\* What heap_pop returns is the least of all that is in the heap, whatever the
\* frequencies, so a new tree node is made of the two least (huff.c:68-103).
THEOREM LeastIsPopped == Spec => []PoppedLeast
  <1>1. HeapInv => PoppedLeast
    BY DEF HeapInv
  <1> QED
    BY <1>1, HeapKeepsOrder, PTL

----------------------------------------------------------------------------
(* Sums.                                                                   *)

SumBody(f, s) == [n \in 0 .. Symbols |-> IF n = 0 THEN 0 ELSE s[n - 1] + f[n - 1]]

\* Total by its partial sums.
Sums(f, s) ==
    /\ s \in [0 .. Symbols -> Nat] /\ s[0] = 0
    /\ \A n \in Symbol : s[n + 1] = s[n] + f[n]

LEMMA SymbolsNat == Symbols \in Nat /\ Symbols >= 1
  BY SymbolsAssumption

LEMMA TotalFacts ==
  ASSUME NEW f \in [Symbol -> Nat]
  PROVE  \E s : Sums(f, s) /\ Total(f) = s[Symbols]
  <1> DEFINE g == [k \in 1 .. Symbols |-> f[k - 1]]
  <1>1. \A k \in 1 .. Symbols : g[k] \in Nat /\ g[k] = f[k - 1]
    BY SymbolsNat DEF Symbol
  <1> HIDE DEF g
  <1>2. PICK t \in [0 .. Symbols -> Nat] :
           t[0] = 0 /\ \A k \in 1 .. Symbols : t[k] = t[k - 1] + g[k]
    BY <1>1, SymbolsNat, SumExists
  <1>3. t = SumBody(f, t)
    <2>1. \A n \in 0 .. Symbols : t[n] = IF n = 0 THEN 0 ELSE t[n - 1] + f[n - 1]
      BY <1>1, <1>2, SymbolsNat
    <2> QED
      BY <2>1 DEF SumBody
  <1>4. PICK s : s = SumBody(f, s) /\ Total(f) = s[Symbols]
    <2> DEFINE c == CHOOSE s : s = SumBody(f, s)
    <2>1. c = SumBody(f, c)
      BY <1>3
    <2>2. Total(f) = c[Symbols]
      BY DEF Total, SumBody
    <2> HIDE DEF c
    <2> QED
      BY <2>1, <2>2
  <1>5. s[0] = 0 /\ DOMAIN s = 0 .. Symbols /\ s = [n \in 0 .. Symbols |-> s[n]]
    BY <1>4, SymbolsNat DEF SumBody
  <1>6. ASSUME NEW n \in Symbol PROVE s[n + 1] = s[n] + f[n]
    <2>1. n + 1 \in 0 .. Symbols /\ n + 1 # 0 /\ (n + 1) - 1 = n
      BY SymbolsNat DEF Symbol
    <2>2. s[n + 1] = s[(n + 1) - 1] + f[(n + 1) - 1]
      BY <1>4, <2>1 DEF SumBody
    <2> QED
      BY <2>1, <2>2
  <1>7. \A n \in Nat : n <= Symbols => s[n] \in Nat
    <2> DEFINE T == {n \in Nat : n <= Symbols => s[n] \in Nat}
    <2>1. 0 \in T
      BY <1>5
    <2>2. ASSUME NEW n \in T PROVE n + 1 \in T
      <3> SUFFICES ASSUME n + 1 <= Symbols PROVE s[n + 1] \in Nat
        OBVIOUS
      <3>1. n \in Symbol /\ s[n] \in Nat
        BY SymbolsNat DEF Symbol
      <3> QED
        BY <1>6, <3>1
    <2>3. T = Nat
      BY <2>1, <2>2, NatInductionSet
    <2> QED
      BY <2>3
  <1>8. s \in [0 .. Symbols -> Nat]
    BY <1>5, <1>7
  <1> QED
    BY <1>4, <1>5, <1>6, <1>8 DEF Sums

\* A value that is added at one symbol is added to the total.
LEMMA TotalUpdate ==
  ASSUME NEW f \in [Symbol -> Nat], NEW g \in [Symbol -> Nat], NEW x \in Symbol,
         \A y \in Symbol : y # x => g[y] = f[y]
  PROVE  Total(f) \in Nat /\ Total(g) = Total(f) + g[x] - f[x]
  <1>1. PICK s : Sums(f, s) /\ Total(f) = s[Symbols]
    BY TotalFacts
  <1>2. PICK t : Sums(g, t) /\ Total(g) = t[Symbols]
    BY TotalFacts
  <1> DEFINE T == {n \in Nat : n <= Symbols =>
                      t[n] = IF n <= x THEN s[n] ELSE s[n] + g[x] - f[x]}
  <1>3. 0 \in T
    BY <1>1, <1>2 DEF Sums, Symbol
  <1>4. ASSUME NEW n \in T PROVE n + 1 \in T
    <2> SUFFICES ASSUME n + 1 <= Symbols
                 PROVE  t[n + 1] = IF n + 1 <= x THEN s[n + 1] ELSE s[n + 1] + g[x] - f[x]
      OBVIOUS
    <2>1. n \in Symbol /\ n \in 0 .. Symbols /\ x \in Nat
      BY SymbolsNat DEF Symbol
    <2>2. t[n] = IF n <= x THEN s[n] ELSE s[n] + g[x] - f[x]
      BY SymbolsNat
    <2>3. t[n + 1] = t[n] + g[n] /\ s[n + 1] = s[n] + f[n] /\ s[n] \in Nat /\ t[n] \in Nat
      BY <1>1, <1>2, <2>1 DEF Sums
    <2>4. f[n] \in Nat /\ g[n] \in Nat /\ f[x] \in Nat /\ g[x] \in Nat
      BY <2>1
    <2>5. n # x => g[n] = f[n]
      BY <2>1
    <2> HIDE DEF T
    <2> QED
      BY <2>1, <2>2, <2>3, <2>4, <2>5
  <1>5. T = Nat
    <2> HIDE DEF T
    <2>1. T \subseteq Nat
      BY DEF T
    <2> QED
      BY <1>3, <1>4, <2>1, NatInductionSet
  <1>6. t[Symbols] = s[Symbols] + g[x] - f[x]
    <2>1. Symbols \in T
      BY ONLY <1>5, SymbolsNat
    <2>2. ~(Symbols <= x)
      BY SymbolsNat DEF Symbol
    <2> QED
      BY <2>1, <2>2, SymbolsNat
  <1> QED
    BY <1>1, <1>2, <1>6, SymbolsNat DEF Sums

\* Totals are ordered as their parts.
LEMMA TotalMonotone ==
  ASSUME NEW f \in [Symbol -> Nat], NEW g \in [Symbol -> Nat],
         \A y \in Symbol : f[y] <= g[y]
  PROVE  Total(f) <= Total(g) /\ Total(f) \in Nat /\ Total(g) \in Nat
  <1>1. PICK s : Sums(f, s) /\ Total(f) = s[Symbols]
    BY TotalFacts
  <1>2. PICK t : Sums(g, t) /\ Total(g) = t[Symbols]
    BY TotalFacts
  <1> DEFINE T == {n \in Nat : n <= Symbols => s[n] <= t[n]}
  <1>3. 0 \in T
    BY <1>1, <1>2 DEF Sums
  <1>4. ASSUME NEW n \in T PROVE n + 1 \in T
    <2> SUFFICES ASSUME n + 1 <= Symbols PROVE s[n + 1] <= t[n + 1]
      OBVIOUS
    <2>1. n \in Symbol /\ n \in 0 .. Symbols
      BY SymbolsNat DEF Symbol
    <2>2. s[n] <= t[n]
      BY SymbolsNat
    <2>3. t[n + 1] = t[n] + g[n] /\ s[n + 1] = s[n] + f[n] /\ s[n] \in Nat /\ t[n] \in Nat
      BY <1>1, <1>2, <2>1 DEF Sums
    <2>4. f[n] \in Nat /\ g[n] \in Nat /\ f[n] <= g[n]
      BY <2>1
    <2> HIDE DEF T
    <2> QED
      BY <2>2, <2>3, <2>4
  <1>5. T = Nat
    <2> HIDE DEF T
    <2>1. T \subseteq Nat
      BY DEF T
    <2> QED
      BY <1>3, <1>4, <2>1, NatInductionSet
  <1>6. Symbols \in T
    BY <1>5, SymbolsNat
  <1> QED
    BY <1>1, <1>2, <1>6, SymbolsNat DEF Sums

LEMMA TotalZero ==
  ASSUME NEW f \in [Symbol -> Nat], \A x \in Symbol : f[x] = 0
  PROVE  Total(f) = 0
  <1>1. PICK s : Sums(f, s) /\ Total(f) = s[Symbols]
    BY TotalFacts
  <1> DEFINE T == {n \in Nat : n <= Symbols => s[n] = 0}
  <1>2. 0 \in T
    BY <1>1 DEF Sums
  <1>3. ASSUME NEW n \in T PROVE n + 1 \in T
    <2> SUFFICES ASSUME n + 1 <= Symbols PROVE s[n + 1] = 0
      OBVIOUS
    <2>1. n \in Symbol /\ s[n] = 0
      BY SymbolsNat DEF Symbol
    <2> QED
      BY <1>1, <2>1 DEF Sums
  <1>4. T = Nat
    <2> HIDE DEF T
    <2>1. T \subseteq Nat
      BY DEF T
    <2> QED
      BY <1>2, <1>3, <2>1, NatInductionSet
  <1>5. Symbols \in T
    BY <1>4, SymbolsNat
  <1> QED
    BY <1>1, <1>5, SymbolsNat

----------------------------------------------------------------------------
(* Shares of the code space.                                               *)

LEMMA MaxBitsNat == MaxCodeBits \in Nat /\ MaxCodeBits >= 1
  BY SymbolsAssumption

LEMMA ShareFacts ==
  /\ \A n \in 0 .. MaxCodeBits : Share(n) \in Nat
  /\ \A n \in 1 .. MaxCodeBits : Share(n) = pow2[MaxCodeBits - n] /\ Share(n) >= 1
  /\ \A n \in 1 .. MaxCodeBits - 1 : Share(n) = 2 * Share(n + 1)
  /\ pow2[MaxCodeBits] = 2 * Share(1) /\ pow2[MaxCodeBits] \in Nat
  <1>1. ASSUME NEW n \in 1 .. MaxCodeBits
        PROVE  Share(n) = pow2[MaxCodeBits - n] /\ Share(n) >= 1 /\ Share(n) \in Nat
    <2>1. MaxCodeBits - n \in Nat /\ n # 0
      BY MaxBitsNat
    <2>2. pow2[MaxCodeBits - n] \in Nat \ {0}
      BY <2>1, Pow2Positive
    <2> QED
      BY <2>1, <2>2 DEF Share
  <1>2. Share(0) = 0
    BY DEF Share
  <1>3. \A n \in 0 .. MaxCodeBits : Share(n) \in Nat
    <2> SUFFICES ASSUME NEW n \in 0 .. MaxCodeBits PROVE Share(n) \in Nat
      OBVIOUS
    <2>1. n = 0 \/ n \in 1 .. MaxCodeBits
      BY MaxBitsNat
    <2> QED
      BY <1>1, <1>2, <2>1
  <1>4. ASSUME NEW n \in 1 .. MaxCodeBits - 1 PROVE Share(n) = 2 * Share(n + 1)
    <2>1. n \in 1 .. MaxCodeBits /\ n + 1 \in 1 .. MaxCodeBits
          /\ MaxCodeBits - (n + 1) \in Nat
          /\ (MaxCodeBits - (n + 1)) + 1 = MaxCodeBits - n
      BY MaxBitsNat
    <2>2. pow2[(MaxCodeBits - (n + 1)) + 1] = 2 * pow2[MaxCodeBits - (n + 1)]
      BY <2>1, Pow2Def
    <2> QED
      BY <1>1, <2>1, <2>2
  <1>5. pow2[MaxCodeBits] = 2 * Share(1) /\ pow2[MaxCodeBits] \in Nat
    <2>1. 1 \in 1 .. MaxCodeBits /\ MaxCodeBits - 1 \in Nat
          /\ (MaxCodeBits - 1) + 1 = MaxCodeBits
      BY MaxBitsNat
    <2>2. pow2[(MaxCodeBits - 1) + 1] = 2 * pow2[MaxCodeBits - 1]
      BY <2>1, Pow2Def
    <2>3. Share(1) = pow2[MaxCodeBits - 1]
      BY <1>1, <2>1
    <2> QED
      BY <2>1, <2>2, <2>3, Pow2Def, MaxBitsNat
  <1> QED
    BY <1>1, <1>3, <1>4, <1>5

LEMMA ShareNat == \A n \in 1 .. MaxCodeBits : Share(n) \in Nat
  <1>1. \A n \in 1 .. MaxCodeBits : n \in 0 .. MaxCodeBits
    BY MaxBitsNat
  <1> QED
    BY <1>1, ShareFacts

Shares(lens) == [s \in Symbol |-> Share(lens[s])]

LEMMA SharesNat ==
  ASSUME NEW lens \in [Symbol -> 0 .. MaxCodeBits]
  PROVE  /\ Shares(lens) \in [Symbol -> Nat]
         /\ Kraft(lens) = Total(Shares(lens)) /\ Kraft(lens) \in Nat
  <1>1. Shares(lens) \in [Symbol -> Nat]
    BY ShareFacts DEF Shares
  <1>2. Kraft(lens) = Total(Shares(lens))
    BY DEF Kraft, Shares
  <1> QED
    BY <1>1, <1>2, TotalMonotone

----------------------------------------------------------------------------
(* The forest.                                                             *)

Below(ns, p, n) == ns[p].symbol = Inner /\ n \in {ns[p].left, ns[p].right}

\* The parts of Forest that hold of the nodes alone, with the frequencies fr
\* and the leaves of the symbols less than sy.
Grove(ns, fr, sy) ==
    /\ \A n \in DOMAIN ns :
          IF ns[n].symbol = Inner
          THEN /\ ns[n].left \in 1 .. n - 1 /\ ns[n].right \in 1 .. n - 1
               /\ ns[n].left # ns[n].right
          ELSE fr[ns[n].symbol] > 0 /\ ns[n].symbol < sy
    /\ \A s \in Symbol : s < sy /\ fr[s] > 0 => \E n \in DOMAIN ns : ns[n].symbol = s
    /\ \A m, n \in DOMAIN ns :
          ns[m].symbol = ns[n].symbol /\ ns[m].symbol # Inner => m = n
    /\ \A n, p, q \in DOMAIN ns : Below(ns, p, n) /\ Below(ns, q, n) => p = q

\* U are the nodes that are below no other.
Roots(ns, U) ==
    \A n \in DOMAIN ns : n \in U <=> ~\E p \in DOMAIN ns : Below(ns, p, n)

Extends(ns, new, x) ==
    /\ Len(ns) \in Nat /\ DOMAIN ns = 1 .. Len(ns) /\ DOMAIN new = 1 .. Len(ns) + 1
    /\ \A n \in 1 .. Len(ns) : new[n] = ns[n]
    /\ new[Len(ns) + 1] = x

LEMMA InnerIsNoSymbol == Inner \notin Symbol
  BY SymbolIsInt DEF Inner

LEMMA GroveSkip ==
  ASSUME NEW ns \in Seq(Node), NEW fr, NEW s \in Symbol, Grove(ns, fr, s), fr[s] = 0
  PROVE  Grove(ns, fr, s + 1)
  <1>1. s \in Nat /\ \A t \in Symbol : t < s + 1 => t = s \/ t < s
    BY SymbolIsInt
  <1>2. ASSUME NEW n \in DOMAIN ns, ns[n].symbol # Inner
        PROVE  fr[ns[n].symbol] > 0 /\ ns[n].symbol < s + 1
    <2>1. ns[n].symbol \in Nat
      <3>1. ns[n] \in Node
        OBVIOUS
      <3> QED
        BY <1>2, <3>1, SymbolIsInt DEF Node
    <2>2. fr[ns[n].symbol] > 0 /\ ns[n].symbol < s
      BY <1>2 DEF Grove
    <2> QED
      BY <1>1, <2>1, <2>2
  <1>3. ASSUME NEW t \in Symbol, t < s + 1, fr[t] > 0
        PROVE  \E n \in DOMAIN ns : ns[n].symbol = t
    <2>1. t < s
      BY <1>1, <1>3
    <2> QED
      BY <1>3, <2>1 DEF Grove
  <1> QED
    BY <1>2, <1>3 DEF Grove

LEMMA ExtendsBelow ==
  ASSUME NEW ns, NEW new, NEW x, Extends(ns, new, x)
  PROVE  /\ \A p, n \in 1 .. Len(ns) : Below(new, p, n) <=> Below(ns, p, n)
         /\ \A n : Below(new, Len(ns) + 1, n) <=> x.symbol = Inner /\ n \in {x.left, x.right}
  BY DEF Extends, Below

LEMMA GroveLeaf ==
  ASSUME NEW ns \in Seq(Node), NEW fr \in [Symbol -> Nat], NEW s \in Symbol, NEW U,
         Grove(ns, fr, s), Roots(ns, U), U \subseteq DOMAIN ns, fr[s] > 0,
         NEW x \in Node, x.symbol = s, NEW new, Extends(ns, new, x)
  PROVE  Grove(new, fr, s + 1) /\ Roots(new, U \cup {Len(ns) + 1})
  <1> DEFINE L == Len(ns)
  <1>1. L \in Nat /\ DOMAIN ns = 1 .. L /\ DOMAIN new = 1 .. L + 1
    BY DEF Extends
  <1>2. \A n \in 1 .. L : new[n] = ns[n] /\ ns[n] \in Node
    BY <1>1 DEF Extends
  <1>3. new[L + 1] = x /\ x.symbol = s /\ s # Inner /\ s \in Nat
    BY InnerIsNoSymbol, SymbolIsInt DEF Extends
  <1>4. ASSUME NEW n \in 1 .. L + 1, n # L + 1 PROVE n \in 1 .. L
    BY <1>1, <1>4
  <1>5. \A n \in 1 .. L : ns[n].symbol # Inner => ns[n].symbol \in Nat /\ ns[n].symbol < s
    BY <1>1, <1>2, SymbolIsInt DEF Grove, Node
  <1>6. ASSUME NEW n \in 1 .. L + 1
        PROVE  IF new[n].symbol = Inner
               THEN /\ new[n].left \in 1 .. n - 1 /\ new[n].right \in 1 .. n - 1
                    /\ new[n].left # new[n].right
               ELSE fr[new[n].symbol] > 0 /\ new[n].symbol < s + 1
    <2>1. CASE n = L + 1
      BY <1>3, <2>1
    <2>2. CASE n # L + 1
      <3>1. n \in 1 .. L /\ new[n] = ns[n]
        BY <1>2, <1>4, <2>2
      <3>2. IF ns[n].symbol = Inner
            THEN /\ ns[n].left \in 1 .. n - 1 /\ ns[n].right \in 1 .. n - 1
                 /\ ns[n].left # ns[n].right
            ELSE fr[ns[n].symbol] > 0 /\ ns[n].symbol < s
        BY <1>1, <3>1 DEF Grove
      <3> QED
        BY <1>3, <1>5, <3>1, <3>2
    <2> QED
      BY <2>1, <2>2
  <1>7. ASSUME NEW t \in Symbol, t < s + 1, fr[t] > 0
        PROVE  \E n \in 1 .. L + 1 : new[n].symbol = t
    <2>1. CASE t = s
      BY <1>1, <1>3, <2>1
    <2>2. CASE t # s
      <3>1. t < s
        BY <1>3, <1>7, <2>2, SymbolIsInt
      <3>2. PICK n \in 1 .. L : ns[n].symbol = t
        BY <1>1, <1>7, <3>1 DEF Grove
      <3> QED
        BY <1>1, <1>2, <3>2
    <2> QED
      BY <2>1, <2>2
  <1>8. ASSUME NEW m \in 1 .. L + 1, NEW n \in 1 .. L + 1,
               new[m].symbol = new[n].symbol, new[m].symbol # Inner
        PROVE  m = n
    <2>1. CASE m = L + 1 /\ n = L + 1
      BY <2>1
    <2>2. CASE m # L + 1 /\ n # L + 1
      <3>1. m \in 1 .. L /\ n \in 1 .. L
        BY <1>4, <2>2
      <3> QED
        BY <1>1, <1>2, <1>8, <3>1, SMTT(30) DEF Grove
    <2>3. CASE m = L + 1 /\ n # L + 1
      BY <1>2, <1>3, <1>4, <1>5, <1>8, <2>3
    <2>4. CASE m # L + 1 /\ n = L + 1
      BY <1>2, <1>3, <1>4, <1>5, <1>8, <2>4
    <2> QED
      BY <2>1, <2>2, <2>3, <2>4
  <1>9. \A n : ~Below(new, L + 1, n)
    BY <1>3, ExtendsBelow
  <1>10. \A p, n \in 1 .. L : Below(new, p, n) <=> Below(ns, p, n)
    BY ExtendsBelow
  <1>11. \A p \in 1 .. L : ~Below(new, p, L + 1)
    <2> SUFFICES ASSUME NEW p \in 1 .. L, Below(new, p, L + 1) PROVE FALSE
      OBVIOUS
    <2>1. ns[p].symbol = Inner /\ L + 1 \in {ns[p].left, ns[p].right}
      BY <1>2 DEF Below
    <2>2. ns[p].left \in 1 .. p - 1 /\ ns[p].right \in 1 .. p - 1
      BY <1>1, <2>1 DEF Grove
    <2> QED
      BY <1>1, <2>1, <2>2
  <1>12. ASSUME NEW n \in 1 .. L + 1, NEW p \in 1 .. L + 1, NEW q \in 1 .. L + 1,
                Below(new, p, n), Below(new, q, n)
         PROVE  p = q
    <2>1. p \in 1 .. L /\ q \in 1 .. L
      BY <1>4, <1>9, <1>12
    <2>2. n \in 1 .. L
      BY <1>4, <1>11, <1>12, <2>1
    <2> QED
      BY <1>1, <1>10, <1>12, <2>1, <2>2 DEF Grove
  <1>13. Grove(new, fr, s + 1)
    BY <1>1, <1>6, <1>7, <1>8, <1>12 DEF Grove
  <1>14. ASSUME NEW n \in 1 .. L + 1
         PROVE  n \in U \cup {L + 1} <=> ~\E p \in 1 .. L + 1 : Below(new, p, n)
    <2>1. CASE n = L + 1
      BY <1>4, <1>9, <1>11, <2>1
    <2>2. CASE n # L + 1
      <3>1. n \in 1 .. L
        BY <1>4, <2>2
      <3>2. n \in U <=> ~\E p \in 1 .. L : Below(ns, p, n)
        BY <1>1, <3>1 DEF Roots
      <3>3. (\E p \in 1 .. L + 1 : Below(new, p, n)) <=> \E p \in 1 .. L : Below(ns, p, n)
        BY <1>1, <1>4, <1>9, <1>10, <3>1
      <3> QED
        BY <2>2, <3>2, <3>3
    <2> QED
      BY <2>1, <2>2
  <1>15. Roots(new, U \cup {L + 1})
    BY <1>1, <1>14 DEF Roots
  <1> QED
    BY <1>13, <1>15

LEMMA GroveMerge ==
  ASSUME NEW ns \in Seq(Node), NEW fr \in [Symbol -> Nat], NEW s, NEW U,
         Grove(ns, fr, s), Roots(ns, U), U \subseteq DOMAIN ns,
         NEW l \in U, NEW r \in U, l # r,
         NEW x \in Node, x.symbol = Inner, x.left = l, x.right = r,
         NEW new, Extends(ns, new, x)
  PROVE  Grove(new, fr, s) /\ Roots(new, (U \ {l, r}) \cup {Len(ns) + 1})
  <1> DEFINE L == Len(ns)
  <1>1. L \in Nat /\ DOMAIN ns = 1 .. L /\ DOMAIN new = 1 .. L + 1
    BY DEF Extends
  <1>2. \A n \in 1 .. L : new[n] = ns[n] /\ ns[n] \in Node
    BY <1>1 DEF Extends
  <1>3. new[L + 1] = x /\ x.symbol = Inner /\ l \in 1 .. L /\ r \in 1 .. L
    BY <1>1 DEF Extends
  <1>4. ASSUME NEW n \in 1 .. L + 1, n # L + 1 PROVE n \in 1 .. L
    BY <1>1, <1>4
  <1>6. ASSUME NEW n \in 1 .. L + 1
        PROVE  IF new[n].symbol = Inner
               THEN /\ new[n].left \in 1 .. n - 1 /\ new[n].right \in 1 .. n - 1
                    /\ new[n].left # new[n].right
               ELSE fr[new[n].symbol] > 0 /\ new[n].symbol < s
    <2>1. CASE n = L + 1
      BY <1>1, <1>3, <2>1
    <2>2. CASE n # L + 1
      <3>1. n \in 1 .. L /\ new[n] = ns[n]
        BY <1>2, <1>4, <2>2
      <3> QED
        BY <1>1, <3>1 DEF Grove
    <2> QED
      BY <2>1, <2>2
  <1>7. ASSUME NEW t \in Symbol, t < s, fr[t] > 0
        PROVE  \E n \in 1 .. L + 1 : new[n].symbol = t
    <2>1. PICK n \in 1 .. L : ns[n].symbol = t
      BY <1>1, <1>7 DEF Grove
    <2> QED
      BY <1>1, <1>2, <2>1
  <1>8. ASSUME NEW m \in 1 .. L + 1, NEW n \in 1 .. L + 1,
               new[m].symbol = new[n].symbol, new[m].symbol # Inner
        PROVE  m = n
    <2>1. m \in 1 .. L /\ n \in 1 .. L
      BY <1>3, <1>4, <1>8
    <2>2. ns[m].symbol = ns[n].symbol /\ ns[m].symbol # Inner
      BY <1>2, <1>8, <2>1
    <2>3. \A i, k \in 1 .. L : ns[i].symbol = ns[k].symbol /\ ns[i].symbol # Inner => i = k
      BY <1>1 DEF Grove
    <2> QED
      BY ONLY <2>1, <2>2, <2>3
  <1>9. \A n : Below(new, L + 1, n) <=> n \in {l, r}
    BY <1>3, ExtendsBelow
  <1>10. \A p, n \in 1 .. L : Below(new, p, n) <=> Below(ns, p, n)
    BY ExtendsBelow
  <1>11. \A p \in 1 .. L : ~Below(new, p, L + 1)
    <2> SUFFICES ASSUME NEW p \in 1 .. L, Below(new, p, L + 1) PROVE FALSE
      OBVIOUS
    <2>1. ns[p].symbol = Inner /\ L + 1 \in {ns[p].left, ns[p].right}
      BY <1>2 DEF Below
    <2>2. ns[p].left \in 1 .. p - 1 /\ ns[p].right \in 1 .. p - 1
      BY <1>1, <2>1 DEF Grove
    <2> QED
      BY <1>1, <2>1, <2>2
  <1>12. \A p \in 1 .. L : ~Below(ns, p, l) /\ ~Below(ns, p, r)
    BY <1>1, <1>3 DEF Roots
  <1>13. L + 1 \notin {l, r}
    BY <1>1, <1>3
  <1>14. ASSUME NEW n \in 1 .. L + 1, NEW p \in 1 .. L + 1, NEW q \in 1 .. L + 1,
                Below(new, p, n), Below(new, q, n)
         PROVE  p = q
    <2>1. CASE n \in {l, r}
      BY <1>3, <1>4, <1>10, <1>12, <1>14, <2>1
    <2>2. CASE n \notin {l, r}
      <3>1. p \in 1 .. L /\ q \in 1 .. L
        BY <1>4, <1>9, <1>14, <2>2
      <3>2. n \in 1 .. L
        BY <1>4, <1>11, <1>14, <3>1
      <3> QED
        BY <1>1, <1>10, <1>14, <3>1, <3>2 DEF Grove
    <2> QED
      BY <2>1, <2>2
  <1>15. Grove(new, fr, s)
    BY <1>1, <1>6, <1>7, <1>8, <1>14 DEF Grove
  <1>16. ASSUME NEW n \in 1 .. L + 1
         PROVE  n \in (U \ {l, r}) \cup {L + 1} <=> ~\E p \in 1 .. L + 1 : Below(new, p, n)
    <2>1. CASE n = L + 1
      BY <1>4, <1>9, <1>11, <1>13, <2>1
    <2>2. CASE n \in {l, r}
      BY <1>1, <1>9, <1>13, <2>2
    <2>3. CASE n # L + 1 /\ n \notin {l, r}
      <3>1. n \in 1 .. L
        BY <1>4, <2>3
      <3>2. n \in U <=> ~\E p \in 1 .. L : Below(ns, p, n)
        BY <1>1, <3>1 DEF Roots
      <3>3. (\E p \in 1 .. L + 1 : Below(new, p, n)) <=> \E p \in 1 .. L : Below(ns, p, n)
        BY <1>1, <1>4, <1>9, <1>10, <2>3, <3>1
      <3> QED
        BY <2>3, <3>2, <3>3
    <2> QED
      BY <2>1, <2>2, <2>3
  <1>17. Roots(new, (U \ {l, r}) \cup {L + 1})
    BY <1>1, <1>16 DEF Roots
  <1> QED
    BY <1>15, <1>17

----------------------------------------------------------------------------
(* Depths.                                                                 *)

\* One tree with all leaves, the leaves first.
Whole(ns, fr, count) ==
    /\ ns \in Seq(Node) /\ Grove(ns, fr, Symbols) /\ Roots(ns, {Len(ns)})
    /\ count \in 1 .. Symbols /\ count < Len(ns) /\ Len(ns) < 2 * count
    /\ \A n \in DOMAIN ns : ns[n].symbol # Inner <=> n <= count

Layers(ns, layer) ==
    /\ layer[0] = {Len(ns)}
    /\ \A d \in Nat : \A m : m \in layer[d + 1] <=> \E p \in layer[d] : Below(ns, p, m)

Depths(ns, dep) ==
    /\ dep \in [DOMAIN ns -> Nat] /\ dep[Len(ns)] = 0
    /\ \A n \in DOMAIN ns : dep[n] + n <= Len(ns)
    /\ \A n \in DOMAIN ns : n # Len(ns) => dep[n] > 0
    /\ \A p, n \in DOMAIN ns : Below(ns, p, n) => dep[n] = dep[p] + 1

LEMMA GroveBelow ==
  ASSUME NEW ns \in Seq(Node), NEW fr, NEW s, Grove(ns, fr, s),
         NEW p \in DOMAIN ns, NEW n, Below(ns, p, n)
  PROVE  n \in DOMAIN ns /\ n < p
  <1>1. /\ ns[p].left \in 1 .. p - 1 /\ ns[p].right \in 1 .. p - 1
        /\ n \in {ns[p].left, ns[p].right}
    BY DEF Grove, Below
  <1>2. p \in 1 .. Len(ns) /\ Len(ns) \in Nat /\ DOMAIN ns = 1 .. Len(ns)
    OBVIOUS
  <1> QED
    BY <1>1, <1>2

LEMMA LayerBound ==
  ASSUME NEW ns \in Seq(Node), ns # <<>>, NEW fr, NEW s, Grove(ns, fr, s),
         NEW layer, Layers(ns, layer)
  PROVE  \A d \in Nat : \A n \in layer[d] : n \in DOMAIN ns /\ d + n <= Len(ns)
  <1> DEFINE T == {d \in Nat : \A n \in layer[d] : n \in DOMAIN ns /\ d + n <= Len(ns)}
  <1>1. Len(ns) \in Nat /\ DOMAIN ns = 1 .. Len(ns) /\ Len(ns) >= 1
    OBVIOUS
  <1>2. 0 \in T
    BY <1>1 DEF Layers
  <1>3. ASSUME NEW d \in T PROVE d + 1 \in T
    <2>1. ASSUME NEW n \in layer[d + 1] PROVE n \in DOMAIN ns /\ (d + 1) + n <= Len(ns)
      <3>1. PICK p \in layer[d] : Below(ns, p, n)
        BY DEF Layers
      <3>2. p \in DOMAIN ns /\ d + p <= Len(ns) /\ d \in Nat
        OBVIOUS
      <3>3. n \in DOMAIN ns /\ n < p
        BY <3>1, <3>2, GroveBelow
      <3> QED
        BY <1>1, <3>2, <3>3
    <2>2. d + 1 \in Nat
      OBVIOUS
    <2> QED
      BY <2>1, <2>2
  <1>4. T = Nat
    <2> HIDE DEF T
    <2>1. T \subseteq Nat
      BY DEF T
    <2> QED
      BY <1>2, <1>3, <2>1, NatInductionSet
  <1>5. \A d \in Nat : d \in T
    BY ONLY <1>4
  <1> QED
    BY <1>5

\* Each node of one tree is in one layer.
LEMMA LayerOfNode ==
  ASSUME NEW ns, NEW fr, NEW count, Whole(ns, fr, count), NEW layer, Layers(ns, layer)
  PROVE  \A n \in DOMAIN ns : \E d \in Nat : n \in layer[d]
  <1>1. /\ ns \in Seq(Node) /\ Len(ns) \in Nat /\ DOMAIN ns = 1 .. Len(ns)
        /\ Grove(ns, fr, Symbols) /\ Roots(ns, {Len(ns)}) /\ Len(ns) >= 1
    BY SymbolsNat DEF Whole
  <1> DEFINE T == {k \in Nat : \A n \in DOMAIN ns : n + k >= Len(ns) => \E d \in Nat : n \in layer[d]}
  <1>2. 0 \in T
    <2>1. Len(ns) \in layer[0]
      BY DEF Layers
    <2> QED
      BY <1>1, <2>1
  <1>3. ASSUME NEW k \in T PROVE k + 1 \in T
    <2> SUFFICES ASSUME NEW n \in DOMAIN ns, n + (k + 1) >= Len(ns)
                 PROVE  \E d \in Nat : n \in layer[d]
      OBVIOUS
    <2>1. CASE n = Len(ns)
      BY <2>1 DEF Layers
    <2>2. CASE n # Len(ns)
      <3>1. PICK p \in DOMAIN ns : Below(ns, p, n)
        BY <1>1, <2>2 DEF Roots
      <3>2. n < p
        BY <1>1, <3>1, GroveBelow
      <3>3. p + k >= Len(ns)
        BY <1>1, <3>2
      <3>4. PICK d \in Nat : p \in layer[d]
        BY <3>3
      <3>5. n \in layer[d + 1] /\ d + 1 \in Nat
        BY <3>1, <3>4 DEF Layers
      <3> QED
        BY <3>5
    <2> QED
      BY <2>1, <2>2
  <1>4. T = Nat
    <2> HIDE DEF T
    <2>1. T \subseteq Nat
      BY DEF T
    <2> QED
      BY <1>2, <1>3, <2>1, NatInductionSet
  <1>5. Len(ns) \in T
    BY ONLY <1>1, <1>4
  <1> QED
    BY <1>1, <1>5

LEMMA LayerUnique ==
  ASSUME NEW ns, NEW fr, NEW count, Whole(ns, fr, count), NEW layer, Layers(ns, layer)
  PROVE  \A d \in Nat : \A e \in Nat : \A n \in layer[d] : n \in layer[e] => d = e
  <1>1. /\ ns \in Seq(Node) /\ Len(ns) \in Nat /\ DOMAIN ns = 1 .. Len(ns)
        /\ Grove(ns, fr, Symbols) /\ Roots(ns, {Len(ns)}) /\ Len(ns) >= 1 /\ ns # <<>>
    BY SymbolsNat DEF Whole
  <1>2. \A d \in Nat : \A n \in layer[d] : n \in DOMAIN ns /\ d + n <= Len(ns)
    BY <1>1, LayerBound
  <1>3. ASSUME NEW d \in Nat, NEW e \in Nat, NEW n, n \in layer[d], n \in layer[e], d = 0
        PROVE  e = 0
    BY <1>1, <1>2, <1>3 DEF Layers
  <1> DEFINE T == {d \in Nat : \A e \in Nat : \A n \in layer[d] : n \in layer[e] => d = e}
  <1>4. 0 \in T
    BY <1>3
  <1>5. ASSUME NEW d \in T PROVE d + 1 \in T
    <2> SUFFICES ASSUME NEW e \in Nat, NEW n \in layer[d + 1], n \in layer[e]
                 PROVE  d + 1 = e
      OBVIOUS
    <2>1. e # 0
      <3> HIDE DEF T
      <3>1. d + 1 \in Nat /\ d + 1 # 0
        BY DEF T
      <3> QED
        BY <1>3, <3>1
    <2>2. e - 1 \in Nat /\ (e - 1) + 1 = e
      BY <2>1
    <2>3. PICK p \in layer[d] : Below(ns, p, n)
      BY DEF Layers
    <2>4. n \in layer[(e - 1) + 1]
      BY <2>2
    <2>5. PICK q \in layer[e - 1] : Below(ns, q, n)
      BY <2>2, <2>4 DEF Layers
    <2>6. p \in DOMAIN ns /\ q \in DOMAIN ns /\ n \in DOMAIN ns
      BY <1>2, <2>2
    <2>7. p = q
      BY <1>1, <2>3, <2>5, <2>6 DEF Grove
    <2>8. d = e - 1
      BY <2>2, <2>7
    <2> QED
      BY <2>2, <2>8
  <1>6. T = Nat
    <2> HIDE DEF T
    <2>1. T \subseteq Nat
      BY DEF T
    <2> QED
      BY <1>4, <1>5, <2>1, NatInductionSet
  <1>7. \A d \in Nat : d \in T
    BY ONLY <1>6
  <1> QED
    BY <1>7

LEMMA DepthsExist ==
  ASSUME NEW ns, NEW fr, NEW count, Whole(ns, fr, count), NEW layer, Layers(ns, layer)
  PROVE  \E dep : /\ Depths(ns, dep)
                  /\ \A d \in Nat : \A n : n \in layer[d] <=> n \in DOMAIN ns /\ dep[n] = d
  <1>1. /\ ns \in Seq(Node) /\ Len(ns) \in Nat /\ DOMAIN ns = 1 .. Len(ns)
        /\ Grove(ns, fr, Symbols) /\ Roots(ns, {Len(ns)}) /\ Len(ns) >= 1 /\ ns # <<>>
    BY SymbolsNat DEF Whole
  <1>2. \A d \in Nat : \A n \in layer[d] : n \in DOMAIN ns /\ d + n <= Len(ns)
    BY <1>1, LayerBound
  <1>3. PICK dep : dep = [n \in DOMAIN ns |-> CHOOSE d \in Nat : n \in layer[d]]
    OBVIOUS
  <1>4. ASSUME NEW n \in DOMAIN ns PROVE dep[n] \in Nat /\ n \in layer[dep[n]]
    <2>1. \E d \in Nat : n \in layer[d]
      BY LayerOfNode
    <2> QED
      BY <1>3, <2>1
  <1>5. ASSUME NEW d \in Nat, NEW n PROVE n \in layer[d] <=> n \in DOMAIN ns /\ dep[n] = d
    BY <1>2, <1>4, LayerUnique
  <1>6. dep \in [DOMAIN ns -> Nat]
    BY <1>3, <1>4
  <1>7. dep[Len(ns)] = 0
    <2>1. Len(ns) \in layer[0]
      BY DEF Layers
    <2> QED
      BY <1>5, <2>1
  <1>8. \A n \in DOMAIN ns : dep[n] + n <= Len(ns)
    BY <1>2, <1>4
  <1>9. ASSUME NEW n \in DOMAIN ns, n # Len(ns) PROVE dep[n] > 0
    <2>1. n \notin layer[0]
      BY <1>9 DEF Layers
    <2>2. dep[n] # 0 /\ dep[n] \in Nat
      BY <1>4, <2>1
    <2> QED
      BY <2>2
  <1>10. ASSUME NEW p \in DOMAIN ns, NEW n \in DOMAIN ns, Below(ns, p, n)
         PROVE  dep[n] = dep[p] + 1
    <2>1. n \in layer[dep[p] + 1] /\ dep[p] + 1 \in Nat
      BY <1>4, <1>10 DEF Layers
    <2> QED
      BY <1>5, <2>1
  <1> QED
    BY <1>5, <1>6, <1>7, <1>8, <1>9, <1>10 DEF Depths

----------------------------------------------------------------------------
(* The lengths of a tree fill the code space.                              *)

LEMMA TotalSum ==
  ASSUME NEW f \in [Symbol -> Nat], NEW g \in [Symbol -> Nat], NEW h \in [Symbol -> Nat],
         \A x \in Symbol : h[x] = f[x] + g[x]
  PROVE  Total(h) = Total(f) + Total(g) /\ Total(f) \in Nat /\ Total(g) \in Nat
  <1>1. PICK s : Sums(f, s) /\ Total(f) = s[Symbols]
    BY TotalFacts
  <1>2. PICK t : Sums(g, t) /\ Total(g) = t[Symbols]
    BY TotalFacts
  <1>3. PICK u : Sums(h, u) /\ Total(h) = u[Symbols]
    BY TotalFacts
  <1> DEFINE T == {n \in Nat : n <= Symbols => u[n] = s[n] + t[n]}
  <1>4. 0 \in T
    BY <1>1, <1>2, <1>3 DEF Sums
  <1>5. ASSUME NEW n \in T PROVE n + 1 \in T
    <2> SUFFICES ASSUME n + 1 <= Symbols PROVE u[n + 1] = s[n + 1] + t[n + 1]
      OBVIOUS
    <2>1. n \in Symbol /\ n \in 0 .. Symbols
      BY SymbolsNat DEF Symbol
    <2>2. u[n] = s[n] + t[n]
      BY SymbolsNat
    <2>3. /\ t[n + 1] = t[n] + g[n] /\ s[n + 1] = s[n] + f[n] /\ u[n + 1] = u[n] + h[n]
          /\ s[n] \in Nat /\ t[n] \in Nat
      BY <1>1, <1>2, <1>3, <2>1 DEF Sums
    <2>4. f[n] \in Nat /\ g[n] \in Nat /\ h[n] = f[n] + g[n]
      BY <2>1
    <2> HIDE DEF T
    <2> QED
      BY <2>2, <2>3, <2>4
  <1>6. T = Nat
    <2> HIDE DEF T
    <2>1. T \subseteq Nat
      BY DEF T
    <2> QED
      BY <1>4, <1>5, <2>1, NatInductionSet
  <1>7. Symbols \in T
    BY ONLY <1>6, SymbolsNat
  <1> QED
    BY <1>1, <1>2, <1>3, <1>7, SymbolsNat DEF Sums

Of(w, B) == [s \in Symbol |-> IF s \in B THEN w[s] ELSE 0]

LEMMA OfFacts ==
  ASSUME NEW w \in [Symbol -> Nat], NEW B
  PROVE  /\ Of(w, B) \in [Symbol -> Nat]
         /\ \A s \in Symbol : Of(w, B)[s] = IF s \in B THEN w[s] ELSE 0
  BY DEF Of

LEMMA TotalOfUnion ==
  ASSUME NEW w \in [Symbol -> Nat], NEW B, NEW C, B \cap C = {}
  PROVE  Total(Of(w, B \cup C)) = Total(Of(w, B)) + Total(Of(w, C))
  <1>1. PICK f, g, h : f = Of(w, B) /\ g = Of(w, C) /\ h = Of(w, B \cup C)
    OBVIOUS
  <1>2. /\ f \in [Symbol -> Nat] /\ g \in [Symbol -> Nat] /\ h \in [Symbol -> Nat]
    BY <1>1, OfFacts
  <1>3. ASSUME NEW x \in Symbol PROVE h[x] = f[x] + g[x]
    <2>1. /\ f[x] = IF x \in B THEN w[x] ELSE 0
          /\ g[x] = IF x \in C THEN w[x] ELSE 0
          /\ h[x] = IF x \in B \cup C THEN w[x] ELSE 0
      BY <1>1, OfFacts
    <2>2. w[x] \in Nat
      OBVIOUS
    <2> QED
      BY <2>1, <2>2
  <1>4. Total(h) = Total(f) + Total(g)
    BY ONLY <1>2, <1>3, TotalSum
  <1> QED
    BY <1>1, <1>4

LEMMA TotalOfOne ==
  ASSUME NEW w \in [Symbol -> Nat], NEW s \in Symbol
  PROVE  Total(Of(w, {s})) = w[s]
  <1>1. PICK f, g : f = Of(w, {}) /\ g = Of(w, {s})
    OBVIOUS
  <1>2. f \in [Symbol -> Nat] /\ g \in [Symbol -> Nat]
    BY <1>1, OfFacts
  <1>3. /\ \A x \in Symbol : f[x] = 0
        /\ \A x \in Symbol : g[x] = IF x = s THEN w[x] ELSE 0
    BY <1>1, OfFacts
  <1>4. Total(f) = 0
    BY <1>2, <1>3, TotalZero
  <1>5. Total(g) = Total(f) + g[s] - f[s]
    BY <1>2, <1>3, TotalUpdate
  <1>6. w[s] \in Nat /\ g[s] = w[s] /\ f[s] = 0
    BY <1>3
  <1> QED
    BY <1>1, <1>4, <1>5, <1>6

Free(ns, n, k) == \A p \in 1 .. k : ~Below(ns, p, n)

\* B has the symbols below each of the first k nodes.
LeafSets(ns, w, max, dep, B, k) ==
    /\ B \in [1 .. k -> SUBSET Symbol]
    /\ \A n \in 1 .. k : Total(Of(w, B[n])) = pow2[max - dep[n]]
    /\ \A m, n \in 1 .. k : m # n /\ Free(ns, m, k) /\ Free(ns, n, k) => B[m] \cap B[n] = {}
    /\ \A s \in Symbol : (\E n \in 1 .. k : ns[n].symbol = s)
                             <=> \E n \in 1 .. k : Free(ns, n, k) /\ s \in B[n]

LEMMA LeafSetsGrow ==
  ASSUME NEW ns \in Seq(Node), NEW fr, NEW sy, Grove(ns, fr, sy),
         NEW max \in Nat, NEW dep, Depths(ns, dep), \A n \in DOMAIN ns : dep[n] <= max,
         NEW w \in [Symbol -> Nat],
         \A n \in DOMAIN ns : ns[n].symbol # Inner => w[ns[n].symbol] = pow2[max - dep[n]],
         NEW k \in Nat, k + 1 <= Len(ns), NEW B, LeafSets(ns, w, max, dep, B, k)
  PROVE  \E C : LeafSets(ns, w, max, dep, C, k + 1)
  <1>1. /\ Len(ns) \in Nat /\ DOMAIN ns = 1 .. Len(ns) /\ k + 1 \in DOMAIN ns
        /\ \A n \in 1 .. k : n \in DOMAIN ns
    OBVIOUS
  <1>2. \A n \in 1 .. k + 1 : n # k + 1 => n \in 1 .. k
    OBVIOUS
  <1>3. \A p \in DOMAIN ns : \A n : Below(ns, p, n) => n \in DOMAIN ns /\ n < p
    BY GroveBelow
  <1>4. \A n \in 1 .. k : n \in 1 .. k + 1 /\ n # k + 1
    OBVIOUS
  <1>5. Free(ns, k + 1, k + 1)
    <2> SUFFICES ASSUME NEW p \in 1 .. k + 1, Below(ns, p, k + 1) PROVE FALSE
      BY DEF Free
    <2>1. p \in DOMAIN ns
      BY <1>1
    <2>2. k + 1 < p
      BY <1>3, <2>1
    <2> QED
      BY <2>2
  <1>6. \A n : Free(ns, n, k + 1) <=> Free(ns, n, k) /\ ~Below(ns, k + 1, n)
    BY <1>2, <1>4 DEF Free
  <1>7. CASE ns[k + 1].symbol # Inner
    <2> DEFINE x == ns[k + 1].symbol
    <2>1. x \in Symbol
      <3>1. ns[k + 1] \in Node
        BY <1>1
      <3> QED
        BY <1>7, <3>1 DEF Node
    <2>2. PICK C : C = [n \in 1 .. k + 1 |-> IF n = k + 1 THEN {x} ELSE B[n]]
      OBVIOUS
    <2>3. C[k + 1] = {x} /\ \A n \in 1 .. k : C[n] = B[n]
      BY <1>4, <2>2
    <2>4. C \in [1 .. k + 1 -> SUBSET Symbol]
      <3>1. \A n \in 1 .. k + 1 : (IF n = k + 1 THEN {x} ELSE B[n]) \in SUBSET Symbol
        BY <1>2, <2>1 DEF LeafSets
      <3> QED
        BY <2>2, <3>1
    <2>5. ASSUME NEW n \in 1 .. k + 1 PROVE Total(Of(w, C[n])) = pow2[max - dep[n]]
      <3>1. CASE n = k + 1
        <4>1. Total(Of(w, {x})) = w[x]
          BY <2>1, TotalOfOne
        <4> QED
          BY <1>1, <1>7, <2>3, <3>1, <4>1
      <3>2. CASE n # k + 1
        BY <1>2, <2>3, <3>2 DEF LeafSets
      <3> QED
        BY <3>1, <3>2
    <2>6. \A n : ~Below(ns, k + 1, n)
      BY <1>7 DEF Below
    <2>7. \A n : Free(ns, n, k + 1) <=> Free(ns, n, k)
      BY <1>6, <2>6
    <2>8. ASSUME NEW n \in 1 .. k, Free(ns, n, k) PROVE x \notin B[n]
      <3> SUFFICES ASSUME x \in B[n] PROVE FALSE
        OBVIOUS
      <3>1. PICK m \in 1 .. k : ns[m].symbol = x
        BY <2>1, <2>8 DEF LeafSets
      <3>2. m = k + 1
        BY <1>1, <1>7, <3>1 DEF Grove
      <3> QED
        BY <1>4, <3>2
    <2>9. ASSUME NEW m \in 1 .. k + 1, NEW n \in 1 .. k + 1, m # n,
                 Free(ns, m, k + 1), Free(ns, n, k + 1)
          PROVE  C[m] \cap C[n] = {}
      <3>1. CASE m = k + 1
        BY <1>2, <2>3, <2>7, <2>8, <2>9, <3>1
      <3>2. CASE n = k + 1
        BY <1>2, <2>3, <2>7, <2>8, <2>9, <3>2
      <3>3. CASE m # k + 1 /\ n # k + 1
        <4>1. m \in 1 .. k /\ n \in 1 .. k
          BY <1>2, <3>3
        <4> QED
          BY <2>3, <2>7, <2>9, <4>1 DEF LeafSets
      <3> QED
        BY <3>1, <3>2, <3>3
    <2>10. ASSUME NEW s \in Symbol
           PROVE  (\E n \in 1 .. k + 1 : ns[n].symbol = s)
                      <=> \E n \in 1 .. k + 1 : Free(ns, n, k + 1) /\ s \in C[n]
      <3>1. (\E n \in 1 .. k : ns[n].symbol = s)
                <=> \E n \in 1 .. k : Free(ns, n, k) /\ s \in B[n]
        BY DEF LeafSets
      <3>2. (\E n \in 1 .. k + 1 : ns[n].symbol = s)
                <=> s = x \/ \E n \in 1 .. k : ns[n].symbol = s
        BY <1>2, <1>4
      <3>3. (\E n \in 1 .. k + 1 : Free(ns, n, k + 1) /\ s \in C[n])
                <=> s = x \/ \E n \in 1 .. k : Free(ns, n, k) /\ s \in B[n]
        <4>1. s \in C[k + 1] <=> s = x
          BY <2>3
        <4>2. k + 1 \in 1 .. k + 1
          OBVIOUS
        <4> HIDE DEF x
        <4> QED
          BY <1>2, <1>4, <1>5, <2>3, <2>7, <4>1, <4>2
      <3> QED
        BY <3>1, <3>2, <3>3
    <2>11. LeafSets(ns, w, max, dep, C, k + 1)
      BY <2>4, <2>5, <2>9, <2>10 DEF LeafSets
    <2> QED
      BY <2>11
  <1>8. CASE ns[k + 1].symbol = Inner
    <2> DEFINE l == ns[k + 1].left
               r == ns[k + 1].right
    <2>1. l \in 1 .. k /\ r \in 1 .. k /\ l # r
      <3>1. l \in 1 .. (k + 1) - 1 /\ r \in 1 .. (k + 1) - 1 /\ l # r
        BY <1>1, <1>8 DEF Grove
      <3> QED
        BY <3>1
    <2>2. PICK C : C = [n \in 1 .. k + 1 |-> IF n = k + 1 THEN B[l] \cup B[r] ELSE B[n]]
      OBVIOUS
    <2>3. C[k + 1] = B[l] \cup B[r] /\ \A n \in 1 .. k : C[n] = B[n]
      BY <1>4, <2>2
    <2>4. C \in [1 .. k + 1 -> SUBSET Symbol]
      <3>1. \A n \in 1 .. k + 1 : (IF n = k + 1 THEN B[l] \cup B[r] ELSE B[n]) \in SUBSET Symbol
        BY <1>2, <2>1 DEF LeafSets
      <3> QED
        BY <2>2, <3>1
    <2>5. \A n : Below(ns, k + 1, n) <=> n \in {l, r}
      BY <1>8 DEF Below
    <2>6. Free(ns, l, k) /\ Free(ns, r, k)
      <3> SUFFICES ASSUME NEW p \in 1 .. k, NEW n \in {l, r}, Below(ns, p, n) PROVE FALSE
        BY DEF Free
      <3>1. p \in DOMAIN ns /\ n \in DOMAIN ns /\ p # k + 1
        BY <1>1, <1>4, <2>1
      <3>2. Below(ns, k + 1, n)
        BY <2>5
      <3>3. p = k + 1
        BY <1>1, <3>1, <3>2 DEF Grove
      <3> QED
        BY <3>1, <3>3
    <2>7. B[l] \cap B[r] = {}
      BY <2>1, <2>6 DEF LeafSets
    <2>8. ASSUME NEW n \in 1 .. k + 1 PROVE Total(Of(w, C[n])) = pow2[max - dep[n]]
      <3>1. CASE n = k + 1
        <4>1. Total(Of(w, B[l] \cup B[r])) = Total(Of(w, B[l])) + Total(Of(w, B[r]))
          BY <2>7, TotalOfUnion
        <4>2. dep[l] = dep[k + 1] + 1 /\ dep[r] = dep[k + 1] + 1
          BY <1>1, <2>1, <2>5 DEF Depths
        <4>3. dep[l] <= max /\ dep[k + 1] \in Nat
          BY <1>1, <2>1 DEF Depths
        <4>4. max - dep[l] \in Nat /\ (max - dep[l]) + 1 = max - dep[k + 1]
          BY <4>2, <4>3, SMTT(30)
        <4>5. pow2[max - dep[k + 1]] = 2 * pow2[max - dep[l]] /\ pow2[max - dep[l]] \in Nat
          BY <4>4, Pow2Def
        <4>6. Total(Of(w, B[l])) = pow2[max - dep[l]] /\ Total(Of(w, B[r])) = pow2[max - dep[r]]
          BY <2>1 DEF LeafSets
        <4>7. dep[r] = dep[l]
          BY <4>2
        <4> HIDE DEF l, r
        <4>8. Total(Of(w, B[l])) = pow2[max - dep[l]] /\ Total(Of(w, B[r])) = pow2[max - dep[l]]
          BY <4>6, <4>7
        <4>9. Total(Of(w, C[n])) = Total(Of(w, B[l] \cup B[r]))
          BY <2>3, <3>1
        <4>10. Total(Of(w, C[n])) = pow2[max - dep[k + 1]]
          BY ONLY <4>1, <4>5, <4>8, <4>9
        <4> QED
          BY <3>1, <4>10
      <3>2. CASE n # k + 1
        BY <1>2, <2>3, <3>2 DEF LeafSets
      <3> QED
        BY <3>1, <3>2
    <2>9. \A n : Free(ns, n, k + 1) <=> Free(ns, n, k) /\ n \notin {l, r}
      BY <1>6, <2>5
    <2>10. ASSUME NEW n \in 1 .. k, Free(ns, n, k + 1) PROVE C[k + 1] \cap C[n] = {}
      <3>1. n # l /\ n # r /\ Free(ns, n, k)
        BY <2>9, <2>10
      <3>2. B[l] \cap B[n] = {} /\ B[r] \cap B[n] = {}
        BY <2>1, <2>6, <3>1 DEF LeafSets
      <3> QED
        BY <2>3, <3>2
    <2>11. ASSUME NEW m \in 1 .. k + 1, NEW n \in 1 .. k + 1, m # n,
                  Free(ns, m, k + 1), Free(ns, n, k + 1)
           PROVE  C[m] \cap C[n] = {}
      <3>1. CASE m = k + 1
        BY <1>2, <2>10, <2>11, <3>1
      <3>2. CASE n = k + 1
        BY <1>2, <2>10, <2>11, <3>2
      <3>3. CASE m # k + 1 /\ n # k + 1
        <4>1. m \in 1 .. k /\ n \in 1 .. k
          BY <1>2, <3>3
        <4> QED
          BY <2>3, <2>9, <2>11, <4>1 DEF LeafSets
      <3> QED
        BY <3>1, <3>2, <3>3
    <2>12. ASSUME NEW s \in Symbol
           PROVE  (\E n \in 1 .. k + 1 : ns[n].symbol = s)
                      <=> \E n \in 1 .. k + 1 : Free(ns, n, k + 1) /\ s \in C[n]
      <3>1. (\E n \in 1 .. k : ns[n].symbol = s)
                <=> \E n \in 1 .. k : Free(ns, n, k) /\ s \in B[n]
        BY DEF LeafSets
      <3>2. (\E n \in 1 .. k + 1 : ns[n].symbol = s)
                <=> \E n \in 1 .. k : ns[n].symbol = s
        BY <1>2, <1>4, <1>8, InnerIsNoSymbol
      <3>3. (\E n \in 1 .. k + 1 : Free(ns, n, k + 1) /\ s \in C[n])
                <=> \E n \in 1 .. k : Free(ns, n, k) /\ s \in B[n]
        <4>1. s \in C[k + 1] <=> s \in B[l] \/ s \in B[r]
          BY <2>3
        <4>2. k + 1 \in 1 .. k + 1
          OBVIOUS
        <4> HIDE DEF l, r
        <4> QED
          BY <1>2, <1>4, <1>5, <2>1, <2>3, <2>6, <2>9, <4>1, <4>2
      <3> QED
        BY <3>1, <3>2, <3>3
    <2>13. LeafSets(ns, w, max, dep, C, k + 1)
      BY <2>4, <2>8, <2>11, <2>12 DEF LeafSets
    <2> QED
      BY <2>13
  <1> QED
    BY <1>7, <1>8

\* The shares of the leaves add up to the code space.
LEMMA LeavesFill ==
  ASSUME NEW ns, NEW fr, NEW count, Whole(ns, fr, count),
         NEW max \in Nat, NEW dep, Depths(ns, dep), \A n \in DOMAIN ns : dep[n] <= max,
         NEW w \in [Symbol -> Nat],
         \A n \in DOMAIN ns : ns[n].symbol # Inner => w[ns[n].symbol] = pow2[max - dep[n]]
  PROVE  Total(Of(w, {s \in Symbol : \E n \in DOMAIN ns : ns[n].symbol = s})) = pow2[max]
  <1>1. /\ ns \in Seq(Node) /\ Len(ns) \in Nat /\ DOMAIN ns = 1 .. Len(ns)
        /\ Grove(ns, fr, Symbols) /\ Roots(ns, {Len(ns)}) /\ Len(ns) >= 1 /\ ns # <<>>
    BY SymbolsNat DEF Whole
  <1> DEFINE T == {k \in Nat : k <= Len(ns) => \E B : LeafSets(ns, w, max, dep, B, k)}
  <1>2. 0 \in T
    <2>1. PICK B : B = [n \in 1 .. 0 |-> {}]
      OBVIOUS
    <2>2. LeafSets(ns, w, max, dep, B, 0)
      BY <2>1 DEF LeafSets
    <2> QED
      BY <2>2
  <1>3. ASSUME NEW k \in T PROVE k + 1 \in T
    <2> SUFFICES ASSUME k + 1 <= Len(ns) PROVE \E B : LeafSets(ns, w, max, dep, B, k + 1)
      OBVIOUS
    <2>1. k \in Nat /\ k <= Len(ns)
      BY <1>1
    <2>2. PICK B : LeafSets(ns, w, max, dep, B, k)
      BY <2>1
    <2> HIDE DEF T
    <2> QED
      BY <1>1, <2>1, <2>2, LeafSetsGrow
  <1>4. T = Nat
    <2> HIDE DEF T
    <2>1. T \subseteq Nat
      BY DEF T
    <2> QED
      BY <1>2, <1>3, <2>1, NatInductionSet
  <1>5. Len(ns) \in T
    BY ONLY <1>1, <1>4
  <1>6. PICK B : LeafSets(ns, w, max, dep, B, Len(ns))
    BY <1>1, <1>5
  <1>7. \A n \in 1 .. Len(ns) : Free(ns, n, Len(ns)) <=> n = Len(ns)
    BY <1>1 DEF Roots, Free
  <1>8. Len(ns) \in 1 .. Len(ns) /\ Len(ns) \in DOMAIN ns
    BY <1>1
  <1>9. ASSUME NEW s \in Symbol
        PROVE  s \in B[Len(ns)] <=> \E n \in DOMAIN ns : ns[n].symbol = s
    <2>1. (\E n \in 1 .. Len(ns) : ns[n].symbol = s)
              <=> \E n \in 1 .. Len(ns) : Free(ns, n, Len(ns)) /\ s \in B[n]
      BY <1>6 DEF LeafSets
    <2> QED
      BY <1>1, <1>7, <1>8, <2>1
  <1>10. B[Len(ns)] \subseteq Symbol
    BY <1>6, <1>8 DEF LeafSets
  <1>11. B[Len(ns)] = {s \in Symbol : \E n \in DOMAIN ns : ns[n].symbol = s}
    BY <1>9, <1>10
  <1>12. Total(Of(w, B[Len(ns)])) = pow2[max - dep[Len(ns)]]
    BY <1>6, <1>8 DEF LeafSets
  <1>13. max - dep[Len(ns)] = max
    BY DEF Depths
  <1> QED
    BY <1>11, <1>12, <1>13

----------------------------------------------------------------------------
(* assign_lengths.                                                         *)

LevelBody(f) ==
    [d \in Nat |->
        IF d = 0 THEN {Len(nodes)}
        ELSE UNION {{nodes[p].left, nodes[p].right} :
                       p \in {q \in f[d - 1] : nodes[q].symbol = Inner}}]

LEMMA LevelLayers ==
  ASSUME nodes \in Seq(Node), nodes # <<>>, NEW fr, NEW s, Grove(nodes, fr, s)
  PROVE  Layers(nodes, Level)
  <1> DEFINE S == SUBSET DOMAIN nodes
             step == [a \in Nat \X S |-> {m \in DOMAIN nodes : \E p \in a[2] : Below(nodes, p, m)}]
  <1>1. step \in [Nat \X S -> S]
    OBVIOUS
  <1>2. {Len(nodes)} \in S
    BY nodes \in Seq(Node), nodes # <<>>
  <1>3. PICK f : Follows(f, S, {Len(nodes)}, step)
    <2> HIDE DEF step, S
    <2> QED
      BY <1>1, <1>2, RecursionExists
  <1>4. f \in [Nat -> S] /\ f[0] = {Len(nodes)} /\ \A d \in Nat : f[d + 1] = step[<<d, f[d]>>]
    BY <1>3 DEF Follows
  <1>5. ASSUME NEW d \in Nat, NEW m PROVE m \in f[d + 1] <=> \E p \in f[d] : Below(nodes, p, m)
    <2>1. f[d] \in S
      BY <1>4
    <2>2. <<d, f[d]>> \in Nat \X S
      BY <2>1
    <2>3. f[d + 1] = {n \in DOMAIN nodes : \E p \in f[d] : Below(nodes, p, n)}
      BY <1>4, <2>2
    <2>4. ASSUME NEW p \in f[d], Below(nodes, p, m) PROVE m \in DOMAIN nodes
      BY <2>1, <2>4, GroveBelow
    <2> QED
      BY <2>3, <2>4
  <1>6. f = LevelBody(f)
    <2>1. ASSUME NEW d \in Nat
          PROVE  f[d] = IF d = 0 THEN {Len(nodes)}
                        ELSE UNION {{nodes[p].left, nodes[p].right} :
                                       p \in {q \in f[d - 1] : nodes[q].symbol = Inner}}
      <3>1. CASE d = 0
        BY <1>4, <3>1
      <3>2. CASE d # 0
        <4>1. d - 1 \in Nat /\ (d - 1) + 1 = d
          BY <3>2
        <4>2. \A m : m \in f[d] <=> \E p \in f[d - 1] : Below(nodes, p, m)
          BY <1>5, <4>1
        <4>3. \A m : m \in UNION {{nodes[p].left, nodes[p].right} :
                                     p \in {q \in f[d - 1] : nodes[q].symbol = Inner}}
                        <=> \E p \in f[d - 1] : Below(nodes, p, m)
          BY DEF Below
        <4> QED
          BY <3>2, <4>2, <4>3
      <3> QED
        BY <3>1, <3>2
    <2>2. f = [d \in Nat |-> f[d]]
      BY <1>4
    <2> HIDE DEF S, step
    <2> QED
      BY ONLY <2>1, <2>2 DEF LevelBody
  <1>7. Level = LevelBody(Level)
    <2>1. Level = CHOOSE g : g = LevelBody(g)
      BY DEF Level, LevelBody
    <2> QED
      BY <1>6, <2>1
  <1>8. \A d \in Nat : Level[d] = LevelBody(Level)[d]
    BY <1>7
  <1>9. Level[0] = {Len(nodes)}
    BY <1>8 DEF LevelBody
  <1>10. ASSUME NEW d \in Nat, NEW m
         PROVE  m \in Level[d + 1] <=> \E p \in Level[d] : Below(nodes, p, m)
    <2>1. d + 1 \in Nat /\ d + 1 # 0 /\ (d + 1) - 1 = d
      OBVIOUS
    <2>2. PICK g : g = Level
      OBVIOUS
    <2>3. g[d + 1] = UNION {{nodes[p].left, nodes[p].right} :
                               p \in {q \in g[d] : nodes[q].symbol = Inner}}
      <3>1. g[d + 1] = LevelBody(g)[d + 1]
        BY <1>8, <2>1, <2>2
      <3> QED
        BY <2>1, <3>1 DEF LevelBody
    <2>4. m \in g[d + 1] <=> \E p \in g[d] : Below(nodes, p, m)
      BY <2>3 DEF Below
    <2> QED
      BY <2>2, <2>4
  <1> QED
    BY <1>9, <1>10 DEF Layers

\* The lengths that assign_lengths assigns.
DepthsOf(s) == {d \in 1 .. MaxCodeBits : \E n \in Level[d] : nodes[n].symbol = s}

Assigned == [s \in Symbol |-> IF DepthsOf(s) = {} THEN 0 ELSE CHOOSE d \in DepthsOf(s) : TRUE]

\* The symbol of each leaf gets the depth of the leaf.
LEMMA AssignedDepths ==
  ASSUME NEW fr, NEW count, Whole(nodes, fr, count)
  PROVE  /\ \E dep :
               /\ Depths(nodes, dep)
               /\ \A n \in DOMAIN nodes : dep[n] \in Nat /\ dep[n] <= MaxCodeBits
               /\ \A n \in DOMAIN nodes : nodes[n].symbol # Inner =>
                     /\ dep[n] \in 1 .. MaxCodeBits /\ nodes[n].symbol \in Symbol
                     /\ Assigned[nodes[n].symbol] = dep[n]
         /\ \A s \in Symbol :
               ~(\E n \in DOMAIN nodes : nodes[n].symbol = s) => Assigned[s] = 0
         /\ \A n \in Level[MaxCodeBits] : nodes[n].symbol # Inner
  <1>1. /\ nodes \in Seq(Node) /\ Len(nodes) \in Nat /\ DOMAIN nodes = 1 .. Len(nodes)
        /\ Grove(nodes, fr, Symbols) /\ Roots(nodes, {Len(nodes)})
        /\ Len(nodes) >= 1 /\ nodes # <<>>
        /\ count \in Nat /\ count <= Symbols /\ count < Len(nodes) /\ Len(nodes) < 2 * count
    BY SymbolsNat DEF Whole
  <1>2. Layers(nodes, Level)
    BY <1>1, LevelLayers
  <1>3. PICK dep : /\ Depths(nodes, dep)
                   /\ \A d \in Nat : \A n : n \in Level[d] <=> n \in DOMAIN nodes /\ dep[n] = d
    BY <1>2, DepthsExist
  <1>4. MaxCodeBits \in Nat /\ MaxCodeBits >= Symbols - 1 /\ Symbols \in Nat
    BY SymbolsAssumption
  <1>5. ASSUME NEW n \in DOMAIN nodes, nodes[n].symbol = Inner
        PROVE  dep[n] \in Nat /\ dep[n] + 1 <= MaxCodeBits
    <2>1. ~(n <= count)
      BY <1>5 DEF Whole
    <2>2. dep[n] \in Nat /\ dep[n] + n <= Len(nodes)
      BY <1>3 DEF Depths
    <2> QED
      BY <1>1, <1>4, <2>1, <2>2
  <1>6. ASSUME NEW n \in DOMAIN nodes, nodes[n].symbol # Inner
        PROVE  dep[n] \in 1 .. MaxCodeBits
    <2>1. n <= count /\ n # Len(nodes)
      BY <1>1, <1>6 DEF Whole
    <2>2. PICK p \in DOMAIN nodes : Below(nodes, p, n)
      BY <1>1, <2>1 DEF Roots
    <2>3. dep[n] = dep[p] + 1 /\ dep[p] \in Nat /\ dep[p] + 1 <= MaxCodeBits
      BY <1>3, <1>5, <2>2 DEF Below, Depths
    <2> QED
      BY <1>4, <2>3
  <1>7. \A n \in DOMAIN nodes : dep[n] \in Nat /\ dep[n] <= MaxCodeBits
    BY <1>4, <1>5, <1>6
  <1>8. ASSUME NEW n \in Level[MaxCodeBits] PROVE nodes[n].symbol # Inner
    <2>1. n \in DOMAIN nodes /\ dep[n] = MaxCodeBits
      BY <1>3, <1>4
    <2> QED
      BY <1>4, <1>5, <2>1
  <1>9. ASSUME NEW n \in DOMAIN nodes, nodes[n].symbol # Inner
        PROVE  nodes[n].symbol \in Symbol /\ Assigned[nodes[n].symbol] = dep[n]
    <2>1. nodes[n].symbol \in Symbol
      <3>1. nodes[n] \in Node
        BY <1>1
      <3> QED
        BY <1>9, <3>1 DEF Node
    <2>2. ASSUME NEW d \in 1 .. MaxCodeBits
          PROVE  (\E m \in Level[d] : nodes[m].symbol = nodes[n].symbol) <=> d = dep[n]
      <3>1. d \in Nat
        OBVIOUS
      <3>2. \A m : m \in Level[d] <=> m \in DOMAIN nodes /\ dep[m] = d
        BY <1>3, <3>1
      <3>3. \A m \in DOMAIN nodes : nodes[m].symbol = nodes[n].symbol => m = n
        BY <1>1, <1>9 DEF Grove
      <3> QED
        BY <3>2, <3>3
    <2>3. DepthsOf(nodes[n].symbol) = {dep[n]}
      BY <1>6, <1>9, <2>2 DEF DepthsOf
    <2> QED
      BY <2>1, <2>3 DEF Assigned
  <1>10. ASSUME NEW s \in Symbol, ~\E n \in DOMAIN nodes : nodes[n].symbol = s
         PROVE  Assigned[s] = 0
    <2>1. \A d \in 1 .. MaxCodeBits : \A n \in Level[d] : n \in DOMAIN nodes
      BY <1>3
    <2>2. DepthsOf(s) = {}
      BY <1>10, <2>1 DEF DepthsOf
    <2> QED
      BY <2>2 DEF Assigned
  <1> QED
    BY <1>3, <1>6, <1>7, <1>8, <1>9, <1>10

LEMMA AssignedFacts ==
  ASSUME NEW fr, NEW count, Whole(nodes, fr, count)
  PROVE  /\ Assigned \in [Symbol -> 0 .. MaxCodeBits]
         /\ \A s \in Symbol : Assigned[s] # 0 <=> fr[s] > 0
         /\ Kraft(Assigned) = pow2[MaxCodeBits]
         /\ \A n \in Level[MaxCodeBits] : nodes[n].symbol # Inner
  <1>1. /\ nodes \in Seq(Node) /\ Len(nodes) \in Nat /\ DOMAIN nodes = 1 .. Len(nodes)
        /\ Grove(nodes, fr, Symbols) /\ Roots(nodes, {Len(nodes)})
        /\ Len(nodes) >= 1 /\ nodes # <<>>
        /\ count \in Nat /\ count <= Symbols /\ count < Len(nodes) /\ Len(nodes) < 2 * count
    BY SymbolsNat DEF Whole
  <1>4. MaxCodeBits \in Nat /\ MaxCodeBits >= Symbols - 1 /\ Symbols \in Nat
    BY SymbolsAssumption
  <1>3. PICK dep :
           /\ Depths(nodes, dep)
           /\ \A n \in DOMAIN nodes : dep[n] \in Nat /\ dep[n] <= MaxCodeBits
           /\ \A n \in DOMAIN nodes : nodes[n].symbol # Inner =>
                 /\ dep[n] \in 1 .. MaxCodeBits /\ nodes[n].symbol \in Symbol
                 /\ Assigned[nodes[n].symbol] = dep[n]
    BY AssignedDepths
  <1>6. \A n \in DOMAIN nodes : nodes[n].symbol # Inner => dep[n] \in 1 .. MaxCodeBits
    BY <1>3
  <1>7. \A n \in DOMAIN nodes : dep[n] \in Nat /\ dep[n] <= MaxCodeBits
    BY <1>3
  <1>8. \A n \in Level[MaxCodeBits] : nodes[n].symbol # Inner
    BY AssignedDepths
  <1>9. \A n \in DOMAIN nodes : nodes[n].symbol # Inner =>
           nodes[n].symbol \in Symbol /\ Assigned[nodes[n].symbol] = dep[n]
    BY <1>3
  <1>10. ASSUME NEW s \in Symbol, ~\E n \in DOMAIN nodes : nodes[n].symbol = s
         PROVE  Assigned[s] = 0
    BY <1>10, AssignedDepths
  <1>11. ASSUME NEW s \in Symbol
         PROVE  (\E n \in DOMAIN nodes : nodes[n].symbol = s) <=> fr[s] > 0
    <2>1. s # Inner /\ s < Symbols
      BY <1>4, InnerIsNoSymbol DEF Symbol
    <2> QED
      BY <1>1, <2>1 DEF Grove
  <1>12. ASSUME NEW s \in Symbol
         PROVE  Assigned[s] \in 0 .. MaxCodeBits /\ (Assigned[s] # 0 <=> fr[s] > 0)
    <2>1. CASE \E n \in DOMAIN nodes : nodes[n].symbol = s
      <3>1. PICK n \in DOMAIN nodes : nodes[n].symbol = s
        BY <2>1
      <3>2. Assigned[s] = dep[n] /\ dep[n] \in 1 .. MaxCodeBits
        BY <1>6, <1>9, <3>1, InnerIsNoSymbol
      <3>3. Assigned[s] \in 0 .. MaxCodeBits /\ Assigned[s] # 0
        BY <1>4, <3>2
      <3> QED
        BY <1>11, <2>1, <3>3
    <2>2. CASE ~\E n \in DOMAIN nodes : nodes[n].symbol = s
      BY <1>4, <1>10, <1>11, <2>2
    <2> QED
      BY <2>1, <2>2
  <1>13. PICK lens : lens = Assigned
    OBVIOUS
  <1>14. lens \in [Symbol -> 0 .. MaxCodeBits]
    BY <1>12, <1>13 DEF Assigned
  <1>15. PICK w : w = Shares(lens)
    OBVIOUS
  <1>16. w \in [Symbol -> Nat] /\ Kraft(lens) = Total(w)
    BY <1>14, <1>15, SharesNat
  <1>17. ASSUME NEW n \in DOMAIN nodes, nodes[n].symbol # Inner
         PROVE  w[nodes[n].symbol] = pow2[MaxCodeBits - dep[n]]
    <2>1. nodes[n].symbol \in Symbol /\ lens[nodes[n].symbol] = dep[n]
      BY <1>9, <1>13, <1>17
    <2>2. w[nodes[n].symbol] = Share(dep[n])
      BY <1>15, <2>1 DEF Shares
    <2> QED
      BY <1>6, <1>17, <2>2, ShareFacts
  <1> DEFINE used == {s \in Symbol : \E n \in DOMAIN nodes : nodes[n].symbol = s}
  <1>18. Total(Of(w, used)) = pow2[MaxCodeBits]
    BY <1>3, <1>4, <1>7, <1>16, <1>17, LeavesFill
  <1>19. w = Of(w, used)
    <2>1. ASSUME NEW s \in Symbol PROVE w[s] = IF s \in used THEN w[s] ELSE 0
      <3> SUFFICES ASSUME s \notin used PROVE w[s] = 0
        OBVIOUS
      <3>1. lens[s] = 0
        BY <1>10, <1>13
      <3> QED
        BY <1>15, <3>1 DEF Shares, Share
    <2> HIDE DEF used
    <2>2. DOMAIN w = Symbol
      BY <1>16
    <2> QED
      BY <1>16, <2>1, <2>2 DEF Of
  <1>20. Kraft(lens) = pow2[MaxCodeBits]
    BY <1>16, <1>18, <1>19
  <1> QED
    BY <1>8, <1>12, <1>13, <1>14, <1>20

----------------------------------------------------------------------------
(* The steps of build_code_lengths keep the forest.                        *)

LEMMA ExchangeSet ==
  ASSUME NEW S, NEW h \in Seq(S), NEW i \in DOMAIN h, NEW j \in DOMAIN h, i # j,
         NEW new, new = Exchange(h, i, j)
  PROVE  ToSet(new) = ToSet(h)
  <1>1. /\ DOMAIN new = DOMAIN h /\ new[i] = h[j] /\ new[j] = h[i]
        /\ \A k \in DOMAIN h : k # i /\ k # j => new[k] = h[k]
        /\ \A k \in DOMAIN h : \E m \in DOMAIN h : new[k] = h[m]
    <2>1. h \in Seq(S) /\ i \in DOMAIN h /\ j \in DOMAIN h /\ i # j /\ new = Exchange(h, i, j)
      OBVIOUS
    <2>2. DOMAIN new = DOMAIN h
      BY ONLY <2>1, ExchangeFacts
    <2>3. new[i] = h[j] /\ new[j] = h[i]
      BY ONLY <2>1, ExchangeFacts
    <2>4. \A k \in DOMAIN h : k # i /\ k # j => new[k] = h[k]
      BY ONLY <2>1, ExchangeFacts
    <2>5. \A k \in DOMAIN h : \E m \in DOMAIN h : new[k] = h[m]
      BY ONLY <2>1, ExchangeFacts
    <2> QED
      BY <2>2, <2>3, <2>4, <2>5
  <1>2. ASSUME NEW k \in DOMAIN h PROVE \E m \in DOMAIN new : new[m] = h[k]
    BY <1>1
  <1>3. ToSet(new) \subseteq ToSet(h)
    BY ONLY <1>1 DEF ToSet
  <1>4. ToSet(h) \subseteq ToSet(new)
    BY ONLY <1>1, <1>2 DEF ToSet
  <1> QED
    BY <1>3, <1>4

LEMMA ShrunkSet ==
  ASSUME NEW S, NEW h \in Seq(S), h # <<>>, NEW new, new = Shrunk(h)
  PROVE  ToSet(new) \cup {h[1]} = ToSet(h)
  <1>1. /\ new \in Seq(S) /\ Len(new) = Len(h) - 1
        /\ new # <<>> => new[1] = h[Len(h)]
        /\ \A i \in 2 .. Len(new) : new[i] = h[i]
    BY ShrunkFacts
  <1>2. /\ DOMAIN h = 1 .. Len(h) /\ Len(h) \in Nat /\ Len(h) >= 1
        /\ DOMAIN new = 1 .. Len(h) - 1
    BY <1>1
  <1>3. ASSUME NEW k \in DOMAIN new PROVE new[k] \in ToSet(h)
    <2>1. CASE k = 1
      <3>1. new[k] = h[Len(h)] /\ Len(h) \in DOMAIN h
        BY <1>1, <1>2, <2>1
      <3> QED
        BY <3>1 DEF ToSet
    <2>2. CASE k # 1
      <3>1. k \in 2 .. Len(new) /\ k \in DOMAIN h
        BY <1>1, <1>2, <2>2
      <3> QED
        BY <1>1, <3>1 DEF ToSet
    <2> QED
      BY <2>1, <2>2
  <1>4. ASSUME NEW k \in DOMAIN h, k # 1 PROVE h[k] \in ToSet(new)
    <2>1. CASE k = Len(h)
      <3>1. 1 \in DOMAIN new /\ new[1] = h[k]
        BY <1>1, <1>2, <1>4, <2>1
      <3> QED
        BY <3>1 DEF ToSet
    <2>2. CASE k # Len(h)
      <3>1. k \in 2 .. Len(new) /\ k \in DOMAIN new
        BY <1>1, <1>2, <1>4, <2>2
      <3>2. new[k] = h[k]
        BY <1>1, <3>1
      <3> QED
        BY <3>1, <3>2 DEF ToSet
    <2> QED
      BY <2>1, <2>2
  <1>5. h[1] \in ToSet(h)
    BY <1>2 DEF ToSet
  <1>6. ToSet(new) \subseteq ToSet(h)
    BY <1>3 DEF ToSet
  <1>7. ToSet(h) \subseteq ToSet(new) \cup {h[1]}
    BY <1>4 DEF ToSet
  <1> QED
    BY <1>5, <1>6, <1>7

LEMMA AppendSet ==
  ASSUME NEW S, NEW q \in Seq(S), NEW x PROVE ToSet(Append(q, x)) = ToSet(q) \cup {x}
  <1>1. PICK r : r = Append(q, x)
    OBVIOUS
  <1>2. /\ DOMAIN r = 1 .. Len(q) + 1 /\ DOMAIN q = 1 .. Len(q) /\ Len(q) \in Nat
        /\ r[Len(q) + 1] = x /\ \A i \in 1 .. Len(q) : r[i] = q[i]
    BY <1>1
  <1>3. \A i \in 1 .. Len(q) + 1 : i = Len(q) + 1 \/ i \in 1 .. Len(q)
    BY <1>2
  <1>4. Len(q) + 1 \in 1 .. Len(q) + 1 /\ \A i \in 1 .. Len(q) : i \in 1 .. Len(q) + 1
    BY <1>2
  <1> QED
    BY <1>1, <1>2, <1>3, <1>4 DEF ToSet

Frequencies == [s \in Symbol |-> Frequency(s)]

Counted(pc, sy, ns, h, o, count) ==
    /\ count \in 0 .. sy /\ count <= Len(ns)
    /\ \A n \in DOMAIN ns : ns[n].symbol # Inner <=> n <= count
    /\ pc = "leaf" \/ (pc = "up" /\ sy < Symbols) => count = Len(ns)
    /\ pc \in {"merge", "down"} => sy = Symbols
    /\ pc \in {"leaf", "up", "down", "merge"} => Len(ns) + Len(h) + Len(o) = 2 * count

Grows(pc, sy, ns, h, o, fr) ==
    /\ Grove(ns, fr, sy)
    /\ pc \in {"leaf", "up", "down", "merge"} => Roots(ns, ToSet(h) \cup ToSet(o))
    /\ \E count \in 0 .. sy : Counted(pc, sy, ns, h, o, count)

LEMMA NodeSymbols ==
  ASSUME NEW ns \in Seq(Node), NEW n \in DOMAIN ns, ns[n].symbol # Inner
  PROVE  ns[n].symbol \in Symbol
  <1>1. ns[n] \in Node
    OBVIOUS
  <1> QED
    BY <1>1 DEF Node

LEMMA FrequenciesFacts ==
  ASSUME LenTypes
  PROVE  Frequencies \in [Symbol -> Nat] /\ \A s \in Symbol : Frequencies[s] = Frequency(s)
  <1>1. \A s : Frequency(s) \in Nat
    BY FrequencyNat DEF LenTypes
  <1> QED
    BY <1>1 DEF Frequencies

LEMMA GrowsMeans ==
  ASSUME LenTypes
  PROVE  Forest /\ (\E count \in 0 .. symbol : LeavesFirst(count))
            <=> Grows(hpc, symbol, nodes, heap, popped, Frequencies)
  <1>1. \A n \in DOMAIN nodes : nodes[n].symbol # Inner =>
           Frequencies[nodes[n].symbol] = Frequency(nodes[n].symbol)
    BY NodeSymbols, FrequenciesFacts DEF LenTypes
  <1>2. \A s \in Symbol : Frequencies[s] = Frequency(s)
    BY FrequenciesFacts
  <1>3. \A p, n : IsParent(p, n) <=> Below(nodes, p, n)
    BY DEF IsParent, Below
  <1>4. Forest <=> /\ Grove(nodes, Frequencies, symbol)
                   /\ hpc \in {"leaf", "up", "down", "merge"}
                         => Roots(nodes, ToSet(heap) \cup ToSet(popped))
    BY <1>1, <1>2, <1>3 DEF Forest, Grove, Roots, Building
  <1>5. \A count : LeavesFirst(count) <=> Counted(hpc, symbol, nodes, heap, popped, count)
    BY DEF LeavesFirst, Counted, Building
  <1> QED
    BY <1>4, <1>5 DEF Grows

LEMMA GrowsMeansNext ==
  ASSUME LenTypes'
  PROVE  Forest' /\ (\E count \in 0 .. symbol' : LeavesFirst(count)')
            <=> Grows(hpc', symbol', nodes', heap', popped', Frequencies')
  <1>0. IsFiniteSet(DOMAIN text') /\ nodes' \in Seq(Node)
    BY DEF LenTypes
  <1>2. \A s \in Symbol : Frequencies'[s] = Frequency(s)'
    BY DEF Frequencies
  <1>1. \A n \in DOMAIN nodes' : nodes'[n].symbol # Inner =>
           /\ nodes'[n].symbol \in Symbol
           /\ Frequencies'[nodes'[n].symbol] = Frequency(nodes[n].symbol)'
    <2>1. ASSUME NEW n \in DOMAIN nodes', nodes'[n].symbol # Inner
          PROVE  nodes'[n].symbol \in Symbol
      <3>1. nodes'[n] \in Node
        BY <1>0
      <3> QED
        BY <2>1, <3>1 DEF Node
    <2>2. \A s \in Symbol : Frequencies'[s] = Cardinality({i \in DOMAIN text' : text'[i] = s})
      BY DEF Frequencies, Frequency
    <2> QED
      BY <2>1, <2>2 DEF Frequency
  <1>3. \A p, n : IsParent(p, n)' <=> Below(nodes', p, n)
    BY DEF IsParent, Below
  <1>4. Forest' <=> /\ Grove(nodes', Frequencies', symbol')
                    /\ hpc' \in {"leaf", "up", "down", "merge"}
                          => Roots(nodes', ToSet(heap') \cup ToSet(popped'))
    BY <1>1, <1>2, <1>3 DEF Forest, Grove, Roots, Building
  <1>5. \A count : LeavesFirst(count)' <=> Counted(hpc', symbol', nodes', heap', popped', count)
    BY DEF LeavesFirst, Counted, Building
  <1> QED
    BY <1>4, <1>5 DEF Grows

LEMMA GrowsOn ==
  ASSUME NEW pc, NEW sy, NEW ns, NEW h, NEW o, NEW fr, Grows(pc, sy, ns, h, o, fr),
         NEW pc2, NEW h2, NEW o2,
         pc2 = "leaf" \/ (pc2 = "up" /\ sy < Symbols)
            => pc = "leaf" \/ (pc = "up" /\ sy < Symbols),
         pc2 \in {"merge", "down"} => sy = Symbols,
         pc2 \in {"leaf", "up", "down", "merge"} =>
            /\ pc \in {"leaf", "up", "down", "merge"}
            /\ ToSet(h2) \cup ToSet(o2) = ToSet(h) \cup ToSet(o)
            /\ Len(ns) + Len(h2) + Len(o2) = Len(ns) + Len(h) + Len(o)
  PROVE  Grows(pc2, sy, ns, h2, o2, fr)
  <1>1. PICK count \in 0 .. sy : Counted(pc, sy, ns, h, o, count)
    BY DEF Grows
  <1>2. Counted(pc2, sy, ns, h2, o2, count)
    BY <1>1 DEF Counted
  <1> QED
    BY <1>2 DEF Grows

Stage == Grows(hpc, symbol, nodes, heap, popped, Frequencies)

LEMMA SameFrequencies == text' = text => Frequencies' = Frequencies
  BY DEF Frequencies, Frequency

LEMMA MakeExtends ==
  ASSUME nodes \in Seq(Node), heap \in Seq(DOMAIN nodes), NEW x \in Node, MakeNode(x)
  PROVE  /\ Extends(nodes, nodes', x) /\ Len(nodes') = Len(nodes) + 1
         /\ ToSet(heap') = ToSet(heap) \cup {Len(nodes) + 1} /\ Len(heap') = Len(heap) + 1
         /\ hpc' = "up"
  <1>1. nodes' = Append(nodes, x) /\ heap' = Append(heap, Len(nodes')) /\ hpc' = "up"
    BY DEF MakeNode
  <1>2. Len(nodes') = Len(nodes) + 1
    BY <1>1
  <1>3. heap' = Append(heap, Len(nodes) + 1)
    BY <1>1, <1>2
  <1>4. ToSet(heap') = ToSet(heap) \cup {Len(nodes) + 1}
    BY <1>3, AppendSet
  <1>5. Len(heap') = Len(heap) + 1
    BY <1>3
  <1>6. Extends(nodes, nodes', x)
    BY <1>1 DEF Extends
  <1> QED
    BY <1>1, <1>2, <1>4, <1>5, <1>6

LEMMA RootsAreNodes ==
  ASSUME LenTypes
  PROVE  /\ nodes \in Seq(Node) /\ heap \in Seq(DOMAIN nodes) /\ popped \in Seq(DOMAIN nodes)
         /\ ToSet(heap) \cup ToSet(popped) \subseteq DOMAIN nodes
         /\ Len(nodes) \in Nat /\ Len(heap) \in Nat /\ Len(popped) \in Nat
         /\ DOMAIN nodes = 1 .. Len(nodes) /\ symbol \in 0 .. Symbols /\ Symbols \in Nat
  <1>1. nodes \in Seq(Node) /\ heap \in Seq(DOMAIN nodes) /\ popped \in Seq(DOMAIN nodes)
        /\ symbol \in 0 .. Symbols
    BY DEF LenTypes
  <1>2. ToSet(heap) \subseteq DOMAIN nodes
    BY <1>1 DEF ToSet
  <1>3. ToSet(popped) \subseteq DOMAIN nodes
    BY <1>1 DEF ToSet
  <1> QED
    BY <1>1, <1>2, <1>3, SymbolsNat

LEMMA NextLeafStage == HeapInv /\ Stage /\ NextLeaf => Stage'
  <1> SUFFICES ASSUME HeapInv, Stage, NextLeaf PROVE Stage'
    OBVIOUS
  <1> USE DEF heapVars
  <1>1. hpc = "leaf" /\ symbol < Symbols /\ symbol' = symbol + 1 /\ popped = <<>>
        /\ text' = text /\ popped' = popped /\ LenTypes
    BY HeapInvMeans DEF NextLeaf, LenTypes
  <1>2. Frequencies \in [Symbol -> Nat] /\ Frequencies' = Frequencies
    BY <1>1, FrequenciesFacts, SameFrequencies
  <1>3. /\ nodes \in Seq(Node) /\ heap \in Seq(DOMAIN nodes) /\ popped \in Seq(DOMAIN nodes)
        /\ ToSet(heap) \cup ToSet(popped) \subseteq DOMAIN nodes
        /\ Len(nodes) \in Nat /\ Len(heap) \in Nat /\ Len(popped) \in Nat
        /\ DOMAIN nodes = 1 .. Len(nodes) /\ symbol \in 0 .. Symbols /\ Symbols \in Nat
    BY <1>1, RootsAreNodes
  <1>4. symbol \in Symbol /\ Frequencies[symbol] = Frequency(symbol) /\ symbol \in Nat
    BY <1>1, <1>3, FrequenciesFacts DEF Symbol
  <1>5. ToSet(popped) = {} /\ Len(popped) = 0
    BY <1>1 DEF ToSet
  <1>6. /\ Grove(nodes, Frequencies, symbol) /\ Roots(nodes, ToSet(heap))
        /\ ToSet(heap) \subseteq DOMAIN nodes
    BY <1>1, <1>3, <1>5 DEF Stage, Grows
  <1>7. PICK count \in 0 .. symbol : Counted("leaf", symbol, nodes, heap, popped, count)
    BY <1>1 DEF Stage, Grows
  <1>8. count = Len(nodes) /\ count \in Nat /\ Len(nodes) + Len(heap) + Len(popped) = 2 * count
        /\ \A n \in DOMAIN nodes : nodes[n].symbol # Inner <=> n <= count
    BY <1>7 DEF Counted
  <1>9. CASE Frequency(symbol) = 0
    <2>1. UNCHANGED <<hpc, nodes, heap>>
      BY <1>1, <1>9 DEF NextLeaf
    <2>2. Grove(nodes, Frequencies, symbol + 1)
      BY <1>3, <1>4, <1>6, <1>9, GroveSkip
    <2>3. count \in 0 .. symbol + 1
      BY <1>4, <1>7
    <2>4. Counted("leaf", symbol + 1, nodes, heap, popped, count)
      BY <1>7, <2>3 DEF Counted
    <2>5. Grows("leaf", symbol + 1, nodes, heap, popped, Frequencies)
      BY <1>5, <1>6, <2>2, <2>3, <2>4 DEF Grows
    <2> QED
      BY <1>1, <1>2, <2>1, <2>5 DEF Stage
  <1>10. CASE Frequency(symbol) # 0
    <2>1. MakeNode(Leaf(symbol))
      BY <1>1, <1>10 DEF NextLeaf
    <2>2. PICK x : x = Leaf(symbol)
      OBVIOUS
    <2>3. x \in Node /\ x.symbol = symbol /\ Frequencies[symbol] > 0
      <3>1. Frequency(symbol) \in Nat
        BY <1>2, <1>4
      <3> QED
        BY <1>4, <1>10, <2>2, <3>1 DEF Leaf, Node
    <2>4. /\ Extends(nodes, nodes', x) /\ Len(nodes') = Len(nodes) + 1
          /\ ToSet(heap') = ToSet(heap) \cup {Len(nodes) + 1} /\ Len(heap') = Len(heap) + 1
          /\ hpc' = "up"
      BY <1>3, <2>1, <2>2, <2>3, MakeExtends
    <2>5. Grove(nodes', Frequencies, symbol + 1) /\ Roots(nodes', ToSet(heap'))
      <3>1. PICK new : new = nodes'
        OBVIOUS
      <3>2. PICK fr : fr = Frequencies
        OBVIOUS
      <3>3. Extends(nodes, new, x) /\ fr \in [Symbol -> Nat] /\ fr[symbol] > 0
            /\ Grove(nodes, fr, symbol)
        BY <1>2, <1>6, <2>3, <2>4, <3>1, <3>2
      <3>4. Grove(new, fr, symbol + 1)
        BY ONLY <1>3, <1>4, <1>6, <2>3, <3>3, GroveLeaf
      <3>5. Roots(new, ToSet(heap) \cup {Len(nodes) + 1})
        BY ONLY <1>3, <1>4, <1>6, <2>3, <3>3, GroveLeaf
      <3> QED
        BY <2>4, <3>1, <3>2, <3>4, <3>5
    <2>6. count + 1 \in 0 .. symbol + 1 /\ count + 1 = Len(nodes')
      BY <1>4, <1>7, <1>8, <2>4
    <2>7. ASSUME NEW n \in DOMAIN nodes' PROVE nodes'[n].symbol # Inner <=> n <= count + 1
      <3>1. n \in 1 .. Len(nodes) + 1
        BY <2>4 DEF Extends
      <3>2. n <= count + 1
        BY <1>8, <3>1
      <3>3. nodes'[n].symbol # Inner
        <4>1. CASE n = Len(nodes) + 1
          BY <1>4, <2>3, <2>4, <4>1, InnerIsNoSymbol DEF Extends
        <4>2. CASE n # Len(nodes) + 1
          <5>1. n \in 1 .. Len(nodes) /\ n <= count
            BY <1>3, <1>8, <3>1, <4>2
          <5> QED
            BY <1>3, <1>8, <2>4, <5>1 DEF Extends
        <4> QED
          BY <4>1, <4>2
      <3> QED
        BY <3>2, <3>3
    <2>8. Len(nodes') + Len(heap') + Len(popped) = 2 * (count + 1)
      <3>1. \A a, b, c, d \in Nat : a + b + c = 2 * d => (a + 1) + (b + 1) + c = 2 * (d + 1)
        OBVIOUS
      <3>2. (Len(nodes) + 1) + (Len(heap) + 1) + Len(popped) = 2 * (count + 1)
        <4>1. PICK a, b, c : a = Len(nodes) /\ b = Len(heap) /\ c = Len(popped)
          OBVIOUS
        <4>2. a \in Nat /\ b \in Nat /\ c \in Nat /\ count \in Nat /\ a + b + c = 2 * count
          BY <1>3, <1>8, <4>1
        <4>3. (a + 1) + (b + 1) + c = 2 * (count + 1)
          BY ONLY <3>1, <4>2
        <4> QED
          BY <4>1, <4>3
      <3> QED
        BY <2>4, <3>2
    <2>9. Counted("up", symbol + 1, nodes', heap', popped, count + 1)
      BY <2>6, <2>7, <2>8 DEF Counted
    <2>10. Grows("up", symbol + 1, nodes', heap', popped, Frequencies)
      BY <1>5, <2>5, <2>6, <2>9 DEF Grows
    <2> QED
      BY <1>1, <1>2, <2>4, <2>10 DEF Stage
  <1> QED
    BY <1>9, <1>10

LEMMA SiftUpStage == HeapInv /\ Stage /\ SiftUp => Stage'
  <1> SUFFICES ASSUME HeapInv, Stage, SiftUp PROVE Stage'
    OBVIOUS
  <1> USE DEF heapVars
  <1> DEFINE p == slot \div 2
  <1>1. /\ hpc = "up" /\ UNCHANGED <<text, symbol, nodes, popped>> /\ LenTypes
        /\ slot \in Nat \ {0} /\ slot <= Len(heap)
    BY HeapInvMeans DEF SiftUp, LenTypes
  <1>2. Frequencies' = Frequencies
    BY <1>1, SameFrequencies
  <1>3. /\ heap \in Seq(DOMAIN nodes) /\ symbol \in 0 .. Symbols /\ Symbols \in Nat
        /\ Len(nodes) \in Nat /\ Len(heap) \in Nat /\ Len(popped) \in Nat
    BY <1>1, RootsAreNodes
  <1>4. CASE slot > 1 /\ node_less(heap[slot], heap[p])
    <2>1. heap' = Exchange(heap, slot, p) /\ hpc' = "up"
      BY <1>1, <1>4 DEF SiftUp, Swapped, Exchange
    <2>2. p # slot /\ slot \in DOMAIN heap /\ p \in DOMAIN heap
      <3>1. slot \in Nat /\ slot >= 2 /\ DOMAIN heap = 1 .. Len(heap)
        BY <1>1, <1>3, <1>4
      <3>2. p \in Nat /\ 1 <= p /\ p < slot
        BY <3>1, Half
      <3> HIDE DEF p
      <3> QED
        BY <1>1, <1>3, <3>1, <3>2
    <2> HIDE DEF p
    <2>3. ToSet(heap') = ToSet(heap) /\ Len(heap') = Len(heap)
      <3>1. PICK new, S : new = heap' /\ S = DOMAIN nodes
        OBVIOUS
      <3>2. heap \in Seq(S) /\ new = Exchange(heap, slot, p)
        BY <1>3, <2>1, <3>1
      <3>3. ToSet(new) = ToSet(heap)
        BY ONLY <2>2, <3>2, ExchangeSet
      <3>4. Len(new) = Len(heap)
        BY ONLY <2>2, <3>2, ExchangeFacts
      <3> QED
        BY <3>1, <3>3, <3>4
    <2>4. Grows("up", symbol, nodes, heap', popped, Frequencies)
      BY <1>1, <2>3, GrowsOn DEF Stage
    <2> QED
      BY <1>1, <1>2, <2>1, <2>4 DEF Stage
  <1>5. CASE ~(slot > 1 /\ node_less(heap[slot], heap[p]))
    <2>1. hpc' = (IF symbol < Symbols THEN "leaf" ELSE "merge") /\ heap' = heap
      BY <1>5 DEF SiftUp
    <2>2. ~(symbol < Symbols) => symbol = Symbols
      BY <1>3
    <2>3. Grows(hpc', symbol, nodes, heap, popped, Frequencies)
      <3>1. CASE symbol < Symbols
        BY <1>1, <2>1, <3>1, GrowsOn DEF Stage
      <3>2. CASE ~(symbol < Symbols)
        BY <1>1, <2>1, <2>2, <3>2, GrowsOn DEF Stage
      <3> QED
        BY <3>1, <3>2
    <2> QED
      BY <1>1, <1>2, <2>1, <2>3 DEF Stage
  <1> QED
    BY <1>4, <1>5

LEMMA MergingCounts ==
  ASSUME Stage, hpc \in {"merge", "down"}
  PROVE  symbol = Symbols
  BY DEF Stage, Grows, Counted

LEMMA PopNodeStage == HeapInv /\ Stage /\ PopNode => Stage'
  <1> SUFFICES ASSUME HeapInv, Stage, PopNode PROVE Stage'
    OBVIOUS
  <1>1. /\ hpc = "merge" /\ hpc' = "down" /\ LenTypes
        /\ UNCHANGED <<text, symbol, nodes>>
        /\ Len(popped) < 2 /\ Len(heap) + Len(popped) > 1
        /\ popped' = Append(popped, heap[1])
        /\ heap' = Shrunk(heap)
    BY HeapInvMeans DEF PopNode, Shrunk
  <1>2. Frequencies' = Frequencies
    BY <1>1, SameFrequencies
  <1>3. /\ heap \in Seq(DOMAIN nodes) /\ popped \in Seq(DOMAIN nodes)
        /\ Len(nodes) \in Nat /\ Len(heap) \in Nat /\ Len(popped) \in Nat
    BY <1>1, RootsAreNodes
  <1>4. heap # <<>>
    <2>1. Len(heap) # 0
      BY <1>1, <1>3
    <2> QED
      BY <1>3, <2>1
  <1>5. PICK S, h, o, new, out1 :
          S = DOMAIN nodes /\ h = heap /\ o = popped /\ new = heap' /\ out1 = popped'
    OBVIOUS
  <1>6. h \in Seq(S) /\ h # <<>> /\ o \in Seq(S) /\ new = Shrunk(h) /\ out1 = Append(o, h[1])
    BY <1>1, <1>3, <1>4, <1>5
  <1>7. ToSet(new) \cup {h[1]} = ToSet(h)
    BY ONLY <1>6, ShrunkSet
  <1>8. ToSet(out1) = ToSet(o) \cup {h[1]}
    BY ONLY <1>6, AppendSet
  <1>9. Len(new) = Len(h) - 1
    BY ONLY <1>6, ShrunkFacts
  <1>10. Len(out1) = Len(o) + 1
    BY ONLY <1>6
  <1>11. ToSet(heap') \cup ToSet(popped') = ToSet(heap) \cup ToSet(popped)
    BY <1>5, <1>7, <1>8
  <1>12. Len(nodes) + Len(heap') + Len(popped') = Len(nodes) + Len(heap) + Len(popped)
    <2>1. \A a, b, c \in Nat : a + (b - 1) + (c + 1) = a + b + c
      OBVIOUS
    <2>2. Len(nodes) + (Len(heap) - 1) + (Len(popped) + 1) = Len(nodes) + Len(heap) + Len(popped)
      BY ONLY <1>3, <2>1
    <2> QED
      BY <1>5, <1>9, <1>10, <2>2
  <1>13. Grows("down", symbol, nodes, heap', popped', Frequencies)
    BY <1>1, <1>11, <1>12, MergingCounts, GrowsOn DEF Stage
  <1> QED
    BY <1>1, <1>2, <1>13 DEF Stage

LEMMA SiftDownStage == HeapInv /\ Stage /\ SiftDown => Stage'
  <1> SUFFICES ASSUME HeapInv, Stage, SiftDown PROVE Stage'
    OBVIOUS
  <1> USE DEF heapVars
  <1>1. /\ hpc = "down" /\ UNCHANGED <<text, symbol, nodes, popped>> /\ LenTypes
        /\ slot \in Nat \ {0} /\ Once(heap)
    BY HeapInvMeans DEF SiftDown, LenTypes
  <1>2. Frequencies' = Frequencies /\ symbol = Symbols
    BY <1>1, SameFrequencies, MergingCounts
  <1>3. /\ nodes \in Seq(Node) /\ heap \in Seq(DOMAIN nodes) /\ Len(heap) \in Nat
    BY <1>1, RootsAreNodes
  <1>4. PICK c : c = Smallest
    OBVIOUS
  <1>5. CASE slot <= Len(heap) /\ c # slot
    <2>1. heap' = Exchange(heap, slot, c) /\ hpc' = "down"
      BY <1>1, <1>4, <1>5 DEF SiftDown, Swapped, Exchange
    <2>2. slot \in 1 .. Len(heap) /\ slot \in DOMAIN heap
      BY <1>1, <1>3, <1>5
    <2>3. c \in DOMAIN heap
      BY <1>1, <1>3, <1>4, <2>2, SmallestFacts
    <2>4. ToSet(heap') = ToSet(heap) /\ Len(heap') = Len(heap)
      <3>1. PICK new, S : new = heap' /\ S = DOMAIN nodes
        OBVIOUS
      <3>2. heap \in Seq(S) /\ new = Exchange(heap, slot, c) /\ slot # c
        BY <1>3, <1>5, <2>1, <3>1
      <3>3. ToSet(new) = ToSet(heap)
        BY ONLY <2>2, <2>3, <3>2, ExchangeSet
      <3>4. Len(new) = Len(heap)
        BY ONLY <2>2, <2>3, <3>2, ExchangeFacts
      <3> QED
        BY <3>1, <3>3, <3>4
    <2>5. Grows("down", symbol, nodes, heap', popped, Frequencies)
      BY <1>1, <1>2, <2>4, GrowsOn DEF Stage
    <2> QED
      BY <1>1, <1>2, <2>1, <2>5 DEF Stage
  <1>6. CASE ~(slot <= Len(heap) /\ c # slot)
    <2>1. hpc' = "merge" /\ heap' = heap
      BY <1>4, <1>6 DEF SiftDown
    <2>2. Grows("merge", symbol, nodes, heap, popped, Frequencies)
      BY <1>1, <1>2, GrowsOn DEF Stage
    <2> QED
      BY <1>1, <1>2, <2>1, <2>2 DEF Stage
  <1> QED
    BY <1>5, <1>6

\* There is always room for one more merger.
LEMMA MergeHasRoom ==
  ASSUME LenTypes, Stage, hpc = "merge", Len(popped) = 2
  PROVE  ~(Len(nodes) >= MaxNodes)
  <1>1. PICK count \in 0 .. symbol : Counted("merge", symbol, nodes, heap, popped, count)
    BY DEF Stage, Grows
  <1>2. /\ Len(nodes) + Len(heap) + Len(popped) = 2 * count /\ symbol = Symbols
    BY <1>1 DEF Counted
  <1>3. Len(nodes) \in Nat /\ Len(heap) \in Nat /\ Symbols \in Nat /\ Len(popped) = 2
    BY RootsAreNodes
  <1>4. count \in Nat /\ count <= Symbols
    BY <1>2, <1>3
  <1>5. Len(nodes) + 2 <= 2 * Symbols
    BY <1>2, <1>3, <1>4
  <1>6. MaxNodes = 2 * Symbols - 1
    BY <1>3 DEF MaxNodes
  <1> QED
    BY <1>3, <1>5, <1>6

LEMMA MergeStage == HeapInv /\ Stage /\ Merge => Stage' /\ hpc' = "up"
  <1> SUFFICES ASSUME HeapInv, Stage, Merge PROVE Stage' /\ hpc' = "up"
    OBVIOUS
  <1> USE DEF heapVars
  <1>1. /\ hpc = "merge" /\ Len(popped) = 2 /\ popped' = <<>> /\ text' = text
        /\ symbol' = symbol /\ LenTypes
    BY HeapInvMeans DEF Merge
  <1>2. Frequencies \in [Symbol -> Nat] /\ Frequencies' = Frequencies /\ symbol = Symbols
    BY <1>1, FrequenciesFacts, SameFrequencies, MergingCounts
  <1>3. /\ nodes \in Seq(Node) /\ heap \in Seq(DOMAIN nodes) /\ popped \in Seq(DOMAIN nodes)
        /\ ToSet(heap) \cup ToSet(popped) \subseteq DOMAIN nodes
        /\ Len(nodes) \in Nat /\ Len(heap) \in Nat
        /\ DOMAIN nodes = 1 .. Len(nodes)
    BY <1>1, RootsAreNodes
  <1>4. PICK x \in Node : /\ MakeNode(x) /\ x.symbol = Inner
                          /\ x.left = popped[1] /\ x.right = popped[2]
    BY <1>1, MergeHasRoom, MergedNode
  <1>5. /\ Extends(nodes, nodes', x) /\ Len(nodes') = Len(nodes) + 1
        /\ ToSet(heap') = ToSet(heap) \cup {Len(nodes) + 1} /\ Len(heap') = Len(heap) + 1
        /\ hpc' = "up"
    BY <1>3, <1>4, MakeExtends
  <1>6. PICK l, r : l = popped[1] /\ r = popped[2]
    OBVIOUS
  <1>7. ToSet(popped) = {l, r}
    <2>1. DOMAIN popped = {1, 2}
      BY <1>1, <1>3
    <2> QED
      BY <1>6, <2>1 DEF ToSet
  <1>8. l # r
    <2>1. Before(nodes, l, r)
      BY <1>1, <1>6, HeapInvMeans DEF First
    <2>2. l \in DOMAIN nodes /\ r \in DOMAIN nodes
      BY <1>3, <1>7
    <2> QED
      BY <1>3, <2>1, <2>2, BeforeAsymmetric
  <1>9. ToSet(heap) \cap {l, r} = {}
    <2>1. \A i \in DOMAIN heap : heap[i] \notin ToSet(popped)
      BY HeapInvMeans
    <2>2. \A n \in ToSet(heap) : n \notin ToSet(popped)
      BY <2>1 DEF ToSet
    <2> QED
      BY <1>7, <2>2
  <1>10. PICK U, new, fr : U = ToSet(heap) \cup ToSet(popped) /\ new = nodes' /\ fr = Frequencies
    OBVIOUS
  <1>11. /\ fr \in [Symbol -> Nat] /\ Grove(nodes, fr, symbol) /\ Roots(nodes, U)
         /\ U \subseteq DOMAIN nodes /\ l \in U /\ r \in U
         /\ x.left = l /\ x.right = r /\ x \in Node
         /\ Extends(nodes, new, x) /\ U \ {l, r} = ToSet(heap)
    BY <1>1, <1>2, <1>3, <1>4, <1>5, <1>6, <1>7, <1>9, <1>10 DEF Stage, Grows
  <1>12. Grove(new, fr, symbol)
    BY ONLY <1>3, <1>4, <1>8, <1>11, GroveMerge
  <1>13. Roots(new, (U \ {l, r}) \cup {Len(nodes) + 1})
    BY ONLY <1>3, <1>4, <1>8, <1>11, GroveMerge
  <1>14. Roots(new, ToSet(heap') \cup ToSet(popped'))
    <2>1. ToSet(popped') = {}
      BY <1>1 DEF ToSet
    <2> QED
      BY <1>5, <1>11, <1>13, <2>1
  <1>15. PICK count \in 0 .. symbol : Counted("merge", symbol, nodes, heap, popped, count)
    BY <1>1 DEF Stage, Grows
  <1>16. /\ count <= Len(nodes) /\ Len(nodes) + Len(heap) + 2 = 2 * count
         /\ \A n \in 1 .. Len(nodes) : nodes[n].symbol # Inner <=> n <= count
         /\ count \in Nat
    <2>1. count <= Len(nodes) /\ Len(nodes) + Len(heap) + Len(popped) = 2 * count
      BY <1>15 DEF Counted
    <2>2. \A n \in 1 .. Len(nodes) : nodes[n].symbol # Inner <=> n <= count
      BY <1>3, <1>15 DEF Counted
    <2>3. count \in Nat
      BY <1>2, <1>15, SymbolsNat
    <2> QED
      BY <1>1, <2>1, <2>2, <2>3
  <1>17. ASSUME NEW n \in DOMAIN nodes' PROVE nodes'[n].symbol # Inner <=> n <= count
    <2>1. n \in 1 .. Len(nodes) + 1
      BY <1>5 DEF Extends
    <2>2. CASE n = Len(nodes) + 1
      <3>1. nodes'[n].symbol = Inner
        BY <1>4, <1>5, <2>2 DEF Extends
      <3>2. ~(n <= count)
        BY <1>3, <1>16, <2>2
      <3> QED
        BY <3>1, <3>2
    <2>3. CASE n # Len(nodes) + 1
      <3>1. n \in 1 .. Len(nodes)
        BY <1>3, <2>1, <2>3
      <3>2. nodes'[n] = nodes[n]
        BY <1>5, <3>1 DEF Extends
      <3> QED
        BY <1>16, <3>1, <3>2
    <2> QED
      BY <2>2, <2>3
  <1>18. Len(nodes') + Len(heap') + Len(popped') = 2 * count /\ count <= Len(nodes')
    <2>1. Len(popped') = 0
      BY <1>1
    <2>2. (Len(nodes) + 1) + (Len(heap) + 1) + 0 = 2 * count /\ count <= Len(nodes) + 1
      BY <1>3, <1>16
    <2> QED
      BY <1>5, <2>1, <2>2
  <1>19. Counted("up", symbol, nodes', heap', popped', count)
    <2>1. PICK new2, h2, o2 : new2 = nodes' /\ h2 = heap' /\ o2 = popped'
      OBVIOUS
    <2>2. /\ \A n \in DOMAIN new2 : new2[n].symbol # Inner <=> n <= count
          /\ Len(new2) + Len(h2) + Len(o2) = 2 * count /\ count <= Len(new2)
      BY <1>17, <1>18, <2>1
    <2>3. ~(symbol < Symbols) /\ count \in 0 .. symbol
      BY <1>2, <1>15, SymbolsNat
    <2>4. Counted("up", symbol, new2, h2, o2, count)
      BY ONLY <2>2, <2>3 DEF Counted
    <2> QED
      BY <2>1, <2>4
  <1>20. Grows("up", symbol, nodes', heap', popped', Frequencies)
    BY <1>10, <1>12, <1>14, <1>15, <1>19 DEF Grows
  <1> QED
    BY <1>1, <1>2, <1>5, <1>20 DEF Stage

LengthsRight(pc, lens, fr) ==
    /\ pc \in {"leaf", "up", "down", "merge"} => lens = [s \in Symbol |-> 0]
    /\ pc \in {"done", "returned"} =>
          /\ \A s \in Symbol : lens[s] # 0 <=> fr[s] > 0
          /\ Kraft(lens) <= pow2[MaxCodeBits]
          /\ \/ Kraft(lens) = pow2[MaxCodeBits]
             \/ /\ Cardinality({s \in Symbol : fr[s] > 0}) = 1
                /\ \A s \in Symbol : lens[s] <= 1
    /\ pc = "fail" => \A s \in Symbol : fr[s] = 0

LEMMA LengthsStandMeans == LengthsStand <=> LengthsRight(hpc, lengths, Frequencies)
  BY DEF LengthsStand, LengthsRight, Frequencies, Building

LEMMA LengthsStandMeansNext == LengthsStand' <=> LengthsRight(hpc', lengths', Frequencies')
  BY DEF LengthsStand, LengthsRight, Frequencies, Building

LEMMA OneTree ==
  ASSUME LenTypes, Stage, hpc = "merge", popped = <<>>, Len(heap) = 1, Len(nodes) > 1
  PROVE  \E count : Whole(nodes, Frequencies, count)
  <1>1. /\ nodes \in Seq(Node) /\ heap \in Seq(DOMAIN nodes) /\ popped \in Seq(DOMAIN nodes)
        /\ Len(nodes) \in Nat /\ DOMAIN nodes = 1 .. Len(nodes) /\ Symbols \in Nat
    BY RootsAreNodes
  <1>2. PICK count \in 0 .. symbol : Counted("merge", symbol, nodes, heap, popped, count)
    BY DEF Stage, Grows
  <1>3. symbol = Symbols
    BY MergingCounts
  <1>4. /\ Len(nodes) + 1 = 2 * count /\ count <= Len(nodes)
        /\ \A n \in DOMAIN nodes : nodes[n].symbol # Inner <=> n <= count
    <2>1. Len(popped) = 0
      OBVIOUS
    <2> QED
      BY <1>1, <1>2, <2>1 DEF Counted
  <1>5. count \in 1 .. Symbols /\ count < Len(nodes) /\ Len(nodes) < 2 * count
    BY <1>1, <1>2, <1>3, <1>4
  <1>6. Grove(nodes, Frequencies, Symbols) /\ Roots(nodes, ToSet(heap) \cup ToSet(popped))
    BY <1>3 DEF Stage, Grows
  <1>7. ToSet(heap) = {heap[1]} /\ ToSet(popped) = {}
    <2>1. DOMAIN heap = {1} /\ DOMAIN popped = {}
      BY <1>1
    <2> QED
      BY <2>1 DEF ToSet
  <1>8. Len(nodes) \in DOMAIN nodes /\ \A p \in DOMAIN nodes : ~Below(nodes, p, Len(nodes))
    <2>1. Len(nodes) \in DOMAIN nodes
      BY <1>1, <1>5
    <2>2. ASSUME NEW p \in DOMAIN nodes, Below(nodes, p, Len(nodes)) PROVE FALSE
      <3>1. Len(nodes) < p
        BY <1>1, <1>6, <2>2, GroveBelow
      <3> QED
        BY <1>1, <3>1
    <2> QED
      BY <2>1, <2>2
  <1>9. heap[1] = Len(nodes)
    BY <1>6, <1>7, <1>8 DEF Roots
  <1>10. Roots(nodes, {Len(nodes)})
    BY <1>6, <1>7, <1>9
  <1> QED
    BY <1>1, <1>4, <1>5, <1>6, <1>10 DEF Whole

LEMMA StageEnds ==
  ASSUME Stage, text' = text, symbol' = symbol, nodes' = nodes,
         hpc' \notin {"leaf", "up", "down", "merge"}
  PROVE  Stage'
  <1>1. Frequencies' = Frequencies
    BY SameFrequencies
  <1>2. Grows(hpc', symbol, nodes, heap', popped', Frequencies)
    BY GrowsOn DEF Stage
  <1> QED
    BY <1>1, <1>2 DEF Stage

LEMMA AssignStage ==
  ASSUME LenTypes, Stage, assign_lengths PROVE Stage' /\ LengthsStand'
  <1>1. /\ hpc = "merge" /\ popped = <<>> /\ Len(heap) = 1 /\ Len(nodes) > 1
        /\ UNCHANGED <<text, symbol, nodes, popped>>
    BY DEF assign_lengths
  <1>2. PICK count : Whole(nodes, Frequencies, count)
    BY <1>1, OneTree
  <1>3. PICK fr : fr = Frequencies
    OBVIOUS
  <1>4. Whole(nodes, fr, count)
    BY <1>2, <1>3
  <1>5. /\ \A s \in Symbol : Assigned[s] # 0 <=> fr[s] > 0
        /\ Kraft(Assigned) = pow2[MaxCodeBits]
        /\ \A n \in Level[MaxCodeBits] : nodes[n].symbol # Inner
        /\ Assigned \in [Symbol -> 0 .. MaxCodeBits]
    BY <1>4, AssignedFacts
  <1>6. lengths' = Assigned /\ hpc' = "done"
    BY <1>1, <1>5 DEF assign_lengths, Assigned, DepthsOf
  <1>7. Stage'
    BY <1>1, <1>6, StageEnds
  <1>8. Frequencies' = Frequencies
    BY <1>1, SameFrequencies
  <1>9. PICK lens : lens = Assigned
    OBVIOUS
  <1>10. LengthsRight("done", lens, fr)
    <2>1. Kraft(lens) = pow2[MaxCodeBits] /\ \A s \in Symbol : lens[s] # 0 <=> fr[s] > 0
      BY <1>5, <1>9
    <2>2. pow2[MaxCodeBits] <= pow2[MaxCodeBits]
      BY ShareFacts
    <2> QED
      BY <2>1, <2>2 DEF LengthsRight
  <1> QED
    BY <1>3, <1>6, <1>7, <1>8, <1>9, <1>10, LengthsStandMeansNext

LEMMA OnlySymbolStage ==
  ASSUME LenTypes, Stage, LengthsStand, OnlySymbol PROVE Stage' /\ LengthsStand'
  <1> USE DEF heapVars
  <1>1. /\ hpc = "merge" /\ popped = <<>> /\ Len(nodes) <= 1
        /\ UNCHANGED <<text, symbol, nodes, popped>>
    BY DEF OnlySymbol
  <1>2. /\ nodes \in Seq(Node) /\ heap \in Seq(DOMAIN nodes) /\ popped \in Seq(DOMAIN nodes)
        /\ Len(nodes) \in Nat /\ Len(heap) \in Nat /\ DOMAIN nodes = 1 .. Len(nodes)
        /\ Symbols \in Nat
    BY RootsAreNodes
  <1>3. symbol = Symbols /\ Frequencies' = Frequencies
    BY <1>1, MergingCounts, SameFrequencies
  <1>4. PICK fr : fr = Frequencies
    OBVIOUS
  <1>5. fr \in [Symbol -> Nat] /\ Grove(nodes, fr, Symbols)
    BY <1>3, <1>4, FrequenciesFacts DEF Stage, Grows
  <1>6. ASSUME NEW s \in Symbol PROVE fr[s] > 0 <=> \E n \in DOMAIN nodes : nodes[n].symbol = s
    <2>1. s # Inner /\ s < Symbols
      BY <1>2, InnerIsNoSymbol DEF Symbol
    <2> QED
      BY <1>5, <2>1 DEF Grove
  <1>7. CASE nodes = <<>>
    <2>1. hpc' = "fail" /\ lengths' = lengths
      BY <1>7 DEF OnlySymbol
    <2>2. ASSUME NEW s \in Symbol PROVE fr[s] = 0
      <3>1. ~(fr[s] > 0) /\ fr[s] \in Nat
        BY <1>5, <1>6, <1>7
      <3> QED
        BY <3>1
    <2>3. LengthsRight("fail", lengths, fr)
      BY <2>2 DEF LengthsRight
    <2>4. Stage'
      BY <1>1, <2>1, StageEnds
    <2> QED
      BY <1>3, <1>4, <2>1, <2>3, <2>4, LengthsStandMeansNext
  <1>8. CASE nodes # <<>>
    <2>1. Len(nodes) = 1 /\ DOMAIN nodes = {1}
      <3>1. Len(nodes) # 0
        BY <1>2, <1>8
      <3> QED
        BY <1>1, <1>2, <3>1
    <2>2. PICK count \in 0 .. symbol : Counted("merge", symbol, nodes, heap, popped, count)
      BY <1>1 DEF Stage, Grows
    <2>3. count = 1 /\ Len(heap) = 1
      <3>1. Len(nodes) + Len(heap) + Len(popped) = 2 * count /\ count <= Len(nodes) /\ Len(popped) = 0
        BY <1>1, <2>2 DEF Counted
      <3>2. count \in Nat
        BY <1>2, <1>3, <2>2
      <3> QED
        BY <1>2, <2>1, <3>1, <3>2
    <2>4. heap[1] = 1
      <3>1. 1 \in DOMAIN heap
        BY <1>2, <2>3
      <3>2. heap[1] \in DOMAIN nodes
        BY <1>2, <3>1
      <3> QED
        BY <2>1, <3>2
    <2>5. nodes[1].symbol # Inner
      BY <2>1, <2>2, <2>3 DEF Counted
    <2>6. PICK x : x = nodes[1].symbol
      OBVIOUS
    <2>7. x \in Symbol
      BY <1>2, <2>1, <2>5, <2>6, NodeSymbols
    <2>8. hpc' = "done" /\ lengths' = [lengths EXCEPT ![x] = 1]
      BY <1>8, <2>4, <2>6 DEF OnlySymbol
    <2>9. lengths = [s \in Symbol |-> 0]
      BY <1>1 DEF LengthsStand, Building
    <2>10. PICK lens : lens = [s \in Symbol |-> IF s = x THEN 1 ELSE 0]
      OBVIOUS
    <2>11. lengths' = lens
      BY <2>7, <2>8, <2>9, <2>10
    <2>12. ASSUME NEW s \in Symbol PROVE lens[s] # 0 <=> fr[s] > 0
      BY <1>6, <2>1, <2>6, <2>10
    <2>13. Kraft(lens) <= pow2[MaxCodeBits]
      <3>1. PICK f, g : f = [s \in Symbol |-> 0] /\ g = Shares(lens)
        OBVIOUS
      <3>2. lens \in [Symbol -> 0 .. MaxCodeBits]
        BY <2>10, MaxBitsNat
      <3>3. f \in [Symbol -> Nat] /\ g \in [Symbol -> Nat] /\ Kraft(lens) = Total(g)
        BY <3>1, <3>2, SharesNat
      <3>4. \A y \in Symbol : g[y] = IF y = x THEN Share(1) ELSE 0
        BY <2>10, <3>1 DEF Shares, Share
      <3>5. \A y \in Symbol : f[y] = 0
        BY <3>1
      <3>6. Total(f) = 0
        BY <3>3, <3>5, TotalZero
      <3>7. \A y \in Symbol : y # x => g[y] = f[y]
        BY <3>4, <3>5
      <3>8. Total(g) = Total(f) + g[x] - f[x]
        BY <2>7, <3>3, <3>7, TotalUpdate
      <3>9. Share(1) \in Nat /\ pow2[MaxCodeBits] = 2 * Share(1)
        BY ShareFacts, MaxBitsNat
      <3>10. g[x] = Share(1) /\ f[x] = 0
        BY <2>7, <3>4, <3>5
      <3> QED
        BY <3>3, <3>6, <3>8, <3>9, <3>10
    <2>14. Cardinality({s \in Symbol : fr[s] > 0}) = 1
      <3>1. {s \in Symbol : fr[s] > 0} = {x}
        BY <2>7, <2>10, <2>12
      <3> QED
        BY <3>1, FS_Singleton
    <2>15. LengthsRight("done", lens, fr)
      <3>1. \A s \in Symbol : lens[s] <= 1
        BY <2>10
      <3> QED
        BY <2>12, <2>13, <2>14, <3>1 DEF LengthsRight
    <2>16. Stage'
      BY <1>1, <2>8, StageEnds
    <2> QED
      BY <1>3, <1>4, <2>8, <2>11, <2>15, <2>16, LengthsStandMeansNext
  <1> QED
    BY <1>7, <1>8

LEMMA BuildForest ==
  ASSUME HeapInv, Stage, LengthsStand, BuildLengths PROVE Stage' /\ LengthsStand'
  <1>1. text' = text /\ hpc \in {"leaf", "up", "down", "merge"}
    BY DEF BuildLengths, NextLeaf, EndLeaves, SiftUp, PopNode, SiftDown, Merge, OnlySymbol,
           assign_lengths
  <1>2. Frequencies' = Frequencies
    BY <1>1, SameFrequencies
  <1>3. lengths = [s \in Symbol |-> 0]
    BY <1>1 DEF LengthsStand, Building
  <1>4. ASSUME lengths' = lengths, hpc' \in {"leaf", "up", "down", "merge"} PROVE LengthsStand'
    BY <1>3, <1>4 DEF LengthsStand, Building
  <1>5. LenTypes
    BY HeapInvMeans
  <1>6. CASE NextLeaf
    <2>1. lengths' = lengths /\ hpc' \in {"leaf", "up", "down", "merge"}
      BY <1>6 DEF NextLeaf, MakeNode
    <2> QED
      BY <1>4, <1>6, <2>1, NextLeafStage
  <1>7. CASE EndLeaves
    <2>1. /\ lengths' = lengths /\ hpc' = "merge" /\ hpc = "leaf" /\ symbol = Symbols
          /\ UNCHANGED <<symbol, nodes, heap, popped>>
      BY <1>7 DEF EndLeaves, heapVars
    <2>2. Grows("merge", symbol, nodes, heap, popped, Frequencies)
      BY <2>1, GrowsOn DEF Stage
    <2>3. Stage'
      BY <1>2, <2>1, <2>2 DEF Stage
    <2> QED
      BY <1>4, <2>1, <2>3
  <1>8. CASE SiftUp
    <2>1. lengths' = lengths /\ hpc' \in {"leaf", "up", "down", "merge"}
      BY <1>1, <1>8 DEF SiftUp
    <2> QED
      BY <1>4, <1>8, <2>1, SiftUpStage
  <1>9. CASE PopNode
    <2>1. lengths' = lengths /\ hpc' \in {"leaf", "up", "down", "merge"}
      BY <1>9 DEF PopNode
    <2> QED
      BY <1>4, <1>9, <2>1, PopNodeStage
  <1>10. CASE SiftDown
    <2>1. lengths' = lengths /\ hpc' \in {"leaf", "up", "down", "merge"}
      BY <1>1, <1>10 DEF SiftDown
    <2> QED
      BY <1>4, <1>10, <2>1, SiftDownStage
  <1>11. CASE Merge
    <2>1. lengths' = lengths
      BY <1>11 DEF Merge
    <2>2. Stage' /\ hpc' = "up"
      BY <1>11, MergeStage
    <2> QED
      BY <1>4, <2>1, <2>2
  <1>12. CASE OnlySymbol
    BY <1>5, <1>12, OnlySymbolStage
  <1>13. CASE assign_lengths
    BY <1>5, <1>13, AssignStage
  <1> QED
    BY <1>6, <1>7, <1>8, <1>9, <1>10, <1>11, <1>12, <1>13 DEF BuildLengths

LEMMA ForestInvMeans ==
  ASSUME LenTypes PROVE ForestInv <=> Stage /\ LengthsStand
  BY GrowsMeans DEF ForestInv, Stage

LEMMA ForestInvMeansNext ==
  ASSUME LenTypes' PROVE ForestInv' <=> Stage' /\ LengthsStand'
  BY GrowsMeansNext DEF ForestInv, Stage

LEMMA ForestInvInit == Init => ForestInv
  <1> SUFFICES ASSUME Init PROVE ForestInv
    OBVIOUS
  <1>1. LenTypes
    BY HeapInvInit, HeapInvMeans
  <1>2. hpc = "leaf" /\ symbol = 0 /\ nodes = <<>> /\ heap = <<>> /\ popped = <<>>
        /\ lengths = [s \in Symbol |-> 0]
    BY DEF Init, LenInit
  <1>3. \A s \in Symbol : ~(s < 0)
    BY SymbolIsInt
  <1>4. DOMAIN nodes = {} /\ Len(nodes) = 0 /\ Len(heap) = 0 /\ Len(popped) = 0
    BY <1>2
  <1>5. Grove(nodes, Frequencies, 0)
    BY <1>3, <1>4 DEF Grove
  <1>6. Counted("leaf", 0, nodes, heap, popped, 0)
    BY <1>4 DEF Counted
  <1>7. Grows("leaf", 0, nodes, heap, popped, Frequencies)
    BY <1>4, <1>5, <1>6 DEF Grows, Roots
  <1>8. Stage /\ LengthsStand
    BY <1>2, <1>7 DEF Stage, LengthsStand, Building
  <1> QED
    BY <1>1, <1>8, ForestInvMeans

LEMMA ForestInvStep == HeapInv /\ ForestInv /\ [Next]_vars => ForestInv'
  <1> SUFFICES ASSUME HeapInv, ForestInv, [Next]_vars PROVE ForestInv'
    OBVIOUS
  <1> USE DEF lenVars, heapVars
  <1>1. LenTypes /\ LenTypes'
    BY HeapInvMeans, HeapInvStep, HeapInvMeansNext
  <1>2. Stage /\ LengthsStand
    BY <1>1, ForestInvMeans
  <1>3. ASSUME UNCHANGED lenVars PROVE Stage' /\ LengthsStand'
    <2>1. UNCHANGED <<text, hpc, symbol, nodes, heap, popped, lengths>>
      BY <1>3
    <2>2. Frequencies' = Frequencies
      BY <2>1, SameFrequencies
    <2> QED
      BY <1>2, <2>1, <2>2, LengthsStandMeans, LengthsStandMeansNext DEF Stage
  <1>4. ASSUME LengthsStep PROVE Stage' /\ LengthsStand'
    BY <1>2, <1>4, BuildForest DEF LengthsStep
  <1>5. ASSUME CodesBegin PROVE Stage' /\ LengthsStand'
    <2>1. /\ hpc = "done" /\ hpc' = "returned"
          /\ UNCHANGED <<text, symbol, nodes, heap, popped, lengths>>
      BY <1>5 DEF CodesBegin
    <2>2. Stage'
      BY <1>2, <2>1, StageEnds
    <2>3. Frequencies' = Frequencies
      BY <2>1, SameFrequencies
    <2>4. LengthsRight("done", lengths, Frequencies)
      BY <1>2, <2>1, LengthsStandMeans
    <2>5. LengthsRight("returned", lengths, Frequencies)
      BY <2>4 DEF LengthsRight
    <2> QED
      BY <2>1, <2>2, <2>3, <2>5, LengthsStandMeansNext
  <1>6. ASSUME ~LengthsStep, ~CodesBegin PROVE Stage' /\ LengthsStand'
    <2>1. UNCHANGED lenVars
      BY <1>6 DEF Next, Step, CodesStep, WriteBegin, WriteBit, WriteEnd, CheckPayload, TreeBegin,
                  TreeStep, ReadBegin, ReadBit, ReadEnd, HelperFails, Terminated, vars
    <2> QED
      BY <1>3, <2>1
  <1>7. Stage' /\ LengthsStand'
    BY <1>3, <1>4, <1>5, <1>6
  <1> QED
    BY <1>1, <1>7, ForestInvMeansNext

\* The nodes of build_code_lengths are always a forest whose leaves are the
\* symbols met so far; there is room for each merger, no depth is too great,
\* and the lengths are for the symbols of the text and fit the code space
\* (huff.c:106-195).
THEOREM LengthsFromForest == Spec => []ForestInv
  <1>1. HeapInv /\ ForestInv /\ [Next]_vars => (HeapInv /\ ForestInv)'
    BY HeapInvStep, ForestInvStep
  <1>2. Init => HeapInv /\ ForestInv
    BY HeapInvInit, ForestInvInit
  <1> QED
    BY <1>1, <1>2, PTL DEF Spec

----------------------------------------------------------------------------
(* Trees as depths of their leaves.                                        *)

Sizes(d, max, N)  == [n \in 1 .. N |-> pow2[max - d[n]]]
Costs(w, d, N)    == [n \in 1 .. N |-> w[n] * d[n]]

\* Leaves U at the depths d fit the code space and cost no more than c.
Fitting(U, w, d, max, N, c) ==
    /\ d \in [1 .. N -> 0 .. max]
    /\ SumOf(U, Sizes(d, max, N), N) <= pow2[max]
    /\ SumOf(U, Costs(w, d, N), N) <= c

LEMMA SizesFacts ==
  ASSUME NEW N \in Nat, NEW max \in Nat, NEW d \in [1 .. N -> 0 .. max]
  PROVE  /\ Sizes(d, max, N) \in [1 .. N -> Nat]
         /\ \A n \in 1 .. N : Sizes(d, max, N)[n] = pow2[max - d[n]]
  <1>1. ASSUME NEW n \in 1 .. N PROVE pow2[max - d[n]] \in Nat
    <2>1. d[n] \in 0 .. max
      OBVIOUS
    <2>2. max - d[n] \in Nat
      BY <2>1
    <2> QED
      BY <2>2, Pow2Def
  <1> QED
    BY <1>1 DEF Sizes

LEMMA CostsFacts ==
  ASSUME NEW N \in Nat, NEW max \in Nat, NEW d \in [1 .. N -> 0 .. max],
         NEW w \in [1 .. N -> Nat]
  PROVE  /\ Costs(w, d, N) \in [1 .. N -> Nat]
         /\ \A n \in 1 .. N : Costs(w, d, N)[n] = w[n] * d[n]
  <1>1. ASSUME NEW n \in 1 .. N PROVE w[n] * d[n] \in Nat
    <2>1. d[n] \in Nat /\ w[n] \in Nat
      OBVIOUS
    <2> QED
      BY <2>1
  <1> QED
    BY <1>1 DEF Costs

\* The rarer leaf may be the deeper one.
LEMMA Exchanged ==
  ASSUME NEW N \in Nat, NEW max \in Nat, NEW U, NEW w \in [1 .. N -> Nat],
         NEW c \in Nat, NEW d, Fitting(U, w, d, max, N, c),
         NEW x \in 1 .. N, NEW y \in 1 .. N, x \in U, y \in U, w[x] <= w[y], d[x] <= d[y]
  PROVE  Fitting(U, w, [d EXCEPT ![x] = d[y], ![y] = d[x]], max, N, c)
  <1>1. PICK e : e = [d EXCEPT ![x] = d[y], ![y] = d[x]]
    OBVIOUS
  <1>2. d \in [1 .. N -> 0 .. max]
    BY DEF Fitting
  <1>3. CASE x = y
    <2>1. e = d
      BY <1>1, <1>2, <1>3
    <2> QED
      BY <1>1, <2>1
  <1>4. CASE x # y
    <2>1. /\ e \in [1 .. N -> 0 .. max] /\ e[x] = d[y] /\ e[y] = d[x]
          /\ \A n \in 1 .. N : n # x /\ n # y => e[n] = d[n]
      BY <1>1, <1>2, <1>4
    <2>2. PICK f, g : f = Sizes(d, max, N) /\ g = Sizes(e, max, N)
      OBVIOUS
    <2>3. /\ f \in [1 .. N -> Nat] /\ \A n \in 1 .. N : f[n] = pow2[max - d[n]]
          /\ g \in [1 .. N -> Nat] /\ \A n \in 1 .. N : g[n] = pow2[max - e[n]]
      BY <1>2, <2>1, <2>2, SizesFacts
    <2>4. SumOf(U, g, N) = SumOf(U, f, N)
      <3>1. /\ SumOf(U, g, N) + (f[x] + f[y]) = SumOf(U, f, N) + (g[x] + g[y])
            /\ SumOf(U, g, N) \in Nat /\ SumOf(U, f, N) \in Nat
            /\ f[x] \in Nat /\ f[y] \in Nat /\ g[x] \in Nat /\ g[y] \in Nat
        <4>1. ASSUME NEW n \in 1 .. N, n # x /\ n # y PROVE g[n] = f[n]
          <5>1. e[n] = d[n]
            BY <2>1, <4>1
          <5> QED
            BY <2>3, <5>1
        <4>2. \A n \in 1 .. N : n # x /\ n # y => g[n] = f[n]
          BY ONLY <4>1
        <4>3. g \in [1 .. N -> Nat] /\ f \in [1 .. N -> Nat]
          BY ONLY <2>3
        <4>4. TwoDiffer(N, U, f, g, x, y)
          BY <1>4, <4>2, <4>3 DEF TwoDiffer
        <4> QED
          BY ONLY <4>4, SumOfChangeTwo
      <3>2. g[x] = f[y] /\ g[y] = f[x]
        BY <2>1, <2>3
      <3> QED
        BY ONLY <3>1, <3>2
    <2>5. PICK h, k : h = Costs(w, d, N) /\ k = Costs(w, e, N)
      OBVIOUS
    <2>6. /\ h \in [1 .. N -> Nat] /\ \A n \in 1 .. N : h[n] = w[n] * d[n]
          /\ k \in [1 .. N -> Nat] /\ \A n \in 1 .. N : k[n] = w[n] * e[n]
      BY <1>2, <2>1, <2>5, CostsFacts
    <2>7. SumOf(U, k, N) <= SumOf(U, h, N)
      <3>1. /\ SumOf(U, k, N) + (h[x] + h[y]) = SumOf(U, h, N) + (k[x] + k[y])
            /\ SumOf(U, k, N) \in Nat /\ SumOf(U, h, N) \in Nat
            /\ h[x] \in Nat /\ h[y] \in Nat /\ k[x] \in Nat /\ k[y] \in Nat
        <4>1. ASSUME NEW n \in 1 .. N, n # x /\ n # y PROVE k[n] = h[n]
          <5>1. e[n] = d[n]
            BY <2>1, <4>1
          <5> QED
            BY <2>6, <5>1
        <4>2. \A n \in 1 .. N : n # x /\ n # y => k[n] = h[n]
          BY ONLY <4>1
        <4>3. k \in [1 .. N -> Nat] /\ h \in [1 .. N -> Nat]
          BY ONLY <2>6
        <4>4. TwoDiffer(N, U, h, k, x, y)
          BY <1>4, <4>2, <4>3 DEF TwoDiffer
        <4> QED
          BY ONLY <4>4, SumOfChangeTwo
      <3>2. k[x] + k[y] <= h[x] + h[y]
        <4>1. k[x] = w[x] * d[y] /\ k[y] = w[y] * d[x] /\ h[x] = w[x] * d[x] /\ h[y] = w[y] * d[y]
          BY <2>1, <2>6
        <4>2. w[x] \in Nat /\ w[y] \in Nat /\ d[x] \in Nat /\ d[y] \in Nat
          BY <1>2
        <4>3. w[x] * d[y] + w[y] * d[x] <= w[x] * d[x] + w[y] * d[y]
          BY <4>2, Crossed
        <4> QED
          BY <4>1, <4>3
      <3> QED
        BY ONLY <3>1, <3>2
    <2>8. SumOf(U, f, N) <= pow2[max] /\ SumOf(U, h, N) <= c
      BY <2>2, <2>5 DEF Fitting
    <2>9. SumOf(U, h, N) \in Nat /\ SumOf(U, k, N) \in Nat
      BY <2>6, SumOfNat
    <2>10. SumOf(U, g, N) <= pow2[max] /\ SumOf(U, k, N) <= c
      BY <2>4, <2>7, <2>8, <2>9
    <2> QED
      BY <1>1, <2>1, <2>2, <2>5, <2>10 DEF Fitting
  <1> QED
    BY <1>3, <1>4

LEMMA DeepestLeaf ==
  ASSUME NEW N \in Nat, NEW max \in Nat, NEW d \in [1 .. N -> 0 .. max],
         NEW U, U \subseteq 1 .. N, U # {}
  PROVE  \E y \in U : \A n \in U : d[n] <= d[y]
  <1> DEFINE T == {max - d[n] : n \in U}
  <1>1. \A n \in U : d[n] \in 0 .. max
    OBVIOUS
  <1>2. T \in SUBSET Nat /\ T # {}
    <2>1. ASSUME NEW n \in U PROVE max - d[n] \in Nat
      BY <1>1
    <2> QED
      BY <2>1
  <1>3. PICK t \in T : \A z \in T : t <= z
    <2> HIDE DEF T
    <2> QED
      BY <1>2, LeastNat
  <1>4. PICK y \in U : t = max - d[y]
    OBVIOUS
  <1>5. ASSUME NEW n \in U PROVE d[n] <= d[y]
    <2>1. max - d[y] <= max - d[n]
      BY <1>3, <1>4
    <2>2. d[n] \in 0 .. max /\ d[y] \in 0 .. max
      BY <1>1
    <2> QED
      BY <2>1, <2>2
  <1> QED
    BY <1>5

\* Of the trees U with weights w, a and b are the two lightest.
Lightest(N, max, U, w, a, b) ==
    /\ N \in Nat /\ max \in Nat /\ U \subseteq 1 .. N /\ w \in [1 .. N -> Nat]
    /\ a \in U /\ b \in U /\ a # b /\ w[a] <= w[b]
    /\ \A n \in U : n # a /\ n # b => w[b] <= w[n]

Deepest(U, d, a, b) == d[b] <= d[a] /\ \A n \in U : n # a => d[n] <= d[b]

\* The two rarest leaves may be as deep as any.
LEMMA TwoDeepest ==
  ASSUME NEW N, NEW max, NEW U, NEW w, NEW a, NEW b, Lightest(N, max, U, w, a, b),
         NEW c \in Nat, NEW d, Fitting(U, w, d, max, N, c)
  PROVE  \E e : Fitting(U, w, e, max, N, c) /\ Deepest(U, e, a, b)
  <1> USE DEF Lightest
  <1>1. d \in [1 .. N -> 0 .. max] /\ a \in 1 .. N /\ b \in 1 .. N
    BY DEF Fitting
  <1>2. PICK x \in U : \A n \in U : d[n] <= d[x]
    BY <1>1, DeepestLeaf
  <1>3. w[a] <= w[x] /\ d[a] <= d[x] /\ x \in 1 .. N
    <2>1. /\ \A n \in 1 .. N : w[n] \in Nat
          /\ x = a \/ x = b \/ w[b] <= w[x]
      OBVIOUS
    <2>2. w[a] \in Nat /\ w[b] \in Nat /\ w[x] \in Nat
      BY <1>1, <2>1
    <2> QED
      BY <1>2, <2>1, <2>2
  <1>4. PICK d1 : d1 = [d EXCEPT ![a] = d[x], ![x] = d[a]]
    OBVIOUS
  <1>5. Fitting(U, w, d1, max, N, c)
    BY <1>1, <1>3, <1>4, Exchanged
  <1>6. d1 \in [1 .. N -> 0 .. max] /\ d1[a] = d[x] /\ \A n \in U : d1[n] <= d1[a]
    <2>1. d1 \in [1 .. N -> 0 .. max] /\ d1[a] = d[x] /\ d1[x] = d[a]
          /\ \A n \in 1 .. N : n # a /\ n # x => d1[n] = d[n]
      BY <1>1, <1>3, <1>4
    <2>2. ASSUME NEW n \in U PROVE d1[n] <= d1[a]
      <3>1. n \in 1 .. N /\ d[n] <= d[x] /\ d[a] <= d[x] /\ d[x] \in Nat
        BY <1>1, <1>2, <1>3
      <3>2. d1[n] = d[x] \/ d1[n] = d[a] \/ d1[n] = d[n]
        BY <2>1, <3>1
      <3> QED
        BY <2>1, <3>1, <3>2
    <2> QED
      BY <2>1, <2>2
  <1>7. PICK V : V = U \ {a}
    OBVIOUS
  <1>8. V \subseteq 1 .. N /\ V # {} /\ b \in V
    BY <1>1, <1>7
  <1>9. PICK y \in V : \A n \in V : d1[n] <= d1[y]
    BY ONLY <1>6, <1>8, N \in Nat, max \in Nat, DeepestLeaf
  <1>10. w[b] <= w[y] /\ d1[b] <= d1[y] /\ y \in 1 .. N /\ y \in U /\ y # a
    <2>1. y \in U /\ y # a /\ (y = b \/ w[b] <= w[y]) /\ w[b] \in Nat
      BY <1>1, <1>7
    <2> QED
      BY <1>8, <1>9, <2>1
  <1>11. PICK e : e = [d1 EXCEPT ![b] = d1[y], ![y] = d1[b]]
    OBVIOUS
  <1>12. Fitting(U, w, e, max, N, c)
    BY ONLY <1>1, <1>5, <1>10, <1>11, N \in Nat, max \in Nat, c \in Nat, w \in [1 .. N -> Nat],
            b \in U, Exchanged
  <1>13. e[b] = d1[y] /\ e[y] = d1[b] /\ \A n \in 1 .. N : n # b /\ n # y => e[n] = d1[n]
    BY <1>1, <1>6, <1>10, <1>11
  <1>14. e[a] = d1[a]
    BY <1>1, <1>10, <1>13
  <1>15. e[b] <= e[a]
    BY <1>6, <1>10, <1>13, <1>14
  <1>16. ASSUME NEW n \in U, n # a PROVE e[n] <= e[b]
    <2>1. n \in V /\ n \in 1 .. N
      BY <1>7, <1>8, <1>16
    <2>2. d1[n] <= d1[y] /\ d1[b] <= d1[y] /\ d1[y] \in Nat
      BY <1>6, <1>9, <1>10, <2>1
    <2>3. e[n] = d1[y] \/ e[n] = d1[b] \/ e[n] = d1[n]
      BY <1>13, <2>1
    <2> QED
      BY <1>13, <2>2, <2>3
  <1> QED
    BY <1>12, <1>15, <1>16 DEF Deepest

\* They may be siblings: the deeper one moves up.
LEMMA TwoSiblings ==
  ASSUME NEW N, NEW max, NEW U, NEW w, NEW a, NEW b, Lightest(N, max, U, w, a, b),
         NEW c \in Nat, NEW d, Fitting(U, w, d, max, N, c), Deepest(U, d, a, b)
  PROVE  \E e : Fitting(U, w, e, max, N, c) /\ e[a] = e[b] /\ e[b] >= 1
  <1> USE DEF Lightest, Deepest
  <1>1. d \in [1 .. N -> 0 .. max] /\ a \in 1 .. N /\ b \in 1 .. N
    BY DEF Fitting
  <1>2. PICK L \in 0 .. max : L = d[b]
    BY <1>1
  <1>3. PICK e : e = [d EXCEPT ![a] = L]
    OBVIOUS
  <1>4. /\ e \in [1 .. N -> 0 .. max] /\ e[a] = L /\ e[b] = L
        /\ \A n \in 1 .. N : n # a => e[n] = d[n]
    BY <1>1, <1>2, <1>3
  <1>5. ASSUME NEW n \in U PROVE e[n] \in 0 .. L
    <2>1. n \in 1 .. N /\ e[n] \in 0 .. max
      BY <1>4
    <2>2. e[n] <= L
      BY <1>2, <1>4, <2>1
    <2> QED
      BY <2>1, <2>2
  <1>6. PICK f, g : f = Sizes(d, max, N) /\ g = Sizes(e, max, N)
    OBVIOUS
  <1>7. /\ f \in [1 .. N -> Nat] /\ \A n \in 1 .. N : f[n] = pow2[max - d[n]]
        /\ g \in [1 .. N -> Nat] /\ \A n \in 1 .. N : g[n] = pow2[max - e[n]]
    BY <1>1, <1>4, <1>6, SizesFacts
  <1>8. PICK m \in Nat \ {0} : m = pow2[max - L]
    <2>1. max - L \in Nat
      OBVIOUS
    <2> QED
      BY <2>1, Pow2Positive
  <1>9. PICK P \in Nat \ {0} : P = pow2[L] /\ pow2[max] = m * P
    <2>1. max - 0 = max /\ L - 0 = L /\ 0 \in 0 .. L
      OBVIOUS
    <2>0. PICK z \in 0 .. L : z = 0
      BY <2>1
    <2>2. pow2[max - z] = pow2[max - L] * pow2[L - z] /\ pow2[L - z] \in Nat \ {0}
      <3>1. max - L \in Nat /\ L - z \in Nat /\ (max - L) + (L - z) = max - z
        OBVIOUS
      <3> QED
        BY ONLY <3>1, Pow2Sum, Pow2Positive
    <2> QED
      BY ONLY <1>8, <2>0, <2>1, <2>2
  <1>10. PICK q \in Nat : SumOf(U, g, N) = m * q
    <2>1. PICK h : h = Weighed(U, g, N)
      OBVIOUS
    <2>2. h \in [1 .. N -> Nat] /\ \A n \in 1 .. N : h[n] = IF n \in U THEN g[n] ELSE 0
      <3>1. g \in [1 .. N -> Nat]
        BY <1>7
      <3> QED
        BY ONLY <3>1, <2>1 DEF Weighed
    <2>3. ASSUME NEW n \in 1 .. N PROVE \E r \in Nat : h[n] = m * r
      <3>1. CASE n \in U
        <4>1. g[n] = pow2[max - e[n]] /\ e[n] \in 0 .. L
          BY <1>5, <1>7, <3>1
        <4>2. PICK z \in 0 .. L : z = e[n]
          BY <4>1
        <4>3. pow2[max - z] = pow2[max - L] * pow2[L - z] /\ pow2[L - z] \in Nat \ {0}
          <5>1. max - L \in Nat /\ L - z \in Nat /\ (max - L) + (L - z) = max - z
            OBVIOUS
          <5> QED
            BY ONLY <5>1, Pow2Sum, Pow2Positive
        <4> QED
          BY <1>8, <2>2, <3>1, <4>1, <4>2, <4>3
      <3>2. CASE n \notin U
        <4>1. h[n] = m * 0 /\ 0 \in Nat
          BY <2>2, <3>2
        <4> QED
          BY <4>1
      <3> QED
        BY <3>1, <3>2
    <2>4. \E r \in Nat : SumTo(h, N) = m * r
      BY ONLY <2>2, <2>3, m \in Nat \ {0}, N \in Nat, SumToMultiple
    <2> QED
      BY <2>1, <2>4 DEF SumOf
  <1>11. SumOf(U, g, N) <= pow2[max]
    <2>0. OneDiffers(N, U, f, g, a)
      <3>1. \A n \in 1 .. N : n # a => g[n] = f[n]
        BY <1>4, <1>7
      <3> QED
        BY <1>1, <1>7, <3>1 DEF OneDiffers
    <2>1. SumOf(U, g, N) + f[a] = SumOf(U, f, N) + g[a]
      BY <2>0, SumOfChangeOne
    <2>2. g[a] = m
      BY <1>1, <1>4, <1>7, <1>8
    <2>3. f[a] \in Nat /\ f[a] >= 1
      <3>1. d[a] \in 0 .. max
        BY <1>1
      <3>2. max - d[a] \in Nat
        BY <3>1
      <3>3. pow2[max - d[a]] \in Nat \ {0}
        BY ONLY <3>2, Pow2Positive
      <3>4. f[a] = pow2[max - d[a]]
        BY <1>1, <1>7
      <3> QED
        BY ONLY <3>3, <3>4
    <2>4. SumOf(U, f, N) <= m * P /\ SumOf(U, f, N) \in Nat
      BY <1>6, <1>7, <1>9, SumOfNat DEF Fitting
    <2>5. m * q < m * P + m
      <3>1. PICK mp \in Nat : mp = m * P
        OBVIOUS
      <3>2. PICK mq \in Nat : mq = m * q
        OBVIOUS
      <3>3. PICK sg \in Nat, sf \in Nat : sg = SumOf(U, g, N) /\ sf = SumOf(U, f, N)
        BY <2>0, SumOfChangeOne
      <3>4. sg + f[a] = sf + m /\ sf <= mp /\ sg = mq
        BY <1>10, <2>1, <2>2, <2>4, <3>1, <3>2, <3>3
      <3>5. mq < mp + m
        BY ONLY <3>4, <2>3, mp \in Nat, mq \in Nat, sg \in Nat, sf \in Nat, m \in Nat \ {0}
      <3> QED
        BY ONLY <3>1, <3>2, <3>5
    <2>6. m * q <= m * P
      BY ONLY <2>5, m \in Nat \ {0}, q \in Nat, P \in Nat \ {0}, Sandwich
    <2> QED
      BY ONLY <1>9, <1>10, <2>6
  <1>12. SumOf(U, Costs(w, e, N), N) <= c
    <2>1. PICK h, k : h = Costs(w, d, N) /\ k = Costs(w, e, N)
      OBVIOUS
    <2>2. /\ h \in [1 .. N -> Nat] /\ \A n \in 1 .. N : h[n] = w[n] * d[n]
          /\ k \in [1 .. N -> Nat] /\ \A n \in 1 .. N : k[n] = w[n] * e[n]
      <3>1. h \in [1 .. N -> Nat] /\ \A n \in 1 .. N : h[n] = w[n] * d[n]
        <4>1. d \in [1 .. N -> 0 .. max]
          BY <1>1
        <4> QED
          BY <4>1, <2>1 DEF Costs
      <3>2. k \in [1 .. N -> Nat] /\ \A n \in 1 .. N : k[n] = w[n] * e[n]
        <4>1. e \in [1 .. N -> 0 .. max]
          BY <1>4
        <4> QED
          BY <4>1, <2>1 DEF Costs
      <3> QED
        BY <3>1, <3>2
    <2>3. /\ SumOf(U, k, N) + h[a] = SumOf(U, h, N) + k[a]
          /\ SumOf(U, k, N) \in Nat /\ SumOf(U, h, N) \in Nat
      <3>1. \A n \in 1 .. N : n # a => k[n] = h[n]
        BY <1>4, <2>2
      <3>2. OneDiffers(N, U, h, k, a)
        BY <1>1, <2>2, <3>1 DEF OneDiffers
      <3> QED
        BY <3>2, SumOfChangeOne
    <2>4. k[a] = w[a] * L /\ h[a] = w[a] * d[a] /\ k[a] <= h[a] /\ k[a] \in Nat /\ h[a] \in Nat
      <3>1. k[a] = w[a] * L /\ h[a] = w[a] * d[a]
        BY <1>1, <1>4, <2>2
      <3>2. w[a] \in Nat /\ d[a] \in Nat /\ L \in Nat /\ L <= d[a]
        BY <1>1, <1>2
      <3>3. w[a] * L <= w[a] * d[a] /\ w[a] * L \in Nat /\ w[a] * d[a] \in Nat
        BY ONLY <3>2, TimesMonotone
      <3> QED
        BY ONLY <3>1, <3>3
    <2>5. SumOf(U, h, N) <= c
      BY <2>1 DEF Fitting
    <2> QED
      BY <2>1, <2>3, <2>4, <2>5
  <1>13. L >= 1
    <2> SUFFICES ASSUME L = 0 PROVE FALSE
      OBVIOUS
    <2>1. g[a] = pow2[max] /\ g[b] = pow2[max]
      <3>1. e[a] = 0 /\ e[b] = 0 /\ max - 0 = max
        BY <1>4
      <3> QED
        BY <1>1, <1>7, <3>1
    <2>2. PICK V : V = U \ {a}
      OBVIOUS
    <2>3. SumOf(U, g, N) = SumOf(V, g, N) + g[a]
      BY ONLY <1>1, <1>7, <2>2, N \in Nat, a \in U, SumOfRemove
    <2>4. PICK W : W = V \ {b}
      OBVIOUS
    <2>5. SumOf(V, g, N) = SumOf(W, g, N) + g[b]
      <3>1. b \in V
        BY <2>2
      <3> QED
        BY ONLY <1>1, <1>7, <2>4, <3>1, N \in Nat, SumOfRemove
    <2>6. SumOf(W, g, N) \in Nat
      BY ONLY <1>7, N \in Nat, SumOfNat
    <2>7. SumOf(U, g, N) <= pow2[max] /\ pow2[max] \in Nat \ {0}
      BY <1>11, Pow2Positive
    <2> QED
      BY ONLY <2>1, <2>3, <2>5, <2>6, <2>7
  <1>14. Fitting(U, w, e, max, N, c)
    BY <1>4, <1>6, <1>11, <1>12 DEF Fitting
  <1> QED
    BY <1>4, <1>13, <1>14

WellHung(N, max, w, d) ==
    N \in Nat /\ max \in Nat /\ d \in [1 .. N -> 0 .. max] /\ w \in [1 .. N -> Nat]

LEMMA SizesAre ==
  ASSUME NEW N, NEW max, NEW w, NEW d, WellHung(N, max, w, d)
  PROVE  /\ Sizes(d, max, N) \in [1 .. N -> Nat]
         /\ \A n \in 1 .. N : Sizes(d, max, N)[n] = pow2[max - d[n]]
  <1> USE DEF WellHung
  <1> QED
    BY SizesFacts

LEMMA CostsAre ==
  ASSUME NEW N, NEW max, NEW w, NEW d, WellHung(N, max, w, d)
  PROVE  /\ Costs(w, d, N) \in [1 .. N -> Nat]
         /\ \A n \in 1 .. N : Costs(w, d, N)[n] = w[n] * d[n]
  <1> USE DEF WellHung
  <1> QED
    BY CostsFacts

\* b is the sibling of a in the tree e, and m is to be their parent.
Siblings(N, max, U, w, e, c, a, b, m) ==
    /\ N \in Nat /\ max \in Nat /\ c \in Nat /\ U \subseteq 1 .. N /\ w \in [1 .. N -> Nat]
    /\ Fitting(U, w, e, max, N, c)
    /\ a \in U /\ b \in U /\ a # b /\ e[a] = e[b] /\ e[b] >= 1
    /\ m \in 1 .. N /\ m \notin U /\ w[m] = w[a] + w[b]

\* Two siblings may be taken for a single leaf of their weights, one level up.
LEMMA Joined ==
  ASSUME NEW N, NEW max, NEW U, NEW w, NEW e, NEW c, NEW a, NEW b, NEW m,
         Siblings(N, max, U, w, e, c, a, b, m),
         NEW V, V = (U \ {a, b}) \cup {m}
  PROVE  \E d : \E z \in Nat : Fitting(V, w, d, max, N, z) /\ z + w[m] <= c
  <1>1. /\ N \in Nat /\ max \in Nat /\ c \in Nat /\ w \in [1 .. N -> Nat]
        /\ e \in [1 .. N -> 0 .. max]
        /\ a \in 1 .. N /\ b \in 1 .. N /\ m \in 1 .. N /\ a # b /\ a # m /\ b # m
        /\ a \in U /\ b \in U /\ m \notin U
        /\ w[m] = w[a] + w[b] /\ e[a] = e[b] /\ e[b] >= 1
    BY DEF Siblings, Fitting
  <1>2. PICK L \in 0 .. max : L = e[a] /\ e[b] = L /\ L >= 1
    BY <1>1
  <1>3. PICK d : d = [e EXCEPT ![m] = L - 1]
    OBVIOUS
  <1>4. L - 1 \in 0 .. max
    BY <1>1, <1>2
  <1>5. d \in [1 .. N -> 0 .. max] /\ d[m] = L - 1 /\ \A n \in 1 .. N : n # m => d[n] = e[n]
    BY <1>1, <1>3, <1>4
  <1>6. PICK W : W = U \ {a}
    OBVIOUS
  <1>7. PICK R : R = W \ {b}
    OBVIOUS
  <1>8. /\ a \notin W /\ U = W \cup {a} /\ b \notin R /\ W = R \cup {b}
        /\ m \notin R /\ V = R \cup {m}
    BY <1>1, <1>6, <1>7
  <1>0. WellHung(N, max, w, e) /\ WellHung(N, max, w, d)
    BY ONLY <1>1, <1>5 DEF WellHung
  <1>9. SumOf(V, Sizes(d, max, N), N) <= pow2[max]
    <2>1. PICK f : f = Sizes(e, max, N)
      OBVIOUS
    <2>2. PICK g : g = Sizes(d, max, N)
      OBVIOUS
    <2>3. f \in [1 .. N -> Nat] /\ \A n \in 1 .. N : f[n] = pow2[max - e[n]]
      BY ONLY <1>0, <2>1, SizesAre
    <2>4. g \in [1 .. N -> Nat] /\ \A n \in 1 .. N : g[n] = pow2[max - d[n]]
      BY ONLY <1>0, <2>2, SizesAre
    <2>5. SumOf(U, f, N) = SumOf(W, f, N) + f[a] /\ f[a] \in Nat
      <3>1. OneMore(N, W, f, a, U)
        BY ONLY <1>1, <1>8, <2>3 DEF OneMore
      <3> QED
        BY ONLY <3>1, SumOfAdd
    <2>6. SumOf(W, f, N) = SumOf(R, f, N) + f[b] /\ f[b] \in Nat /\ SumOf(R, f, N) \in Nat
      <3>1. OneMore(N, R, f, b, W)
        BY ONLY <1>1, <1>8, <2>3 DEF OneMore
      <3> QED
        BY ONLY <3>1, SumOfAdd
    <2>7. SumOf(V, g, N) = SumOf(R, g, N) + g[m]
      <3>1. OneMore(N, R, g, m, V)
        BY ONLY <1>1, <1>8, <2>4 DEF OneMore
      <3> QED
        BY ONLY <3>1, SumOfAdd
    <2>8. SumOf(R, g, N) = SumOf(R, f, N)
      <3>1. \A n \in 1 .. N : n \in R => g[n] = f[n]
        BY <1>5, <1>8, <2>3, <2>4
      <3> QED
        BY ONLY <1>1, <2>3, <2>4, <3>1, SumOfSame
    <2>9. g[m] = 2 * f[a] /\ f[b] = f[a]
      <3>1. PICK k \in Nat : k = max - L /\ max - (L - 1) = k + 1
        <4>1. max - L \in Nat /\ max - (L - 1) = (max - L) + 1
          BY ONLY <1>1, L \in 0 .. max
        <4> QED
          BY <4>1
      <3>2. pow2[k + 1] = 2 * pow2[k]
        BY Pow2Def
      <3>3. g[m] = pow2[k + 1]
        BY <1>1, <1>5, <2>4, <3>1
      <3>4. f[a] = pow2[k] /\ f[b] = pow2[k]
        BY <1>1, <1>2, <2>3, <3>1
      <3> QED
        BY ONLY <3>2, <3>3, <3>4
    <2>10. SumOf(U, f, N) <= pow2[max]
      BY <2>1 DEF Siblings, Fitting
    <2>11. SumOf(V, g, N) = SumOf(U, f, N)
      BY ONLY <2>5, <2>6, <2>7, <2>8, <2>9
    <2> QED
      BY <2>2, <2>10, <2>11
  <1>10. PICK z : z = SumOf(V, Costs(w, d, N), N)
    OBVIOUS
  <1>11. z \in Nat /\ z + w[m] <= c
    <2>1. PICK f : f = Costs(w, e, N)
      OBVIOUS
    <2>2. PICK g : g = Costs(w, d, N)
      OBVIOUS
    <2>3. f \in [1 .. N -> Nat] /\ \A n \in 1 .. N : f[n] = w[n] * e[n]
      BY ONLY <1>0, <2>1, CostsAre
    <2>4. g \in [1 .. N -> Nat] /\ \A n \in 1 .. N : g[n] = w[n] * d[n]
      BY ONLY <1>0, <2>2, CostsAre
    <2>5. SumOf(U, f, N) = SumOf(W, f, N) + f[a] /\ f[a] \in Nat
      <3>1. OneMore(N, W, f, a, U)
        BY ONLY <1>1, <1>8, <2>3 DEF OneMore
      <3> QED
        BY ONLY <3>1, SumOfAdd
    <2>6. SumOf(W, f, N) = SumOf(R, f, N) + f[b] /\ f[b] \in Nat /\ SumOf(R, f, N) \in Nat
      <3>1. OneMore(N, R, f, b, W)
        BY ONLY <1>1, <1>8, <2>3 DEF OneMore
      <3> QED
        BY ONLY <3>1, SumOfAdd
    <2>7. SumOf(V, g, N) = SumOf(R, g, N) + g[m] /\ g[m] \in Nat
      <3>1. OneMore(N, R, g, m, V)
        BY ONLY <1>1, <1>8, <2>4 DEF OneMore
      <3> QED
        BY ONLY <3>1, SumOfAdd
    <2>8. SumOf(R, g, N) = SumOf(R, f, N)
      <3>1. \A n \in 1 .. N : n \in R => g[n] = f[n]
        BY <1>5, <1>8, <2>3, <2>4
      <3> QED
        BY ONLY <1>1, <2>3, <2>4, <3>1, SumOfSame
    <2>9. g[m] + w[m] = f[a] + f[b]
      <3>1. PICK x \in Nat : x = w[a]
        BY <1>1
      <3>2. PICK y \in Nat : y = w[b]
        BY <1>1
      <3>3. w[m] = x + y /\ f[a] = x * L /\ f[b] = y * L /\ g[m] = (x + y) * (L - 1)
        BY <1>1, <1>2, <1>5, <2>3, <2>4, <3>1, <3>2
      <3>4. (x + y) * (L - 1) + (x + y) = x * L + y * L
        BY ONLY x \in Nat, y \in Nat, L \in 0 .. max
      <3> QED
        BY ONLY <3>3, <3>4
    <2>10. SumOf(U, f, N) <= c
      BY <2>1 DEF Siblings, Fitting
    <2>11. w[m] \in Nat /\ z = SumOf(V, g, N)
      BY <1>1, <1>10, <2>2
    <2>12. PICK s \in Nat : s = SumOf(R, f, N)
      BY <2>6
    <2>13. z = s + g[m] /\ s + f[b] + f[a] <= c
      BY ONLY <2>5, <2>6, <2>7, <2>8, <2>10, <2>11, <2>12, s \in Nat
    <2>14. c \in Nat
      BY <1>1
    <2> QED
      BY ONLY <2>5, <2>6, <2>7, <2>9, <2>11, <2>13, <2>14, s \in Nat
  <1>12. z <= z
    BY <1>11
  <1>13. Fitting(V, w, d, max, N, z)
    BY ONLY <1>5, <1>9, <1>10, <1>12 DEF Fitting
  <1> QED
    BY <1>11, <1>13

\* m is the parent of the two lightest trees.
Merged(N, max, U, w, a, b, m) ==
    Lightest(N, max, U, w, a, b) /\ m \in 1 .. N /\ m \notin U /\ w[m] = w[a] + w[b]

LEMMA LightestJoined ==
  ASSUME NEW N, NEW max, NEW U, NEW w, NEW a, NEW b, NEW m, Merged(N, max, U, w, a, b, m),
         NEW V, V = (U \ {a, b}) \cup {m}, NEW d, NEW c \in Nat, Fitting(U, w, d, max, N, c)
  PROVE  \E e : \E z \in Nat : Fitting(V, w, e, max, N, z) /\ z + w[m] <= c
  <1>1. Lightest(N, max, U, w, a, b) /\ m \in 1 .. N /\ m \notin U /\ w[m] = w[a] + w[b]
    BY DEF Merged
  <1>2. PICK d1 : Fitting(U, w, d1, max, N, c) /\ Deepest(U, d1, a, b)
    BY <1>1, TwoDeepest
  <1>3. PICK d2 : Fitting(U, w, d2, max, N, c) /\ d2[a] = d2[b] /\ d2[b] >= 1
    BY <1>1, <1>2, TwoSiblings
  <1>4. Siblings(N, max, U, w, d2, c, a, b, m)
    BY <1>1, <1>3 DEF Siblings, Lightest
  <1> QED
    BY ONLY <1>4, V = (U \ {a, b}) \cup {m}, Joined

\* The nodes after the first count are mergers, each of the two lightest of
\* the nodes that no earlier merger has taken.
Unmerged(count, l, r, n, k) == \A q \in count + 1 .. k : n # l[q] /\ n # r[q]

Mergers(N, count, w, l, r) ==
    /\ N \in Nat /\ count \in 0 .. N /\ w \in [1 .. N -> Nat]
    /\ \A p \in count + 1 .. N :
          /\ l[p] \in 1 .. p - 1 /\ r[p] \in 1 .. p - 1 /\ l[p] # r[p]
          /\ w[p] = w[l[p]] + w[r[p]] /\ w[l[p]] <= w[r[p]]
          /\ Unmerged(count, l, r, l[p], p - 1) /\ Unmerged(count, l, r, r[p], p - 1)
          /\ \A n \in 1 .. p - 1 :
                n # l[p] /\ n # r[p] /\ Unmerged(count, l, r, n, p - 1) => w[r[p]] <= w[n]

Left(count, l, r, k) == {n \in 1 .. k : Unmerged(count, l, r, n, k)}

LEMMA LeftFacts ==
  ASSUME NEW N, NEW count, NEW w, NEW l, NEW r, Mergers(N, count, w, l, r),
         NEW max \in Nat, NEW k \in Nat, count <= k, k + 1 <= N,
         NEW U, U = Left(count, l, r, k), NEW V, V = Left(count, l, r, k + 1)
  PROVE  /\ k + 1 \in count + 1 .. N
         /\ Merged(N, max, U, w, l[k + 1], r[k + 1], k + 1)
         /\ V = (U \ {l[k + 1], r[k + 1]}) \cup {k + 1}
  <1>1. /\ N \in Nat /\ count \in Nat /\ w \in [1 .. N -> Nat]
        /\ k + 1 \in count + 1 .. N /\ k + 1 \in 1 .. N /\ (k + 1) - 1 = k
        /\ \A n \in 1 .. k : n \in 1 .. N
    BY DEF Mergers
  <1>2. PICK a, b, m : a = l[k + 1] /\ b = r[k + 1] /\ m = k + 1
    OBVIOUS
  <1>3. /\ a \in 1 .. k /\ b \in 1 .. k /\ a # b
        /\ w[m] = w[a] + w[b] /\ w[a] <= w[b]
        /\ Unmerged(count, l, r, a, k) /\ Unmerged(count, l, r, b, k)
        /\ \A n \in 1 .. k : n # a /\ n # b /\ Unmerged(count, l, r, n, k) => w[b] <= w[n]
    BY <1>1, <1>2 DEF Mergers
  <1>4. /\ U \subseteq 1 .. N /\ a \in U /\ b \in U /\ m \notin U
        /\ \A n \in U : n # a /\ n # b => w[b] <= w[n]
    <2>1. U = {n \in 1 .. k : Unmerged(count, l, r, n, k)}
      BY DEF Left
    <2>2. m \notin 1 .. k
      BY <1>2
    <2> QED
      BY ONLY <1>1, <1>3, <2>1, <2>2
  <1>5. Merged(N, max, U, w, a, b, m)
    BY <1>1, <1>2, <1>3, <1>4 DEF Merged, Lightest
  <1>6. ASSUME NEW n
        PROVE  Unmerged(count, l, r, n, k + 1) <=> Unmerged(count, l, r, n, k) /\ n # a /\ n # b
    <2>1. \A q : q \in count + 1 .. k + 1 <=> q \in count + 1 .. k \/ q = k + 1
      BY <1>1
    <2> QED
      BY ONLY <1>2, <2>1 DEF Unmerged
  <1>7. Unmerged(count, l, r, m, k + 1)
    <2> SUFFICES ASSUME NEW q \in count + 1 .. k + 1 PROVE m # l[q] /\ m # r[q]
      BY DEF Unmerged
    <2>1. q \in count + 1 .. N /\ q \in Int /\ q - 1 < k + 1
      BY <1>1
    <2>2. l[q] \in 1 .. q - 1 /\ r[q] \in 1 .. q - 1
      BY <2>1 DEF Mergers
    <2> QED
      BY <1>2, <2>1, <2>2
  <1>8. V = (U \ {a, b}) \cup {m}
    <2>1. V = {n \in 1 .. k + 1 : Unmerged(count, l, r, n, k + 1)}
          /\ U = {n \in 1 .. k : Unmerged(count, l, r, n, k)}
      BY DEF Left
    <2>2. \A n : n \in 1 .. k + 1 <=> n \in 1 .. k \/ n = m
      BY <1>2
    <2>3. m \notin U /\ m # a /\ m # b
      BY <1>4
    <2>4. \A n : n \in V <=> (n \in U /\ n # a /\ n # b) \/ n = m
      BY ONLY <1>6, <1>7, <2>1, <2>2, <2>3
    <2> QED
      BY ONLY <2>3, <2>4
  <1> QED
    BY <1>1, <1>2, <1>5, <1>8

LEMMA SpentMore ==
  ASSUME NEW N, NEW count, NEW w, NEW l, NEW r, Mergers(N, count, w, l, r),
         NEW k \in Nat, count <= k, k + 1 <= N
  PROVE  /\ SumOf(count + 1 .. k + 1, w, N) = SumOf(count + 1 .. k, w, N) + w[k + 1]
         /\ SumOf(count + 1 .. k, w, N) \in Nat /\ w[k + 1] \in Nat
  <1>1. N \in Nat /\ count \in Nat /\ w \in [1 .. N -> Nat]
    BY DEF Mergers
  <1>2. PICK R, V, m : R = count + 1 .. k /\ V = count + 1 .. k + 1 /\ m = k + 1
    OBVIOUS
  <1>3. m \in 1 .. N /\ m \notin R /\ V = R \cup {m}
    BY <1>1, <1>2
  <1>4. OneMore(N, R, w, m, V)
    BY <1>1, <1>3 DEF OneMore
  <1> QED
    BY <1>2, <1>4, SumOfAdd

LEMMA SpentNone ==
  ASSUME NEW N, NEW count, NEW w, NEW l, NEW r, Mergers(N, count, w, l, r)
  PROVE  SumOf(count + 1 .. count, w, N) = 0
  <1>1. N \in Nat /\ count \in Nat /\ w \in [1 .. N -> Nat]
    BY DEF Mergers
  <1>2. \A n \in 1 .. N : n \notin count + 1 .. count
    BY <1>1
  <1> QED
    BY ONLY <1>1, <1>2, SumOfEmpty

\* No way to hang the leaves costs less than the mergers weigh.
LEMMA LeastCost ==
  ASSUME NEW N, NEW count, NEW w, NEW l, NEW r, Mergers(N, count, w, l, r),
         NEW max \in Nat, NEW d, NEW c \in Nat, Fitting(1 .. count, w, d, max, N, c)
  PROVE  SumOf(count + 1 .. N, w, N) <= c
  <1> DEFINE Reached(k) == \E e : \E z \in Nat :
                 /\ Fitting(Left(count, l, r, k), w, e, max, N, z)
                 /\ z + SumOf(count + 1 .. k, w, N) <= c
             T == {k \in Nat : count + k <= N => Reached(count + k)}
  <1>1. N \in Nat /\ count \in 0 .. N /\ count \in Nat
    BY DEF Mergers
  <1>2. 0 \in T
    <2>1. Left(count, l, r, count) = 1 .. count
      <3>1. \A q : q \notin count + 1 .. count
        BY <1>1
      <3> QED
        BY <3>1 DEF Left, Unmerged
    <2>2. count + 0 = count
      BY <1>1
    <2>3. c + SumOf(count + 1 .. count, w, N) <= c
      BY SpentNone
    <2>4. Reached(count)
      BY <2>1, <2>3
    <2> HIDE DEF Reached
    <2> QED
      BY <2>2, <2>4
  <1>3. ASSUME NEW j \in T PROVE j + 1 \in T
    <2> SUFFICES ASSUME count + (j + 1) <= N PROVE Reached(count + (j + 1))
      OBVIOUS
    <2>1. PICK k \in Nat : k = count + j /\ count + (j + 1) = k + 1 /\ count <= k /\ k + 1 <= N
      BY <1>1
    <2>2. Reached(k)
      BY <1>1, <2>1
    <2>3. PICK U, V : U = Left(count, l, r, k) /\ V = Left(count, l, r, k + 1)
      OBVIOUS
    <2>4. PICK z \in Nat, e \in {x : x \in [1 .. N -> 0 .. max]} :
             Fitting(U, w, e, max, N, z) /\ z + SumOf(count + 1 .. k, w, N) <= c
      BY <2>2, <2>3 DEF Fitting
    <2> HIDE DEF T, Reached
    <2>5. PICK a, b, m : a = l[k + 1] /\ b = r[k + 1] /\ m = k + 1
      OBVIOUS
    <2>6. Merged(N, max, U, w, a, b, m) /\ V = (U \ {a, b}) \cup {m}
      <3>1. k \in Nat /\ count <= k /\ k + 1 <= N /\ max \in Nat
        BY <2>1
      <3>2. /\ Merged(N, max, U, w, l[k + 1], r[k + 1], k + 1)
            /\ V = (U \ {l[k + 1], r[k + 1]}) \cup {k + 1}
        BY ONLY <2>3, <3>1, Mergers(N, count, w, l, r), LeftFacts
      <3> QED
        BY ONLY <2>5, <3>2
    <2>7. \E f : \E y \in Nat : Fitting(V, w, f, max, N, y) /\ y + w[m] <= z
      BY ONLY <2>4, <2>6, LightestJoined
    <2>8. PICK y \in Nat : (\E f : Fitting(V, w, f, max, N, y)) /\ y + w[m] <= z
      BY ONLY <2>7
    <2>9. /\ SumOf(count + 1 .. k + 1, w, N) = SumOf(count + 1 .. k, w, N) + w[k + 1]
          /\ SumOf(count + 1 .. k, w, N) \in Nat /\ w[k + 1] \in Nat
      BY <2>1, SpentMore
    <2>10. y + SumOf(count + 1 .. k + 1, w, N) <= c
      BY ONLY <2>4, <2>5, <2>8, <2>9, y \in Nat, z \in Nat, c \in Nat
    <2>11. Reached(k + 1)
      BY ONLY <2>3, <2>8, <2>10, y \in Nat DEF Reached
    <2> QED
      BY <2>1, <2>11
  <1>4. T = Nat
    <2> HIDE DEF T
    <2>1. T \subseteq Nat
      BY DEF T
    <2> QED
      BY <1>2, <1>3, <2>1, NatInductionSet
  <1>5. Reached(N)
    <2>1. N - count \in T /\ count + (N - count) = N
      <3>1. N - count \in Nat /\ count + (N - count) = N
        BY <1>1
      <3> HIDE DEF T
      <3> QED
        BY <1>4, <3>1
    <2> HIDE DEF Reached
    <2> QED
      BY <1>1, <2>1
  <1>6. PICK z \in Nat : z + SumOf(count + 1 .. N, w, N) <= c
    BY <1>5
  <1>7. SumOf(count + 1 .. N, w, N) \in Nat
    <2>1. w \in [1 .. N -> Nat]
      BY DEF Mergers
    <2> QED
      BY ONLY <1>1, <2>1, SumOfNat
  <1> QED
    BY ONLY <1>6, <1>7, z \in Nat, c \in Nat

\* Each node a merger takes is one level below it, and the last node is the root.
Hung(count, l, r, dep, N, max) ==
    /\ dep \in [1 .. N -> 0 .. max] /\ dep[N] = 0
    /\ \A p \in count + 1 .. N : dep[l[p]] = dep[p] + 1 /\ dep[r[p]] = dep[p] + 1

\* One merger takes its weight from the cost.
LEMMA CostStep ==
  ASSUME NEW N, NEW count, NEW w, NEW l, NEW r, Mergers(N, count, w, l, r),
         NEW max \in Nat, NEW dep, Hung(count, l, r, dep, N, max),
         NEW h, h = Costs(w, dep, N), NEW k \in Nat, count <= k, k + 1 <= N
  PROVE  /\ SumOf(Left(count, l, r, k), h, N)
                = SumOf(Left(count, l, r, k + 1), h, N) + w[k + 1]
         /\ SumOf(Left(count, l, r, k + 1), h, N) \in Nat
  <1>1. N \in Nat /\ w \in [1 .. N -> Nat] /\ dep \in [1 .. N -> 0 .. max]
    BY DEF Mergers, Hung
  <1>2. PICK U, V : U = Left(count, l, r, k) /\ V = Left(count, l, r, k + 1)
    OBVIOUS
  <1>3. PICK a, b, m : a = l[k + 1] /\ b = r[k + 1] /\ m = k + 1
    OBVIOUS
  <1>4. m \in count + 1 .. N /\ Merged(N, max, U, w, a, b, m) /\ V = (U \ {a, b}) \cup {m}
    <2>1. k \in Nat /\ count <= k /\ k + 1 <= N /\ max \in Nat
      OBVIOUS
    <2>2. /\ k + 1 \in count + 1 .. N
          /\ Merged(N, max, U, w, l[k + 1], r[k + 1], k + 1)
          /\ V = (U \ {l[k + 1], r[k + 1]}) \cup {k + 1}
      BY ONLY <1>2, <2>1, Mergers(N, count, w, l, r), LeftFacts
    <2> QED
      BY ONLY <1>3, <2>2
  <1>5. /\ a \in U /\ b \in U /\ a # b /\ m \notin U /\ U \subseteq 1 .. N
        /\ a \in 1 .. N /\ b \in 1 .. N /\ m \in 1 .. N /\ w[m] = w[a] + w[b]
    BY <1>4 DEF Merged, Lightest
  <1>6. WellHung(N, max, w, dep)
    BY <1>1 DEF WellHung
  <1>7. h \in [1 .. N -> Nat] /\ \A n \in 1 .. N : h[n] = w[n] * dep[n]
    BY ONLY <1>6, h = Costs(w, dep, N), CostsAre
  <1>8. PICK W : W = U \ {a}
    OBVIOUS
  <1>9. PICK R : R = W \ {b}
    OBVIOUS
  <1>10. OneMore(N, W, h, a, U) /\ OneMore(N, R, h, b, W) /\ OneMore(N, R, h, m, V)
    <2>1. a \notin W /\ U = W \cup {a} /\ b \notin R /\ W = R \cup {b} /\ m \notin R
          /\ V = R \cup {m}
      BY <1>4, <1>5, <1>8, <1>9
    <2> QED
      BY ONLY <1>1, <1>5, <1>7, <2>1 DEF OneMore
  <1>11. SumOf(U, h, N) = SumOf(W, h, N) + h[a] /\ h[a] \in Nat
    BY ONLY <1>10, SumOfAdd
  <1>12. SumOf(W, h, N) = SumOf(R, h, N) + h[b] /\ SumOf(R, h, N) \in Nat /\ h[b] \in Nat
    BY ONLY <1>10, SumOfAdd
  <1>13. SumOf(V, h, N) = SumOf(R, h, N) + h[m] /\ h[m] \in Nat
    BY ONLY <1>10, SumOfAdd
  <1>14. h[a] + h[b] = h[m] + w[m]
    <2>1. dep[a] = dep[m] + 1 /\ dep[b] = dep[m] + 1
      BY <1>3, <1>4 DEF Hung
    <2>2. PICK x \in Nat : x = w[a]
      BY <1>1, <1>5
    <2>3. PICK y \in Nat : y = w[b]
      BY <1>1, <1>5
    <2>4. PICK e \in Nat : e = dep[m]
      BY <1>1, <1>5
    <2>5. h[a] = x * (e + 1) /\ h[b] = y * (e + 1) /\ h[m] = (x + y) * e /\ w[m] = x + y
      BY ONLY <1>5, <1>7, <2>1, <2>2, <2>3, <2>4
    <2>6. x * (e + 1) + y * (e + 1) = (x + y) * e + (x + y)
      BY ONLY x \in Nat, y \in Nat, e \in Nat
    <2> QED
      BY ONLY <2>5, <2>6
  <1>15. w[m] \in Nat
    BY <1>1, <1>5
  <1>16. SumOf(U, h, N) = SumOf(V, h, N) + w[m] /\ SumOf(V, h, N) \in Nat
    BY ONLY <1>11, <1>12, <1>13, <1>14, <1>15
  <1> QED
    BY <1>2, <1>3, <1>16

\* The tree of the mergers costs what they weigh.
LEMMA OwnCost ==
  ASSUME NEW N, NEW count, NEW w, NEW l, NEW r, Mergers(N, count, w, l, r), N >= 1,
         NEW max \in Nat, NEW dep, Hung(count, l, r, dep, N, max),
         Left(count, l, r, N) = {N}
  PROVE  SumOf(1 .. count, Costs(w, dep, N), N) = SumOf(count + 1 .. N, w, N)
  <1>1. N \in Nat /\ count \in 0 .. N /\ count \in Nat /\ w \in [1 .. N -> Nat]
        /\ dep \in [1 .. N -> 0 .. max] /\ dep[N] = 0 /\ N \in 1 .. N
    BY DEF Mergers, Hung
  <1>2. PICK h : h = Costs(w, dep, N)
    OBVIOUS
  <1>3. h \in [1 .. N -> Nat] /\ \A n \in 1 .. N : h[n] = w[n] * dep[n]
    <2>1. WellHung(N, max, w, dep)
      BY <1>1 DEF WellHung
    <2> QED
      BY ONLY <1>2, <2>1, CostsAre
  <1> DEFINE Kept(k) == SumOf(1 .. count, h, N)
                            = SumOf(Left(count, l, r, k), h, N) + SumOf(count + 1 .. k, w, N)
             T == {j \in Nat : count + j <= N => Kept(count + j)}
  <1>4. 0 \in T
    <2>1. Left(count, l, r, count) = 1 .. count
      <3>1. \A q : q \notin count + 1 .. count
        BY <1>1
      <3> QED
        BY <3>1 DEF Left, Unmerged
    <2>2. count + 0 = count
      BY <1>1
    <2>3. SumOf(count + 1 .. count, w, N) = 0
      BY SpentNone
    <2>4. SumOf(1 .. count, h, N) \in Nat
      BY ONLY <1>1, <1>3, SumOfNat
    <2>5. Kept(count)
      BY ONLY <2>1, <2>3, <2>4
    <2> HIDE DEF Kept
    <2> QED
      BY <2>2, <2>5
  <1>5. ASSUME NEW j \in T PROVE j + 1 \in T
    <2> SUFFICES ASSUME count + (j + 1) <= N PROVE Kept(count + (j + 1))
      OBVIOUS
    <2>1. PICK k \in Nat : k = count + j /\ count + (j + 1) = k + 1 /\ count <= k /\ k + 1 <= N
      BY <1>1
    <2>2. Kept(k)
      BY <1>1, <2>1
    <2>3. /\ SumOf(Left(count, l, r, k), h, N)
                = SumOf(Left(count, l, r, k + 1), h, N) + w[k + 1]
          /\ SumOf(Left(count, l, r, k + 1), h, N) \in Nat
      <3>1. k \in Nat /\ count <= k /\ k + 1 <= N
        BY <2>1
      <3> QED
        BY ONLY <1>2, <3>1, Mergers(N, count, w, l, r), Hung(count, l, r, dep, N, max),
                max \in Nat, CostStep
    <2>4. /\ SumOf(count + 1 .. k + 1, w, N) = SumOf(count + 1 .. k, w, N) + w[k + 1]
          /\ SumOf(count + 1 .. k, w, N) \in Nat /\ w[k + 1] \in Nat
      BY <2>1, SpentMore
    <2>5. Kept(k + 1)
      BY ONLY <2>2, <2>3, <2>4
    <2> HIDE DEF Kept
    <2> QED
      BY <2>1, <2>5
  <1>6. T = Nat
    <2> HIDE DEF T
    <2>1. T \subseteq Nat
      BY DEF T
    <2> QED
      BY <1>4, <1>5, <2>1, NatInductionSet
  <1>7. Kept(N)
    <2>1. N - count \in T /\ count + (N - count) = N
      <3>1. N - count \in Nat /\ count + (N - count) = N
        BY <1>1
      <3> HIDE DEF T
      <3> QED
        BY <1>6, <3>1
    <2> HIDE DEF Kept
    <2> QED
      BY <1>1, <2>1
  <1>8. SumOf({N}, h, N) = 0
    <2>1. PICK E, S : E = {} /\ S = {N}
      OBVIOUS
    <2>2. OneMore(N, E, h, N, S)
      BY <1>1, <1>3, <2>1 DEF OneMore
    <2>3. SumOf(S, h, N) = SumOf(E, h, N) + h[N]
      BY ONLY <2>2, SumOfAdd
    <2>4. SumOf(E, h, N) = 0
      <3>1. \A n \in 1 .. N : n \notin E
        BY <2>1
      <3> QED
        BY ONLY <1>1, <1>3, <3>1, SumOfEmpty
    <2>5. h[N] = 0
      <3>1. w[N] \in Nat /\ h[N] = w[N] * 0
        BY <1>1, <1>3
      <3> QED
        BY ONLY <3>1
    <2> QED
      BY <2>1, <2>3, <2>4, <2>5
  <1>9. SumOf(count + 1 .. N, w, N) \in Nat
    BY ONLY <1>1, SumOfNat
  <1>10. SumOf(1 .. count, h, N) = SumOf({N}, h, N) + SumOf(count + 1 .. N, w, N)
    BY <1>7
  <1> QED
    BY ONLY <1>2, <1>8, <1>9, <1>10

\* No way to hang the leaves costs less than the tree of the mergers.
LEMMA MergersOptimal ==
  ASSUME NEW N, NEW count, NEW w, NEW l, NEW r, Mergers(N, count, w, l, r), N >= 1,
         NEW max \in Nat, NEW dep, Hung(count, l, r, dep, N, max),
         Left(count, l, r, N) = {N},
         NEW d, NEW c \in Nat, Fitting(1 .. count, w, d, max, N, c)
  PROVE  SumOf(1 .. count, Costs(w, dep, N), N) <= c
  BY OwnCost, LeastCost

----------------------------------------------------------------------------
(* The tree of build_code_lengths is the cheapest.                         *)

\* A leaf weighs what its symbol does, and a merger what its children do.
Weighs(ns, fr) ==
    \A n \in DOMAIN ns : ns[n].frequency =
        IF ns[n].symbol = Inner THEN ns[ns[n].left].frequency + ns[ns[n].right].frequency
        ELSE fr[ns[n].symbol]

\* Each merger took the two lightest of the nodes that were roots before it.
Thrifty(ns) ==
    \A p \in DOMAIN ns : ns[p].symbol = Inner =>
        /\ ns[ns[p].left].frequency <= ns[ns[p].right].frequency
        /\ \A n \in 1 .. p - 1 : Free(ns, n, p - 1) /\ n \notin {ns[p].left, ns[p].right}
               => ns[ns[p].right].frequency <= ns[n].frequency

\* x may be the next node.
Suits(ns, fr, x) ==
    /\ x.symbol # Inner => x.frequency = fr[x.symbol]
    /\ x.symbol = Inner =>
          /\ x.left \in DOMAIN ns /\ x.right \in DOMAIN ns
          /\ x.frequency = ns[x.left].frequency + ns[x.right].frequency
          /\ ns[x.left].frequency <= ns[x.right].frequency
          /\ \A n \in DOMAIN ns : Free(ns, n, Len(ns)) /\ n \notin {x.left, x.right}
                => ns[x.right].frequency <= ns[n].frequency

LEMMA ThriftGrows ==
  ASSUME NEW ns, NEW fr, NEW s, Grove(ns, fr, s), Weighs(ns, fr), Thrifty(ns),
         NEW x, Suits(ns, fr, x), NEW new, Extends(ns, new, x)
  PROVE  Weighs(new, fr) /\ Thrifty(new)
  <1>1. PICK L \in Nat : L = Len(ns) /\ DOMAIN ns = 1 .. L /\ DOMAIN new = 1 .. L + 1
    BY DEF Extends
  <1>2. new[L + 1] = x /\ \A n \in 1 .. L : new[n] = ns[n]
    BY <1>1 DEF Extends
  <1>3. ASSUME NEW n \in 1 .. L, ns[n].symbol = Inner
        PROVE  /\ ns[n].left \in 1 .. L /\ ns[n].right \in 1 .. L
               /\ new[new[n].left] = ns[ns[n].left] /\ new[new[n].right] = ns[ns[n].right]
    <2>1. ns[n].left \in 1 .. n - 1 /\ ns[n].right \in 1 .. n - 1
      BY <1>1, <1>3 DEF Grove
    <2>2. ns[n].left \in 1 .. L /\ ns[n].right \in 1 .. L
      BY ONLY <2>1, L \in Nat, n \in 1 .. L
    <2> QED
      BY <1>2, <2>2
  <1>4. ASSUME x.symbol = Inner
        PROVE  /\ x.left \in 1 .. L /\ x.right \in 1 .. L
               /\ new[x.left] = ns[x.left] /\ new[x.right] = ns[x.right]
    BY <1>1, <1>2, <1>4 DEF Suits
  <1>5. \A n \in 1 .. L + 1 : n \in 1 .. L \/ n = L + 1
    OBVIOUS
  <1>6. Weighs(new, fr)
    <2> SUFFICES ASSUME NEW n \in 1 .. L + 1
                 PROVE  new[n].frequency =
                            IF new[n].symbol = Inner
                            THEN new[new[n].left].frequency + new[new[n].right].frequency
                            ELSE fr[new[n].symbol]
      BY <1>1 DEF Weighs
    <2>1. CASE n \in 1 .. L
      <3>1. ns[n].frequency =
                IF ns[n].symbol = Inner THEN ns[ns[n].left].frequency + ns[ns[n].right].frequency
                ELSE fr[ns[n].symbol]
        BY <1>1, <2>1 DEF Weighs
      <3> QED
        BY <1>2, <1>3, <2>1, <3>1
    <2>2. CASE n = L + 1
      BY <1>2, <1>4, <2>2 DEF Suits
    <2> QED
      BY <1>5, <2>1, <2>2
  <1>7. \A n, k \in 0 .. L : Free(new, n, k) <=> Free(ns, n, k)
    <2> SUFFICES ASSUME NEW n, NEW k \in 0 .. L PROVE Free(new, n, k) <=> Free(ns, n, k)
      OBVIOUS
    <2>1. \A p \in 1 .. k : new[p] = ns[p]
      BY <1>2
    <2> QED
      BY ONLY <2>1 DEF Free, Below
  <1>8. Thrifty(new)
    <2> SUFFICES ASSUME NEW p \in 1 .. L + 1, new[p].symbol = Inner
                 PROVE  /\ new[new[p].left].frequency <= new[new[p].right].frequency
                        /\ \A n \in 1 .. p - 1 :
                              Free(new, n, p - 1) /\ n \notin {new[p].left, new[p].right}
                                 => new[new[p].right].frequency <= new[n].frequency
      BY <1>1 DEF Thrifty
    <2>1. CASE p \in 1 .. L
      <3>1. /\ ns[ns[p].left].frequency <= ns[ns[p].right].frequency
            /\ \A n \in 1 .. p - 1 : Free(ns, n, p - 1) /\ n \notin {ns[p].left, ns[p].right}
                  => ns[ns[p].right].frequency <= ns[n].frequency
        BY <1>1, <1>2, <2>1 DEF Thrifty
      <3>2. /\ new[p] = ns[p] /\ ns[p].symbol = Inner
            /\ new[new[p].left] = ns[ns[p].left] /\ new[new[p].right] = ns[ns[p].right]
        BY <1>2, <1>3, <2>1
      <3>3. \A n \in 1 .. p - 1 : /\ new[n] = ns[n]
                                  /\ Free(new, n, p - 1) <=> Free(ns, n, p - 1)
        <4>1. p - 1 \in 0 .. L /\ \A n \in 1 .. p - 1 : n \in 1 .. L /\ n \in 0 .. L
          BY ONLY <2>1, L \in Nat
        <4> QED
          BY ONLY <1>2, <1>7, <4>1
      <3> QED
        BY ONLY <3>1, <3>2, <3>3
    <2>2. CASE p = L + 1
      <3>1. new[p] = x /\ x.symbol = Inner /\ p - 1 = L
        BY <1>2, <2>2
      <3>2. /\ ns[x.left].frequency <= ns[x.right].frequency
            /\ \A n \in 1 .. L : Free(ns, n, L) /\ n \notin {x.left, x.right}
                  => ns[x.right].frequency <= ns[n].frequency
        BY <1>1, <3>1 DEF Suits
      <3>3. \A n \in 1 .. L : new[n] = ns[n] /\ (Free(new, n, L) <=> Free(ns, n, L))
        <4>1. L \in 0 .. L /\ \A n \in 1 .. L : n \in 0 .. L
          OBVIOUS
        <4> QED
          BY ONLY <1>2, <1>7, <4>1
      <3>4. new[x.left] = ns[x.left] /\ new[x.right] = ns[x.right]
        BY <1>4, <3>1
      <3> QED
        BY ONLY <3>1, <3>2, <3>3, <3>4
    <2> QED
      BY <1>5, <2>1, <2>2
  <1> QED
    BY <1>6, <1>8

Thrift == Weighs(nodes, Frequencies) /\ Thrifty(nodes)

LEMMA NextLeafThrift ==
  ASSUME HeapInv, Stage, Thrift, NextLeaf PROVE Weighs(nodes', Frequencies) /\ Thrifty(nodes')
  <1> USE DEF heapVars
  <1>1. hpc = "leaf" /\ symbol < Symbols /\ LenTypes
    BY HeapInvMeans DEF NextLeaf
  <1>2. /\ nodes \in Seq(Node) /\ heap \in Seq(DOMAIN nodes)
        /\ symbol \in 0 .. Symbols /\ Symbols \in Nat
    BY <1>1, RootsAreNodes
  <1>3. symbol \in Symbol /\ Frequencies[symbol] = Frequency(symbol) /\ Frequency(symbol) \in Nat
    BY <1>1, <1>2, FrequenciesFacts, FrequencyNat DEF Symbol, LenTypes
  <1>4. CASE Frequency(symbol) = 0
    <2>1. nodes' = nodes
      BY <1>4 DEF NextLeaf
    <2> QED
      BY <2>1 DEF Thrift
  <1>5. CASE Frequency(symbol) # 0
    <2>1. PICK x : x = Leaf(symbol)
      OBVIOUS
    <2>2. x \in Node /\ x.symbol = symbol /\ x.frequency = Frequencies[symbol] /\ MakeNode(x)
      <3>1. MakeNode(Leaf(symbol))
        BY <1>5 DEF NextLeaf
      <3> QED
        BY <1>3, <2>1, <3>1 DEF Leaf, Node
    <2>3. Extends(nodes, nodes', x)
      BY <1>2, <2>2, MakeExtends
    <2>4. x.symbol # Inner
      BY <1>3, <2>2, InnerIsNoSymbol
    <2>5. PICK ns, new, fr : ns = nodes /\ new = nodes' /\ fr = Frequencies
      OBVIOUS
    <2>6. Suits(ns, fr, x)
      BY <2>2, <2>4, <2>5 DEF Suits
    <2>7. Grove(ns, fr, symbol) /\ Weighs(ns, fr) /\ Thrifty(ns) /\ Extends(ns, new, x)
      BY <2>3, <2>5 DEF Stage, Grows, Thrift
    <2>8. Weighs(new, fr) /\ Thrifty(new)
      BY ONLY <2>6, <2>7, ThriftGrows
    <2> QED
      BY <2>5, <2>8
  <1> QED
    BY <1>4, <1>5

\* What comes first is not heavier.
LEMMA BeforeLighter ==
  ASSUME NEW ns \in Seq(Node), NEW m \in DOMAIN ns, NEW n \in DOMAIN ns,
         Before(ns, m, n) \/ ~Before(ns, n, m)
  PROVE  ns[m].frequency <= ns[n].frequency
  <1>1. ns[m].frequency \in Nat /\ ns[n].frequency \in Nat
    BY NodeFacts
  <1> QED
    BY <1>1 DEF Before

LEMMA MergeThrift ==
  ASSUME HeapInv, Stage, Thrift, Merge PROVE Weighs(nodes', Frequencies) /\ Thrifty(nodes')
  <1> USE DEF heapVars
  <1>1. hpc = "merge" /\ Len(popped) = 2 /\ LenTypes
    BY HeapInvMeans DEF Merge
  <1>2. /\ nodes \in Seq(Node) /\ heap \in Seq(DOMAIN nodes) /\ popped \in Seq(DOMAIN nodes)
        /\ ToSet(heap) \cup ToSet(popped) \subseteq DOMAIN nodes
        /\ Len(nodes) \in Nat /\ DOMAIN nodes = 1 .. Len(nodes)
    BY <1>1, RootsAreNodes
  <1>3. PICK x \in Node :
           /\ MakeNode(x) /\ x.symbol = Inner /\ x.left = popped[1] /\ x.right = popped[2]
           /\ x.frequency = nodes[popped[1]].frequency + nodes[popped[2]].frequency
    BY <1>1, MergeHasRoom, MergedNode
  <1>4. Extends(nodes, nodes', x)
    BY <1>2, <1>3, MakeExtends
  <1>5. PICK l, r : l = popped[1] /\ r = popped[2]
    OBVIOUS
  <1>6. DOMAIN popped = {1, 2} /\ ToSet(popped) = {l, r}
    <2>1. DOMAIN popped = {1, 2}
      BY <1>1, <1>2
    <2> QED
      BY <1>5, <2>1 DEF ToSet
  <1>7. l \in DOMAIN nodes /\ r \in DOMAIN nodes
    BY <1>2, <1>6
  <1>8. nodes[l].frequency <= nodes[r].frequency
    <2>1. Before(nodes, l, r)
      BY <1>1, <1>5, HeapInvMeans DEF First
    <2> QED
      BY <1>2, <1>7, <2>1, BeforeLighter
  <1>9. ASSUME NEW n \in DOMAIN nodes, Free(nodes, n, Len(nodes)), n \notin {l, r}
        PROVE  nodes[r].frequency <= nodes[n].frequency
    <2>1. n \in ToSet(heap) \cup ToSet(popped)
      <3>1. Roots(nodes, ToSet(heap) \cup ToSet(popped))
        BY <1>1 DEF Stage, Grows
      <3> QED
        BY <1>2, <1>9, <3>1 DEF Roots, Free
    <2>2. PICK i \in DOMAIN heap : n = heap[i]
      BY <1>6, <1>9, <2>1 DEF ToSet
    <2>3. ~Before(nodes, n, r)
      <3>1. First(nodes, heap, popped) /\ 2 \in DOMAIN popped
        BY <1>6, HeapInvMeans
      <3> QED
        BY <1>5, <2>2, <3>1 DEF First
    <2> QED
      BY <1>2, <1>7, <2>3, BeforeLighter
  <1>10. PICK ns, new, fr : ns = nodes /\ new = nodes' /\ fr = Frequencies
    OBVIOUS
  <1>11. Suits(ns, fr, x)
    BY <1>3, <1>5, <1>7, <1>8, <1>9, <1>10 DEF Suits
  <1>12. Grove(ns, fr, symbol) /\ Weighs(ns, fr) /\ Thrifty(ns) /\ Extends(ns, new, x)
    BY <1>4, <1>10 DEF Stage, Grows, Thrift
  <1>13. Weighs(new, fr) /\ Thrifty(new)
    BY ONLY <1>11, <1>12, ThriftGrows
  <1> QED
    BY <1>10, <1>13

LEMMA ThriftStep ==
  ASSUME HeapInv, Stage, Thrift, [Next]_vars PROVE Thrift'
  <1> USE DEF lenVars, heapVars
  <1>1. ASSUME text' = text, nodes' = nodes PROVE Thrift'
    BY <1>1, SameFrequencies DEF Thrift
  <1>2. CASE LengthsStep
    <2>1. BuildLengths /\ text' = text
      BY <1>2 DEF LengthsStep, BuildLengths, NextLeaf, EndLeaves, SiftUp, PopNode, SiftDown,
                  Merge, OnlySymbol, assign_lengths
    <2>2. Frequencies' = Frequencies
      BY <2>1, SameFrequencies
    <2>3. CASE NextLeaf
      BY <2>2, <2>3, NextLeafThrift DEF Thrift
    <2>4. CASE Merge
      BY <2>2, <2>4, MergeThrift DEF Thrift
    <2>5. CASE EndLeaves \/ SiftUp \/ PopNode \/ SiftDown \/ OnlySymbol \/ assign_lengths
      <3>1. nodes' = nodes
        BY <2>5 DEF EndLeaves, SiftUp, PopNode, SiftDown, OnlySymbol, assign_lengths
      <3> QED
        BY <1>1, <2>1, <3>1
    <2> QED
      BY <2>1, <2>3, <2>4, <2>5 DEF BuildLengths
  <1>3. CASE CodesBegin
    <2>1. text' = text /\ nodes' = nodes
      BY <1>3 DEF CodesBegin
    <2> QED
      BY <1>1, <2>1
  <1>4. ASSUME ~LengthsStep, ~CodesBegin PROVE Thrift'
    <2>1. UNCHANGED lenVars
      BY <1>4 DEF Next, Step, CodesStep, WriteBegin, WriteBit, WriteEnd, CheckPayload, TreeBegin,
                  TreeStep, ReadBegin, ReadBit, ReadEnd, HelperFails, Terminated, vars
    <2> QED
      BY <1>1, <2>1
  <1> QED
    BY <1>2, <1>3, <1>4

\* f has the values of the symbols at their leaves.
OnLeaves(ns, count, v, N, f) ==
    /\ v \in [Symbol -> Nat] /\ N = Len(ns) /\ f \in [1 .. N -> Nat]
    /\ \A n \in 1 .. count : f[n] = v[ns[n].symbol]
    /\ \A s \in Symbol : ~(\E n \in DOMAIN ns : ns[n].symbol = s) => v[s] = 0

\* A sum over the symbols is a sum over their leaves.
LEMMA LeafSum ==
  ASSUME NEW ns, NEW fr, NEW count, Whole(ns, fr, count),
         NEW v, NEW N, NEW f, OnLeaves(ns, count, v, N, f)
  PROVE  Total(v) = SumOf(1 .. count, f, N)
  <1> USE DEF OnLeaves
  <1>1. /\ ns \in Seq(Node) /\ N \in Nat /\ DOMAIN ns = 1 .. N
        /\ Grove(ns, fr, Symbols) /\ count \in Nat /\ count <= N
        /\ \A n \in 1 .. N : ns[n].symbol # Inner <=> n <= count
    BY SymbolsNat DEF Whole
  <1> DEFINE Met(j) == {ns[n].symbol : n \in 1 .. j}
             Equal(j) == Total(Of(v, Met(j))) = SumOf(1 .. j, f, N)
             T == {j \in Nat : j <= count => Equal(j)}
  <1>2. ASSUME NEW n \in 1 .. count PROVE n \in 1 .. N /\ ns[n].symbol \in Symbol
    <2>1. n \in DOMAIN ns /\ n <= count
      BY <1>1
    <2> QED
      BY <1>1, <2>1, NodeSymbols
  <1>3. 0 \in T
    <2>1. PICK E : E = Met(0)
      OBVIOUS
    <2>2. E = {}
      BY <2>1
    <2>3. Total(Of(v, E)) = 0
      <3>1. PICK g : g = Of(v, E)
        OBVIOUS
      <3>2. g \in [Symbol -> Nat] /\ \A x \in Symbol : g[x] = 0
        BY <2>2, <3>1, OfFacts
      <3> QED
        BY <3>1, <3>2, TotalZero
    <2>4. SumOf(1 .. 0, f, N) = 0
      <3>1. \A n \in 1 .. N : n \notin 1 .. 0
        BY <1>1
      <3> QED
        BY <1>1, <3>1, SumOfEmpty
    <2> QED
      BY <2>1, <2>3, <2>4
  <1>4. ASSUME NEW j \in T PROVE j + 1 \in T
    <2> HIDE DEF Equal
    <2>0. j \in Nat
      OBVIOUS
    <2> SUFFICES ASSUME j + 1 <= count PROVE Equal(j + 1)
      BY <2>0
    <2>1. j \in Nat /\ Equal(j)
      BY <1>1, <2>0
    <2> HIDE DEF T
    <2> USE DEF Equal
    <2>2. PICK m : m = j + 1
      OBVIOUS
    <2>3. m \in 1 .. count /\ m \notin 1 .. j /\ 1 .. m = (1 .. j) \cup {m}
      BY <2>1, <2>2
    <2>4. PICK x : x = ns[m].symbol
      OBVIOUS
    <2>5. m \in 1 .. N /\ x \in Symbol
      BY <1>2, <2>3, <2>4
    <2>6. PICK B, C, D : B = Met(j) /\ C = {x} /\ D = Met(m)
      OBVIOUS
    <2>7. B \cap C = {}
      <3> SUFFICES ASSUME NEW n \in 1 .. j, ns[n].symbol = x PROVE FALSE
        BY <2>6
      <3>1. n \in 1 .. count /\ n # m
        BY <1>1, <2>1, <2>2, <2>3
      <3>2. n \in DOMAIN ns /\ m \in DOMAIN ns /\ ns[n].symbol # Inner
        BY <1>1, <1>2, <2>5, <3>1, InnerIsNoSymbol
      <3>3. \A a, b \in DOMAIN ns : ns[a].symbol = ns[b].symbol /\ ns[a].symbol # Inner => a = b
        BY <1>1 DEF Grove
      <3> QED
        BY <2>4, <3>1, <3>2, <3>3
    <2>8. D = B \cup C
      BY <2>3, <2>4, <2>6
    <2>9. Total(Of(v, D)) = Total(Of(v, B)) + Total(Of(v, C))
      BY <2>7, <2>8, TotalOfUnion
    <2>10. Total(Of(v, C)) = v[x] /\ f[m] = v[x]
      BY <2>3, <2>4, <2>5, <2>6, TotalOfOne
    <2>11. SumOf(1 .. m, f, N) = SumOf(1 .. j, f, N) + f[m]
      <3>1. PICK R, V : R = 1 .. j /\ V = 1 .. m
        OBVIOUS
      <3>2. f \in [1 .. N -> Nat]
        OBVIOUS
      <3>3. OneMore(N, R, f, m, V)
        BY ONLY <1>1, <2>3, <2>5, <3>1, <3>2 DEF OneMore
      <3>4. SumOf(V, f, N) = SumOf(R, f, N) + f[m]
        BY ONLY <3>3, SumOfAdd
      <3> QED
        BY ONLY <3>1, <3>4
    <2>12. Total(Of(v, B)) = SumOf(1 .. j, f, N)
      BY <2>1, <2>6
    <2> QED
      BY ONLY <2>2, <2>6, <2>9, <2>10, <2>11, <2>12
  <1>5. T = Nat
    <2> HIDE DEF T
    <2>1. T \subseteq Nat
      BY DEF T
    <2> QED
      BY <1>3, <1>4, <2>1, NatInductionSet
  <1>6. Equal(count)
    <2>1. count \in T
      BY ONLY <1>1, <1>5
    <2> HIDE DEF Equal
    <2> QED
      BY <1>1, <2>1
  <1>7. v = Of(v, Met(count))
    <2>1. ASSUME NEW s \in Symbol PROVE v[s] = IF s \in Met(count) THEN v[s] ELSE 0
      <3> SUFFICES ASSUME s \notin Met(count) PROVE v[s] = 0
        OBVIOUS
      <3>1. ~\E n \in DOMAIN ns : ns[n].symbol = s
        <4> SUFFICES ASSUME NEW n \in DOMAIN ns, ns[n].symbol = s PROVE FALSE
          OBVIOUS
        <4>1. n \in 1 .. count
          BY <1>1, InnerIsNoSymbol
        <4> QED
          BY <4>1
      <3> QED
        BY <3>1
    <2> HIDE DEF Met
    <2> QED
      BY <2>1 DEF Of
  <1> QED
    BY ONLY <1>6, <1>7

Weighing(ns) == [n \in 1 .. Len(ns) |-> ns[n].frequency]
Lefts(ns)   == [n \in 1 .. Len(ns) |-> ns[n].left]
Rights(ns)  == [n \in 1 .. Len(ns) |-> ns[n].right]

LEMMA TreeMergers ==
  ASSUME NEW ns, NEW fr, NEW count, Whole(ns, fr, count), Weighs(ns, fr), Thrifty(ns),
         NEW w, w = Weighing(ns), NEW l, l = Lefts(ns), NEW r, r = Rights(ns),
         NEW N, N = Len(ns)
  PROVE  Mergers(N, count, w, l, r) /\ Left(count, l, r, N) = {N} /\ N >= 1
  <1>1. /\ ns \in Seq(Node) /\ N \in Nat /\ DOMAIN ns = 1 .. N /\ N >= 1
        /\ Grove(ns, fr, Symbols) /\ Roots(ns, {N}) /\ count \in Nat /\ count < N
        /\ \A n \in 1 .. N : ns[n].symbol # Inner <=> n <= count
    BY SymbolsNat DEF Whole
  <1>2. /\ \A n \in 1 .. N : w[n] = ns[n].frequency /\ l[n] = ns[n].left /\ r[n] = ns[n].right
    BY DEF Weighing, Lefts, Rights
  <1>3. w \in [1 .. N -> Nat]
    <2>1. \A n \in 1 .. N : ns[n].frequency \in Nat
      BY <1>1, NodeFacts
    <2> QED
      BY <2>1 DEF Weighing
  <1>4. ASSUME NEW p \in count + 1 .. N PROVE p \in 1 .. N /\ ns[p].symbol = Inner
    <2>1. p \in 1 .. N /\ ~(p <= count)
      BY <1>1
    <2> QED
      BY <1>1, <2>1
  <1>5. ASSUME NEW n, NEW k \in 0 .. N PROVE Unmerged(count, l, r, n, k) <=> Free(ns, n, k)
    <2>1. ASSUME NEW p \in 1 .. k
          PROVE  Below(ns, p, n) <=> p \in count + 1 .. k /\ (n = l[p] \/ n = r[p])
      <3>1. p \in 1 .. N /\ (p \in count + 1 .. k <=> ~(p <= count))
        BY <1>1
      <3> QED
        BY <1>1, <1>2, <3>1 DEF Below
    <2>2. \A p \in count + 1 .. k : p \in 1 .. k
      BY <1>1
    <2> QED
      BY <2>1, <2>2 DEF Unmerged, Free
  <1>6. ASSUME NEW p \in count + 1 .. N
        PROVE  /\ l[p] \in 1 .. p - 1 /\ r[p] \in 1 .. p - 1 /\ l[p] # r[p]
               /\ w[p] = w[l[p]] + w[r[p]] /\ w[l[p]] <= w[r[p]]
               /\ Unmerged(count, l, r, l[p], p - 1) /\ Unmerged(count, l, r, r[p], p - 1)
               /\ \A n \in 1 .. p - 1 :
                     n # l[p] /\ n # r[p] /\ Unmerged(count, l, r, n, p - 1) => w[r[p]] <= w[n]
    <2>1. p \in 1 .. N /\ ns[p].symbol = Inner /\ l[p] = ns[p].left /\ r[p] = ns[p].right
      BY <1>2, <1>4
    <2>2. l[p] \in 1 .. p - 1 /\ r[p] \in 1 .. p - 1 /\ l[p] # r[p]
      BY <1>1, <2>1 DEF Grove
    <2>3. p - 1 \in 0 .. N /\ \A n \in 1 .. p - 1 : n \in 1 .. N
      BY <1>1, <2>1
    <2>4. l[p] \in 1 .. N /\ r[p] \in 1 .. N
      BY <2>2, <2>3
    <2>5. w[p] = w[l[p]] + w[r[p]]
      <3>1. ns[p].frequency = ns[ns[p].left].frequency + ns[ns[p].right].frequency
        BY <1>1, <2>1 DEF Weighs
      <3> QED
        BY ONLY <1>2, <2>1, <2>4, <3>1
    <2>6. /\ ns[ns[p].left].frequency <= ns[ns[p].right].frequency
          /\ \A n \in 1 .. p - 1 : Free(ns, n, p - 1) /\ n \notin {ns[p].left, ns[p].right}
                => ns[ns[p].right].frequency <= ns[n].frequency
      BY <1>1, <2>1 DEF Thrifty
    <2>7. ASSUME NEW n \in {l[p], r[p]} PROVE Unmerged(count, l, r, n, p - 1)
      <3> SUFFICES ASSUME NEW q \in 1 .. p - 1, Below(ns, q, n) PROVE FALSE
        BY <1>5, <2>3 DEF Free
      <3>1. q \in 1 .. N /\ q # p /\ n \in 1 .. N /\ Below(ns, p, n)
        BY <2>1, <2>3, <2>4 DEF Below
      <3> QED
        BY <1>1, <2>1, <3>1 DEF Grove
    <2>8. w[l[p]] <= w[r[p]]
      BY ONLY <1>2, <2>1, <2>4, <2>6
    <2>9. ASSUME NEW n \in 1 .. p - 1, n # l[p], n # r[p], Unmerged(count, l, r, n, p - 1)
          PROVE  w[r[p]] <= w[n]
      <3>1. Free(ns, n, p - 1) /\ n \in 1 .. N
        BY <1>5, <2>3, <2>9
      <3>2. ns[ns[p].right].frequency <= ns[n].frequency
        BY <2>1, <2>6, <2>9, <3>1
      <3> QED
        BY ONLY <1>2, <2>1, <2>4, <3>1, <3>2
    <2> QED
      BY <2>2, <2>5, <2>7, <2>8, <2>9
  <1>7. Mergers(N, count, w, l, r)
    <2>1. count \in 0 .. N
      BY <1>1
    <2> QED
      BY <1>1, <1>3, <1>6, <2>1 DEF Mergers
  <1>8. Left(count, l, r, N) = {N}
    <2>1. N \in 0 .. N /\ N \in 1 .. N
      BY <1>1
    <2>2. \A n \in 1 .. N : Unmerged(count, l, r, n, N) <=> n = N
      BY <1>1, <1>5, <2>1 DEF Roots, Free
    <2> QED
      BY <2>1, <2>2 DEF Left
  <1> QED
    BY <1>1, <1>7, <1>8

LEMMA TreeHung ==
  ASSUME NEW ns, NEW fr, NEW count, Whole(ns, fr, count), NEW max \in Nat,
         NEW dep, Depths(ns, dep), \A n \in DOMAIN ns : dep[n] <= max,
         NEW l, l = Lefts(ns), NEW r, r = Rights(ns), NEW N, N = Len(ns)
  PROVE  Hung(count, l, r, dep, N, max)
  <1>1. /\ ns \in Seq(Node) /\ N \in Nat /\ DOMAIN ns = 1 .. N /\ N >= 1
        /\ Grove(ns, fr, Symbols) /\ count \in Nat /\ count < N
        /\ \A n \in 1 .. N : ns[n].symbol # Inner <=> n <= count
    BY SymbolsNat DEF Whole
  <1>2. /\ dep \in [1 .. N -> Nat] /\ dep[N] = 0
        /\ \A p, n \in 1 .. N : Below(ns, p, n) => dep[n] = dep[p] + 1
    BY <1>1 DEF Depths
  <1>3. dep \in [1 .. N -> 0 .. max]
    <2>1. \A n \in 1 .. N : dep[n] \in 0 .. max
      BY <1>1, <1>2
    <2> QED
      BY <1>2, <2>1
  <1>4. ASSUME NEW p \in count + 1 .. N
        PROVE  dep[l[p]] = dep[p] + 1 /\ dep[r[p]] = dep[p] + 1
    <2>1. p \in 1 .. N /\ ~(p <= count)
      BY <1>1
    <2>2. ns[p].symbol = Inner /\ l[p] = ns[p].left /\ r[p] = ns[p].right
      BY <1>1, <2>1 DEF Lefts, Rights
    <2>3. Below(ns, p, l[p]) /\ Below(ns, p, r[p])
      BY <2>2 DEF Below
    <2>4. l[p] \in 1 .. N /\ r[p] \in 1 .. N
      BY <1>1, <2>1, <2>3, GroveBelow
    <2> QED
      BY <1>2, <2>1, <2>3, <2>4
  <1> QED
    BY <1>2, <1>3, <1>4 DEF Hung

\* What a table costs, by the frequencies.
Prices(fr, t) == [s \in Symbol |-> fr[s] * t[s]]

\* t has a length for just the symbols that occur, and fits the code space.
Fits(fr, t) ==
    /\ t \in [Symbol -> 0 .. MaxCodeBits]
    /\ \A s \in Symbol : t[s] # 0 <=> fr[s] > 0
    /\ Kraft(t) <= pow2[MaxCodeBits]

LEMMA PricesFacts ==
  ASSUME NEW fr \in [Symbol -> Nat], NEW t \in [Symbol -> 0 .. MaxCodeBits]
  PROVE  Prices(fr, t) \in [Symbol -> Nat] /\ \A s \in Symbol : Prices(fr, t)[s] = fr[s] * t[s]
  <1>1. MaxCodeBits \in Nat
    BY MaxBitsNat
  <1>2. ASSUME NEW s \in Symbol PROVE fr[s] * t[s] \in Nat
    <2>1. fr[s] \in Nat /\ t[s] \in Nat
      BY <1>1
    <2> QED
      BY <2>1
  <1> QED
    BY <1>2 DEF Prices

\* The depths that a table gives to the leaves.
Placed(ns, count, t) == [n \in 1 .. Len(ns) |-> IF n <= count THEN t[ns[n].symbol] ELSE 0]

LEMMA TableHangs ==
  ASSUME NEW ns, NEW fr \in [Symbol -> Nat], NEW count, Whole(ns, fr, count), Weighs(ns, fr),
         NEW t, Fits(fr, t), NEW d, d = Placed(ns, count, t),
         NEW w, w = Weighing(ns), NEW N, N = Len(ns)
  PROVE  /\ Fitting(1 .. count, w, d, MaxCodeBits, N, Total(Prices(fr, t)))
         /\ Total(Prices(fr, t)) \in Nat
  <1>1. /\ ns \in Seq(Node) /\ N \in Nat /\ DOMAIN ns = 1 .. N
        /\ Grove(ns, fr, Symbols) /\ count \in Nat /\ count <= N
        /\ \A n \in 1 .. N : ns[n].symbol # Inner <=> n <= count
        /\ MaxCodeBits \in Nat
    BY SymbolsNat, MaxBitsNat DEF Whole
  <1>2. /\ t \in [Symbol -> 0 .. MaxCodeBits] /\ Kraft(t) <= pow2[MaxCodeBits]
        /\ \A s \in Symbol : t[s] # 0 <=> fr[s] > 0
    BY DEF Fits
  <1>3. ASSUME NEW n \in 1 .. count
        PROVE  n \in 1 .. N /\ ns[n].symbol # Inner /\ ns[n].symbol \in Symbol
    <2>1. n \in DOMAIN ns /\ n <= count
      BY <1>1
    <2> QED
      BY <1>1, <2>1, NodeSymbols
  <1>4. ASSUME NEW s \in Symbol, ~(\E n \in DOMAIN ns : ns[n].symbol = s)
        PROVE  fr[s] = 0 /\ t[s] = 0
    <2>1. s < Symbols /\ fr[s] \in Nat
      BY SymbolsNat DEF Symbol
    <2>2. ~(fr[s] > 0)
      BY <1>1, <1>4, <2>1 DEF Grove
    <2> QED
      BY <1>2, <2>1, <2>2
  <1>5. d \in [1 .. N -> 0 .. MaxCodeBits] /\ \A n \in 1 .. count : d[n] = t[ns[n].symbol]
    <2>1. \A n \in 1 .. N : (IF n <= count THEN t[ns[n].symbol] ELSE 0) \in 0 .. MaxCodeBits
      <3>1. \A n \in 1 .. N : n <= count => n \in 1 .. count
        BY <1>1
      <3> QED
        BY <1>1, <1>2, <1>3, <3>1
    <2> QED
      BY <1>1, <1>3, <2>1 DEF Placed
  <1>6. /\ w \in [1 .. N -> Nat]
        /\ \A n \in 1 .. count : w[n] = fr[ns[n].symbol]
    <2>1. \A n \in 1 .. N : ns[n].frequency \in Nat
      BY <1>1, NodeFacts
    <2>2. \A n \in 1 .. N : w[n] = ns[n].frequency
      BY DEF Weighing
    <2>3. \A n \in 1 .. count : ns[n].frequency = fr[ns[n].symbol]
      BY <1>1, <1>3 DEF Weighs
    <2> QED
      BY <1>3, <2>1, <2>2, <2>3 DEF Weighing
  <1>7. WellHung(N, MaxCodeBits, w, d)
    BY <1>1, <1>5, <1>6 DEF WellHung
  <1>8. SumOf(1 .. count, Sizes(d, MaxCodeBits, N), N) <= pow2[MaxCodeBits]
    <2>1. PICK v, f : v = Shares(t) /\ f = Sizes(d, MaxCodeBits, N)
      OBVIOUS
    <2>2. v \in [Symbol -> Nat] /\ Kraft(t) = Total(v)
      BY <1>2, <2>1, SharesNat
    <2>3. f \in [1 .. N -> Nat] /\ \A n \in 1 .. N : f[n] = pow2[MaxCodeBits - d[n]]
      BY ONLY <1>7, <2>1, SizesAre
    <2>4. ASSUME NEW n \in 1 .. count PROVE f[n] = v[ns[n].symbol]
      <3>1. PICK s \in Symbol : s = ns[n].symbol
        BY <1>3
      <3>2. t[s] \in 1 .. MaxCodeBits
        <4>1. fr[s] > 0
          BY <1>1, <1>3, <3>1 DEF Grove
        <4> QED
          BY <1>1, <1>2, <4>1
      <3>3. v[s] = Share(t[s]) /\ Share(t[s]) = pow2[MaxCodeBits - t[s]]
        BY <2>1, <3>2, ShareFacts DEF Shares
      <3>4. f[n] = pow2[MaxCodeBits - d[n]] /\ d[n] = t[s]
        BY <1>3, <1>5, <2>3, <3>1
      <3> QED
        BY ONLY <3>1, <3>3, <3>4
    <2>5. \A s \in Symbol : ~(\E n \in DOMAIN ns : ns[n].symbol = s) => v[s] = 0
      BY <1>4, <2>1 DEF Shares, Share
    <2>6. Total(v) = SumOf(1 .. count, f, N)
      <3>1. OnLeaves(ns, count, v, N, f)
        BY ONLY <2>2, <2>3, <2>4, <2>5, N = Len(ns) DEF OnLeaves
      <3> QED
        BY ONLY <3>1, Whole(ns, fr, count), LeafSum
    <2> QED
      BY <1>2, <2>1, <2>2, <2>6
  <1>9. /\ SumOf(1 .. count, Costs(w, d, N), N) = Total(Prices(fr, t))
        /\ Total(Prices(fr, t)) \in Nat
    <2>1. PICK v, f : v = Prices(fr, t) /\ f = Costs(w, d, N)
      OBVIOUS
    <2>2. v \in [Symbol -> Nat] /\ \A s \in Symbol : v[s] = fr[s] * t[s]
      BY <1>2, <2>1, PricesFacts
    <2>3. f \in [1 .. N -> Nat] /\ \A n \in 1 .. N : f[n] = w[n] * d[n]
      BY ONLY <1>7, <2>1, CostsAre
    <2>4. ASSUME NEW n \in 1 .. count PROVE f[n] = v[ns[n].symbol]
      BY ONLY <1>3, <1>5, <1>6, <2>2, <2>3, n \in 1 .. count
    <2>5. \A s \in Symbol : ~(\E n \in DOMAIN ns : ns[n].symbol = s) => v[s] = 0
      <3> SUFFICES ASSUME NEW s \in Symbol, ~(\E n \in DOMAIN ns : ns[n].symbol = s)
                   PROVE  v[s] = 0
        OBVIOUS
      <3>1. fr[s] = 0 /\ t[s] = 0
        BY <1>4
      <3> QED
        BY <2>2, <3>1
    <2>6. Total(v) = SumOf(1 .. count, f, N)
      <3>1. OnLeaves(ns, count, v, N, f)
        BY ONLY <2>2, <2>3, <2>4, <2>5, N = Len(ns) DEF OnLeaves
      <3> QED
        BY ONLY <3>1, Whole(ns, fr, count), LeafSum
    <2>7. SumOf(1 .. count, f, N) \in Nat
      BY ONLY <1>1, <2>3, SumOfNat
    <2> QED
      BY <2>1, <2>6, <2>7
  <1>10. Total(Prices(fr, t)) <= Total(Prices(fr, t))
    BY <1>9
  <1> QED
    BY ONLY <1>5, <1>8, <1>9, <1>10 DEF Fitting

\* No table that fits the code space is cheaper than what assign_lengths gives.
LEMMA AssignedOptimal ==
  ASSUME NEW fr \in [Symbol -> Nat], NEW count, Whole(nodes, fr, count),
         Weighs(nodes, fr), Thrifty(nodes), NEW t, Fits(fr, t)
  PROVE  Total(Prices(fr, Assigned)) <= Total(Prices(fr, t))
  <1>1. PICK dep :
           /\ Depths(nodes, dep)
           /\ \A n \in DOMAIN nodes : dep[n] \in Nat /\ dep[n] <= MaxCodeBits
           /\ \A n \in DOMAIN nodes : nodes[n].symbol # Inner =>
                 /\ dep[n] \in 1 .. MaxCodeBits /\ nodes[n].symbol \in Symbol
                 /\ Assigned[nodes[n].symbol] = dep[n]
    BY AssignedDepths
  <1>2. PICK ns, own : ns = nodes /\ own = Assigned
    OBVIOUS
  <1>3. Whole(ns, fr, count) /\ Weighs(ns, fr) /\ Thrifty(ns) /\ Depths(ns, dep)
    BY <1>1, <1>2
  <1>4. /\ own \in [Symbol -> 0 .. MaxCodeBits]
        /\ \A s \in Symbol : own[s] # 0 <=> fr[s] > 0
        /\ Kraft(own) = pow2[MaxCodeBits]
    BY <1>2, AssignedFacts
  <1>5. MaxCodeBits \in Nat /\ pow2[MaxCodeBits] \in Nat
    BY MaxBitsNat, Pow2Def
  <1>6. Fits(fr, own)
    BY <1>4, <1>5 DEF Fits
  <1>7. PICK N, w, l, r : N = Len(ns) /\ w = Weighing(ns) /\ l = Lefts(ns) /\ r = Rights(ns)
    OBVIOUS
  <1>8. Mergers(N, count, w, l, r) /\ Left(count, l, r, N) = {N} /\ N >= 1
    BY ONLY <1>3, <1>7, TreeMergers
  <1>9. \A n \in DOMAIN ns : dep[n] <= MaxCodeBits
    BY <1>1, <1>2
  <1>10. Hung(count, l, r, dep, N, MaxCodeBits)
    BY ONLY <1>3, <1>5, <1>7, <1>9, TreeHung
  <1>11. PICK d : d = Placed(ns, count, t)
    OBVIOUS
  <1>12. PICK c \in Nat : c = Total(Prices(fr, t)) /\ Fitting(1 .. count, w, d, MaxCodeBits, N, c)
    BY ONLY <1>3, <1>7, <1>11, fr \in [Symbol -> Nat], Fits(fr, t), TableHangs
  <1>13. SumOf(1 .. count, Costs(w, dep, N), N) <= c
    BY ONLY <1>5, <1>8, <1>10, <1>12, MergersOptimal
  <1>14. PICK v, f : v = Prices(fr, own) /\ f = Costs(w, dep, N)
    OBVIOUS
  <1>15. /\ ns \in Seq(Node) /\ N \in Nat /\ DOMAIN ns = 1 .. N
         /\ Grove(ns, fr, Symbols) /\ count \in Nat /\ count <= N
         /\ \A n \in 1 .. N : ns[n].symbol # Inner <=> n <= count
    <2>1. /\ ns \in Seq(Node) /\ Grove(ns, fr, Symbols)
          /\ count \in 1 .. Symbols /\ count < N
          /\ \A n \in DOMAIN ns : ns[n].symbol # Inner <=> n <= count
      BY <1>3, <1>7 DEF Whole
    <2>2. N \in Nat /\ DOMAIN ns = 1 .. N
      BY ONLY <1>7, <2>1
    <2> QED
      BY ONLY <2>1, <2>2, SymbolsNat
  <1>16. v \in [Symbol -> Nat] /\ \A s \in Symbol : v[s] = fr[s] * own[s]
    BY <1>4, <1>14, PricesFacts
  <1>17. f \in [1 .. N -> Nat] /\ \A n \in 1 .. N : f[n] = w[n] * dep[n]
    <2>1. w \in [1 .. N -> Nat] /\ dep \in [1 .. N -> 0 .. MaxCodeBits] /\ N \in Nat
      BY <1>8, <1>10 DEF Mergers, Hung
    <2>2. WellHung(N, MaxCodeBits, w, dep)
      BY <1>5, <2>1 DEF WellHung
    <2> QED
      BY ONLY <1>14, <2>2, CostsAre
  <1>18. ASSUME NEW n \in 1 .. count PROVE f[n] = v[ns[n].symbol]
    <2>1. n \in 1 .. N /\ ns[n].symbol # Inner
      BY <1>15
    <2>2. ns[n].symbol \in Symbol /\ own[ns[n].symbol] = dep[n]
      BY <1>1, <1>2, <1>15, <2>1
    <2>3. w[n] = fr[ns[n].symbol]
      BY <1>3, <1>7, <1>15, <2>1 DEF Weighs, Weighing
    <2> QED
      BY ONLY <1>16, <1>17, <2>1, <2>2, <2>3
  <1>19. \A s \in Symbol : ~(\E n \in DOMAIN ns : ns[n].symbol = s) => v[s] = 0
    <2> SUFFICES ASSUME NEW s \in Symbol, ~(\E n \in DOMAIN ns : ns[n].symbol = s)
                 PROVE  v[s] = 0
      OBVIOUS
    <2>1. own[s] = 0
      BY <1>2, AssignedDepths
    <2>2. fr[s] \in Nat
      OBVIOUS
    <2> QED
      BY <1>16, <2>1, <2>2
  <1>20. Total(v) = SumOf(1 .. count, f, N)
    <2>1. OnLeaves(ns, count, v, N, f)
      BY ONLY <1>7, <1>16, <1>17, <1>18, <1>19 DEF OnLeaves
    <2> QED
      BY ONLY <1>3, <2>1, LeafSum
  <1> QED
    BY ONLY <1>2, <1>12, <1>13, <1>14, <1>20

Used(fr) == {s \in Symbol : fr[s] > 0}

Tabled(fr, other) == [s \in Symbol |-> IF s \in Used(fr) THEN other[s] ELSE 0]

Cheapest(lens, fr) ==
    \A other \in [Used(fr) -> 1 .. MaxCodeBits] :
        Kraft(Tabled(fr, other)) <= pow2[MaxCodeBits]
            => Total(Prices(fr, lens)) <= Total(Prices(fr, Tabled(fr, other)))

Optimal(pc, lens, fr) ==
    pc = "done" =>
        /\ \A s \in Symbol : lens[s] # 0 <=> s \in Used(fr)
        /\ Cardinality(Used(fr)) > 1 => Kraft(lens) = pow2[MaxCodeBits]
        /\ Cheapest(lens, fr)

\* LengthsOptimal, as a relation of the text and the lengths.
Counts(txt, s) == Cardinality({i \in DOMAIN txt : txt[i] = s})

Costing(txt, t) == Total([s \in Symbol |-> Counts(txt, s) * t[s]])

OptimalFor(txt, pc, lens) ==
    LET used == {s \in Symbol : Counts(txt, s) > 0}
    IN pc = "done" =>
         /\ \A s \in Symbol : lens[s] # 0 <=> s \in used
         /\ Cardinality(used) > 1 => Kraft(lens) = pow2[MaxCodeBits]
         /\ \A other \in [used -> 1 .. MaxCodeBits] :
              LET t == [s \in Symbol |-> IF s \in used THEN other[s] ELSE 0]
              IN Kraft(t) <= pow2[MaxCodeBits] => Costing(txt, lens) <= Costing(txt, t)

LEMMA OptimalForMeans ==
  ASSUME NEW txt, NEW pc, NEW lens, NEW fr, fr = [s \in Symbol |-> Counts(txt, s)]
  PROVE  OptimalFor(txt, pc, lens) <=> Optimal(pc, lens, fr)
  <1>1. Used(fr) = {s \in Symbol : Counts(txt, s) > 0}
    BY DEF Used
  <1>2. ASSUME NEW t PROVE Costing(txt, t) = Total(Prices(fr, t))
    <2>1. [s \in Symbol |-> Counts(txt, s) * t[s]] = Prices(fr, t)
      BY DEF Prices
    <2> QED
      BY <2>1 DEF Costing
  <1> QED
    BY <1>1, <1>2 DEF OptimalFor, Optimal, Cheapest, Tabled

LEMMA OptimalMeans == LengthsOptimal <=> Optimal(hpc, lengths, Frequencies)
  <1>1. LengthsOptimal <=> OptimalFor(text, hpc, lengths)
    BY DEF LengthsOptimal, OptimalFor, Cost, Costing, Frequency, Counts
  <1>2. PICK txt, pc, lens, fr : txt = text /\ pc = hpc /\ lens = lengths /\ fr = Frequencies
    OBVIOUS
  <1>3. fr = [s \in Symbol |-> Counts(txt, s)]
    BY <1>2 DEF Frequencies, Frequency, Counts
  <1> QED
    BY <1>1, <1>2, <1>3, OptimalForMeans

LEMMA OptimalMeansNext == LengthsOptimal' <=> Optimal(hpc', lengths', Frequencies')
  <1>1. LengthsOptimal' <=> OptimalFor(text', hpc', lengths')
    BY DEF LengthsOptimal, OptimalFor, Cost, Costing, Frequency, Counts
  <1>2. PICK txt, pc, lens, fr :
           txt = text' /\ pc = hpc' /\ lens = lengths' /\ fr = Frequencies'
    OBVIOUS
  <1>3. fr = [s \in Symbol |-> Counts(txt, s)]
    BY <1>2 DEF Frequencies, Frequency, Counts
  <1> QED
    BY <1>1, <1>2, <1>3, OptimalForMeans

LEMMA TabledFits ==
  ASSUME NEW fr, NEW other \in [Used(fr) -> 1 .. MaxCodeBits],
         NEW t, t = Tabled(fr, other), Kraft(t) <= pow2[MaxCodeBits]
  PROVE  Fits(fr, t) /\ \A s \in Symbol : fr[s] > 0 => t[s] >= 1
  <1>1. MaxCodeBits \in Nat
    BY MaxBitsNat
  <1>2. ASSUME NEW s \in Symbol
        PROVE  t[s] \in 0 .. MaxCodeBits /\ (t[s] # 0 <=> fr[s] > 0) /\ (fr[s] > 0 => t[s] >= 1)
    <2>1. CASE fr[s] > 0
      <3>1. s \in Used(fr)
        BY <2>1 DEF Used
      <3>2. t[s] = other[s] /\ other[s] \in 1 .. MaxCodeBits
        BY <3>1 DEF Tabled
      <3> QED
        BY <1>1, <2>1, <3>2
    <2>2. CASE ~(fr[s] > 0)
      <3>1. s \notin Used(fr)
        BY <2>2 DEF Used
      <3>2. t[s] = 0
        BY <3>1 DEF Tabled
      <3> QED
        BY <1>1, <2>2, <3>2
    <2> QED
      BY <2>1, <2>2
  <1>3. t \in [Symbol -> 0 .. MaxCodeBits]
    BY <1>2 DEF Tabled
  <1> QED
    BY <1>2, <1>3 DEF Fits

\* With one bit for each symbol nothing can be cheaper.
LEMMA OneBitCheapest ==
  ASSUME NEW fr \in [Symbol -> Nat], NEW lens \in [Symbol -> 0 .. 1],
         \A s \in Symbol : lens[s] # 0 <=> fr[s] > 0
  PROVE  Cheapest(lens, fr)
  <1> SUFFICES ASSUME NEW other \in [Used(fr) -> 1 .. MaxCodeBits],
                      Kraft(Tabled(fr, other)) <= pow2[MaxCodeBits]
               PROVE  Total(Prices(fr, lens)) <= Total(Prices(fr, Tabled(fr, other)))
    BY DEF Cheapest
  <1>1. MaxCodeBits \in Nat /\ MaxCodeBits >= 1
    BY MaxBitsNat
  <1>2. PICK t : t = Tabled(fr, other)
    OBVIOUS
  <1>3. Fits(fr, t) /\ \A s \in Symbol : fr[s] > 0 => t[s] >= 1
    BY <1>2, TabledFits
  <1>4. t \in [Symbol -> 0 .. MaxCodeBits] /\ lens \in [Symbol -> 0 .. MaxCodeBits]
    <2>1. \A s \in Symbol : lens[s] \in 0 .. MaxCodeBits
      BY <1>1
    <2> QED
      BY <1>3, <2>1 DEF Fits
  <1>5. PICK f, g : f = Prices(fr, lens) /\ g = Prices(fr, t)
    OBVIOUS
  <1>6. f \in [Symbol -> Nat] /\ \A s \in Symbol : f[s] = fr[s] * lens[s]
    BY <1>4, <1>5, PricesFacts
  <1>7. g \in [Symbol -> Nat] /\ \A s \in Symbol : g[s] = fr[s] * t[s]
    BY <1>4, <1>5, PricesFacts
  <1>8. ASSUME NEW s \in Symbol PROVE f[s] <= g[s]
    <2>1. PICK a \in Nat, p \in Nat, q \in Nat : a = fr[s] /\ p = lens[s] /\ q = t[s]
      BY <1>1, <1>4
    <2>2. f[s] = a * p /\ g[s] = a * q
      BY <1>6, <1>7, <2>1
    <2>3. p <= q \/ a = 0
      <3>1. p <= 1 /\ (p # 0 <=> a > 0) /\ (a > 0 => q >= 1)
        BY <1>3, <2>1
      <3> QED
        BY <3>1
    <2>4. CASE p <= q
      BY ONLY <2>2, <2>4, a \in Nat, p \in Nat, q \in Nat, TimesMonotone
    <2>5. CASE a = 0
      BY <2>2, <2>5
    <2> QED
      BY <2>3, <2>4, <2>5
  <1>9. Total(f) <= Total(g)
    BY <1>6, <1>7, <1>8, TotalMonotone
  <1> QED
    BY <1>2, <1>5, <1>9

LEMMA AssignCheapest ==
  ASSUME HeapInv, Stage, Thrift, assign_lengths
  PROVE  hpc' = "done" /\ Cheapest(lengths', Frequencies)
  <1>1. hpc = "merge" /\ popped = <<>> /\ Len(heap) = 1 /\ Len(nodes) > 1 /\ LenTypes
    BY HeapInvMeans DEF assign_lengths
  <1>2. PICK count : Whole(nodes, Frequencies, count)
    BY <1>1, OneTree
  <1>3. PICK fr : fr = Frequencies
    OBVIOUS
  <1>4. fr \in [Symbol -> Nat] /\ Whole(nodes, fr, count) /\ Weighs(nodes, fr) /\ Thrifty(nodes)
    BY <1>1, <1>2, <1>3, FrequenciesFacts DEF Thrift
  <1>5. \A n \in Level[MaxCodeBits] : nodes[n].symbol # Inner
    BY <1>4, AssignedFacts
  <1>6. lengths' = Assigned /\ hpc' = "done"
    BY <1>1, <1>5 DEF assign_lengths, Assigned, DepthsOf
  <1>7. Cheapest(Assigned, fr)
    <2> SUFFICES ASSUME NEW other \in [Used(fr) -> 1 .. MaxCodeBits],
                        Kraft(Tabled(fr, other)) <= pow2[MaxCodeBits]
                 PROVE  Total(Prices(fr, Assigned)) <= Total(Prices(fr, Tabled(fr, other)))
      BY DEF Cheapest
    <2>1. PICK t : t = Tabled(fr, other)
      OBVIOUS
    <2>2. Fits(fr, t)
      BY <2>1, TabledFits
    <2> QED
      BY <1>4, <2>1, <2>2, AssignedOptimal
  <1> QED
    BY <1>3, <1>6, <1>7

LEMMA OptimalStep ==
  ASSUME HeapInv, ForestInv, Thrift, LengthsOptimal, [Next]_vars, ForestInv', HeapInv'
  PROVE  LengthsOptimal'
  <1> USE DEF lenVars, heapVars
  <1>1. LenTypes /\ LenTypes' /\ Stage /\ LengthsStand /\ LengthsStand'
    <2>1. LenTypes /\ LenTypes'
      BY HeapInvMeans, HeapInvMeansNext
    <2> QED
      BY <2>1, ForestInvMeans, ForestInvMeansNext
  <1>2. ASSUME UNCHANGED lenVars PROVE LengthsOptimal'
    <2>1. UNCHANGED <<text, hpc, lengths>> /\ Frequencies' = Frequencies
      BY <1>2, SameFrequencies
    <2> QED
      BY <2>1, OptimalMeans, OptimalMeansNext
  <1>3. ASSUME hpc' # "done" PROVE LengthsOptimal'
    BY <1>3, OptimalMeansNext DEF Optimal
  <1>4. ASSUME hpc' = "done", text' = text, Cheapest(lengths', Frequencies)
        PROVE  LengthsOptimal'
    <2>1. PICK fr, lens : fr = Frequencies /\ lens = lengths' /\ Frequencies' = fr
      BY <1>4, SameFrequencies
    <2>2. LengthsRight("done", lens, fr)
      BY <1>1, <1>4, <2>1, LengthsStandMeansNext
    <2>3. \A s \in Symbol : lens[s] # 0 <=> s \in Used(fr)
      BY <2>2 DEF LengthsRight, Used
    <2>4. Cardinality(Used(fr)) > 1 => Kraft(lens) = pow2[MaxCodeBits]
      BY <2>2 DEF LengthsRight, Used
    <2>5. Optimal("done", lens, fr)
      BY <1>4, <2>1, <2>3, <2>4 DEF Optimal
    <2> QED
      BY <1>4, <2>1, <2>5, OptimalMeansNext
  <1>5. CASE LengthsStep
    <2>1. BuildLengths
      BY <1>5 DEF LengthsStep
    <2>2. text' = text /\ hpc \in {"leaf", "up", "down", "merge"}
      BY <2>1 DEF BuildLengths, NextLeaf, EndLeaves, SiftUp, PopNode, SiftDown,
                  Merge, OnlySymbol, assign_lengths
    <2>3. CASE NextLeaf \/ EndLeaves \/ SiftUp \/ PopNode \/ SiftDown \/ Merge
      <3>1. hpc' # "done"
        BY <2>2, <2>3 DEF NextLeaf, EndLeaves, SiftUp, PopNode, SiftDown, Merge, MakeNode
      <3> QED
        BY <1>3, <3>1
    <2>4. CASE OnlySymbol
      <3>1. CASE nodes = <<>>
        BY <1>3, <2>4, <3>1 DEF OnlySymbol
      <3>2. CASE nodes # <<>>
        <4>1. PICK x : /\ hpc' = "done" /\ lengths' = [lengths EXCEPT ![x] = 1]
                       /\ lengths = [s \in Symbol |-> 0]
          BY <1>1, <2>2, <2>4, <3>2 DEF OnlySymbol, LengthsStand, Building
        <4>2. PICK fr, lens : fr = Frequencies /\ lens = lengths' /\ Frequencies' = fr
          BY <2>2, SameFrequencies
        <4>3. lens \in [Symbol -> 0 .. 1]
          <5>1. PICK none : none = lengths /\ none = [s \in Symbol |-> 0]
            BY <4>1
          <5>2. lens = [none EXCEPT ![x] = 1]
            BY <4>1, <4>2, <5>1
          <5>3. 0 \in 0 .. 1 /\ 1 \in 0 .. 1
            OBVIOUS
          <5>4. lens = [s \in Symbol |-> IF s = x THEN 1 ELSE 0]
            BY ONLY <5>1, <5>2
          <5> QED
            BY ONLY <5>3, <5>4
        <4>4. LengthsRight("done", lens, fr)
          BY <1>1, <4>1, <4>2, LengthsStandMeansNext
        <4>5. fr \in [Symbol -> Nat] /\ \A s \in Symbol : lens[s] # 0 <=> fr[s] > 0
          BY <1>1, <4>2, <4>4, FrequenciesFacts DEF LengthsRight
        <4>6. Cheapest(lens, fr)
          BY <4>3, <4>5, OneBitCheapest
        <4> QED
          BY <1>4, <2>2, <4>1, <4>2, <4>6
      <3> QED
        BY <3>1, <3>2
    <2>5. CASE assign_lengths
      BY <1>1, <1>4, <2>2, <2>5, AssignCheapest
    <2> QED
      BY <2>1, <2>3, <2>4, <2>5 DEF BuildLengths
  <1>6. CASE CodesBegin
    <2>1. hpc' = "returned"
      BY <1>6 DEF CodesBegin
    <2> QED
      BY <1>3, <2>1
  <1>7. ASSUME ~LengthsStep, ~CodesBegin PROVE LengthsOptimal'
    <2>1. UNCHANGED lenVars
      BY <1>7 DEF Next, Step, CodesStep, WriteBegin, WriteBit, WriteEnd, CheckPayload, TreeBegin,
                  TreeStep, ReadBegin, ReadBit, ReadEnd, HelperFails, Terminated, vars
    <2> QED
      BY <1>2, <2>1
  <1> QED
    BY <1>5, <1>6, <1>7

\* When build_code_lengths is done, just the symbols of the text have codes,
\* the code space is used up unless there is one symbol only, and no other
\* table of lengths that fits the code space makes the text shorter
\* (huff.c:106-195).
THEOREM LengthsAreOptimal == Spec => []LengthsOptimal
  <1> DEFINE Strong == HeapInv /\ ForestInv /\ Thrift /\ LengthsOptimal
  <1>1. Init => Strong
    <2> SUFFICES ASSUME Init PROVE Thrift /\ LengthsOptimal
      BY HeapInvInit, ForestInvInit
    <2>1. nodes = <<>> /\ hpc = "leaf"
      BY DEF Init, LenInit
    <2>2. DOMAIN nodes = {}
      BY <2>1
    <2> QED
      BY <2>1, <2>2 DEF Thrift, Weighs, Thrifty, LengthsOptimal
  <1>2. Strong /\ [Next]_vars => Strong'
    <2> SUFFICES ASSUME HeapInv, ForestInv, Thrift, LengthsOptimal, [Next]_vars PROVE Strong'
      OBVIOUS
    <2>1. HeapInv' /\ ForestInv'
      BY HeapInvStep, ForestInvStep
    <2>2. LenTypes
      BY HeapInvMeans
    <2>3. Stage
      BY <2>2, ForestInvMeans
    <2>4. Thrift'
      BY <2>3, ThriftStep
    <2>5. LengthsOptimal'
      BY <2>1, OptimalStep
    <2> QED
      BY <2>1, <2>4, <2>5
  <1>3. Strong => LengthsOptimal
    OBVIOUS
  <1> QED
    BY <1>1, <1>2, <1>3, PTL DEF Spec

----------------------------------------------------------------------------
(* Codes as numbers.                                                       *)

Weight(bits, k) == IF bits[k] = 1 THEN Share(k) ELSE 0

ValueBody(bits, v) ==
    [k \in 0 .. Len(bits) |->
        IF k = 0 THEN 0 ELSE v[k - 1] + (IF bits[k] = 1 THEN Share(k) ELSE 0)]

\* The values of the beginnings of a code.
Values(bits, v) ==
    /\ v \in [0 .. Len(bits) -> Nat] /\ v[0] = 0
    /\ \A k \in 1 .. Len(bits) : v[k] = v[k - 1] + Weight(bits, k)

LEMMA ValueFacts ==
  ASSUME NEW bits \in Seq(Bit), Len(bits) <= MaxCodeBits
  PROVE  \E v : Values(bits, v) /\ Value(bits) = v[Len(bits)]
  <1> DEFINE N == Len(bits)
             g == [k \in 1 .. N |-> Weight(bits, k)]
  <1>1. N \in Nat /\ \A k \in 1 .. N : g[k] \in Nat /\ g[k] = Weight(bits, k)
    <2>1. N \in Nat
      OBVIOUS
    <2>2. ASSUME NEW k \in 1 .. N PROVE Weight(bits, k) \in Nat
      <3>1. k \in 0 .. MaxCodeBits
        BY MaxBitsNat, <2>1
      <3> QED
        BY <3>1, ShareFacts DEF Weight
    <2> QED
      BY <2>1, <2>2
  <1> HIDE DEF g
  <1>2. PICK t \in [0 .. N -> Nat] :
           t[0] = 0 /\ \A k \in 1 .. N : t[k] = t[k - 1] + g[k]
    <2> HIDE DEF N
    <2> QED
      BY <1>1, SumExists
  <1>3. t = ValueBody(bits, t)
    <2>1. \A n \in 0 .. N : t[n] = IF n = 0 THEN 0
                                   ELSE t[n - 1] + (IF bits[n] = 1 THEN Share(n) ELSE 0)
      BY <1>1, <1>2 DEF Weight
    <2> QED
      BY <2>1 DEF ValueBody
  <1>4. PICK s : s = ValueBody(bits, s) /\ Value(bits) = s[N]
    <2> DEFINE c == CHOOSE s : s = ValueBody(bits, s)
    <2>1. c = ValueBody(bits, c)
      BY <1>3
    <2>2. Value(bits) = c[N]
      BY DEF Value, ValueBody
    <2> HIDE DEF c
    <2> QED
      BY <2>1, <2>2
  <1>5. s[0] = 0 /\ DOMAIN s = 0 .. N /\ s = [n \in 0 .. N |-> s[n]]
    BY <1>1, <1>4 DEF ValueBody
  <1>6. ASSUME NEW n \in 1 .. N PROVE s[n] = s[n - 1] + Weight(bits, n)
    <2>1. n \in 0 .. N /\ n # 0
      BY <1>1
    <2> QED
      BY <1>4, <2>1 DEF ValueBody, Weight
  <1>7. \A n \in Nat : n <= N => s[n] \in Nat
    <2> DEFINE T == {n \in Nat : n <= N => s[n] \in Nat}
    <2>1. 0 \in T
      BY <1>5
    <2>2. ASSUME NEW n \in T PROVE n + 1 \in T
      <3> SUFFICES ASSUME n + 1 <= N PROVE s[n + 1] \in Nat
        OBVIOUS
      <3>1. n + 1 \in 1 .. N /\ (n + 1) - 1 = n /\ s[n] \in Nat
        BY <1>1
      <3>2. Weight(bits, n + 1) \in Nat
        BY <1>1, <3>1
      <3>3. s[n + 1] = s[(n + 1) - 1] + Weight(bits, n + 1)
        BY <1>6, <3>1
      <3> QED
        BY <3>1, <3>2, <3>3
    <2>3. T = Nat
      BY <2>1, <2>2, NatInductionSet
    <2> QED
      BY <2>3
  <1>8. s \in [0 .. N -> Nat]
    BY <1>5, <1>7
  <1> QED
    BY <1>4, <1>5, <1>6, <1>8 DEF Values

\* The room above a code: none is left above the one of ones only.
LEMMA ValueBound ==
  ASSUME NEW bits \in Seq(Bit), Len(bits) \in 1 .. MaxCodeBits
  PROVE  /\ Value(bits) \in Nat
         /\ Value(bits) + Share(Len(bits)) <= pow2[MaxCodeBits]
         /\ Value(bits) + Share(Len(bits)) = pow2[MaxCodeBits]
               <=> \A k \in 1 .. Len(bits) : bits[k] = 1
  <1> DEFINE N == Len(bits)
             Full == pow2[MaxCodeBits]
  <1>1. PICK v : Values(bits, v) /\ Value(bits) = v[N]
    BY ValueFacts, MaxBitsNat
  <1>2. N \in Nat /\ N >= 1 /\ N <= MaxCodeBits /\ Full \in Nat
    BY ShareFacts, MaxBitsNat
  <1> DEFINE P(k) == /\ v[k] \in Nat /\ v[k] + Share(k) <= Full
                     /\ v[k] + Share(k) = Full <=> \A i \in 1 .. k : bits[i] = 1
             T == {k \in Nat : k + 1 <= N => P(k + 1)}
  <1>3. 0 \in T
    <2>1. 0 + 1 = 1 /\ (1 - 1) = 0 /\ 1 \in 1 .. N /\ 1 \in 1 .. MaxCodeBits
      BY <1>2, MaxBitsNat
    <2>2. v[1] = v[1 - 1] + Weight(bits, 1) /\ v[0] = 0
      BY <1>1, <2>1 DEF Values
    <2>3. v[1] = IF bits[1] = 1 THEN Share(1) ELSE 0
      BY <2>1, <2>2, ShareFacts DEF Weight
    <2>4. Full = 2 * Share(1) /\ Share(1) \in Nat /\ Share(1) >= 1
      BY <2>1, ShareFacts
    <2>5. (\A i \in 1 .. 1 : bits[i] = 1) <=> bits[1] = 1
      OBVIOUS
    <2> HIDE DEF Full
    <2>6. P(1)
      BY <2>3, <2>4, <2>5
    <2> QED
      BY <2>1, <2>6
  <1>4. ASSUME NEW n \in T PROVE n + 1 \in T
    <2> SUFFICES ASSUME n + 1 + 1 <= N PROVE P(n + 1 + 1)
      OBVIOUS
    <2>1. PICK k \in Nat : k = n + 1
      OBVIOUS
    <2>2. k \in 1 .. MaxCodeBits - 1 /\ k + 1 \in 1 .. N /\ (k + 1) - 1 = k
          /\ k + 1 \in 1 .. MaxCodeBits /\ k <= N
      BY <1>2, <2>1, MaxBitsNat
    <2>3. P(k)
      BY <1>2, <2>1
    <2>4. v[k + 1] = v[k] + (IF bits[k + 1] = 1 THEN Share(k + 1) ELSE 0)
      BY <1>1, <2>2 DEF Values, Weight
    <2>5. Share(k) = 2 * Share(k + 1) /\ Share(k + 1) \in Nat /\ Share(k + 1) >= 1
      BY <2>2, ShareFacts
    <2>6. (\A i \in 1 .. k + 1 : bits[i] = 1)
             <=> (\A i \in 1 .. k : bits[i] = 1) /\ bits[k + 1] = 1
      <3>1. \A i \in Nat : i \in 1 .. k + 1 <=> (i \in 1 .. k \/ i = k + 1)
        OBVIOUS
      <3> QED
        BY <3>1
    <2> DEFINE Ones == \A i \in 1 .. k : bits[i] = 1
               More == \A i \in 1 .. k + 1 : bits[i] = 1
    <2>7. /\ v[k] \in Nat /\ v[k] + Share(k) <= Full
          /\ v[k] + Share(k) = Full <=> Ones
      BY <2>3
    <2>8. More <=> Ones /\ bits[k + 1] = 1
      BY <2>6
    <2> HIDE DEF Full, Ones, More, P
    <2>9. /\ v[k + 1] \in Nat /\ v[k + 1] + Share(k + 1) <= Full
          /\ v[k + 1] + Share(k + 1) = Full <=> More
      <3>1. CASE bits[k + 1] = 1
        <4>1. v[k + 1] + Share(k + 1) = v[k] + Share(k) /\ v[k + 1] \in Nat
          BY <2>4, <2>5, <2>7, <3>1
        <4> QED
          BY <2>7, <2>8, <3>1, <4>1
      <3>2. CASE bits[k + 1] # 1
        <4>1. v[k + 1] = v[k] /\ v[k + 1] + Share(k + 1) < v[k] + Share(k)
          BY <2>4, <2>5, <2>7, <3>2
        <4> QED
          BY <1>2, <2>5, <2>7, <2>8, <3>2, <4>1
      <3> QED
        BY <3>1, <3>2
    <2> QED
      BY <2>1, <2>9 DEF P, More
  <1>5. T = Nat
    <2> HIDE DEF T
    <2>1. T \subseteq Nat
      BY DEF T
    <2> QED
      BY <1>3, <1>4, <2>1, NatInductionSet
  <1>6. P(N)
    <2>1. N - 1 \in T /\ (N - 1) + 1 = N
      <3>1. N - 1 \in Nat /\ (N - 1) + 1 = N
        BY <1>2
      <3> HIDE DEF T
      <3> QED
        BY <1>5, <3>1
    <2> QED
      BY <1>2, <2>1
  <1> QED
    BY <1>1, <1>6

\* A nonempty set of naturals that is bounded has a greatest element.
LEMMA GreatestNat ==
  ASSUME NEW N \in Nat, NEW S \in SUBSET (1 .. N), S # {}
  PROVE  Max(S) \in S /\ \A y \in S : Max(S) >= y
  <1> DEFINE T == {k \in Nat : N - k \in S}
  <1>1. T # {} /\ T \subseteq Nat
    <2>1. PICK y \in S : TRUE
      OBVIOUS
    <2>2. N - y \in Nat /\ N - (N - y) = y
      OBVIOUS
    <2> QED
      BY <2>1, <2>2
  <1>2. PICK k \in T : \A j \in T : k <= j
    <2> HIDE DEF T
    <2> QED
      BY <1>1, LeastNat
  <1>3. ASSUME NEW y \in S PROVE N - k >= y
    <2>1. N - y \in T
      <3>1. N - y \in Nat /\ N - (N - y) = y
        OBVIOUS
      <3> QED
        BY <3>1
    <2>2. k <= N - y /\ k \in Nat
      BY <1>2, <2>1
    <2> QED
      BY <2>2
  <1>4. \E x \in S : \A y \in S : x >= y
    BY <1>3
  <1> QED
    BY <1>4 DEF Max

\* The code that follows a code, and where they part.
Follower(c, n) == Padded(Incremented(c), n)

Parting(c, d, z) ==
    /\ z \in DOMAIN c \cap DOMAIN d
    /\ c[z] = 0 /\ d[z] = 1
    /\ \A k \in 1 .. z - 1 : d[k] = c[k]
    /\ \A k \in z + 1 .. Len(c) : c[k] = 1
    /\ \A k \in z + 1 .. Len(d) : d[k] = 0

LEMMA FollowerFacts ==
  ASSUME NEW c \in Seq(Bit), CanIncrement(c), NEW n \in Nat, Len(c) <= n
  PROVE  /\ Follower(c, n) \in Seq(Bit) /\ Len(Follower(c, n)) = n
         /\ \E z \in 1 .. Len(c) : Parting(c, Follower(c, n), z)
  <1> DEFINE Z == {i \in DOMAIN c : c[i] = 0}
  <1>1. Len(c) \in Nat /\ DOMAIN c = 1 .. Len(c) /\ \A i \in 1 .. Len(c) : c[i] \in {0, 1}
    BY DEF Bit
  <1>2. Z # {} /\ Z \in SUBSET (1 .. Len(c))
    BY <1>1 DEF CanIncrement, ToSet
  <1>3. PICK z : z = Max(Z)
    OBVIOUS
  <1>4. z \in Z /\ \A y \in Z : z >= y
    <2> HIDE DEF Z
    <2> QED
      BY <1>1, <1>2, <1>3, GreatestNat
  <1>5. Incremented(c) = [i \in 1 .. Len(c) |-> IF i < z THEN c[i] ELSE IF i = z THEN 1 ELSE 0]
    BY <1>1, <1>3 DEF Incremented
  <1> DEFINE e == Incremented(c)
             d == Follower(c, n)
  <1>6. /\ DOMAIN e = 1 .. Len(c) /\ Len(e) = Len(c)
        /\ \A i \in 1 .. Len(c) : e[i] = IF i < z THEN c[i] ELSE IF i = z THEN 1 ELSE 0
    BY <1>1, <1>5
  <1> HIDE DEF e
  <1>7. d = [i \in 1 .. n |-> IF i <= Len(c) THEN e[i] ELSE 0]
    BY <1>6 DEF Follower, Padded, e
  <1>8. /\ DOMAIN d = 1 .. n
        /\ \A i \in 1 .. n : d[i] = IF i < z THEN c[i] ELSE IF i = z THEN 1 ELSE 0
    <2> HIDE DEF d
    <2>1. \A i \in 1 .. n : d[i] = IF i <= Len(c) THEN e[i] ELSE 0
      BY <1>7
    <2>2. z \in 1 .. Len(c)
      BY <1>1, <1>4
    <2> QED
      BY <1>1, <1>6, <1>7, <2>1, <2>2
  <1>9. d \in [1 .. n -> Bit]
    <2>1. \A i \in 1 .. n : d[i] \in Bit
      <3> HIDE DEF d
      <3> QED
        BY <1>1, <1>4, <1>8 DEF Bit
    <2> QED
      BY <1>7, <2>1
  <1> HIDE DEF d
  <1>10. d \in Seq(Bit) /\ Len(d) = n
    BY <1>9
  <1>11. z \in 1 .. Len(c) /\ z \in 1 .. n /\ c[z] = 0
    BY <1>1, <1>4
  <1>12. \A k \in z + 1 .. Len(c) : c[k] = 1
    <2> SUFFICES ASSUME NEW k \in z + 1 .. Len(c) PROVE c[k] = 1
      OBVIOUS
    <2>1. k \in 1 .. Len(c) /\ ~(z >= k)
      BY <1>1, <1>11
    <2> QED
      BY <1>1, <1>4, <2>1
  <1>13. Parting(c, d, z)
    BY <1>1, <1>8, <1>10, <1>11, <1>12 DEF Parting
  <1> QED
    BY <1>10, <1>11, <1>13 DEF d

\* The next code begins where the last one ends.
LEMMA FollowerValue ==
  ASSUME NEW c \in Seq(Bit), CanIncrement(c), NEW n \in 1 .. MaxCodeBits, Len(c) <= n
  PROVE  Value(Follower(c, n)) = Value(c) + Share(Len(c))
  <1>1. PICK d : d = Follower(c, n)
    OBVIOUS
  <1>2. d \in Seq(Bit) /\ Len(d) = n /\ n \in Nat /\ n <= MaxCodeBits
    BY <1>1, FollowerFacts, MaxBitsNat
  <1>3. PICK z \in 1 .. Len(c) : Parting(c, d, z)
    BY <1>1, <1>2, FollowerFacts
  <1>4. PICK v : Values(c, v) /\ Value(c) = v[Len(c)]
    BY <1>2, ValueFacts, MaxBitsNat
  <1>5. PICK w : Values(d, w) /\ Value(d) = w[n]
    BY <1>2, ValueFacts
  <1> DEFINE L == Len(c)
             W(k) == IF k < z THEN v[k]
                     ELSE IF k <= L THEN v[k] + Share(k)
                     ELSE v[L] + Share(L)
             T == {k \in Nat : k <= n => w[k] = W(k)}
  <1>6. L \in Nat /\ z \in Nat /\ z >= 1 /\ z <= L
    OBVIOUS
  <1>7. 0 \in T
    BY <1>4, <1>5, <1>6 DEF Values
  <1>8. ASSUME NEW k \in T PROVE k + 1 \in T
    <2> SUFFICES ASSUME k + 1 <= n PROVE w[k + 1] = W(k + 1)
      OBVIOUS
    <2>1. k \in Nat /\ k + 1 \in 1 .. n /\ (k + 1) - 1 = k /\ w[k] = W(k)
          /\ k + 1 \in 1 .. MaxCodeBits
      <3>1. k \in Nat /\ (k <= n => w[k] = W(k))
        OBVIOUS
      <3> HIDE DEF T, W
      <3> QED
        BY <1>2, <3>1, MaxBitsNat
    <2>2. w[k + 1] = w[k] + (IF d[k + 1] = 1 THEN Share(k + 1) ELSE 0)
      BY <1>2, <1>5, <2>1 DEF Values, Weight
    <2>3. k + 1 <= L => v[k + 1] = v[k] + (IF c[k + 1] = 1 THEN Share(k + 1) ELSE 0)
                        /\ v[k] \in Nat
      BY <1>4, <1>6, <2>1 DEF Values, Weight
    <2>4. Share(k + 1) \in Nat
      BY <2>1, ShareFacts
    <2>5. CASE k + 1 < z
      <3>1. d[k + 1] = c[k + 1]
        BY <1>3, <1>6, <2>1, <2>5 DEF Parting
      <3> QED
        BY <1>6, <2>1, <2>2, <2>3, <2>5, <3>1
    <2>6. CASE k + 1 = z
      <3>1. d[k + 1] = 1 /\ c[k + 1] = 0
        BY <1>3, <2>6 DEF Parting
      <3> QED
        BY <1>6, <2>1, <2>2, <2>3, <2>4, <2>6, <3>1
    <2>7. CASE k >= z /\ k + 1 <= L
      <3>1. d[k + 1] = 0 /\ c[k + 1] = 1
        <4>1. k + 1 \in z + 1 .. Len(d) /\ k + 1 \in z + 1 .. Len(c)
          BY <1>2, <1>6, <2>1, <2>7
        <4> QED
          BY <1>3, <4>1 DEF Parting
      <3>2. Share(k) = 2 * Share(k + 1)
        <4>1. k \in 1 .. MaxCodeBits - 1
          BY <1>6, <2>1, <2>7, MaxBitsNat
        <4> QED
          BY <4>1, ShareFacts
      <3>3. w[k + 1] = v[k] + Share(k) /\ v[k + 1] = v[k] + Share(k + 1) /\ v[k] \in Nat
        <4>1. w[k] = v[k] + Share(k)
          BY <1>6, <2>1, <2>7
        <4>2. v[k] + Share(k) \in Nat
          BY <2>3, <2>4, <2>7, <3>2
        <4> QED
          BY <2>2, <2>3, <2>7, <3>1, <4>1, <4>2
      <3>4. w[k + 1] = v[k + 1] + Share(k + 1)
        <4> HIDE DEF W, T, L
        <4> QED
          BY <2>4, <3>2, <3>3
      <3> QED
        BY <1>6, <2>1, <2>7, <3>4
    <2>8. CASE k >= z /\ k >= L
      <3>1. d[k + 1] = 0
        BY <1>2, <1>3, <1>6, <2>1, <2>8 DEF Parting
      <3>2. w[k] = v[L] + Share(L)
        <4>1. k = L \/ k > L
          BY <1>6, <2>1, <2>8
        <4> QED
          BY <1>6, <2>1, <2>8, <4>1
      <3>3. v[L] + Share(L) \in Nat
        <4>1. v[L] \in Nat
          BY <1>4, <1>6 DEF Values
        <4>2. L \in 0 .. MaxCodeBits
          BY <1>2, <1>6, MaxBitsNat
        <4>3. Share(L) \in Nat
          BY <4>2, ShareFacts
        <4> QED
          BY <4>1, <4>3
      <3>4. ~(k + 1 < z) /\ ~(k + 1 <= L)
        BY <1>6, <2>1, <2>8
      <3> QED
        BY <2>2, <3>1, <3>2, <3>3, <3>4
    <2> QED
      BY <1>6, <2>1, <2>5, <2>6, <2>7, <2>8
  <1>9. T = Nat
    <2> HIDE DEF T
    <2>1. T \subseteq Nat
      BY DEF T
    <2> QED
      BY <1>7, <1>8, <2>1, NatInductionSet
  <1>10. w[n] = W(n)
    <2>1. n \in T
      <3> HIDE DEF T
      <3> QED
        BY <1>2, <1>9
    <2> QED
      BY <1>2, <2>1
  <1>11. W(n) = v[L] + Share(L)
    BY <1>2, <1>6
  <1> QED
    BY <1>1, <1>4, <1>5, <1>10, <1>11

\* The first code is zero.
LEMMA ZeroValue ==
  ASSUME NEW n \in 1 .. MaxCodeBits
  PROVE  /\ Padded(<<>>, n) \in Seq(Bit) /\ Len(Padded(<<>>, n)) = n
         /\ \A i \in 1 .. n : Padded(<<>>, n)[i] = 0
         /\ Value(Padded(<<>>, n)) = 0
  <1>1. PICK d : d = Padded(<<>>, n)
    OBVIOUS
  <1>2. n \in Nat /\ n >= 1 /\ n <= MaxCodeBits
    BY MaxBitsNat
  <1>3. d = [i \in 1 .. n |-> 0]
    <2>1. \A i \in 1 .. n : ~(i <= Len(<<>>))
      BY <1>2
    <2> QED
      BY <1>1, <2>1 DEF Padded
  <1>4. d \in Seq(Bit) /\ Len(d) = n
    BY <1>2, <1>3 DEF Bit
  <1>5. PICK v : Values(d, v) /\ Value(d) = v[n]
    BY <1>2, <1>4, ValueFacts
  <1> DEFINE T == {k \in Nat : k <= n => v[k] = 0}
  <1>6. 0 \in T
    BY <1>5 DEF Values
  <1>7. ASSUME NEW k \in T PROVE k + 1 \in T
    <2> SUFFICES ASSUME k + 1 <= n PROVE v[k + 1] = 0
      OBVIOUS
    <2>1. k + 1 \in 1 .. n /\ (k + 1) - 1 = k /\ v[k] = 0
      BY <1>2
    <2> QED
      BY <1>3, <1>4, <1>5, <2>1 DEF Values, Weight
  <1>8. T = Nat
    <2> HIDE DEF T
    <2>1. T \subseteq Nat
      BY DEF T
    <2> QED
      BY <1>6, <1>7, <2>1, NatInductionSet
  <1>9. v[n] = 0
    <2>1. n \in T
      <3> HIDE DEF T
      <3> QED
        BY <1>2, <1>8
    <2> QED
      BY <1>2, <2>1
  <1> QED
    BY <1>1, <1>3, <1>4, <1>5, <1>9

LEMMA PartingBranches ==
  ASSUME NEW c \in Seq(Bit), NEW d \in Seq(Bit), NEW z \in 1 .. Len(c), Parting(c, d, z)
  PROVE  /\ BranchesBefore(c, d)
         /\ \A a \in Seq(Bit) : BranchesBefore(a, c) => BranchesBefore(a, d)
  <1>1. z \in Nat /\ z \in DOMAIN c /\ z \in DOMAIN d /\ c[z] = 0 /\ d[z] = 1
        /\ \A k \in 1 .. z - 1 : d[k] = c[k]
    BY DEF Parting
  <1>2. DOMAIN d = 1 .. Len(d) /\ Len(d) \in Nat
    OBVIOUS
  <1>3. BranchesBefore(c, d)
    BY <1>1 DEF BranchesBefore
  <1>4. ASSUME NEW a \in Seq(Bit), BranchesBefore(a, c) PROVE BranchesBefore(a, d)
    <2>1. PICK e \in DOMAIN a \cap DOMAIN c :
             (\A k \in 1 .. e - 1 : a[k] = c[k]) /\ a[e] = 0 /\ c[e] = 1
      BY <1>4 DEF BranchesBefore
    <2>2. e \in Nat /\ e # z /\ e >= 1 /\ DOMAIN a = 1 .. Len(a) /\ Len(a) \in Nat
      BY <1>1, <2>1
    <2>3. CASE e < z
      <3>1. e \in 1 .. z - 1 /\ e \in DOMAIN d
        BY <1>1, <1>2, <2>2, <2>3
      <3>2. \A k \in 1 .. e - 1 : a[k] = d[k]
        <4> SUFFICES ASSUME NEW k \in 1 .. e - 1 PROVE a[k] = d[k]
          OBVIOUS
        <4>1. k \in 1 .. z - 1
          BY <1>1, <2>2, <2>3
        <4> QED
          BY <1>1, <2>1, <4>1
      <3>3. d[e] = 1
        BY <1>1, <2>1, <3>1
      <3> QED
        BY <2>1, <3>1, <3>2, <3>3 DEF BranchesBefore
    <2>4. CASE e > z
      <3>1. z \in 1 .. e - 1 /\ z \in DOMAIN a
        BY <1>1, <2>1, <2>2, <2>4
      <3>2. a[z] = 0
        BY <1>1, <2>1, <3>1
      <3>3. \A k \in 1 .. z - 1 : a[k] = d[k]
        <4> SUFFICES ASSUME NEW k \in 1 .. z - 1 PROVE a[k] = d[k]
          OBVIOUS
        <4>1. k \in 1 .. e - 1
          BY <1>1, <2>2, <2>4
        <4> QED
          BY <1>1, <2>1, <4>1
      <3> QED
        BY <1>1, <3>1, <3>2, <3>3 DEF BranchesBefore
    <2> QED
      BY <1>1, <2>2, <2>3, <2>4
  <1> QED
    BY <1>3, <1>4

\* Codes that branch are apart: neither is the beginning of the other.
LEMMA BranchesApart ==
  ASSUME NEW a \in Seq(Bit), NEW b \in Seq(Bit), BranchesBefore(a, b)
  PROVE  ~IsPrefixOf(a, b) /\ ~IsPrefixOf(b, a)
  <1>1. PICK d \in DOMAIN a \cap DOMAIN b : a[d] = 0 /\ b[d] = 1
    BY DEF BranchesBefore
  <1>2. d \in 1 .. Len(a) /\ d \in 1 .. Len(b) /\ Len(a) \in Nat /\ Len(b) \in Nat
    BY <1>1
  <1>3. SubSeq(b, 1, Len(a)) = a /\ Len(a) <= Len(b) => FALSE
    BY <1>1, <1>2
  <1>4. SubSeq(a, 1, Len(b)) = b /\ Len(b) <= Len(a) => FALSE
    BY <1>1, <1>2
  <1> QED
    BY <1>3, <1>4 DEF IsPrefixOf

----------------------------------------------------------------------------
(* The order of the symbols.                                               *)

Coded(arg) == {s \in Symbol : arg[s] # 0}

Ahead(arg, s) == {t \in Coded(arg) : Earlier(arg, t, s)}

LEMMA CodedFinite ==
  ASSUME NEW arg
  PROVE  IsFiniteSet(Coded(arg)) /\ Cardinality(Coded(arg)) \in Nat
  <1>1. IsFiniteSet(Symbol)
    BY SymbolsNat, FS_Interval DEF Symbol
  <1>2. Coded(arg) \in SUBSET Symbol
    BY DEF Coded
  <1> QED
    BY <1>1, <1>2, FS_Subset, FS_CardinalityType

\* A symbol has more symbols ahead of it than each of these.
LEMMA AheadGrows ==
  ASSUME NEW arg \in [Symbol -> Nat], NEW s \in Coded(arg), NEW t \in Coded(arg),
         Earlier(arg, s, t)
  PROVE  Cardinality(Ahead(arg, s)) < Cardinality(Ahead(arg, t))
  <1>1. /\ arg[s] \in Nat /\ arg[t] \in Nat /\ s \in Nat /\ t \in Nat
        /\ \A u \in Coded(arg) : u \in Nat /\ arg[u] \in Nat
    BY SymbolIsInt DEF Coded
  <1>2. Ahead(arg, s) \in SUBSET Coded(arg) /\ Ahead(arg, t) \in SUBSET Coded(arg)
    BY DEF Ahead
  <1>3. IsFiniteSet(Ahead(arg, s)) /\ IsFiniteSet(Ahead(arg, t))
    BY <1>2, CodedFinite, FS_Subset
  <1>4. s \notin Ahead(arg, s)
    BY <1>1 DEF Ahead, Earlier
  <1>5. Ahead(arg, s) \cup {s} \in SUBSET Ahead(arg, t)
    <2>1. ASSUME NEW u \in Ahead(arg, s) PROVE u \in Ahead(arg, t)
      BY <1>1, <2>1 DEF Ahead, Earlier
    <2> QED
      BY <2>1 DEF Ahead
  <1>6. /\ IsFiniteSet(Ahead(arg, s) \cup {s})
        /\ Cardinality(Ahead(arg, s) \cup {s}) = Cardinality(Ahead(arg, s)) + 1
    BY <1>3, <1>4, FS_AddElement
  <1>7. Cardinality(Ahead(arg, s) \cup {s}) <= Cardinality(Ahead(arg, t))
    BY <1>3, <1>5, FS_Subset
  <1>8. Cardinality(Ahead(arg, s)) \in Nat /\ Cardinality(Ahead(arg, t)) \in Nat
    BY <1>3, FS_CardinalityType
  <1> QED
    BY <1>6, <1>7, <1>8

SortsUp(arg, q) ==
    /\ q \in [1 .. Cardinality(Coded(arg)) -> Coded(arg)]
    /\ \A i, j \in DOMAIN q : i < j => Earlier(arg, q[i], q[j])

\* There is such an order: the place of a symbol is one behind those ahead.
LEMMA SortedExists ==
  ASSUME NEW arg \in [Symbol -> Nat]
  PROVE  \E q : SortsUp(arg, q)
  <1> DEFINE C == Coded(arg)
             n == Cardinality(C)
             r == [s \in C |-> Cardinality(Ahead(arg, s)) + 1]
  <1>1. IsFiniteSet(C) /\ n \in Nat
    BY CodedFinite
  <1>2. \A s \in C : s \in Nat /\ arg[s] \in Nat
    BY SymbolIsInt DEF Coded
  <1>3. ASSUME NEW s \in C PROVE r[s] \in 1 .. n
    <2>1. Ahead(arg, s) \in SUBSET (C \ {s})
      BY <1>2 DEF Ahead, Earlier
    <2>2. IsFiniteSet(C \ {s}) /\ Cardinality(C \ {s}) = n - 1
      BY <1>1, FS_RemoveElement
    <2>3. IsFiniteSet(Ahead(arg, s)) /\ Cardinality(Ahead(arg, s)) <= n - 1
      BY <2>1, <2>2, FS_Subset
    <2>4. Cardinality(Ahead(arg, s)) \in Nat
      BY <2>3, FS_CardinalityType
    <2> HIDE DEF n
    <2>5. Cardinality(Ahead(arg, s)) + 1 \in 1 .. n
      BY <1>1, <2>3, <2>4
    <2> QED
      BY <2>5
  <1>4. ASSUME NEW s \in C, NEW t \in C, Earlier(arg, s, t) PROVE r[s] < r[t]
    <2>1. Cardinality(Ahead(arg, s)) < Cardinality(Ahead(arg, t))
      BY <1>4, AheadGrows
    <2>2. Cardinality(Ahead(arg, s)) \in Int /\ Cardinality(Ahead(arg, t)) \in Int
      <3>1. Ahead(arg, s) \in SUBSET C /\ Ahead(arg, t) \in SUBSET C
        BY DEF Ahead
      <3> QED
        BY <1>1, <3>1, FS_Subset, FS_CardinalityType
    <2> QED
      BY <2>1, <2>2
  <1>5. \A s, t \in C : s = t \/ Earlier(arg, s, t) \/ Earlier(arg, t, s)
    BY <1>2 DEF Earlier
  <1>6. r \in [C -> 1 .. n]
    BY <1>3
  <1> HIDE DEF r
  <1>7. \A s, t \in C : r[s] = r[t] => s = t
    <2> SUFFICES ASSUME NEW s \in C, NEW t \in C, r[s] = r[t] PROVE s = t
      OBVIOUS
    <2>1. r[s] \in Int /\ r[t] \in Int
      BY <1>1, <1>6
    <2> QED
      BY <1>4, <1>5, <2>1
  <1>8. r \in Injection(C, 1 .. n)
    BY <1>6, <1>7 DEF Injection, IsInjective
  <1>9. IsFiniteSet(1 .. n) /\ Cardinality(1 .. n) = n
    BY <1>1, FS_Interval
  <1>10. r \in Surjection(C, 1 .. n)
    BY <1>1, <1>8, <1>9, FS_Injection
  <1>11. \A k \in 1 .. n : \E s \in C : r[s] = k
    BY <1>10 DEF Surjection
  <1> DEFINE q == [k \in 1 .. n |-> CHOOSE s \in C : r[s] = k]
  <1>12. \A k \in 1 .. n : q[k] \in C /\ r[q[k]] = k
    BY <1>11
  <1>13. q \in [1 .. n -> C]
    BY <1>12
  <1> HIDE DEF q
  <1>14. ASSUME NEW i \in 1 .. n, NEW j \in 1 .. n, i < j
         PROVE  Earlier(arg, q[i], q[j])
    <2>1. q[i] \in C /\ q[j] \in C /\ r[q[i]] = i /\ r[q[j]] = j
      BY <1>12
    <2>2. ~(j < i) /\ i # j
      BY <1>14
    <2> QED
      BY <1>4, <1>5, <2>1, <2>2
  <1>15. SortsUp(arg, q)
    BY <1>13, <1>14 DEF SortsUp
  <1> QED
    BY <1>15

LEMMA SortedFacts ==
  ASSUME NEW arg \in [Symbol -> Nat], NEW q, q = Sorted(arg)
  PROVE  /\ q \in Seq(Symbol) /\ ToSet(q) = Coded(arg)
         /\ \A i, j \in DOMAIN q : i < j => Earlier(arg, q[i], q[j])
  <1> DEFINE C == Coded(arg)
             n == Cardinality(C)
  <1>1. q = CHOOSE f \in [1 .. n -> C] :
                \A i, j \in DOMAIN f : i < j => Earlier(arg, f[i], f[j])
    BY DEF Sorted, Coded
  <1>2. SortsUp(arg, q)
    <2>1. \E f \in [1 .. n -> C] :
             \A i, j \in DOMAIN f : i < j => Earlier(arg, f[i], f[j])
      BY SortedExists DEF SortsUp
    <2> QED
      BY <1>1, <2>1 DEF SortsUp
  <1>3. IsFiniteSet(C) /\ n \in Nat
    BY CodedFinite
  <1>4. /\ q \in [1 .. n -> C]
        /\ \A i, j \in 1 .. n : i < j => Earlier(arg, q[i], q[j])
    BY <1>2 DEF SortsUp
  <1> HIDE DEF n
  <1>5. C \subseteq Symbol /\ \A s \in C : s \in Nat /\ arg[s] \in Nat
    BY SymbolIsInt DEF Coded
  <1> HIDE DEF C
  <1>6. q \in [1 .. n -> Symbol]
    BY <1>4, <1>5
  <1>7. q \in Seq(Symbol)
    BY <1>3, <1>6
  <1>8. \A i, j \in 1 .. n : q[i] = q[j] => i = j
    <2> SUFFICES ASSUME NEW i \in 1 .. n, NEW j \in 1 .. n, i < j PROVE q[i] # q[j]
      BY <1>3
    <2>1. Earlier(arg, q[i], q[j]) /\ q[i] \in C
      BY <1>4
    <2> QED
      BY <1>5, <2>1 DEF Earlier
  <1>9. q \in Injection(1 .. n, C)
    BY <1>4, <1>8 DEF Injection, IsInjective
  <1>10. IsFiniteSet(1 .. n) /\ Cardinality(1 .. n) = Cardinality(C)
    <2>1. Cardinality(1 .. n) = n /\ IsFiniteSet(1 .. n)
      BY <1>3, FS_Interval
    <2> QED
      BY <2>1 DEF n
  <1>11. q \in Surjection(1 .. n, C)
    BY <1>3, <1>9, <1>10, FS_Injection
  <1>12. ToSet(q) = C
    BY <1>4, <1>11 DEF Surjection, ToSet
  <1> QED
    BY <1>2, <1>7, <1>12 DEF C, SortsUp

----------------------------------------------------------------------------
(* build_canonical_codes.                                                  *)

\* What the loop of build_canonical_codes keeps, of its variables.
Given(arg, q, n, cur, cs) ==
    /\ arg \in [Symbol -> 0 .. MaxCodeBits]
    /\ q \in Seq(Symbol) /\ ToSet(q) = Coded(arg)
    /\ \A i, j \in DOMAIN q : i < j => Earlier(arg, q[i], q[j])
    /\ n \in 0 .. Len(q)
    /\ cs \in [Symbol -> Seq(Bit)]
    /\ \A s \in Symbol :
          Len(cs[s]) = IF \E i \in 1 .. n : q[i] = s THEN arg[s] ELSE 0
    /\ n > 0 => cur = cs[q[n]]
    /\ \A i, j \in 1 .. n : i < j => BranchesBefore(cs[q[i]], cs[q[j]])
    /\ n > 0 => Value(cur) + Share(Len(cur)) = Kraft([s \in Symbol |-> Len(cs[s])])

LEMMA CodesInvMeans ==
  CodesInv <=> /\ cpc \in {"idle", "code", "ok", "fail"}
               /\ cpc = "code" => order # <<>>
               /\ Given(table, order, coded, current, codes)
               /\ CodesFitTheTable
  BY DEF CodesInv, CodeTypes, OrderIsSorted, CodesGiven, CodesAscend, CodesFillUp, Given, Coded

LEMMA CodesInvMeansNext ==
  CodesInv' <=> /\ cpc' \in {"idle", "code", "ok", "fail"}
                /\ cpc' = "code" => order' # <<>>
                /\ Given(table', order', coded', current', codes')
                /\ CodesFitTheTable'
  BY DEF CodesInv, CodeTypes, OrderIsSorted, CodesGiven, CodesAscend, CodesFillUp, Given, Coded

\* Each symbol in use is in its own place.
LEMMA GivenFacts ==
  ASSUME NEW arg, NEW q, NEW n, NEW cur, NEW cs, Given(arg, q, n, cur, cs)
  PROVE  /\ Len(q) \in Nat /\ DOMAIN q = 1 .. Len(q) /\ n \in Nat /\ n <= Len(q)
         /\ \A i \in 1 .. Len(q) : q[i] \in Symbol /\ arg[q[i]] \in 1 .. MaxCodeBits
         /\ \A i, j \in 1 .. Len(q) : i < j => q[i] # q[j] /\ arg[q[i]] <= arg[q[j]]
         /\ \A s \in Symbol : arg[s] # 0 => \E i \in 1 .. Len(q) : q[i] = s
         /\ \A i \in 1 .. n : cs[q[i]] \in Seq(Bit) /\ Len(cs[q[i]]) = arg[q[i]]
  <1>1. Len(q) \in Nat /\ DOMAIN q = 1 .. Len(q) /\ n \in Nat /\ n <= Len(q)
    BY DEF Given
  <1>2. ASSUME NEW i \in 1 .. Len(q)
        PROVE  q[i] \in Symbol /\ arg[q[i]] \in 1 .. MaxCodeBits
    <2>1. q[i] \in Coded(arg)
      BY <1>1 DEF Given, ToSet
    <2> QED
      BY <2>1, MaxBitsNat DEF Given, Coded
  <1>3. ASSUME NEW i \in 1 .. Len(q), NEW j \in 1 .. Len(q), i < j
        PROVE  q[i] # q[j] /\ arg[q[i]] <= arg[q[j]]
    <2>1. Earlier(arg, q[i], q[j])
      BY <1>1, <1>3 DEF Given
    <2>2. arg[q[i]] \in Nat /\ arg[q[j]] \in Nat /\ q[i] \in Nat /\ q[j] \in Nat
      <3>1. arg[q[i]] \in 1 .. MaxCodeBits /\ arg[q[j]] \in 1 .. MaxCodeBits
            /\ q[i] \in Symbol /\ q[j] \in Symbol
        BY <1>2
      <3>2. \A v \in 1 .. MaxCodeBits : v \in Nat
        OBVIOUS
      <3> QED
        BY <3>1, <3>2, SymbolIsInt
    <2> QED
      BY <2>1, <2>2 DEF Earlier
  <1>4. ASSUME NEW s \in Symbol, arg[s] # 0 PROVE \E i \in 1 .. Len(q) : q[i] = s
    BY <1>1, <1>4 DEF Given, ToSet, Coded
  <1>5. ASSUME NEW i \in 1 .. n PROVE cs[q[i]] \in Seq(Bit) /\ Len(cs[q[i]]) = arg[q[i]]
    <2>1. q[i] \in Symbol
      BY <1>1, <1>2
    <2> QED
      BY <2>1 DEF Given
  <1> QED
    BY <1>1, <1>2, <1>3, <1>4, <1>5

Lengths(cs) == [s \in Symbol |-> Len(cs[s])]

LEMMA GivenLengths ==
  ASSUME NEW arg, NEW q, NEW n, NEW cur, NEW cs, Given(arg, q, n, cur, cs)
  PROVE  /\ Lengths(cs) \in [Symbol -> 0 .. MaxCodeBits]
         /\ \A s \in Symbol : Lengths(cs)[s] = 0 \/ Lengths(cs)[s] = arg[s]
  <1>1. ASSUME NEW s \in Symbol
        PROVE  Len(cs[s]) \in 0 .. MaxCodeBits /\ (Len(cs[s]) = 0 \/ Len(cs[s]) = arg[s])
    <2>1. arg[s] \in 0 .. MaxCodeBits /\ 0 \in 0 .. MaxCodeBits
      BY MaxBitsNat DEF Given
    <2> QED
      BY <2>1 DEF Given
  <1> QED
    BY <1>1 DEF Lengths

\* The next symbol gets the code that follows.
LEMMA GiveGiven ==
  ASSUME NEW arg, NEW q, NEW n, NEW cur, NEW cs, Given(arg, q, n, cur, cs), n < Len(q),
         NEW x, x = q[n + 1],
         NEW code \in Seq(Bit), Len(code) = arg[x],
         n > 0 => /\ BranchesBefore(cur, code)
                  /\ \A a \in Seq(Bit) : BranchesBefore(a, cur) => BranchesBefore(a, code)
                  /\ Value(code) = Value(cur) + Share(Len(cur)),
         n = 0 => Value(code) = 0
  PROVE  Given(arg, q, n + 1, code, [cs EXCEPT ![x] = code])
  <1> DEFINE ds == [cs EXCEPT ![x] = code]
  <1>1. /\ Len(q) \in Nat /\ DOMAIN q = 1 .. Len(q) /\ n \in Nat
        /\ n + 1 \in 1 .. Len(q) /\ x \in Symbol /\ arg[x] \in 1 .. MaxCodeBits
        /\ \A i \in 1 .. n : q[i] # x /\ q[i] \in Symbol
    BY GivenFacts
  <1>2. /\ ds \in [Symbol -> Seq(Bit)] /\ ds[x] = code
        /\ \A s \in Symbol : s # x => ds[s] = cs[s]
    BY <1>1 DEF Given
  <1> HIDE DEF ds
  <1>3. ASSUME NEW s \in Symbol
        PROVE  Len(ds[s]) = IF \E i \in 1 .. n + 1 : q[i] = s THEN arg[s] ELSE 0
    <2>1. CASE s = x
      BY <1>1, <1>2, <2>1
    <2>2. CASE s # x
      <3>1. (\E i \in 1 .. n + 1 : q[i] = s) <=> (\E i \in 1 .. n : q[i] = s)
        <4>1. \A i \in 1 .. n + 1 : q[i] = s => i \in 1 .. n
          BY <1>1, <2>2
        <4>2. \A i \in 1 .. n : i \in 1 .. n + 1
          BY <1>1
        <4> QED
          BY <4>1, <4>2
      <3> QED
        BY <1>2, <2>2, <3>1 DEF Given
    <2> QED
      BY <2>1, <2>2
  <1>4. ASSUME NEW i \in 1 .. n + 1, NEW j \in 1 .. n + 1, i < j
        PROVE  BranchesBefore(ds[q[i]], ds[q[j]])
    <2>1. i \in 1 .. n /\ q[i] # x /\ q[i] \in Symbol /\ ds[q[i]] = cs[q[i]]
      BY <1>1, <1>2, <1>4
    <2>2. CASE j \in 1 .. n
      <3>1. ds[q[j]] = cs[q[j]]
        BY <1>1, <1>2, <2>2
      <3> QED
        BY <1>4, <2>1, <2>2, <3>1 DEF Given
    <2>3. CASE j = n + 1
      <3>1. ds[q[j]] = code /\ n > 0 /\ n \in 1 .. n
        BY <1>1, <1>2, <2>1, <2>3
      <3>2. i = n \/ i < n
        BY <1>1, <2>1
      <3>3. cur = cs[q[n]]
        BY <3>1 DEF Given
      <3>4. i < n => BranchesBefore(cs[q[i]], cur)
        BY <2>1, <3>1, <3>3 DEF Given
      <3>5. cs[q[i]] \in Seq(Bit)
        BY <2>1 DEF Given
      <3> QED
        BY <2>1, <3>1, <3>2, <3>3, <3>4, <3>5
    <2> QED
      BY <1>1, <2>2, <2>3
  <1>5. Value(code) + Share(Len(code)) = Kraft(Lengths(ds))
    <2>1. Lengths(cs) \in [Symbol -> 0 .. MaxCodeBits] /\ Lengths(cs)[x] = 0
      <3>1. ~\E i \in 1 .. n : q[i] = x
        BY <1>1
      <3>2. Len(cs[x]) = 0
        BY <1>1, <3>1 DEF Given
      <3> QED
        BY <1>1, <3>2, GivenLengths DEF Lengths
    <2>2. Lengths(ds) \in [Symbol -> 0 .. MaxCodeBits] /\ Lengths(ds)[x] = arg[x]
          /\ \A s \in Symbol : s # x => Lengths(ds)[s] = Lengths(cs)[s]
      <3>1. Len(ds[x]) = arg[x] /\ arg[x] \in 0 .. MaxCodeBits
        BY <1>1, <1>2, MaxBitsNat
      <3>2. ASSUME NEW s \in Symbol, s # x
            PROVE  Len(ds[s]) = Len(cs[s]) /\ Len(cs[s]) \in 0 .. MaxCodeBits
        BY <1>2, <2>1, <3>2 DEF Lengths
      <3>3. \A s \in Symbol : Len(ds[s]) \in 0 .. MaxCodeBits
        BY <3>1, <3>2
      <3> QED
        BY <1>1, <3>1, <3>2, <3>3 DEF Lengths
    <2>3. /\ Shares(Lengths(cs)) \in [Symbol -> Nat] /\ Shares(Lengths(ds)) \in [Symbol -> Nat]
          /\ Kraft(Lengths(cs)) = Total(Shares(Lengths(cs)))
          /\ Kraft(Lengths(ds)) = Total(Shares(Lengths(ds)))
          /\ Kraft(Lengths(cs)) \in Nat
      BY <2>1, <2>2, SharesNat
    <2>4. /\ Shares(Lengths(cs))[x] = 0 /\ Shares(Lengths(ds))[x] = Share(arg[x])
          /\ \A s \in Symbol : s # x => Shares(Lengths(ds))[s] = Shares(Lengths(cs))[s]
      BY <1>1, <2>1, <2>2 DEF Shares, Share
    <2>5. Kraft(Lengths(ds)) = Kraft(Lengths(cs)) + Share(arg[x])
      <3>1. Total(Shares(Lengths(ds))) = Total(Shares(Lengths(cs)))
               + Shares(Lengths(ds))[x] - Shares(Lengths(cs))[x]
        BY <1>1, <2>3, <2>4, TotalUpdate
      <3>2. Share(arg[x]) \in Nat
        BY <1>1, ShareNat
      <3> QED
        BY <2>3, <2>4, <3>1, <3>2
    <2>6. CASE n > 0
      <3>1. Value(cur) + Share(Len(cur)) = Kraft(Lengths(cs))
        BY <2>6 DEF Given, Lengths
      <3> QED
        BY <2>5, <2>6, <3>1
    <2>7. CASE n = 0
      <3>1. \A s \in Symbol : Lengths(cs)[s] = 0
        BY <2>7 DEF Given, Lengths
      <3>2. \A s \in Symbol : Shares(Lengths(cs))[s] = 0
        BY <3>1 DEF Shares, Share
      <3>3. Kraft(Lengths(cs)) = 0
        BY <2>3, <3>2, TotalZero
      <3>4. Share(arg[x]) \in Nat
        BY <1>1, ShareNat
      <3> QED
        BY <2>5, <2>7, <3>3, <3>4
    <2> QED
      BY <1>1, <2>6, <2>7
  <1>6. code = ds[q[n + 1]] /\ n + 1 \in 0 .. Len(q)
    BY <1>1, <1>2
  <1>7. Given(arg, q, n + 1, code, ds)
    BY <1>2, <1>3, <1>4, <1>5, <1>6 DEF Given, Lengths
  <1> QED
    BY <1>7 DEF ds

LEMMA StartGiven ==
  ASSUME NEW arg \in [Symbol -> 0 .. MaxCodeBits], NEW q, q = Sorted(arg), NEW cur
  PROVE  Given(arg, q, 0, cur, [s \in Symbol |-> <<>>])
  <1>1. arg \in [Symbol -> Nat]
    BY MaxBitsNat
  <1>2. /\ q \in Seq(Symbol) /\ ToSet(q) = Coded(arg)
        /\ \A i, j \in DOMAIN q : i < j => Earlier(arg, q[i], q[j])
    BY <1>1, SortedFacts
  <1> DEFINE none == [s \in Symbol |-> <<>>]
  <1>3. none \in [Symbol -> Seq(Bit)] /\ \A s \in Symbol : Len(none[s]) = 0
    BY EmptySeq
  <1> HIDE DEF none
  <1>4. 0 \in 0 .. Len(q) /\ \A i \in 1 .. 0 : FALSE
    BY <1>2
  <1>5. Given(arg, q, 0, cur, none)
    BY <1>2, <1>3, <1>4 DEF Given
  <1> QED
    BY <1>5 DEF none

\* All symbols have their codes.
LEMMA GivenAll ==
  ASSUME NEW arg, NEW q, NEW cur, NEW cs, Given(arg, q, Len(q), cur, cs), q # <<>>
  PROVE  /\ \A s \in Symbol : Len(cs[s]) = arg[s]
         /\ \A s, t \in Coded(arg) : s # t => ~IsPrefixOf(cs[s], cs[t])
         /\ Coded(arg) # {} /\ Kraft(arg) <= pow2[MaxCodeBits]
  <1>1. /\ Len(q) \in Nat /\ DOMAIN q = 1 .. Len(q) /\ Len(q) > 0
        /\ \A i \in 1 .. Len(q) : q[i] \in Symbol /\ arg[q[i]] \in 1 .. MaxCodeBits
        /\ \A s \in Symbol : arg[s] # 0 => \E i \in 1 .. Len(q) : q[i] = s
        /\ \A i \in 1 .. Len(q) : cs[q[i]] \in Seq(Bit) /\ Len(cs[q[i]]) = arg[q[i]]
    <2>1. Len(q) \in Nat /\ DOMAIN q = 1 .. Len(q)
      BY GivenFacts
    <2>2. Len(q) > 0
      BY <2>1, EmptySeq DEF Given
    <2> QED
      BY <2>1, <2>2, GivenFacts
  <1>2. ASSUME NEW s \in Symbol PROVE Len(cs[s]) = arg[s]
    BY <1>1 DEF Given
  <1>3. ASSUME NEW s \in Coded(arg), NEW t \in Coded(arg), s # t
        PROVE  ~IsPrefixOf(cs[s], cs[t])
    <2>1. PICK i \in 1 .. Len(q) : q[i] = s
      BY <1>1 DEF Coded
    <2>2. PICK j \in 1 .. Len(q) : q[j] = t
      BY <1>1 DEF Coded
    <2>3. i < j \/ j < i
      BY <1>1, <1>3, <2>1, <2>2
    <2>4. cs[s] \in Seq(Bit) /\ cs[t] \in Seq(Bit)
      BY <1>1, <2>1, <2>2
    <2>5. BranchesBefore(cs[s], cs[t]) \/ BranchesBefore(cs[t], cs[s])
      BY <2>1, <2>2, <2>3 DEF Given
    <2> QED
      BY <2>4, <2>5, BranchesApart
  <1>4. Coded(arg) # {}
    <2>1. 1 \in 1 .. Len(q)
      BY <1>1
    <2>2. q[1] \in Coded(arg)
      <3>1. arg[q[1]] # 0
        BY <1>1, <2>1
      <3> QED
        BY <1>1, <2>1, <3>1 DEF Coded
    <2> QED
      BY <2>2
  <1>5. Kraft(arg) <= pow2[MaxCodeBits]
    <2>1. Len(q) \in 1 .. Len(q) /\ cur = cs[q[Len(q)]]
      BY <1>1 DEF Given
    <2>2. cur \in Seq(Bit) /\ Len(cur) \in 1 .. MaxCodeBits
      BY <1>1, <2>1
    <2>3. Value(cur) + Share(Len(cur)) = Kraft([s \in Symbol |-> Len(cs[s])])
      BY <1>1 DEF Given
    <2>4. [s \in Symbol |-> Len(cs[s])] = arg
      BY <1>2 DEF Given
    <2> QED
      BY <2>2, <2>3, <2>4, ValueBound
  <1> QED
    BY <1>2, <1>3, <1>4, <1>5

LEMMA GivenOverfull ==
  ASSUME NEW arg, NEW q, NEW n, NEW cur, NEW cs, Given(arg, q, n, cur, cs),
         n > 0, n < Len(q), ~CanIncrement(cur)
  PROVE  Kraft(arg) > pow2[MaxCodeBits]
  <1>1. /\ Len(q) \in Nat /\ n \in Nat /\ n + 1 \in 1 .. Len(q) /\ n \in 1 .. n
        /\ \A i \in 1 .. Len(q) : q[i] \in Symbol /\ arg[q[i]] \in 1 .. MaxCodeBits
        /\ \A i \in 1 .. n : q[i] # q[n + 1]
        /\ cs[q[n]] \in Seq(Bit) /\ Len(cs[q[n]]) = arg[q[n]]
    <2>1. Len(q) \in Nat /\ n \in Nat
      BY GivenFacts
    <2>2. n + 1 \in 1 .. Len(q) /\ n \in 1 .. n
          /\ \A i \in 1 .. n : i \in 1 .. Len(q) /\ i < n + 1
      BY <2>1
    <2> QED
      BY <2>1, <2>2, GivenFacts
  <1>2. cur = cs[q[n]] /\ cur \in Seq(Bit) /\ Len(cur) \in 1 .. MaxCodeBits
    <2>1. cur = cs[q[n]]
      BY <1>1 DEF Given
    <2>2. n \in 1 .. Len(q)
      BY <1>1
    <2> QED
      BY <1>1, <2>1, <2>2
  <1>3. \A k \in 1 .. Len(cur) : cur[k] = 1
    <2>1. ASSUME NEW k \in 1 .. Len(cur) PROVE cur[k] = 1
      <3>1. k \in DOMAIN cur /\ cur[k] \in {0, 1}
        BY <1>2 DEF Bit
      <3> QED
        BY <3>1 DEF CanIncrement, ToSet
    <2> QED
      BY <2>1
  <1>4. Kraft(Lengths(cs)) = pow2[MaxCodeBits]
    <2>1. Value(cur) + Share(Len(cur)) = pow2[MaxCodeBits]
      BY <1>2, <1>3, ValueBound
    <2> QED
      BY <1>1, <2>1 DEF Given, Lengths
  <1> DEFINE x == q[n + 1]
             more == [Lengths(cs) EXCEPT ![x] = arg[x]]
  <1>5. /\ Lengths(cs) \in [Symbol -> 0 .. MaxCodeBits] /\ Lengths(cs)[x] = 0
        /\ x \in Symbol /\ arg[x] \in 1 .. MaxCodeBits
    <2>1. x \in Symbol /\ arg[x] \in 1 .. MaxCodeBits /\ ~\E i \in 1 .. n : q[i] = x
      BY <1>1
    <2>2. Len(cs[x]) = 0
      BY <2>1 DEF Given
    <2> QED
      BY <2>1, <2>2, GivenLengths DEF Lengths
  <1>6. /\ more \in [Symbol -> 0 .. MaxCodeBits] /\ more[x] = arg[x]
        /\ \A s \in Symbol : s # x => more[s] = Lengths(cs)[s]
    <2>1. arg[x] \in 0 .. MaxCodeBits
      BY <1>5, MaxBitsNat
    <2> QED
      BY <1>5, <2>1
  <1> HIDE DEF x, more
  <1>7. /\ Shares(Lengths(cs)) \in [Symbol -> Nat] /\ Shares(more) \in [Symbol -> Nat]
        /\ Kraft(Lengths(cs)) = Total(Shares(Lengths(cs)))
        /\ Kraft(more) = Total(Shares(more)) /\ Kraft(more) \in Nat
    BY <1>5, <1>6, SharesNat
  <1>8. /\ Shares(Lengths(cs))[x] = 0 /\ Shares(more)[x] = Share(arg[x])
        /\ \A s \in Symbol : s # x => Shares(more)[s] = Shares(Lengths(cs))[s]
    BY <1>5, <1>6 DEF Shares, Share
  <1>9. Kraft(more) = Kraft(Lengths(cs)) + Share(arg[x])
    <2>1. Total(Shares(more)) = Total(Shares(Lengths(cs)))
             + Shares(more)[x] - Shares(Lengths(cs))[x]
      BY <1>5, <1>7, <1>8, TotalUpdate
    <2>2. Share(arg[x]) \in Nat /\ Kraft(Lengths(cs)) \in Nat
      BY <1>5, ShareNat, SharesNat
    <2> QED
      BY <1>7, <1>8, <2>1, <2>2
  <1>10. Kraft(more) <= Kraft(arg) /\ Kraft(arg) \in Nat
    <2>1. arg \in [Symbol -> 0 .. MaxCodeBits]
      BY DEF Given
    <2>2. Shares(arg) \in [Symbol -> Nat] /\ Kraft(arg) = Total(Shares(arg))
      BY <2>1, SharesNat
    <2>3. ASSUME NEW s \in Symbol PROVE Shares(more)[s] <= Shares(arg)[s]
      <3>1. more[s] = 0 \/ more[s] = arg[s]
        BY <1>5, <1>6, GivenLengths
      <3>2. Share(arg[s]) \in Nat
        BY <2>1, ShareFacts
      <3>3. Shares(arg)[s] = Share(arg[s]) /\ Shares(more)[s] = Share(more[s])
        BY DEF Shares
      <3>4. more[s] = 0 => Share(more[s]) = 0
        BY DEF Share
      <3> QED
        BY <3>1, <3>2, <3>3, <3>4
    <2> QED
      BY <1>7, <2>2, <2>3, TotalMonotone
  <1>11. Share(arg[x]) >= 1 /\ Share(arg[x]) \in Nat /\ pow2[MaxCodeBits] \in Nat
    BY <1>5, ShareFacts, MaxBitsNat
  <1> QED
    BY <1>4, <1>7, <1>9, <1>10, <1>11

LEMMA StartCodesInv ==
  ASSUME NEW arg \in [Symbol -> 0 .. MaxCodeBits], StartCodes(arg) PROVE CodesInv'
  <1>1. table' = arg /\ order' = Sorted(arg) /\ coded' = 0
        /\ codes' = [s \in Symbol |-> <<>>]
        /\ cpc' = IF order' = <<>> THEN "fail" ELSE "code"
    BY DEF StartCodes
  <1>2. Given(arg, order', 0, current', [s \in Symbol |-> <<>>])
    BY <1>1, StartGiven
  <1>3. Given(table', order', coded', current', codes')
    BY <1>1, <1>2
  <1>4. CodesFitTheTable'
    <2>1. cpc' # "ok"
      BY <1>1
    <2>2. cpc' = "fail" => {s \in Symbol : table'[s] # 0} = {}
      <3>1. order' = <<>> => ToSet(order') = {}
        BY DEF ToSet
      <3> QED
        BY <1>1, <1>3, <3>1 DEF Given, Coded
    <2> QED
      BY <2>1, <2>2 DEF CodesFitTheTable
  <1> QED
    BY <1>1, <1>3, <1>4, CodesInvMeansNext

LEMMA FirstCodeInv == CodesInv /\ FirstCode => CodesInv'
  <1> SUFFICES ASSUME CodesInv, FirstCode PROVE CodesInv'
    OBVIOUS
  <1>1. cpc = "code" /\ coded = 0 /\ order # <<>> /\ Given(table, order, coded, current, codes)
    BY CodesInvMeans DEF FirstCode
  <1>2. Len(order) \in Nat /\ 0 < Len(order) /\ 0 + 1 = 1
        /\ order[1] \in Symbol /\ table[order[1]] \in 1 .. MaxCodeBits
    <2>1. Len(order) \in Nat /\ 0 < Len(order)
      BY <1>1, EmptySeq DEF Given
    <2> QED
      BY <1>1, <2>1, GivenFacts
  <1>3. PICK x : x = order[0 + 1]
    OBVIOUS
  <1>4. PICK c : c = Padded(<<>>, table[x])
    OBVIOUS
  <1>5. /\ codes' = [codes EXCEPT ![x] = c] /\ current' = c /\ coded' = coded + 1
        /\ UNCHANGED <<cpc, table, order>>
    BY <1>2, <1>3, <1>4 DEF FirstCode, Give
  <1>6. c \in Seq(Bit) /\ Len(c) = table[x] /\ Value(c) = 0
    BY <1>2, <1>3, <1>4, ZeroValue
  <1>7. Given(table, order, 0, current, codes)
    BY <1>1
  <1>8. Given(table, order, 0 + 1, c, [codes EXCEPT ![x] = c])
    <2>1. ~(0 > 0) /\ 0 < Len(order)
      BY <1>2
    <2> QED
      BY ONLY <1>3, <1>6, <1>7, <2>1, GiveGiven
  <1>9. Given(table', order', coded', current', codes')
    BY <1>1, <1>5, <1>8
  <1> QED
    BY <1>1, <1>5, <1>9, CodesInvMeansNext DEF CodesFitTheTable

LEMMA NextCodeInv == CodesInv /\ NextCode => CodesInv'
  <1> SUFFICES ASSUME CodesInv, NextCode PROVE CodesInv'
    OBVIOUS
  <1>1. cpc = "code" /\ order # <<>> /\ Given(table, order, coded, current, codes)
        /\ coded \in 1 .. Len(order) - 1 /\ CanIncrement(current)
    BY CodesInvMeans DEF NextCode
  <1>2. PICK x : x = order[coded + 1]
    OBVIOUS
  <1>3. /\ Len(order) \in Nat /\ coded \in Nat /\ coded > 0 /\ coded < Len(order)
        /\ coded + 1 \in 1 .. Len(order) /\ coded \in 1 .. Len(order) /\ coded \in 1 .. coded
    BY <1>1 DEF Given
  <1>4. /\ table[x] \in 1 .. MaxCodeBits /\ current = codes[order[coded]]
        /\ current \in Seq(Bit) /\ Len(current) = table[order[coded]]
        /\ table[order[coded]] <= table[x] /\ table[order[coded]] \in 1 .. MaxCodeBits
    <2>1. current = codes[order[coded]]
      BY <1>1, <1>3 DEF Given
    <2>2. /\ table[order[coded]] \in 1 .. MaxCodeBits /\ table[x] \in 1 .. MaxCodeBits
          /\ codes[order[coded]] \in Seq(Bit) /\ Len(codes[order[coded]]) = table[order[coded]]
      BY <1>1, <1>2, <1>3, GivenFacts
    <2>3. coded < coded + 1
      BY <1>3
    <2>4. table[order[coded]] <= table[x]
      BY <1>1, <1>2, <1>3, <2>3, GivenFacts
    <2> QED
      BY <2>1, <2>2, <2>4
  <1>5. PICK c : c = Follower(current, table[x])
    OBVIOUS
  <1>6. /\ codes' = [codes EXCEPT ![x] = c] /\ current' = c /\ coded' = coded + 1
        /\ UNCHANGED <<cpc, table, order>>
    BY <1>2, <1>5 DEF NextCode, Give, Follower
  <1>7. /\ c \in Seq(Bit) /\ Len(c) = table[x]
        /\ \E z \in 1 .. Len(current) : Parting(current, c, z)
    <2>1. table[x] \in Nat /\ Len(current) <= table[x]
      BY <1>4, MaxBitsNat
    <2> QED
      BY <1>1, <1>4, <1>5, <2>1, FollowerFacts
  <1>8. Value(c) = Value(current) + Share(Len(current))
    BY <1>1, <1>4, <1>5, FollowerValue
  <1>9. /\ BranchesBefore(current, c)
        /\ \A a \in Seq(Bit) : BranchesBefore(a, current) => BranchesBefore(a, c)
    BY <1>4, <1>7, PartingBranches
  <1>10. Given(table, order, coded + 1, c, [codes EXCEPT ![x] = c])
    <2>1. Given(table, order, coded, current, codes) /\ coded < Len(order)
          /\ c \in Seq(Bit) /\ Len(c) = table[x] /\ coded # 0
      BY <1>1, <1>3, <1>7
    <2> QED
      BY ONLY <1>2, <1>8, <1>9, <2>1, GiveGiven
  <1>11. Given(table', order', coded', current', codes')
    BY <1>6, <1>10
  <1> QED
    BY <1>1, <1>6, <1>11, CodesInvMeansNext DEF CodesFitTheTable

LEMMA NoCodeLeftInv == CodesInv /\ NoCodeLeft => CodesInv'
  <1> SUFFICES ASSUME CodesInv, NoCodeLeft PROVE CodesInv'
    OBVIOUS
  <1>1. /\ cpc = "code" /\ coded \in 1 .. Len(order) - 1 /\ ~CanIncrement(current)
        /\ cpc' = "fail" /\ UNCHANGED <<table, order, coded, current, codes>>
    BY DEF NoCodeLeft
  <1>2. Given(table, order, coded, current, codes)
    BY CodesInvMeans
  <1>3. coded > 0 /\ coded < Len(order)
    BY <1>1, <1>2 DEF Given
  <1>4. Kraft(table) > pow2[MaxCodeBits]
    BY <1>1, <1>2, <1>3, GivenOverfull
  <1>5. CodesFitTheTable'
    BY <1>1, <1>4 DEF CodesFitTheTable
  <1> QED
    BY <1>1, <1>2, <1>5, CodesInvMeansNext

LEMMA EndCodesInv == CodesInv /\ EndCodes => CodesInv'
  <1> SUFFICES ASSUME CodesInv, EndCodes PROVE CodesInv'
    OBVIOUS
  <1>1. /\ cpc = "code" /\ coded = Len(order)
        /\ cpc' = "ok" /\ UNCHANGED <<table, order, coded, current, codes>>
    BY DEF EndCodes
  <1>2. Given(table, order, coded, current, codes) /\ order # <<>>
    BY <1>1, CodesInvMeans
  <1>3. Given(table, order, Len(order), current, codes)
    BY <1>1, <1>2
  <1>4. /\ \A s \in Symbol : Len(codes[s]) = table[s]
        /\ \A s, t \in Coded(table) : s # t => ~IsPrefixOf(codes[s], codes[t])
        /\ Coded(table) # {} /\ Kraft(table) <= pow2[MaxCodeBits]
    BY <1>2, <1>3, GivenAll
  <1>5. CodesFitTheTable'
    BY <1>1, <1>4 DEF CodesFitTheTable, Coded
  <1> QED
    BY <1>1, <1>2, <1>5, CodesInvMeansNext

LEMMA BuildCodesInv == CodesInv /\ BuildCodes => CodesInv'
  BY FirstCodeInv, NextCodeInv, NoCodeLeftInv, EndCodesInv DEF BuildCodes

\* What the two calls of build_canonical_codes get.
TableTypes ==
    /\ lengths \in [Symbol -> 0 .. MaxCodeBits]
    /\ DOMAIN payload = {"lengths", "data", "bit_count", "token_size"}
    /\ payload.lengths \in [Symbol -> 0 .. MaxCodeBits]

LEMMA TableTypesInit == Init => TableTypes
  <1> SUFFICES ASSUME Init PROVE TableTypes
    OBVIOUS
  <1>1. lengths \in [Symbol -> 0 .. MaxCodeBits]
    BY MaxBitsNat DEF Init, LenInit
  <1>2. CASE payload = Empty
    BY <1>1, <1>2, MaxBitsNat DEF TableTypes, Empty
  <1>3. CASE payload \in Payload
    BY <1>1, <1>3 DEF TableTypes, Payload
  <1> QED
    BY <1>2, <1>3 DEF Init

LEMMA BuildLengthsTypes ==
  ASSUME lengths \in [Symbol -> 0 .. MaxCodeBits], BuildLengths
  PROVE  lengths' \in [Symbol -> 0 .. MaxCodeBits]
  <1>1. CASE OnlySymbol
    <2>1. 1 \in 0 .. MaxCodeBits
      BY MaxBitsNat
    <2>2. CASE lengths' = lengths
      BY <2>2
    <2>3. CASE lengths' = [lengths EXCEPT ![nodes[heap[1]].symbol] = 1]
      BY <2>1, <2>3
    <2> QED
      BY <1>1, <2>2, <2>3 DEF OnlySymbol
  <1>2. CASE assign_lengths
    <2> DEFINE depths(s) == {d \in 1 .. MaxCodeBits : \E n \in Level[d] : nodes[n].symbol = s}
               deep(s) == IF depths(s) = {} THEN 0 ELSE CHOOSE d \in depths(s) : TRUE
    <2>1. ASSUME NEW s \in Symbol PROVE deep(s) \in 0 .. MaxCodeBits
      <3>1. CASE depths(s) = {}
        BY <3>1, MaxBitsNat
      <3>2. CASE depths(s) # {}
        <4>1. deep(s) \in depths(s)
          BY <3>2
        <4>2. \A d \in depths(s) : d \in 1 .. MaxCodeBits
          OBVIOUS
        <4> HIDE DEF depths, deep
        <4> QED
          BY <4>1, <4>2, MaxBitsNat
      <3> QED
        BY <3>1, <3>2
    <2>2. lengths' = lengths \/ lengths' = [s \in Symbol |-> deep(s)]
      BY <1>2 DEF assign_lengths
    <2> HIDE DEF deep
    <2> QED
      BY <2>1, <2>2
  <1>3. CASE NextLeaf \/ EndLeaves \/ SiftUp \/ PopNode \/ SiftDown \/ Merge
    BY <1>3 DEF NextLeaf, EndLeaves, SiftUp, PopNode, SiftDown, Merge
  <1> QED
    BY <1>1, <1>2, <1>3 DEF BuildLengths

LEMMA TableTypesStep == TableTypes /\ [Next]_vars => TableTypes'
  <1> SUFFICES ASSUME TableTypes, [Next]_vars PROVE TableTypes'
    OBVIOUS
  <1>1. CASE LengthsStep
    BY <1>1, BuildLengthsTypes DEF TableTypes, LengthsStep
  <1>2. CASE UNCHANGED <<lengths, payload>>
    BY <1>2 DEF TableTypes
  <1>3. CASE WriteBit
    <2>1. PICK bit : bit_writer_write(bit)
      BY <1>3 DEF WriteBit
    <2>2. DOMAIN payload' = DOMAIN payload /\ payload'.lengths = payload.lengths
      BY <2>1 DEF bit_writer_write, TableTypes
    <2>3. lengths' = lengths
      BY <1>3 DEF WriteBit, lenVars
    <2> QED
      BY <2>2, <2>3 DEF TableTypes
  <1>4. CASE WriteEnd
    <2>1. DOMAIN payload' = DOMAIN payload /\ payload'.lengths = lengths /\ lengths' = lengths
      BY <1>4 DEF WriteEnd, TableTypes, lenVars
    <2> QED
      BY <2>1 DEF TableTypes
  <1>5. CASE CodesBegin \/ CodesStep \/ WriteBegin \/ CheckPayload \/ TreeBegin \/ TreeStep
             \/ ReadBegin \/ ReadBit \/ ReadEnd \/ HelperFails \/ Terminated \/ UNCHANGED vars
    BY <1>2, <1>5 DEF CodesBegin, CodesStep, WriteBegin, CheckPayload, TreeBegin, TreeStep,
                      ReadBegin, ReadBit, ReadEnd, HelperFails, Terminated, vars, lenVars
  <1> QED
    BY <1>1, <1>3, <1>4, <1>5 DEF Next, Step

LEMMA CodesInvInit == Init => CodesInv
  <1> SUFFICES ASSUME Init PROVE CodesInv
    OBVIOUS
  <1>1. /\ cpc = "idle" /\ table = [s \in Symbol |-> 0] /\ order = <<>> /\ coded = 0
        /\ codes = [s \in Symbol |-> <<>>]
    BY DEF Init, CodesIdle
  <1>2. /\ table \in [Symbol -> 0 .. MaxCodeBits] /\ Coded(table) = {}
        /\ codes \in [Symbol -> Seq(Bit)] /\ \A s \in Symbol : Len(codes[s]) = 0
    <2>1. 0 \in 0 .. MaxCodeBits
      BY MaxBitsNat
    <2> QED
      BY <1>1, <2>1, EmptySeq DEF Coded
  <1>3. order \in Seq(Symbol) /\ ToSet(order) = {} /\ Len(order) = 0 /\ DOMAIN order = {}
    BY <1>1, EmptySeq DEF ToSet
  <1>4. Given(table, order, coded, current, codes)
    <2>1. (\A i \in 1 .. coded : FALSE) /\ ~(coded > 0) /\ coded \in 0 .. Len(order)
      BY <1>1, <1>3
    <2>2. \A i, j \in DOMAIN order : i < j => Earlier(table, order[i], order[j])
      BY <1>3
    <2> QED
      BY <1>2, <1>3, <2>1, <2>2 DEF Given
  <1> QED
    BY <1>1, <1>4, CodesInvMeans DEF CodesFitTheTable

LEMMA CodesInvStep == TableTypes /\ CodesInv /\ [Next]_vars => CodesInv'
  <1> SUFFICES ASSUME TableTypes, CodesInv, [Next]_vars PROVE CodesInv'
    OBVIOUS
  <1>1. ASSUME UNCHANGED codeVars PROVE CodesInv'
    <2>1. UNCHANGED <<cpc, table, order, coded, current, codes>>
      BY <1>1 DEF codeVars
    <2> QED
      BY <2>1, CodesInvMeans, CodesInvMeansNext DEF CodesFitTheTable
  <1>2. CASE CodesBegin
    BY <1>2, StartCodesInv DEF CodesBegin, TableTypes
  <1>3. CASE CodesStep
    BY <1>3, BuildCodesInv DEF CodesStep
  <1>4. CASE CheckPayload
    <2>1. CASE StartCodes(payload.lengths)
      BY <2>1, StartCodesInv DEF TableTypes
    <2> QED
      BY <1>1, <1>4, <2>1 DEF CheckPayload
  <1>5. CASE LengthsStep \/ WriteBegin \/ WriteBit \/ WriteEnd \/ TreeBegin \/ TreeStep
             \/ ReadBegin \/ ReadBit \/ ReadEnd \/ HelperFails \/ Terminated \/ UNCHANGED vars
    BY <1>1, <1>5 DEF LengthsStep, WriteBegin, WriteBit, WriteEnd, TreeBegin, TreeStep,
                      ReadBegin, ReadBit, ReadEnd, HelperFails, Terminated, vars
  <1> QED
    BY <1>2, <1>3, <1>4, <1>5 DEF Next, Step

\* While the codes are made they stand in order, each begins where the one
\* before it ends, and together they take up the code space up to the last,
\* whatever lengths are asked for (huff.c:206-272).
THEOREM CodesStandInOrder == Spec => []CodesInv
  <1>1. Init => TableTypes /\ CodesInv
    BY TableTypesInit, CodesInvInit
  <1>2. TableTypes /\ CodesInv /\ [Next]_vars => (TableTypes /\ CodesInv)'
    BY TableTypesStep, CodesInvStep
  <1> QED
    BY <1>1, <1>2, PTL DEF Spec

\* build_canonical_codes gives every symbol a code of its length, no code is
\* the beginning of another, and it refuses a table exactly if that has no
\* symbol or its lengths do not fit the code space (huff.c:214-272).
THEOREM CodesFit == Spec => []CodesFitTheTable
  <1>1. CodesInv => CodesFitTheTable
    BY DEF CodesInv
  <1> QED
    BY <1>1, CodesStandInOrder, PTL

----------------------------------------------------------------------------
(* The lengths leave no choice of the codes.                               *)

InPlace(arg, q, n, cs) ==
    \A i \in 1 .. n : Value(cs[q[i]]) = Kraft(Sooner(arg, q[i]))

\* The symbols that have their codes are those before the next one.
LEMMA GivenSooner ==
  ASSUME NEW arg, NEW q, NEW n, NEW cur, NEW cs, Given(arg, q, n, cur, cs), n < Len(q)
  PROVE  Lengths(cs) = Sooner(arg, q[n + 1])
  <1>1. /\ Len(q) \in Nat /\ DOMAIN q = 1 .. Len(q) /\ n \in Nat /\ n + 1 \in 1 .. Len(q)
        /\ \A i \in 1 .. Len(q) : q[i] \in Symbol /\ arg[q[i]] \in 1 .. MaxCodeBits
        /\ \A i, j \in 1 .. Len(q) : i < j => q[i] # q[j]
        /\ \A s \in Symbol : arg[s] # 0 => \E i \in 1 .. Len(q) : q[i] = s
    <2>1. /\ Len(q) \in Nat /\ DOMAIN q = 1 .. Len(q) /\ n \in Nat /\ n <= Len(q)
          /\ \A i \in 1 .. Len(q) : q[i] \in Symbol /\ arg[q[i]] \in 1 .. MaxCodeBits
          /\ \A i, j \in 1 .. Len(q) : i < j => q[i] # q[j] /\ arg[q[i]] <= arg[q[j]]
          /\ \A s \in Symbol : arg[s] # 0 => \E i \in 1 .. Len(q) : q[i] = s
          /\ \A i \in 1 .. n : cs[q[i]] \in Seq(Bit) /\ Len(cs[q[i]]) = arg[q[i]]
      BY ONLY Given(arg, q, n, cur, cs), GivenFacts, SMT
    <2>2. n + 1 \in 1 .. Len(q)
      BY <2>1
    <2>3. \A i, j \in 1 .. Len(q) : i < j => q[i] # q[j]
      BY <2>1
    <2> QED
      BY <2>1, <2>2, <2>3
  <1>2. ASSUME NEW s \in Symbol
        PROVE  Len(cs[s]) = IF Earlier(arg, s, q[n + 1]) THEN arg[s] ELSE 0
    <2>1. Len(cs[s]) = IF \E i \in 1 .. n : q[i] = s THEN arg[s] ELSE 0
      BY DEF Given
    <2>2. CASE arg[s] = 0
      BY <2>1, <2>2
    <2>3. CASE arg[s] # 0
      <3>1. PICK i \in 1 .. Len(q) : q[i] = s
        BY <1>1, <2>3
      <3>2. CASE i < n + 1
        <4>1. Earlier(arg, s, q[n + 1])
          BY <1>1, <3>1, <3>2 DEF Given
        <4>2. i \in 1 .. n
          BY <1>1, <3>2
        <4> QED
          BY <2>1, <3>1, <4>1, <4>2
      <3>3. CASE ~(i < n + 1)
        <4>1. i = n + 1 \/ n + 1 < i
          BY <1>1, <3>3
        <4>2. q[n + 1] = s \/ Earlier(arg, q[n + 1], s)
          BY <1>1, <3>1, <4>1 DEF Given
        <4>3. ~Earlier(arg, s, q[n + 1])
          <5>1. arg[s] \in Nat /\ arg[q[n + 1]] \in Nat
            <6>1. arg[q[i]] \in 1 .. MaxCodeBits /\ arg[q[n + 1]] \in 1 .. MaxCodeBits
              BY <1>1
            <6>2. \A m \in 1 .. MaxCodeBits : m \in Nat
              BY MaxBitsNat
            <6> QED
              BY <3>1, <6>1, <6>2
          <5>2. s \in Nat /\ q[n + 1] \in Nat
            BY <1>1, SymbolIsInt
          <5> QED
            BY <4>2, <5>1, <5>2 DEF Earlier
        <4>4. ~\E k \in 1 .. n : q[k] = s
          <5>1. ASSUME NEW k \in 1 .. n PROVE q[k] # s
            <6>1. k \in 1 .. Len(q) /\ k < i
              BY <1>1, <4>1
            <6> QED
              BY <1>1, <3>1, <6>1
          <5> QED
            BY <5>1
        <4> QED
          BY <2>1, <4>3, <4>4
      <3> QED
        BY <3>2, <3>3
    <2> QED
      BY <2>2, <2>3
  <1> QED
    BY <1>2 DEF Lengths, Sooner

LEMMA PlaceGiven ==
  ASSUME NEW arg, NEW q, NEW n, NEW cur, NEW cs, Given(arg, q, n, cur, cs), n < Len(q),
         NEW x, x = q[n + 1], NEW code, NEW ds, ds = [cs EXCEPT ![x] = code],
         Given(arg, q, n + 1, code, ds), InPlace(arg, q, n, cs)
  PROVE  InPlace(arg, q, n + 1, ds)
  <1>1. /\ Len(q) \in Nat /\ n \in Nat /\ n + 1 \in 1 .. Len(q) /\ x \in Symbol
        /\ arg[x] \in 1 .. MaxCodeBits
        /\ \A i \in 1 .. n : q[i] # x /\ q[i] \in Symbol
    BY GivenFacts
  <1>2. cs \in [Symbol -> Seq(Bit)] /\ ds[x] = code /\ \A s \in Symbol : s # x => ds[s] = cs[s]
    BY <1>1 DEF Given
  <1>3. /\ Lengths(cs) \in [Symbol -> 0 .. MaxCodeBits]
        /\ Lengths(ds) \in [Symbol -> 0 .. MaxCodeBits]
    BY GivenLengths
  <1>4. /\ Shares(Lengths(cs)) \in [Symbol -> Nat] /\ Shares(Lengths(ds)) \in [Symbol -> Nat]
        /\ Kraft(Lengths(cs)) = Total(Shares(Lengths(cs))) /\ Kraft(Lengths(cs)) \in Nat
        /\ Kraft(Lengths(ds)) = Total(Shares(Lengths(ds)))
    BY <1>3, SharesNat
  <1>5. Lengths(cs)[x] = 0 /\ Lengths(ds)[x] = arg[x] /\ Len(code) = arg[x]
    <2>1. ~\E i \in 1 .. n : q[i] = x
      BY <1>1
    <2>2. Len(cs[x]) = 0
      BY <1>1, <2>1 DEF Given
    <2>3. Len(ds[x]) = arg[x]
      <3>1. n + 1 \in 1 .. n + 1
        BY <1>1
      <3> QED
        BY <1>1, <3>1 DEF Given
    <2> QED
      BY <1>1, <1>2, <2>2, <2>3 DEF Lengths
  <1>6. Kraft(Lengths(ds)) = Kraft(Lengths(cs)) + Share(arg[x])
    <2>1. /\ Shares(Lengths(cs))[x] = 0 /\ Shares(Lengths(ds))[x] = Share(arg[x])
      BY <1>1, <1>5 DEF Shares, Share
    <2>2. \A s \in Symbol : s # x => Shares(Lengths(ds))[s] = Shares(Lengths(cs))[s]
      BY <1>2 DEF Shares, Lengths
    <2>3. Total(Shares(Lengths(ds))) = Total(Shares(Lengths(cs)))
             + Shares(Lengths(ds))[x] - Shares(Lengths(cs))[x]
      BY <1>1, <1>4, <2>2, TotalUpdate
    <2>4. Share(arg[x]) \in Nat
      BY <1>1, ShareNat
    <2> QED
      BY <1>4, <2>1, <2>3, <2>4
  <1>7. Value(code) = Kraft(Sooner(arg, x))
    <2>1. Value(code) + Share(Len(code)) = Kraft(Lengths(ds))
      BY <1>1 DEF Given, Lengths
    <2>2. Value(code) \in Nat /\ Share(arg[x]) \in Nat
      <3>1. code \in Seq(Bit)
        BY <1>1, <1>2 DEF Given
      <3> QED
        BY <1>1, <1>5, <3>1, ValueBound, ShareNat
    <2>3. Value(code) = Kraft(Lengths(cs))
      BY <1>4, <1>5, <1>6, <2>1, <2>2
    <2> QED
      BY <2>3, GivenSooner
  <1>8. ASSUME NEW i \in 1 .. n + 1 PROVE Value(ds[q[i]]) = Kraft(Sooner(arg, q[i]))
    <2>1. CASE i \in 1 .. n
      <3>1. ds[q[i]] = cs[q[i]]
        BY <1>1, <1>2, <2>1
      <3> QED
        BY <2>1, <3>1 DEF InPlace
    <2>2. CASE i = n + 1
      BY <1>2, <1>7, <2>2
    <2> QED
      BY <1>1, <2>1, <2>2
  <1> QED
    BY <1>8 DEF InPlace

LEMMA InPlaceMeans == CodesInPlace <=> InPlace(table, order, coded, codes)
  BY DEF CodesInPlace, InPlace

LEMMA InPlaceMeansNext == CodesInPlace' <=> InPlace(table', order', coded', codes')
  BY DEF CodesInPlace, InPlace

LEMMA GiveInPlace ==
  ASSUME CodesInv, CodesInv', CodesInPlace, FirstCode \/ NextCode PROVE CodesInPlace'
  <1>1. Given(table, order, coded, current, codes) /\ Given(table', order', coded', current', codes')
    BY CodesInvMeans, CodesInvMeansNext
  <1>2. PICK x, code : /\ x = order[coded + 1] /\ current' = code /\ coded' = coded + 1
                       /\ codes' = [codes EXCEPT ![x] = code]
                       /\ UNCHANGED <<table, order>> /\ coded < Len(order)
    <2>1. Len(order) \in Nat /\ coded \in Nat
      BY <1>1, GivenFacts
    <2>2. CASE FirstCode
      <3>1. order # <<>>
        BY <2>2, CodesInvMeans DEF FirstCode
      <3>2. 0 < Len(order) /\ coded = 0 /\ coded + 1 = 1
        BY <2>1, <2>2, <3>1, EmptySeq, <1>1 DEF FirstCode, Given
      <3> QED
        BY <2>2, <3>2 DEF FirstCode, Give
    <2>3. CASE NextCode
      <3>1. coded < Len(order)
        BY <2>1, <2>3 DEF NextCode
      <3> QED
        BY <2>3, <3>1 DEF NextCode, Give
    <2> QED
      BY <2>2, <2>3
  <1>3. PICK ds : ds = codes'
    OBVIOUS
  <1>4. ds = [codes EXCEPT ![x] = code] /\ Given(table, order, coded + 1, code, ds)
    BY <1>1, <1>2, <1>3
  <1>5. InPlace(table, order, coded, codes)
    BY InPlaceMeans
  <1>6. InPlace(table, order, coded + 1, ds)
    BY <1>1, <1>2, <1>4, <1>5, PlaceGiven
  <1> QED
    BY <1>2, <1>3, <1>6, InPlaceMeansNext

LEMMA CodesInPlaceInit == Init => CodesInPlace
  BY DEF Init, CodesIdle, CodesInPlace

LEMMA CodesInPlaceStep ==
  ASSUME CodesInv, CodesInv', CodesInPlace, [Next]_vars PROVE CodesInPlace'
  <1>1. ASSUME UNCHANGED <<table, order, coded, codes>> PROVE CodesInPlace'
    BY <1>1, InPlaceMeans, InPlaceMeansNext
  <1>2. ASSUME NEW arg, StartCodes(arg) PROVE CodesInPlace'
    <2>1. \A i \in 1 .. coded' : FALSE
      BY <1>2 DEF StartCodes
    <2> QED
      BY <2>1 DEF CodesInPlace
  <1>3. CASE CodesBegin
    BY <1>2, <1>3 DEF CodesBegin
  <1>4. CASE CodesStep
    <2>1. CASE FirstCode \/ NextCode
      BY <2>1, GiveInPlace
    <2>2. CASE NoCodeLeft \/ EndCodes
      BY <1>1, <2>2 DEF NoCodeLeft, EndCodes
    <2> QED
      BY <1>4, <2>1, <2>2 DEF CodesStep, BuildCodes
  <1>5. CASE CheckPayload
    BY <1>1, <1>2, <1>5 DEF CheckPayload, codeVars
  <1>6. CASE LengthsStep \/ WriteBegin \/ WriteBit \/ WriteEnd \/ TreeBegin \/ TreeStep
             \/ ReadBegin \/ ReadBit \/ ReadEnd \/ HelperFails \/ Terminated \/ UNCHANGED vars
    BY <1>1, <1>6 DEF LengthsStep, WriteBegin, WriteBit, WriteEnd, TreeBegin, TreeStep,
                      ReadBegin, ReadBit, ReadEnd, HelperFails, Terminated, vars, codeVars
  <1> QED
    BY <1>3, <1>4, <1>5, <1>6 DEF Next, Step

LEMMA ValuesStep ==
  ASSUME NEW bits \in Seq(Bit), Len(bits) <= MaxCodeBits, NEW v, Values(bits, v)
  PROVE  /\ \A k \in 0 .. Len(bits) : v[k] \in Nat /\ Share(k) \in Nat
         /\ \A k \in 0 .. Len(bits) : k + 1 <= Len(bits) =>
               /\ v[k] <= v[k + 1]
               /\ k > 0 => v[k + 1] + Share(k + 1) <= v[k] + Share(k)
  <1>1. Len(bits) \in Nat /\ MaxCodeBits \in Nat
    BY MaxBitsNat
  <1>2. ASSUME NEW k \in 0 .. Len(bits) PROVE v[k] \in Nat /\ Share(k) \in Nat
    <2>1. k \in 0 .. MaxCodeBits
      BY <1>1
    <2> QED
      BY <2>1, ShareFacts DEF Values
  <1>3. ASSUME NEW k \in 0 .. Len(bits), k + 1 <= Len(bits)
        PROVE  /\ v[k] <= v[k + 1]
               /\ k > 0 => v[k + 1] + Share(k + 1) <= v[k] + Share(k)
    <2>1. k + 1 \in 1 .. Len(bits) /\ (k + 1) - 1 = k /\ k + 1 \in 0 .. Len(bits)
      BY <1>1, <1>3
    <2>2. v[k + 1] = v[k] + Weight(bits, k + 1)
      BY <2>1 DEF Values
    <2>3. /\ v[k] \in Nat /\ Share(k) \in Nat /\ Share(k + 1) \in Nat
          /\ Weight(bits, k + 1) = Share(k + 1) \/ Weight(bits, k + 1) = 0
      BY <1>2, <2>1 DEF Weight
    <2>4. k > 0 => Share(k) = 2 * Share(k + 1)
      <3> SUFFICES ASSUME k > 0 PROVE Share(k) = 2 * Share(k + 1)
        OBVIOUS
      <3>1. k \in 1 .. MaxCodeBits - 1
        BY <1>1, <2>1
      <3> QED
        BY <3>1, ShareFacts
    <2> QED
      BY <2>2, <2>3, <2>4
  <1> QED
    BY <1>2, <1>3

\* What ends behind some first bits is at their value or above, and ends in
\* their share.
LEMMA ValuesBetween ==
  ASSUME NEW bits \in Seq(Bit), Len(bits) <= MaxCodeBits, NEW v, Values(bits, v),
         NEW d \in 1 .. Len(bits)
  PROVE  /\ v[d] <= v[Len(bits)]
         /\ v[Len(bits)] + Share(Len(bits)) <= v[d] + Share(d)
  <1>1. Len(bits) \in Nat /\ d \in Nat /\ d >= 1 /\ d <= Len(bits)
    OBVIOUS
  <1> DEFINE T == {k \in Nat : d + k <= Len(bits) =>
                      v[d] <= v[d + k] /\ v[d + k] + Share(d + k) <= v[d] + Share(d)}
  <1>2. 0 \in T
    <2>1. d \in 0 .. Len(bits) /\ d + 0 = d
      BY <1>1
    <2>2. v[d] \in Nat /\ Share(d) \in Nat
      BY <2>1, ValuesStep
    <2> QED
      BY <2>1, <2>2
  <1>3. ASSUME NEW k \in T PROVE k + 1 \in T
    <2> SUFFICES ASSUME d + (k + 1) <= Len(bits)
                 PROVE  /\ v[d] <= v[d + (k + 1)]
                        /\ v[d + (k + 1)] + Share(d + (k + 1)) <= v[d] + Share(d)
      OBVIOUS
    <2>1. k \in Nat /\ (d + k <= Len(bits) =>
             v[d] <= v[d + k] /\ v[d + k] + Share(d + k) <= v[d] + Share(d))
      OBVIOUS
    <2> HIDE DEF T
    <2>2. PICK e \in Nat : e = d + k
      BY <1>1, <2>1
    <2>3. /\ d + (k + 1) = e + 1 /\ e > 0 /\ e \in 0 .. Len(bits) /\ e + 1 \in 0 .. Len(bits)
          /\ e + 1 <= Len(bits) /\ d \in 0 .. Len(bits) /\ d + k <= Len(bits)
      BY <1>1, <2>1, <2>2
    <2>4. /\ v[e] <= v[e + 1] /\ v[e + 1] + Share(e + 1) <= v[e] + Share(e)
          /\ v[e] \in Nat /\ v[e + 1] \in Nat /\ v[d] \in Nat
          /\ Share(e) \in Nat /\ Share(e + 1) \in Nat /\ Share(d) \in Nat
      BY <2>3, ValuesStep
    <2>5. v[d] <= v[e] /\ v[e] + Share(e) <= v[d] + Share(d)
      BY <2>1, <2>2, <2>3
    <2>6. v[d] <= v[e + 1] /\ v[e + 1] + Share(e + 1) <= v[d] + Share(d)
      <3>1. PICK x1, x2, x3 \in Nat : x1 = v[d] /\ x2 = v[e] /\ x3 = v[e + 1]
        BY <2>4
      <3>2. PICK y1, y2, y3 \in Nat : y1 = Share(d) /\ y2 = Share(e) /\ y3 = Share(e + 1)
        BY <2>4
      <3>3. x2 <= x3 /\ x3 + y3 <= x2 + y2 /\ x1 <= x2 /\ x2 + y2 <= x1 + y1
        BY <2>4, <2>5, <3>1, <3>2
      <3>4. x1 <= x3 /\ x3 + y3 <= x1 + y1
        BY <3>3
      <3> QED
        BY <3>1, <3>2, <3>4
    <2> QED
      BY <2>3, <2>6
  <1>4. T = Nat
    <2> HIDE DEF T
    <2>1. T \subseteq Nat
      BY DEF T
    <2> QED
      BY <1>2, <1>3, <2>1, NatInductionSet
  <1>5. PICK k \in Nat : d + k = Len(bits)
    <2>1. Len(bits) - d \in Nat /\ d + (Len(bits) - d) = Len(bits)
      BY <1>1
    <2> QED
      BY <2>1
  <1>6. k \in T
    <2> HIDE DEF T
    <2> QED
      BY <1>4, <1>5
  <1>7. d + k <= Len(bits)
    BY <1>1, <1>5
  <1> QED
    BY <1>5, <1>6, <1>7

\* A code that branches off before another ends before it.
LEMMA BranchValue ==
  ASSUME NEW a \in Seq(Bit), NEW b \in Seq(Bit), BranchesBefore(a, b),
         Len(a) <= MaxCodeBits, Len(b) <= MaxCodeBits
  PROVE  Value(a) + Share(Len(a)) <= Value(b)
  <1>1. PICK d \in DOMAIN a \cap DOMAIN b :
           (\A k \in 1 .. d - 1 : a[k] = b[k]) /\ a[d] = 0 /\ b[d] = 1
    BY DEF BranchesBefore
  <1>2. d \in 1 .. Len(a) /\ d \in 1 .. Len(b) /\ Len(a) \in Nat /\ Len(b) \in Nat /\ d \in Nat
    BY <1>1
  <1>3. PICK v : Values(a, v) /\ Value(a) = v[Len(a)]
    BY ValueFacts
  <1>4. PICK w : Values(b, w) /\ Value(b) = w[Len(b)]
    BY ValueFacts
  <1> DEFINE T == {k \in Nat : k <= d - 1 => v[k] = w[k]}
  <1>5. 0 \in T
    BY <1>3, <1>4 DEF Values
  <1>6. ASSUME NEW k \in T PROVE k + 1 \in T
    <2> SUFFICES ASSUME k + 1 <= d - 1 PROVE v[k + 1] = w[k + 1]
      OBVIOUS
    <2>1. k \in Nat /\ v[k] = w[k]
      BY <1>2
    <2> HIDE DEF T
    <2>2. /\ k + 1 \in 1 .. Len(a) /\ k + 1 \in 1 .. Len(b) /\ (k + 1) - 1 = k
          /\ k + 1 \in 1 .. d - 1
      BY <1>2, <2>1
    <2>3. v[k + 1] = v[k] + Weight(a, k + 1) /\ w[k + 1] = w[k] + Weight(b, k + 1)
      BY <1>3, <1>4, <2>2 DEF Values
    <2> QED
      BY <1>1, <2>1, <2>2, <2>3 DEF Weight
  <1>7. T = Nat
    <2> HIDE DEF T
    <2>1. T \subseteq Nat
      BY DEF T
    <2> QED
      BY <1>5, <1>6, <2>1, NatInductionSet
  <1>8. v[d - 1] = w[d - 1] /\ d - 1 \in 0 .. Len(a) /\ d \in 0 .. Len(a) /\ d \in 0 .. Len(b)
    <2>1. d - 1 \in Nat /\ d - 1 \in 0 .. Len(a) /\ d \in 0 .. Len(a) /\ d \in 0 .. Len(b)
      BY <1>2
    <2>2. d - 1 \in T
      <3> HIDE DEF T
      <3> QED
        BY <1>7, <2>1
    <2>3. d - 1 <= d - 1
      BY <1>2
    <2> QED
      BY <2>1, <2>2, <2>3
  <1>9. v[d] = v[d - 1] + 0 /\ w[d] = w[d - 1] + Share(d)
    BY <1>1, <1>2, <1>3, <1>4 DEF Values, Weight
  <1>10. /\ v[Len(a)] + Share(Len(a)) <= v[d] + Share(d)
         /\ w[d] <= w[Len(b)]
    BY <1>2, <1>3, <1>4, ValuesBetween
  <1>11. /\ v[d] \in Nat /\ w[d] \in Nat /\ v[d - 1] \in Nat /\ Share(d) \in Nat
         /\ v[Len(a)] \in Nat /\ w[Len(b)] \in Nat /\ Share(Len(a)) \in Nat
    <2>1. Len(a) \in 0 .. Len(a) /\ Len(b) \in 0 .. Len(b)
      BY <1>2
    <2> QED
      BY <1>3, <1>4, <1>8, <2>1, ValuesStep
  <1>12. v[Len(a)] + Share(Len(a)) <= w[Len(b)]
    <2>1. v[d] + Share(d) = w[d]
      <3>1. v[d] = v[d - 1] /\ w[d] = v[d - 1] + Share(d)
        BY <1>8, <1>9, <1>11
      <3> QED
        BY <3>1
    <2>2. \A m, n, o, p \in Nat : m + n <= o /\ o <= p => m + n <= p
      OBVIOUS
    <2> QED
      BY <1>10, <1>11, <2>1, <2>2
  <1> QED
    BY <1>3, <1>4, <1>12

LEMMA BeginningFacts ==
  ASSUME NEW c \in Seq(Bit), NEW k \in 0 .. Len(c)
  PROVE  /\ SubSeq(c, 1, k) \in Seq(Bit) /\ Len(SubSeq(c, 1, k)) = k
         /\ \A i \in 1 .. k : SubSeq(c, 1, k)[i] = c[i]
         /\ \A j \in 0 .. k : SubSeq(SubSeq(c, 1, k), 1, j) = SubSeq(c, 1, j)
         /\ k < Len(c) => /\ c[k + 1] \in Bit
                          /\ SubSeq(c, 1, k + 1) = Append(SubSeq(c, 1, k), c[k + 1])
  OBVIOUS

LEMMA WholeBeginning ==
  ASSUME NEW c \in Seq(Bit) PROVE SubSeq(c, 1, Len(c)) = c /\ SubSeq(c, 1, 0) = <<>>
  OBVIOUS

\* Two codes branch, or one begins with the other.
LEMMA BranchOrBegin ==
  ASSUME NEW a \in Seq(Bit), NEW b \in Seq(Bit)
  PROVE  BranchesBefore(a, b) \/ BranchesBefore(b, a) \/ IsPrefixOf(a, b) \/ IsPrefixOf(b, a)
  <1>1. Len(a) \in Nat /\ Len(b) \in Nat /\ DOMAIN a = 1 .. Len(a) /\ DOMAIN b = 1 .. Len(b)
    OBVIOUS
  <1> DEFINE D == {k \in Nat : k \in DOMAIN a \cap DOMAIN b /\ a[k] # b[k]}
  <1>2. CASE D = {}
    <2>1. \A k \in DOMAIN a \cap DOMAIN b : a[k] = b[k]
      BY <1>1, <1>2
    <2>2. CASE Len(a) <= Len(b)
      <3>1. SubSeq(b, 1, Len(a)) = a
        <4>1. \A k \in 1 .. Len(a) : a[k] = b[k]
          BY <1>1, <2>1, <2>2
        <4> QED
          BY <1>1, <2>2, <4>1
      <3> QED
        BY <2>2, <3>1 DEF IsPrefixOf
    <2>3. CASE Len(b) <= Len(a)
      <3>1. SubSeq(a, 1, Len(b)) = b
        <4>1. \A k \in 1 .. Len(b) : a[k] = b[k]
          BY <1>1, <2>1, <2>3
        <4> QED
          BY <1>1, <2>3, <4>1
      <3> QED
        BY <2>3, <3>1 DEF IsPrefixOf
    <2> QED
      BY <1>1, <2>2, <2>3
  <1>3. CASE D # {}
    <2>1. PICK d \in D : \A k \in D : d <= k
      <3>1. D \in SUBSET Nat
        OBVIOUS
      <3> HIDE DEF D
      <3> QED
        BY <1>3, <3>1, LeastNat
    <2>2. d \in DOMAIN a \cap DOMAIN b /\ a[d] # b[d] /\ d \in Nat
      OBVIOUS
    <2>3. ASSUME NEW k \in 1 .. d - 1 PROVE a[k] = b[k]
      <3>1. k \in Nat /\ k \in DOMAIN a \cap DOMAIN b /\ ~(d <= k)
        BY <1>1, <2>2
      <3>2. k \notin D
        <4> HIDE DEF D
        <4> QED
          BY <2>1, <3>1
      <3> QED
        BY <3>1, <3>2
    <2>4. a[d] \in {0, 1} /\ b[d] \in {0, 1}
      BY <2>2 DEF Bit
    <2> HIDE DEF D
    <2>5. CASE a[d] = 0
      <3>1. b[d] = 1
        BY <2>2, <2>4, <2>5
      <3> QED
        BY <2>2, <2>3, <2>5, <3>1 DEF BranchesBefore
    <2>6. CASE a[d] = 1
      <3>1. b[d] = 0
        BY <2>2, <2>4, <2>6
      <3> QED
        BY <2>2, <2>3, <2>6, <3>1 DEF BranchesBefore
    <2> QED
      BY <2>4, <2>5, <2>6
  <1> QED
    BY <1>2, <1>3

\* A value and a length leave no choice of the code.
LEMMA ValueInjective ==
  ASSUME NEW a \in Seq(Bit), NEW b \in Seq(Bit), Len(a) = Len(b),
         Len(a) \in 1 .. MaxCodeBits, Value(a) = Value(b)
  PROVE  a = b
  <1>1. Len(a) <= MaxCodeBits /\ Len(b) <= MaxCodeBits /\ Len(a) \in Nat
    BY MaxBitsNat
  <1>2. Value(a) \in Nat /\ Share(Len(a)) \in Nat /\ Share(Len(a)) >= 1
    BY ValueBound, ShareNat, ShareFacts
  <1>3. ~BranchesBefore(a, b)
    <2>1. BranchesBefore(a, b) => Value(a) + Share(Len(a)) <= Value(b)
      BY <1>1, BranchValue
    <2> QED
      BY <1>2, <2>1
  <1>4. ~BranchesBefore(b, a)
    <2>1. BranchesBefore(b, a) => Value(b) + Share(Len(b)) <= Value(a)
      BY <1>1, BranchValue
    <2> QED
      BY <1>2, <2>1
  <1>5. IsPrefixOf(a, b) \/ IsPrefixOf(b, a)
    BY <1>3, <1>4, BranchOrBegin
  <1>6. SubSeq(a, 1, Len(a)) = a /\ SubSeq(b, 1, Len(b)) = b
    BY WholeBeginning
  <1> QED
    BY <1>5, <1>6 DEF IsPrefixOf

LEMMA StandardUnique ==
  ASSUME NEW arg \in [Symbol -> 0 .. MaxCodeBits], NEW cs, NEW ds,
         Standard(arg, cs), Standard(arg, ds)
  PROVE  cs = ds
  <1>1. cs \in [Symbol -> Seq(Bit)] /\ ds \in [Symbol -> Seq(Bit)]
    BY DEF Standard
  <1>2. ASSUME NEW s \in Symbol PROVE cs[s] = ds[s]
    <2>1. Len(cs[s]) = arg[s] /\ Len(ds[s]) = arg[s] /\ cs[s] \in Seq(Bit) /\ ds[s] \in Seq(Bit)
      BY <1>1 DEF Standard
    <2>2. CASE arg[s] = 0
      BY <2>1, <2>2, EmptySeq
    <2>3. CASE arg[s] # 0
      <3>1. arg[s] \in 1 .. MaxCodeBits
        BY <2>3, MaxBitsNat
      <3>2. Value(cs[s]) = Value(ds[s])
        BY <2>3 DEF Standard
      <3> QED
        BY <2>1, <3>1, <3>2, ValueInjective
    <2> QED
      BY <2>2, <2>3
  <1> QED
    BY <1>1, <1>2

LEMMA CodesStandard ==
  ASSUME CodesInv, CodesInPlace, cpc = "ok" PROVE Standard(table, codes)
  <1>1. Given(table, order, coded, current, codes)
    BY CodesInvMeans
  <1>2. \A s \in Symbol : Len(codes[s]) = table[s]
    BY DEF CodesInv, CodesFitTheTable
  <1>3. codes \in [Symbol -> Seq(Bit)]
    BY <1>1 DEF Given
  <1>4. ASSUME NEW s \in Symbol, table[s] # 0 PROVE Value(codes[s]) = Kraft(Sooner(table, s))
    <2>1. PICK i \in 1 .. coded : order[i] = s
      BY <1>1, <1>2, <1>4 DEF Given
    <2> QED
      BY <2>1 DEF CodesInPlace
  <1> QED
    BY <1>2, <1>3, <1>4 DEF Standard

====
