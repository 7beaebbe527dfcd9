------------------------- MODULE HuffmanCodecProofs -------------------------
(***************************************************************************)
(* The decode tree, the bit writer and the bit reader: what becomes of a   *)
(* text that is compressed and decompressed, and of any other payload.     *)
(*                                                                         *)
(* In build_decode_tree each node stands for the beginning of a code, its  *)
(* path; GrownHangs says what a new node does to the paths.  A walk along  *)
(* bits reaches the node whose path they are (WalkAlongPath).  Lengths     *)
(* that fill the code space leave no gap in the tree, which then has room  *)
(* in its array (RoomIfFull).                                              *)
(*                                                                         *)
(* The bits of a payload are one sequence, to which the writer appends one *)
(* at a time (WroteFacts) and from which the reader takes one (ReadStep).  *)
(* It begins with the codes of what was put out and the path of the node   *)
(* reached.  The writer and the reader of a text have the same codes,      *)
(* since the lengths determine them; so what comes next in its bits is the *)
(* code of the next symbol (ReadText), up to the last one.                 *)
(***************************************************************************)
EXTENDS HuffmanProofs

----------------------------------------------------------------------------
(* The invariants of the payload.                                          *)

Bits == [i \in 1 .. payload.bit_count |-> BitAt(i - 1)]

Coding(cs, symbols) == FlattenSeq([i \in DOMAIN symbols |-> cs[symbols[i]]])

Compressing == phase \in {"lengths", "codes", "write"}
Decoding    == phase \in {"table", "tree", "read"}

\* Which helpers have run, and what they were called with.
PhaseInv ==
    /\ phase \in {"lengths", "codes", "write", "payload", "table", "tree", "read", "ok", "fail"}
    /\ foreign => ~Compressing
    /\ text \in Seq(Symbol)
    /\ payload.lengths \in [Symbol -> 0 .. MaxCodeBits]
    /\ payload.data \in Seq(Nat)
    /\ payload.bit_count \in Nat /\ payload.token_size \in Nat
    /\ phase = "codes" => cpc # "idle"
    /\ phase = "write" => cpc = "ok"
    /\ phase = "tree" => cpc = "ok" /\ tpc # "idle"
    /\ phase \in {"read", "ok"} => cpc = "ok" /\ tpc = "ok"
    /\ Decoding \/ phase = "ok" => PayloadOK /\ table = payload.lengths
    /\ Compressing \/ phase \in {"payload", "table", "tree"} =>
          rpos = 0 /\ node = 1 /\ out = <<>>

\* The bits of a payload, one behind the other, and zeros behind the last.
Packed ==
    LET count == payload.bit_count
        used  == count % ByteBits
    IN /\ \A i \in DOMAIN payload.data : payload.data[i] < pow2[ByteBits]
       /\ Len(payload.data) = (count + ByteBits - 1) \div ByteBits
       /\ used # 0 => Last(payload.data) % pow2[ByteBits - used] = 0

\* The bits written are the codes of the symbols written and the beginning
\* of one more; cs are the codes.
TextWritten(cs) ==
    /\ Standard(lengths, cs)
    /\ Packed
    /\ written \in 0 .. Len(text)
    /\ IF written = Len(text)
       THEN Bits = Coding(cs, text)
       ELSE /\ wbit \in 0 .. Len(cs[text[written + 1]]) - 1
            /\ Bits = Coding(cs, SubSeq(text, 1, written))
                         \o SubSeq(cs[text[written + 1]], 1, wbit)

\* What is decoded is the beginning of the text, up to the symbol whose code
\* is being read.
TextRead ==
    /\ Len(out) <= Len(text)
    /\ out = SubSeq(text, 1, Len(out))
    /\ IF Len(out) = Len(text)
       THEN rpos = payload.bit_count
       ELSE rpos < Len(Coding(codes, out)) + Len(codes[text[Len(out) + 1]])

\* A text that is compressed and decompressed again.
TextOnItsWay ==
    /\ text # <<>> /\ phase # "fail"
    /\ phase \in {"lengths", "codes"} =>
          payload.data = <<>> /\ payload.bit_count = 0 /\ written = 0 /\ wbit = 0
    /\ phase # "lengths" => hpc = "returned"
    /\ phase \in {"codes", "write"} => table = lengths
    /\ ~Compressing => /\ payload.lengths = lengths
                       /\ payload.token_size = Len(text)
                       /\ written = Len(text)
    /\ phase \notin {"lengths", "codes"} => \E cs : TextWritten(cs)
    /\ phase \in {"read", "ok"} => TextRead

TextInv == ~foreign => TextOnItsWay

\* The bits behind the codes of what is decoded lead to the node reached.
ReadStands(path) ==
    LET done == Coding(codes, out)
    IN /\ TreeStands(path)
       /\ out \in Seq(Symbol) /\ Len(out) <= payload.token_size
       /\ rpos \in 0 .. payload.bit_count
       /\ Len(done) <= rpos /\ IsPrefixOf(done, Bits)
       /\ node \in DOMAIN tree
       /\ path[node] = SubSeq(Bits, Len(done) + 1, rpos)
       /\ phase = "ok" => /\ rpos = payload.bit_count /\ node = 1
                          /\ Len(out) = payload.token_size

ReadInv == phase \in {"read", "ok"} => \E path : ReadStands(path)

----------------------------------------------------------------------------
(* Beginnings of codes.                                                    *)

LEMMA AppendFacts ==
  ASSUME NEW c \in Seq(Bit), NEW a \in Bit
  PROVE  /\ Append(c, a) \in Seq(Bit) /\ Len(Append(c, a)) = Len(c) + 1
         /\ \A k \in 0 .. Len(c) : SubSeq(Append(c, a), 1, k) = SubSeq(c, 1, k)
  OBVIOUS

LEMMA AppendApart ==
  ASSUME NEW c \in Seq(Bit), NEW d \in Seq(Bit), NEW a \in Bit, NEW b \in Bit,
         Append(c, a) = Append(d, b)
  PROVE  c = d /\ a = b
  OBVIOUS

\* The beginnings of some codes.
Beginnings(cs) ==
    UNION {{SubSeq(cs[s], 1, k) : k \in 0 .. Len(cs[s])} : s \in Symbol}

LEMMA BeginningsMeans ==
  ASSUME NEW cs \in [Symbol -> Seq(Bit)]
  PROVE  /\ \A p : p \in Beginnings(cs) <=>
                      \E s \in Symbol : \E k \in 0 .. Len(cs[s]) : p = SubSeq(cs[s], 1, k)
         /\ Beginnings(cs) \subseteq Seq(Bit)
         /\ <<>> \in Beginnings(cs)
  <1>1. \A p : p \in Beginnings(cs) <=>
                  \E s \in Symbol : \E k \in 0 .. Len(cs[s]) : p = SubSeq(cs[s], 1, k)
    BY DEF Beginnings
  <1>2. ASSUME NEW p \in Beginnings(cs) PROVE p \in Seq(Bit)
    <2>1. PICK s \in Symbol : \E k \in 0 .. Len(cs[s]) : p = SubSeq(cs[s], 1, k)
      BY <1>1
    <2> QED
      BY <2>1, BeginningFacts
  <1>3. <<>> \in Beginnings(cs)
    <2>1. 0 \in Symbol
      BY SymbolsNat DEF Symbol
    <2>2. 0 \in 0 .. Len(cs[0]) /\ SubSeq(cs[0], 1, 0) = <<>>
      BY <2>1, WholeBeginning
    <2> QED
      BY <1>1, <2>1, <2>2
  <1> QED
    BY <1>1, <1>2, <1>3

\* There are finitely many.
LEMMA BeginningsFinite ==
  ASSUME NEW cs \in [Symbol -> Seq(Bit)], \A s \in Symbol : Len(cs[s]) <= MaxCodeBits
  PROVE  IsFiniteSet(Beginnings(cs)) /\ Cardinality(Beginnings(cs)) \in Nat
  <1> DEFINE D == Symbol \X (0 .. MaxCodeBits)
             Cut(p) == IF p[2] <= Len(cs[p[1]]) THEN SubSeq(cs[p[1]], 1, p[2]) ELSE <<>>
             f == [p \in D |-> Cut(p)]
  <1>1. IsFiniteSet(D)
    <2>1. IsFiniteSet(Symbol) /\ IsFiniteSet(0 .. MaxCodeBits)
      BY SymbolsNat, MaxBitsNat, FS_Interval DEF Symbol
    <2> QED
      BY <2>1, FS_Product
  <1>2. ASSUME NEW p \in D PROVE Cut(p) \in Beginnings(cs)
    <2>1. p[1] \in Symbol /\ p[2] \in 0 .. MaxCodeBits
      OBVIOUS
    <2>2. CASE p[2] <= Len(cs[p[1]])
      <3>1. p[2] \in 0 .. Len(cs[p[1]])
        BY <2>1, <2>2, MaxBitsNat
      <3> QED
        BY <2>1, <2>2, <3>1, BeginningsMeans
    <2>3. CASE ~(p[2] <= Len(cs[p[1]]))
      BY <2>3, BeginningsMeans
    <2> QED
      BY <2>2, <2>3
  <1>3. ASSUME NEW b \in Beginnings(cs) PROVE \E p \in D : Cut(p) = b
    <2>0. PICK s \in Symbol : \E k \in 0 .. Len(cs[s]) : b = SubSeq(cs[s], 1, k)
      BY BeginningsMeans
    <2>1. PICK k \in 0 .. Len(cs[s]) : b = SubSeq(cs[s], 1, k)
      BY <2>0
    <2>2. k \in 0 .. MaxCodeBits /\ k <= Len(cs[s])
      BY <2>1, MaxBitsNat
    <2>3. <<s, k>> \in D /\ Cut(<<s, k>>) = b
      BY <2>1, <2>2
    <2> QED
      BY <2>3
  <1> HIDE DEF D, Cut
  <1>4. f \in Surjection(D, Beginnings(cs))
    BY <1>2, <1>3 DEF Surjection
  <1>5. IsFiniteSet(Beginnings(cs))
    BY <1>1, <1>4, FS_Surjection
  <1> QED
    BY <1>5, FS_CardinalityType

----------------------------------------------------------------------------
(* The decoder's tree.                                                     *)

\* PathsOfNodes and the rest of TreeStands, of a tree t for the codes cs whose
\* first k symbols it has.
Hangs(t, C, path) ==
    /\ path \in [DOMAIN t -> C]
    /\ path[1] = <<>>
    /\ \A m, n \in DOMAIN t : path[m] = path[n] => m = n
    /\ \A n \in DOMAIN t, b \in Bit :
          /\ t[n].child[b] \in {None} \cup DOMAIN t
          /\ \A m \in DOMAIN t : t[n].child[b] = m <=> path[m] = Append(path[n], b)
    /\ \A n \in DOMAIN t : \A k \in 0 .. Len(path[n]) :
          \E m \in DOMAIN t : path[m] = SubSeq(path[n], 1, k)

Carries(t, cs, path, k) ==
    /\ \A n \in DOMAIN t : t[n].symbol # Inner =>
          /\ t[n].symbol < k
          /\ cs[t[n].symbol] # <<>>
          /\ path[n] = cs[t[n].symbol]
    /\ \A s \in Symbol : s < k /\ cs[s] # <<>> =>
          \E n \in DOMAIN t : path[n] = cs[s] /\ t[n].symbol = s

Reaches(cs, path, s, d, n) == path[n] = SubSeq(cs[s], 1, d)

TreeNode == [child : [Bit -> Nat], symbol : Symbol \cup {Inner}]

TreeShape(t) == t \in Seq(TreeNode) /\ Len(t) \in 1 .. MaxNodes

TreePlace(pc, t, cs, s, d, n) ==
    /\ s \in 0 .. Symbols
    /\ pc = "bit" => /\ s \in Symbol /\ cs[s] # <<>>
                     /\ d \in 0 .. Len(cs[s]) /\ n \in DOMAIN t
    /\ pc = "ok" => s = Symbols

Stands(pc, t, cs, path, s, d, n) ==
    /\ Hangs(t, Beginnings(cs), path)
    /\ Carries(t, cs, path, s)
    /\ pc = "bit" => Reaches(cs, path, s, d, n)

LEMMA TreeInvMeans ==
  TreeInv <=> /\ tpc \in {"idle", "symbol", "bit", "ok", "fail"}
              /\ TreeShape(tree) /\ TreePlace(tpc, tree, codes, tsymbol, depth, at)
              /\ tpc # "idle" => \E p : Stands(tpc, tree, codes, p, tsymbol, depth, at)
              /\ tpc = "fail" => Cardinality(Beginnings(codes)) > MaxNodes
  BY DEF TreeInv, TreeTypes, TreeHoldsCodes, TreeStands, PathsOfNodes, CodePaths, TreeShape,
         TreePlace, Stands, Hangs, Carries, Reaches, Beginnings, TreeNode

LEMMA TreeInvMeansNext ==
  TreeInv' <=> /\ tpc' \in {"idle", "symbol", "bit", "ok", "fail"}
               /\ TreeShape(tree') /\ TreePlace(tpc', tree', codes', tsymbol', depth', at')
               /\ tpc' # "idle" => \E p : Stands(tpc', tree', codes', p, tsymbol', depth', at')
               /\ tpc' = "fail" => Cardinality(Beginnings(codes')) > MaxNodes
  BY DEF TreeInv, TreeTypes, TreeHoldsCodes, TreeStands, PathsOfNodes, CodePaths, TreeShape,
         TreePlace, Stands, Hangs, Carries, Reaches, Beginnings, TreeNode

\* The codes the tree is made for.
Apart(cs) ==
    /\ cs \in [Symbol -> Seq(Bit)] /\ \A s \in Symbol : Len(cs[s]) <= MaxCodeBits
    /\ \A s, u \in Symbol : cs[s] # <<>> /\ cs[u] # <<>> /\ s # u => ~IsPrefixOf(cs[s], cs[u])

LEMMA NodesNat == MaxNodes \in Nat /\ MaxNodes >= 1
  BY SymbolsNat DEF MaxNodes

LEMMA NewTree ==
  ASSUME NEW cs, Apart(cs)
  PROVE  /\ TreeShape(<<Fresh>>)
         /\ \E p : Hangs(<<Fresh>>, Beginnings(cs), p) /\ Carries(<<Fresh>>, cs, p, 0)
  <1> DEFINE p == [n \in 1 .. 1 |-> <<>>]
  <1>1. Fresh \in TreeNode /\ Fresh.symbol = Inner /\ \A b \in Bit : Fresh.child[b] = None
    BY DEF Fresh, TreeNode, None
  <1> DEFINE t == <<Fresh>>
  <1>2. t \in Seq(TreeNode) /\ Len(t) = 1 /\ DOMAIN t = 1 .. 1 /\ t[1] = Fresh
    BY <1>1
  <1> HIDE DEF t
  <1>3. TreeShape(t)
    BY <1>2, NodesNat DEF TreeShape
  <1>4. p \in [DOMAIN t -> Beginnings(cs)] /\ p[1] = <<>>
    BY <1>2, BeginningsMeans DEF Apart
  <1>5. \A n \in DOMAIN t : n = 1
    BY <1>2
  <1>6. \A b \in Bit : Append(<<>>, b) # <<>>
    OBVIOUS
  <1> HIDE DEF p
  <1>7. \A n \in DOMAIN t : \A k \in 0 .. Len(p[n]) : \E m \in DOMAIN t : p[m] = SubSeq(p[n], 1, k)
    <2>1. \A k \in 0 .. Len(<<>>) : SubSeq(<<>>, 1, k) = <<>>
      OBVIOUS
    <2> QED
      BY <1>2, <1>4, <1>5, <2>1
  <1>8. Hangs(t, Beginnings(cs), p)
    <2>1. None # 1
      BY DEF None
    <2> QED
      BY <1>1, <1>2, <1>4, <1>5, <1>6, <1>7, <2>1 DEF Hangs
  <1>9. Carries(t, cs, p, 0)
    <2>1. \A s \in Symbol : ~(s < 0)
      BY SymbolIsInt
    <2> QED
      BY <1>1, <1>2, <1>5, <2>1 DEF Carries
  <1> QED
    BY <1>3, <1>8, <1>9 DEF t

\* What hangs in a tree, for one node.
LEMMA HangsFacts ==
  ASSUME NEW cs, Apart(cs), NEW t, TreeShape(t), NEW p, Hangs(t, Beginnings(cs), p)
  PROVE  /\ DOMAIN t = 1 .. Len(t) /\ Len(t) \in Nat /\ 1 \in DOMAIN t /\ None \notin DOMAIN t
         /\ \A n \in DOMAIN t : p[n] \in Seq(Bit) /\ p[n] \in Beginnings(cs)
         /\ \A n \in DOMAIN t, b \in Bit : t[n].child[b] \in {None} \cup DOMAIN t
         /\ \A n \in DOMAIN t : t[n] \in TreeNode
  <1>1. DOMAIN t = 1 .. Len(t) /\ Len(t) \in Nat /\ 1 \in DOMAIN t
    BY NodesNat DEF TreeShape
  <1>2. None \notin DOMAIN t
    BY <1>1 DEF None
  <1>3. \A n \in DOMAIN t : p[n] \in Beginnings(cs)
    BY DEF Hangs
  <1>4. \A n \in DOMAIN t, b \in Bit : t[n].child[b] \in {None} \cup DOMAIN t
    BY DEF Hangs
  <1>5. \A n \in DOMAIN t : t[n] \in TreeNode
    BY <1>1 DEF TreeShape
  <1> QED
    BY <1>1, <1>2, <1>3, <1>4, <1>5, BeginningsMeans DEF Apart

LEMMA HangsChild ==
  ASSUME NEW t, NEW C, NEW p, Hangs(t, C, p), NEW n \in DOMAIN t, NEW m \in DOMAIN t, NEW b \in Bit
  PROVE  t[n].child[b] = m <=> p[m] = Append(p[n], b)
  BY DEF Hangs

\* u is t with one node more, N, below n.
Grown(t, u, n, b, N) ==
    /\ N \notin DOMAIN t /\ N # None /\ DOMAIN u = DOMAIN t \cup {N}
    /\ u[N] = Fresh
    /\ \A m \in DOMAIN t :
          /\ u[m].symbol = t[m].symbol
          /\ \A c \in Bit : u[m].child[c] = IF m = n /\ c = b THEN N ELSE t[m].child[c]

LEMMA GrownHangs ==
  ASSUME NEW cs, Apart(cs), NEW t, TreeShape(t), NEW p, NEW k,
         Hangs(t, Beginnings(cs), p), Carries(t, cs, p, k),
         NEW n \in DOMAIN t, NEW b \in Bit, t[n].child[b] = None,
         Append(p[n], b) \in Beginnings(cs),
         NEW u, NEW N, Grown(t, u, n, b, N)
  PROVE  \E q : /\ Hangs(u, Beginnings(cs), q) /\ Carries(u, cs, q, k)
                /\ q[N] = Append(p[n], b)
  <1> DEFINE new == Append(p[n], b)
             q == [m \in DOMAIN u |-> IF m = N THEN new ELSE p[m]]
  <1>1. /\ DOMAIN t = 1 .. Len(t) /\ Len(t) \in Nat /\ 1 \in DOMAIN t /\ None \notin DOMAIN t
        /\ \A m \in DOMAIN t : p[m] \in Seq(Bit) /\ p[m] \in Beginnings(cs)
        /\ \A m \in DOMAIN t, c \in Bit : t[m].child[c] \in {None} \cup DOMAIN t
        /\ \A m \in DOMAIN t : t[m] \in TreeNode
    BY HangsFacts
  <1>2. N \notin DOMAIN t /\ DOMAIN u = DOMAIN t \cup {N} /\ N # None /\ N # 1
    BY <1>1 DEF Grown
  <1>3. u[N].symbol = Inner /\ \A c \in Bit : u[N].child[c] = None
    BY DEF Fresh, None, Grown
  <1>4. \A m \in DOMAIN t :
           /\ u[m].symbol = t[m].symbol
           /\ \A c \in Bit : u[m].child[c] = IF m = n /\ c = b THEN N ELSE t[m].child[c]
    BY DEF Grown
  <1>7. DOMAIN t \subseteq DOMAIN u /\ N \in DOMAIN u
    BY <1>2
  <1>8. /\ q[N] = new /\ \A m \in DOMAIN t : q[m] = p[m]
        /\ q \in [DOMAIN u -> Beginnings(cs)]
    <2>1. q[N] = new /\ \A m \in DOMAIN t : q[m] = p[m]
      BY <1>2
    <2>2. \A m \in DOMAIN u : q[m] \in Beginnings(cs)
      BY <1>1, <1>2
    <2> QED
      BY <2>1, <2>2
  <1>9. new \in Seq(Bit) /\ Len(new) = Len(p[n]) + 1 /\ Len(p[n]) \in Nat
        /\ \A k2 \in 0 .. Len(p[n]) : SubSeq(new, 1, k2) = SubSeq(p[n], 1, k2)
    BY <1>1, AppendFacts
  <1>10. \A m \in DOMAIN t : p[m] # new
    <2> SUFFICES ASSUME NEW m \in DOMAIN t, p[m] = new PROVE FALSE
      OBVIOUS
    <2>1. t[n].child[b] = m
      BY HangsChild
    <2> QED
      BY <1>1, <2>1
  <1> HIDE DEF q, new
  <1>11. q[1] = <<>>
    BY <1>1, <1>8 DEF Hangs
  <1>12. \A m, o \in DOMAIN u : q[m] = q[o] => m = o
    BY <1>2, <1>8, <1>10 DEF Hangs
  <1>13. ASSUME NEW o \in DOMAIN u, NEW c \in Bit
         PROVE  /\ u[o].child[c] \in {None} \cup DOMAIN u
                /\ \A m \in DOMAIN u : u[o].child[c] = m <=> q[m] = Append(q[o], c)
    <2>1. CASE o = N
      <3>1. u[o].child[c] = None
        BY <1>3, <2>1
      <3>2. ASSUME NEW m \in DOMAIN u, q[m] = Append(q[o], c) PROVE FALSE
        <4>1. q[m] = Append(new, c)
          BY <1>8, <2>1, <3>2
        <4>2. Len(Append(new, c)) = Len(new) + 1 /\ Len(new) \in Nat
              /\ SubSeq(Append(new, c), 1, Len(new)) = new
          BY <1>9, AppendFacts, WholeBeginning
        <4>3. m # N
          BY <1>8, <4>1, <4>2
        <4>4. m \in DOMAIN t /\ q[m] = p[m]
          BY <1>2, <1>8, <4>3
        <4>5. Len(new) \in 0 .. Len(p[m])
          BY <4>1, <4>2, <4>4
        <4>6. PICK o2 \in DOMAIN t : p[o2] = SubSeq(p[m], 1, Len(new))
          BY <4>4, <4>5 DEF Hangs
        <4> QED
          BY <1>10, <4>1, <4>2, <4>4, <4>6
      <3>3. None \notin DOMAIN u
        BY <1>1, <1>2
      <3> QED
        BY <3>1, <3>2, <3>3
    <2>2. CASE o # N
      <3>1. o \in DOMAIN t /\ q[o] = p[o]
        BY <1>2, <1>8, <2>2
      <3>2. u[o].child[c] = IF o = n /\ c = b THEN N ELSE t[o].child[c]
        BY <1>4, <3>1
      <3>3. CASE o = n /\ c = b
        <4>1. u[o].child[c] = N /\ N \in DOMAIN u
          BY <1>7, <3>2, <3>3
        <4>2. Append(q[o], c) = new /\ q[N] = new
          BY <1>8, <3>1, <3>3 DEF new
        <4> QED
          BY <1>7, <1>12, <4>1, <4>2
      <3>4. CASE ~(o = n /\ c = b)
        <4>1. u[o].child[c] = t[o].child[c] /\ t[o].child[c] \in {None} \cup DOMAIN t
          BY <1>1, <3>1, <3>2, <3>4
        <4>2. u[o].child[c] # N
          BY <1>2, <4>1
        <4>3. Append(p[o], c) # new
          <5> SUFFICES ASSUME Append(p[o], c) = Append(p[n], b) PROVE FALSE
            BY DEF new
          <5>1. p[o] = p[n] /\ c = b
            <6>1. p[o] \in Seq(Bit) /\ p[n] \in Seq(Bit) /\ c \in Bit /\ b \in Bit
              BY <1>1, <3>1
            <6>2. Append(p[o], c) = Append(p[n], b) => p[o] = p[n] /\ c = b
              <7>1. PICK x \in Seq(Bit) : x = p[o]
                BY <6>1
              <7>2. PICK y \in Seq(Bit) : y = p[n]
                BY <6>1
              <7>3. Append(x, c) = Append(y, b) => x = y /\ c = b
                BY ONLY <6>1, <7>1, <7>2, AppendApart
              <7> QED
                BY <7>1, <7>2, <7>3
            <6> QED
              BY <6>2
          <5> QED
            BY <3>1, <3>4, <5>1 DEF Hangs
        <4>4. ASSUME NEW m \in DOMAIN u
              PROVE  u[o].child[c] = m <=> q[m] = Append(q[o], c)
          <5>1. CASE m = N
            BY <1>8, <3>1, <4>2, <4>3, <5>1
          <5>2. CASE m # N
            <6>1. m \in DOMAIN t /\ q[m] = p[m]
              BY <1>2, <1>8, <5>2
            <6>2. t[o].child[c] = m <=> p[m] = Append(p[o], c)
              BY <3>1, <6>1, HangsChild
            <6> QED
              BY <3>1, <4>1, <6>1, <6>2
          <5> QED
            BY <5>1, <5>2
        <4> QED
          BY <1>7, <4>1, <4>4
      <3> QED
        BY <3>3, <3>4
    <2> QED
      BY <2>1, <2>2
  <1>14. ASSUME NEW o \in DOMAIN u, NEW j \in 0 .. Len(q[o])
         PROVE  \E m \in DOMAIN u : q[m] = SubSeq(q[o], 1, j)
    <2>1. CASE o # N
      <3>1. o \in DOMAIN t /\ q[o] = p[o]
        BY <1>2, <1>8, <2>1
      <3>2. PICK m \in DOMAIN t : p[m] = SubSeq(p[o], 1, j)
        BY <3>1 DEF Hangs
      <3> QED
        BY <1>7, <1>8, <3>1, <3>2
    <2>2. CASE o = N /\ j = Len(new)
      <3>1. SubSeq(q[o], 1, j) = q[N]
        BY <1>8, <1>9, <2>2, WholeBeginning
      <3> QED
        BY <1>7, <3>1
    <2>3. CASE o = N /\ j # Len(new)
      <3>1. j \in 0 .. Len(p[n]) /\ q[o] = new
        BY <1>8, <1>9, <2>3
      <3>2. SubSeq(q[o], 1, j) = SubSeq(p[n], 1, j)
        BY <1>9, <3>1
      <3>3. PICK m \in DOMAIN t : p[m] = SubSeq(p[n], 1, j)
        BY <3>1 DEF Hangs
      <3> QED
        BY <1>7, <1>8, <3>2, <3>3
    <2> QED
      BY <2>1, <2>2, <2>3
  <1>15. Hangs(u, Beginnings(cs), q)
    BY <1>8, <1>11, <1>12, <1>13, <1>14 DEF Hangs
  <1>16. Carries(u, cs, q, k)
    <2>1. \A m \in DOMAIN t : u[m].symbol = t[m].symbol /\ q[m] = p[m]
      BY <1>4, <1>8
    <2>2. u[N].symbol = Inner
      BY <1>3
    <2>3. ASSUME NEW m \in DOMAIN u, u[m].symbol # Inner
          PROVE  /\ u[m].symbol < k /\ cs[u[m].symbol] # <<>> /\ q[m] = cs[u[m].symbol]
      <3>1. m \in DOMAIN t
        BY <1>2, <2>2, <2>3
      <3> QED
        BY <2>1, <2>3, <3>1 DEF Carries
    <2>4. ASSUME NEW s \in Symbol, s < k, cs[s] # <<>>
          PROVE  \E m \in DOMAIN u : q[m] = cs[s] /\ u[m].symbol = s
      <3>1. PICK m \in DOMAIN t : p[m] = cs[s] /\ t[m].symbol = s
        BY <2>4 DEF Carries
      <3> QED
        BY <1>7, <2>1, <3>1
    <2> QED
      BY <2>3, <2>4 DEF Carries
  <1> QED
    BY <1>8, <1>15, <1>16 DEF new

Sprout(t, n, b) == Append([t EXCEPT ![n].child[b] = Len(t) + 1], Fresh)

\* A bit for which there is no node yet.
LEMMA NewNode ==
  ASSUME NEW cs, Apart(cs), NEW t, TreeShape(t), NEW p, NEW k,
         Hangs(t, Beginnings(cs), p), Carries(t, cs, p, k),
         NEW n \in DOMAIN t, NEW b \in Bit, t[n].child[b] = None,
         Append(p[n], b) \in Beginnings(cs), Len(t) < MaxNodes,
         NEW u, u = Sprout(t, n, b)
  PROVE  /\ TreeShape(u) /\ Len(t) + 1 \in DOMAIN u
         /\ \E q : /\ Hangs(u, Beginnings(cs), q) /\ Carries(u, cs, q, k)
                   /\ q[Len(t) + 1] = Append(p[n], b)
  <1> DEFINE e == [t EXCEPT ![n].child[b] = Len(t) + 1]
  <1>1. PICK N : N = Len(t) + 1
    OBVIOUS
  <1>2. /\ DOMAIN t = 1 .. Len(t) /\ Len(t) \in Nat
        /\ \A m \in DOMAIN t : t[m] \in TreeNode
    BY HangsFacts
  <1>3. N \in Nat /\ N \notin DOMAIN t /\ 1 .. N = DOMAIN t \cup {N} /\ N # None /\ N \in 1 .. MaxNodes
    BY <1>1, <1>2, NodesNat DEF None
  <1>4. /\ e \in Seq(TreeNode) /\ Len(e) = Len(t)
        /\ \A m \in DOMAIN t : /\ e[m].symbol = t[m].symbol
                               /\ \A c \in Bit : e[m].child[c] = IF m = n /\ c = b THEN N
                                                                ELSE t[m].child[c]
    <2>1. DOMAIN e = DOMAIN t
      OBVIOUS
    <2>2. ASSUME NEW m \in DOMAIN t
          PROVE  /\ e[m] \in TreeNode /\ e[m].symbol = t[m].symbol
                 /\ \A c \in Bit : e[m].child[c] = IF m = n /\ c = b THEN N ELSE t[m].child[c]
      <3>1. CASE m = n
        <4>1. e[m] = [t[n] EXCEPT !.child[b] = N]
          BY <1>1, <3>1
        <4>2. t[n] \in TreeNode
          BY <1>2
        <4>3. t[n].child \in [Bit -> Nat] /\ t[n].symbol \in Symbol \cup {Inner}
          BY <4>2 DEF TreeNode
        <4>4. e[m].child = [t[n].child EXCEPT ![b] = N] /\ e[m].symbol = t[n].symbol
          <5>1. PICK v : v = t[n]
            OBVIOUS
          <5>2. v \in TreeNode /\ e[m] = [v EXCEPT !.child[b] = N]
            BY <4>1, <4>2, <5>1
          <5>3. e[m].child = [v.child EXCEPT ![b] = N] /\ e[m].symbol = v.symbol
            BY ONLY <5>2 DEF TreeNode
          <5> QED
            BY <5>1, <5>3
        <4>5. e[m] \in TreeNode
          <5>1. PICK v : v = t[n]
            OBVIOUS
          <5>2. v \in TreeNode /\ e[m] = [v EXCEPT !.child[b] = N] /\ N \in Nat
            BY <1>3, <4>1, <4>2, <5>1
          <5>3. v.child \in [Bit -> Nat] /\ v.symbol \in Symbol \cup {Inner}
            BY <5>2 DEF TreeNode
          <5>4. [v.child EXCEPT ![b] = N] \in [Bit -> Nat]
            BY ONLY <5>2, <5>3
          <5>5. e[m] = [child |-> [v.child EXCEPT ![b] = N], symbol |-> v.symbol]
            BY ONLY <5>2 DEF TreeNode
          <5> QED
            BY ONLY <5>3, <5>4, <5>5 DEF TreeNode
        <4> QED
          BY <3>1, <4>3, <4>4, <4>5
      <3>2. CASE m # n
        <4>1. e[m] = t[m]
          BY <3>2
        <4> QED
          BY <1>2, <3>2, <4>1
      <3> QED
        BY <3>1, <3>2
    <2> HIDE DEF e
    <2>3. e \in [1 .. Len(t) -> TreeNode]
      <3>1. \A m \in 1 .. Len(t) : e[m] \in TreeNode
        BY <1>2, <2>2
      <3>2. DOMAIN e = 1 .. Len(t) /\ e = [m \in DOMAIN e |-> e[m]]
        BY <1>2, <2>1 DEF e
      <3> QED
        BY <3>1, <3>2
    <2> QED
      BY <1>2, <2>2, <2>3
  <1>5. u = Append(e, Fresh)
    BY DEF Sprout
  <1>6. Fresh \in TreeNode
    BY DEF Fresh, TreeNode, None
  <1>7. /\ u \in Seq(TreeNode) /\ Len(u) = N /\ u[N] = Fresh
        /\ \A m \in DOMAIN t : u[m] = e[m]
    <2> HIDE DEF e
    <2>1. PICK f : f = e
      OBVIOUS
    <2>2. f \in Seq(TreeNode) /\ u = Append(f, Fresh) /\ Len(f) = Len(t) /\ DOMAIN t = 1 .. Len(f)
      BY <1>2, <1>4, <1>5, <2>1
    <2>3. u \in Seq(TreeNode) /\ Len(u) = Len(f) + 1 /\ u[Len(f) + 1] = Fresh
          /\ \A m \in 1 .. Len(f) : u[m] = f[m]
      BY ONLY <1>6, <2>2, AppendProperties
    <2> QED
      BY <1>1, <2>1, <2>2, <2>3
  <1> HIDE DEF e
  <1>8. TreeShape(u) /\ N \in DOMAIN u
    BY <1>3, <1>7 DEF TreeShape
  <1>9. Grown(t, u, n, b, N)
    <2>1. DOMAIN u = DOMAIN t \cup {N}
      BY <1>3, <1>7
    <2> QED
      BY <1>3, <1>4, <1>7, <2>1 DEF Grown
  <1>10. \E q : /\ Hangs(u, Beginnings(cs), q) /\ Carries(u, cs, q, k)
                /\ q[N] = Append(p[n], b)
    <2>1. /\ Apart(cs) /\ TreeShape(t) /\ Hangs(t, Beginnings(cs), p) /\ Carries(t, cs, p, k)
          /\ n \in DOMAIN t /\ b \in Bit /\ t[n].child[b] = None
          /\ Append(p[n], b) \in Beginnings(cs)
      OBVIOUS
    <2> QED
      BY ONLY <1>9, <2>1, GrownHangs
  <1> QED
    BY <1>1, <1>8, <1>10

\* No code ends on the way of another.
LEMMA WayIsFree ==
  ASSUME NEW cs, Apart(cs), NEW t, TreeShape(t), NEW p, NEW s \in Symbol,
         Hangs(t, Beginnings(cs), p), Carries(t, cs, p, s),
         cs[s] # <<>>, NEW d \in 0 .. Len(cs[s]), NEW n \in DOMAIN t, Reaches(cs, p, s, d, n)
  PROVE  t[n].symbol = Inner
  <1> SUFFICES ASSUME t[n].symbol # Inner PROVE FALSE
    OBVIOUS
  <1>1. t[n] \in TreeNode
    BY HangsFacts
  <1>2. PICK r : r = t[n].symbol
    OBVIOUS
  <1>3. r \in Symbol /\ r < s /\ cs[r] # <<>> /\ p[n] = cs[r]
    BY <1>1, <1>2 DEF TreeNode, Carries
  <1>4. cs[s] \in Seq(Bit) /\ cs[r] \in Seq(Bit) /\ r # s
    BY <1>3, SymbolIsInt DEF Apart
  <1>5. SubSeq(cs[s], 1, d) = cs[r] /\ Len(SubSeq(cs[s], 1, d)) = d
    BY <1>3, <1>4, BeginningFacts DEF Reaches
  <1>6. IsPrefixOf(cs[r], cs[s])
    BY <1>4, <1>5 DEF IsPrefixOf
  <1> QED
    BY <1>3, <1>4, <1>6 DEF Apart

\* A code ends at a node without children.
LEMMA EndIsNew ==
  ASSUME NEW cs, Apart(cs), NEW t, TreeShape(t), NEW p, NEW s \in Symbol,
         Hangs(t, Beginnings(cs), p), Carries(t, cs, p, s),
         cs[s] # <<>>, NEW n \in DOMAIN t, Reaches(cs, p, s, Len(cs[s]), n)
  PROVE  t[n] = Fresh
  <1>1. cs[s] \in Seq(Bit) /\ Len(cs[s]) \in 0 .. Len(cs[s])
    BY DEF Apart
  <1>2. t[n].symbol = Inner
    BY <1>1, WayIsFree
  <1>3. p[n] = cs[s]
    BY <1>1, WholeBeginning DEF Reaches
  <1>4. ASSUME NEW b \in Bit PROVE t[n].child[b] = None
    <2> SUFFICES ASSUME t[n].child[b] # None PROVE FALSE
      OBVIOUS
    <2>1. PICK m : m = t[n].child[b]
      OBVIOUS
    <2>2. m \in DOMAIN t
      BY <2>1, HangsFacts
    <2>3. p[m] = Append(cs[s], b)
      BY <1>3, <2>1, <2>2, HangsChild
    <2>4. p[m] \in Beginnings(cs)
      BY <2>2, HangsFacts
    <2>5. PICK r \in Symbol : \E k \in 0 .. Len(cs[r]) : p[m] = SubSeq(cs[r], 1, k)
      BY <2>4, BeginningsMeans DEF Apart
    <2>6. PICK k \in 0 .. Len(cs[r]) : p[m] = SubSeq(cs[r], 1, k)
      BY <2>5
    <2>7. cs[r] \in Seq(Bit)
      BY DEF Apart
    <2>8. /\ Len(Append(cs[s], b)) = Len(cs[s]) + 1
          /\ SubSeq(Append(cs[s], b), 1, Len(cs[s])) = SubSeq(cs[s], 1, Len(cs[s]))
      BY <1>1, AppendFacts
    <2>9. k = Len(cs[s]) + 1
      BY <2>3, <2>6, <2>7, <2>8, BeginningFacts
    <2>10. SubSeq(cs[r], 1, Len(cs[s])) = cs[s]
      <3>1. Len(cs[s]) \in 0 .. k
        BY <1>1, <2>9
      <3>2. SubSeq(SubSeq(cs[r], 1, k), 1, Len(cs[s])) = SubSeq(cs[r], 1, Len(cs[s]))
        BY <2>7, <3>1, BeginningFacts
      <3>3. SubSeq(cs[s], 1, Len(cs[s])) = cs[s]
        BY <1>1, WholeBeginning
      <3> QED
        BY <2>3, <2>6, <2>8, <3>2, <3>3
    <2>11. Len(cs[s]) < Len(cs[r]) /\ Len(cs[s]) \in Nat /\ Len(cs[r]) \in Nat
      BY <1>1, <2>7, <2>9
    <2>12. IsPrefixOf(cs[s], cs[r]) /\ r # s
      BY <2>10, <2>11 DEF IsPrefixOf
    <2>13. cs[r] # <<>>
      BY <2>7, <2>11
    <2> QED
      BY <2>12, <2>13 DEF Apart
  <1>5. t[n] \in TreeNode
    BY HangsFacts
  <1> QED
    BY <1>2, <1>4, <1>5 DEF Fresh, TreeNode

\* The symbol of a finished code.
LEMMA NewLeaf ==
  ASSUME NEW cs, Apart(cs), NEW t, TreeShape(t), NEW p, NEW s \in Symbol,
         Hangs(t, Beginnings(cs), p), Carries(t, cs, p, s),
         cs[s] # <<>>, NEW n \in DOMAIN t, Reaches(cs, p, s, Len(cs[s]), n),
         NEW u, u = [t EXCEPT ![n].symbol = s]
  PROVE  TreeShape(u) /\ Hangs(u, Beginnings(cs), p) /\ Carries(u, cs, p, s + 1)
  <1>1. /\ DOMAIN t = 1 .. Len(t) /\ Len(t) \in Nat
        /\ \A m \in DOMAIN t : t[m] \in TreeNode
    BY HangsFacts
  <1>2. t[n] = Fresh
    BY EndIsNew
  <1>3. /\ DOMAIN u = DOMAIN t /\ u = [m \in DOMAIN u |-> u[m]]
        /\ \A m \in DOMAIN t : /\ u[m] \in TreeNode
                               /\ u[m].child = t[m].child
                               /\ u[m].symbol = IF m = n THEN s ELSE t[m].symbol
    <2>1. DOMAIN u = DOMAIN t /\ u = [m \in DOMAIN u |-> u[m]]
      OBVIOUS
    <2>2. ASSUME NEW m \in DOMAIN t
          PROVE  /\ u[m] \in TreeNode
                 /\ u[m].child = t[m].child
                 /\ u[m].symbol = IF m = n THEN s ELSE t[m].symbol
      <3>1. t[m] \in TreeNode
        BY <1>1
      <3>2. CASE m = n
        <4>1. u[m] = [t[m] EXCEPT !.symbol = s]
          BY <3>2
        <4> QED
          BY <3>1, <3>2, <4>1 DEF TreeNode
      <3>3. CASE m # n
        <4>1. u[m] = t[m]
          BY <3>3
        <4> QED
          BY <3>1, <3>3, <4>1
      <3> QED
        BY <3>2, <3>3
    <2> QED
      BY <2>1, <2>2
  <1>4. TreeShape(u)
    <2>1. u \in [1 .. Len(t) -> TreeNode]
      BY <1>1, <1>3
    <2>2. u \in Seq(TreeNode) /\ Len(u) = Len(t)
      BY <1>1, <2>1
    <2> QED
      BY <2>2 DEF TreeShape
  <1>5. Hangs(u, Beginnings(cs), p)
    <2>1. PICK v : v = u
      OBVIOUS
    <2>2. DOMAIN v = DOMAIN t /\ \A m \in DOMAIN t : v[m].child = t[m].child
      BY <1>3, <2>1
    <2>3. Hangs(t, Beginnings(cs), p)
      OBVIOUS
    <2>4. Hangs(v, Beginnings(cs), p)
      BY ONLY <2>2, <2>3 DEF Hangs
    <2> QED
      BY <2>1, <2>4
  <1>6. p[n] = cs[s]
    <2>1. cs[s] \in Seq(Bit)
      BY DEF Apart
    <2> QED
      BY <2>1, WholeBeginning DEF Reaches
  <1>7. t[n].symbol = Inner
    BY <1>2 DEF Fresh
  <1>8. Inner \notin Symbol /\ Symbol \subseteq Nat
    BY SymbolIsInt DEF Inner
  <1>9. Carries(u, cs, p, s + 1)
    <2>1. ASSUME NEW m \in DOMAIN u, u[m].symbol # Inner
          PROVE  /\ u[m].symbol < s + 1 /\ cs[u[m].symbol] # <<>> /\ p[m] = cs[u[m].symbol]
      <3>1. m \in DOMAIN t
        BY <1>3
      <3>2. CASE m = n
        <4>0. s \in Nat
          BY <1>8
        <4>1. u[m].symbol = s
          BY <1>3, <3>1, <3>2
        <4>2. s < s + 1
          BY <4>0
        <4> QED
          BY <1>6, <3>2, <4>1, <4>2
      <3>3. CASE m # n
        <4>1. PICK r : r = t[m].symbol
          OBVIOUS
        <4>2. u[m].symbol = r /\ r # Inner
          BY <1>3, <2>1, <3>1, <3>3, <4>1
        <4>3. r < s /\ cs[r] # <<>> /\ p[m] = cs[r]
          BY <3>1, <4>1, <4>2 DEF Carries
        <4>4. r \in Symbol
          BY <1>1, <3>1, <4>1, <4>2 DEF TreeNode
        <4>5. r < s + 1
          BY <1>8, <4>3, <4>4
        <4> QED
          BY <4>2, <4>3, <4>5
      <3> QED
        BY <3>2, <3>3
    <2>2. ASSUME NEW r \in Symbol, r < s + 1, cs[r] # <<>>
          PROVE  \E m \in DOMAIN u : p[m] = cs[r] /\ u[m].symbol = r
      <3>1. CASE r = s
        BY <1>3, <1>6, <3>1
      <3>2. CASE r # s
        <4>1. r < s
          BY <1>8, <2>2, <3>2
        <4>2. PICK m \in DOMAIN t : p[m] = cs[r] /\ t[m].symbol = r
          BY <2>2, <4>1 DEF Carries
        <4>3. m # n
          BY <1>7, <1>8, <4>2
        <4> QED
          BY <1>3, <4>2, <4>3
      <3> QED
        BY <3>1, <3>2
    <2> QED
      BY <2>1, <2>2 DEF Carries
  <1> QED
    BY <1>4, <1>5, <1>9

\* The nodes are used up by codes that need more.
LEMMA NodesUsedUp ==
  ASSUME NEW cs, Apart(cs), NEW t, TreeShape(t), NEW p, Hangs(t, Beginnings(cs), p),
         NEW n \in DOMAIN t, NEW b \in Bit, t[n].child[b] = None,
         Append(p[n], b) \in Beginnings(cs), Len(t) >= MaxNodes
  PROVE  Cardinality(Beginnings(cs)) > MaxNodes
  <1> DEFINE C == Beginnings(cs)
             new == Append(p[n], b)
             D == C \ {new}
  <1>1. DOMAIN t = 1 .. Len(t) /\ Len(t) \in Nat /\ None \notin DOMAIN t
        /\ \A m \in DOMAIN t : p[m] \in C
    BY HangsFacts
  <1>2. IsFiniteSet(C) /\ Cardinality(C) \in Nat
    BY BeginningsFinite DEF Apart
  <1>3. new \in C
    OBVIOUS
  <1>4. \A m \in DOMAIN t : p[m] # new
    <2> SUFFICES ASSUME NEW m \in DOMAIN t, p[m] = new PROVE FALSE
      OBVIOUS
    <2>1. t[n].child[b] = m
      BY HangsChild
    <2> QED
      BY <1>1, <2>1
  <1>5. /\ \A k, m \in DOMAIN t : p[k] = p[m] => k = m
        /\ DOMAIN p = DOMAIN t /\ p = [k \in DOMAIN p |-> p[k]]
    BY DEF Hangs
  <1> HIDE DEF C, new
  <1>6. IsFiniteSet(D) /\ Cardinality(D) = Cardinality(C) - 1
    BY <1>2, <1>3, FS_RemoveElement
  <1>7. \A m \in 1 .. Len(t) : p[m] \in D
    BY <1>1, <1>4
  <1>8. p \in Injection(1 .. Len(t), D)
    BY <1>1, <1>5, <1>7 DEF Injection, IsInjective
  <1>9. Cardinality(1 .. Len(t)) <= Cardinality(D)
    <2>1. IsFiniteSet(1 .. Len(t))
      BY <1>1, FS_Interval
    <2> QED
      BY <1>6, <1>8, FS_Injection
  <1>10. Cardinality(1 .. Len(t)) = Len(t)
    <2>1. PICK k \in Nat : k = Len(t)
      BY <1>1
    <2>2. Cardinality(1 .. k) = k
      BY FS_Interval
    <2> QED
      BY <2>1, <2>2
  <1> QED
    BY <1>1, <1>2, <1>6, <1>9, <1>10, NodesNat DEF C

----------------------------------------------------------------------------
(* build_decode_tree.                                                      *)

\* The tree is made when the codes are, and for good.
TreeAfterCodes ==
    /\ tpc \in {"idle", "symbol", "bit", "ok", "fail"}
    /\ tpc # "idle" => cpc = "ok" /\ phase \in {"tree", "read", "ok", "fail"}

LEMMA TreeAfterCodesInit == Init => TreeAfterCodes
  BY DEF Init, TreeIdle, TreeAfterCodes

LEMMA BuildTreePlace ==
  ASSUME BuildTree, tpc \in {"idle", "symbol", "bit", "ok", "fail"}
  PROVE  tpc' \in {"idle", "symbol", "bit", "ok", "fail"} /\ tpc # "idle"
  BY DEF BuildTree, NextSymbol, EnterBit, EndCode, EndTree, TreeFails

LEMMA TreeAfterCodesStep == TreeAfterCodes /\ [Next]_vars => TreeAfterCodes'
  <1> SUFFICES ASSUME TreeAfterCodes, [Next]_vars PROVE TreeAfterCodes'
    OBVIOUS
  <1>1. CASE TreeStep
    BY <1>1, BuildTreePlace DEF TreeAfterCodes, TreeStep, codeVars
  <1>2. CASE TreeBegin
    BY <1>2 DEF TreeAfterCodes, TreeBegin, StartTree, codeVars
  <1>3. CASE CodesBegin \/ CodesStep \/ CheckPayload
    BY <1>3 DEF TreeAfterCodes, CodesBegin, CodesStep, CheckPayload, treeVars
  <1>4. CASE LengthsStep \/ WriteBegin \/ WriteBit \/ WriteEnd \/ ReadBegin \/ ReadBit \/ ReadEnd
             \/ HelperFails \/ Terminated \/ UNCHANGED vars
    BY <1>4 DEF TreeAfterCodes, LengthsStep, WriteBegin, WriteBit, WriteEnd, ReadBegin, ReadBit,
                ReadEnd, ReadFails, HelperFails, Terminated, vars, treeVars, codeVars
  <1> QED
    BY <1>1, <1>2, <1>3, <1>4 DEF Next, Step

LEMMA CodesApart ==
  ASSUME CodesInv, cpc = "ok"
  PROVE  Apart(codes)
  <1>1. table \in [Symbol -> 0 .. MaxCodeBits] /\ codes \in [Symbol -> Seq(Bit)]
    BY DEF CodesInv, CodeTypes
  <1>2. /\ \A s \in Symbol : Len(codes[s]) = table[s]
        /\ \A s, u \in {v \in Symbol : table[v] # 0} : s # u => ~IsPrefixOf(codes[s], codes[u])
    BY DEF CodesInv, CodesFitTheTable
  <1>3. \A s \in Symbol : Len(codes[s]) <= MaxCodeBits
    BY <1>1, <1>2, MaxBitsNat
  <1>4. \A s \in Symbol : codes[s] # <<>> => table[s] # 0
    BY <1>1, <1>2, EmptySeq
  <1> QED
    BY <1>1, <1>2, <1>3, <1>4 DEF Apart

LEMMA StartTreeInv ==
  ASSUME StartTree, Apart(codes), codes' = codes
  PROVE  TreeInv'
  <1>1. tpc' = "symbol" /\ tree' = <<Fresh>> /\ tsymbol' = 0
    BY DEF StartTree
  <1>2. TreeShape(tree') /\ \E p : Hangs(tree', Beginnings(codes'), p) /\ Carries(tree', codes', p, 0)
    BY <1>1, NewTree
  <1>3. TreePlace(tpc', tree', codes', tsymbol', depth', at')
    BY <1>1, SymbolsNat DEF TreePlace
  <1> QED
    BY <1>1, <1>2, <1>3, TreeInvMeansNext DEF Stands

LEMMA TreeInvFacts ==
  ASSUME TreeInv, tpc # "idle"
  PROVE  /\ TreeShape(tree) /\ TreePlace(tpc, tree, codes, tsymbol, depth, at)
         /\ \E p : Stands(tpc, tree, codes, p, tsymbol, depth, at)
  BY TreeInvMeans

LEMMA NextSymbolInv == Apart(codes) /\ codes' = codes /\ TreeInv /\ NextSymbol => TreeInv'
  <1> SUFFICES ASSUME Apart(codes), codes' = codes, TreeInv, NextSymbol PROVE TreeInv'
    OBVIOUS
  <1>1. tpc = "symbol" /\ tsymbol < Symbols /\ tree' = tree
    BY DEF NextSymbol
  <1>2. TreeShape(tree) /\ tsymbol \in 0 .. Symbols
    BY <1>1, TreeInvFacts DEF TreePlace
  <1>3. PICK p : Hangs(tree, Beginnings(codes), p) /\ Carries(tree, codes, p, tsymbol)
    BY <1>1, TreeInvFacts DEF Stands
  <1>4. tsymbol \in Symbol /\ tsymbol \in Nat /\ tsymbol + 1 \in 0 .. Symbols
    BY <1>1, <1>2, SymbolsNat DEF Symbol
  <1>5. CASE codes[tsymbol] = <<>>
    <2>1. tpc' = "symbol" /\ tsymbol' = tsymbol + 1
      BY <1>1, <1>5 DEF NextSymbol
    <2>2. Carries(tree, codes, p, tsymbol + 1)
      <3>1. \A s \in Symbol : s < tsymbol + 1 <=> (s < tsymbol \/ s = tsymbol)
        BY <1>4, SymbolIsInt
      <3>2. \A n \in DOMAIN tree : tree[n].symbol # Inner => tree[n].symbol \in Symbol
        BY <1>2, <1>3, HangsFacts DEF TreeNode
      <3> QED
        BY <1>3, <1>5, <3>1, <3>2 DEF Carries
    <2>3. TreePlace(tpc', tree', codes', tsymbol', depth', at')
      BY <1>4, <2>1 DEF TreePlace
    <2>4. Stands(tpc', tree', codes', p, tsymbol', depth', at')
      BY <1>1, <1>3, <2>1, <2>2 DEF Stands
    <2> QED
      BY <1>1, <1>2, <2>1, <2>3, <2>4, TreeInvMeansNext
  <1>6. CASE codes[tsymbol] # <<>>
    <2>1. tpc' = "bit" /\ depth' = 0 /\ at' = 1 /\ tsymbol' = tsymbol
      BY <1>1, <1>6 DEF NextSymbol
    <2>2. codes[tsymbol] \in Seq(Bit)
      BY <1>4 DEF Apart
    <2>3. TreePlace(tpc', tree', codes', tsymbol', depth', at')
      <3>1. 1 \in DOMAIN tree
        BY <1>2, <1>3, HangsFacts
      <3>2. 0 \in 0 .. Len(codes[tsymbol])
        BY <2>2
      <3>3. depth' \in 0 .. Len(codes'[tsymbol']) /\ at' \in DOMAIN tree'
        BY <1>1, <2>1, <3>1, <3>2
      <3>4. tsymbol' \in Symbol /\ tsymbol' \in 0 .. Symbols /\ codes'[tsymbol'] # <<>>
        BY <1>2, <1>4, <1>6, <2>1
      <3> QED
        BY <2>1, <3>3, <3>4 DEF TreePlace
    <2>4. Reaches(codes, p, tsymbol, 0, 1)
      BY <1>3, <2>2, WholeBeginning DEF Reaches, Hangs
    <2>5. Stands(tpc', tree', codes', p, tsymbol', depth', at')
      BY <1>1, <1>3, <2>1, <2>4 DEF Stands
    <2> QED
      BY <1>1, <1>2, <2>1, <2>3, <2>5, TreeInvMeansNext
  <1> QED
    BY <1>5, <1>6

LEMMA EnterBitInv == Apart(codes) /\ codes' = codes /\ TreeInv /\ EnterBit => TreeInv'
  <1> SUFFICES ASSUME Apart(codes), codes' = codes, TreeInv, EnterBit PROVE TreeInv'
    OBVIOUS
  <1> DEFINE bit == codes[tsymbol][depth + 1]
             next == tree[at].child[bit]
  <1>1. tpc = "bit" /\ depth < Len(codes[tsymbol])
    BY DEF EnterBit
  <1>2. /\ TreeShape(tree) /\ tsymbol \in Symbol /\ tsymbol \in 0 .. Symbols
        /\ codes[tsymbol] # <<>> /\ depth \in 0 .. Len(codes[tsymbol]) /\ at \in DOMAIN tree
    BY <1>1, TreeInvFacts DEF TreePlace
  <1>3. PICK p : /\ Hangs(tree, Beginnings(codes), p) /\ Carries(tree, codes, p, tsymbol)
                 /\ Reaches(codes, p, tsymbol, depth, at)
    BY <1>1, TreeInvFacts DEF Stands
  <1>4. tree[at].symbol = Inner
    BY <1>2, <1>3, WayIsFree
  <1>5. /\ codes[tsymbol] \in Seq(Bit) /\ depth \in Nat /\ bit \in Bit
        /\ depth + 1 \in 0 .. Len(codes[tsymbol])
        /\ SubSeq(codes[tsymbol], 1, depth + 1) = Append(p[at], bit)
    <2>1. codes[tsymbol] \in Seq(Bit)
      BY <1>2 DEF Apart
    <2>2. depth \in Nat /\ depth + 1 \in 0 .. Len(codes[tsymbol])
      BY <1>1, <1>2, <2>1
    <2> QED
      BY <1>1, <1>2, <1>3, <2>1, <2>2, BeginningFacts DEF Reaches
  <1>6. Append(p[at], bit) \in Beginnings(codes)
    BY <1>2, <1>5, BeginningsMeans DEF Apart
  <1>7. next \in {None} \cup DOMAIN tree
    BY <1>2, <1>3, <1>5, HangsFacts
  <1> HIDE DEF bit
  <1>8. CASE next = None /\ Len(tree) >= MaxNodes
    <2>1. TreeFails
      BY <1>8 DEF EnterBit, bit
    <2>2. tpc' = "fail" /\ UNCHANGED <<tree, tsymbol, depth, at>>
      BY <2>1 DEF TreeFails
    <2>3. Cardinality(Beginnings(codes)) > MaxNodes
      BY <1>2, <1>3, <1>5, <1>6, <1>8, NodesUsedUp
    <2>4. TreePlace(tpc', tree', codes', tsymbol', depth', at')
      BY <1>2, <2>2 DEF TreePlace
    <2>5. Stands(tpc', tree', codes', p, tsymbol', depth', at')
      BY <1>3, <2>2 DEF Stands
    <2> QED
      BY <1>2, <2>2, <2>3, <2>4, <2>5, TreeInvMeansNext
  <1>9. CASE next # None
    <2>1. tpc' = "bit" /\ at' = next /\ tree' = tree /\ depth' = depth + 1 /\ tsymbol' = tsymbol
      BY <1>1, <1>4, <1>9 DEF EnterBit, bit
    <2>2. next \in DOMAIN tree
      BY <1>7, <1>9
    <2>3. p[next] = Append(p[at], bit)
      BY <1>2, <1>3, <1>5, <2>2, HangsChild
    <2>4. TreePlace(tpc', tree', codes', tsymbol', depth', at')
      BY <1>2, <1>5, <2>1, <2>2 DEF TreePlace
    <2>5. Stands(tpc', tree', codes', p, tsymbol', depth', at')
      BY <1>3, <1>5, <2>1, <2>3 DEF Stands, Reaches
    <2> QED
      BY <1>2, <2>1, <2>4, <2>5, TreeInvMeansNext
  <1>10. CASE next = None /\ ~(Len(tree) >= MaxNodes)
    <2>1. /\ tpc' = "bit" /\ at' = Len(tree) + 1 /\ depth' = depth + 1 /\ tsymbol' = tsymbol
          /\ tree' = Append([tree EXCEPT ![at].child[bit] = at'], Fresh)
      BY <1>1, <1>4, <1>10 DEF EnterBit, bit
    <2>2. tree' = Append([tree EXCEPT ![at].child[bit] = Len(tree) + 1], Fresh)
      BY <2>1
    <2>3. Len(tree) < MaxNodes
      BY <1>2, <1>10, NodesNat DEF TreeShape
    <2>4. /\ TreeShape(tree') /\ Len(tree) + 1 \in DOMAIN tree'
          /\ \E q : /\ Hangs(tree', Beginnings(codes), q) /\ Carries(tree', codes, q, tsymbol)
                    /\ q[Len(tree) + 1] = Append(p[at], bit)
      <3>1. tree[at].child[bit] = None
        BY <1>10
      <3>2. PICK u : u = tree'
        OBVIOUS
      <3>3. u = Sprout(tree, at, bit)
        BY <2>2, <3>2 DEF Sprout
      <3>4. /\ Apart(codes) /\ TreeShape(tree) /\ Hangs(tree, Beginnings(codes), p)
            /\ Carries(tree, codes, p, tsymbol) /\ at \in DOMAIN tree /\ bit \in Bit
        BY <1>2, <1>3, <1>5
      <3>5. /\ TreeShape(u) /\ Len(tree) + 1 \in DOMAIN u
            /\ \E q : /\ Hangs(u, Beginnings(codes), q) /\ Carries(u, codes, q, tsymbol)
                      /\ q[Len(tree) + 1] = Append(p[at], bit)
        BY ONLY <1>6, <2>3, <3>1, <3>3, <3>4, NewNode
      <3> QED
        BY <3>2, <3>5
    <2>5. PICK q : /\ Hangs(tree', Beginnings(codes), q) /\ Carries(tree', codes, q, tsymbol)
                   /\ q[Len(tree) + 1] = Append(p[at], bit)
      BY <2>4
    <2>6. TreePlace(tpc', tree', codes', tsymbol', depth', at')
      BY <1>2, <1>5, <2>1, <2>4 DEF TreePlace
    <2>7. Stands(tpc', tree', codes', q, tsymbol', depth', at')
      BY <1>5, <2>1, <2>5 DEF Stands, Reaches
    <2> QED
      BY <2>1, <2>4, <2>6, <2>7, TreeInvMeansNext
  <1> QED
    BY <1>8, <1>9, <1>10

LEMMA EndCodeInv == Apart(codes) /\ codes' = codes /\ TreeInv /\ EndCode => TreeInv'
  <1> SUFFICES ASSUME Apart(codes), codes' = codes, TreeInv, EndCode PROVE TreeInv'
    OBVIOUS
  <1>1. tpc = "bit" /\ depth = Len(codes[tsymbol])
    BY DEF EndCode
  <1>2. /\ TreeShape(tree) /\ tsymbol \in Symbol /\ codes[tsymbol] # <<>> /\ at \in DOMAIN tree
    BY <1>1, TreeInvFacts DEF TreePlace
  <1>3. PICK p : /\ Hangs(tree, Beginnings(codes), p) /\ Carries(tree, codes, p, tsymbol)
                 /\ Reaches(codes, p, tsymbol, Len(codes[tsymbol]), at)
    BY <1>1, TreeInvFacts DEF Stands
  <1>4. tree[at] = Fresh
    BY <1>2, <1>3, EndIsNew
  <1>5. tpc' = "symbol" /\ tsymbol' = tsymbol + 1 /\ tree' = [tree EXCEPT ![at].symbol = tsymbol]
    BY <1>4 DEF EndCode
  <1>6. /\ TreeShape(tree') /\ Hangs(tree', Beginnings(codes), p)
        /\ Carries(tree', codes, p, tsymbol + 1)
    BY <1>2, <1>3, <1>5, NewLeaf
  <1>7. TreePlace(tpc', tree', codes', tsymbol', depth', at')
    BY <1>2, <1>5, SymbolsNat DEF TreePlace, Symbol
  <1>8. Stands(tpc', tree', codes', p, tsymbol', depth', at')
    BY <1>5, <1>6 DEF Stands
  <1> QED
    BY <1>5, <1>6, <1>7, <1>8, TreeInvMeansNext

LEMMA EndTreeInv == codes' = codes /\ TreeInv /\ EndTree => TreeInv'
  <1> SUFFICES ASSUME codes' = codes, TreeInv, EndTree PROVE TreeInv'
    OBVIOUS
  <1>1. tpc = "symbol" /\ tsymbol = Symbols /\ tpc' = "ok" /\ UNCHANGED <<tree, tsymbol, depth, at>>
    BY DEF EndTree
  <1>2. TreeShape(tree) /\ tsymbol \in 0 .. Symbols
    BY <1>1, TreeInvFacts DEF TreePlace
  <1>3. PICK p : Stands(tpc, tree, codes, p, tsymbol, depth, at)
    BY <1>1, TreeInvFacts
  <1>4. TreePlace(tpc', tree', codes', tsymbol', depth', at')
    BY <1>1, <1>2 DEF TreePlace
  <1>5. Stands(tpc', tree', codes', p, tsymbol', depth', at')
    BY <1>1, <1>3 DEF Stands
  <1> QED
    BY <1>1, <1>2, <1>4, <1>5, TreeInvMeansNext

LEMMA TreeInvInit == Init => TreeInv
  <1> SUFFICES ASSUME Init PROVE TreeInv
    OBVIOUS
  <1>1. tpc = "idle" /\ tree = <<Fresh>> /\ tsymbol = 0
    BY DEF Init, TreeIdle
  <1>2. TreeShape(tree)
    <2>1. Fresh \in TreeNode
      BY DEF Fresh, TreeNode, None
    <2>2. <<Fresh>> \in Seq(TreeNode) /\ Len(<<Fresh>>) = 1
      BY <2>1
    <2> QED
      BY <1>1, <2>2, NodesNat DEF TreeShape
  <1>3. TreePlace(tpc, tree, codes, tsymbol, depth, at)
    BY <1>1, SymbolsNat DEF TreePlace
  <1> QED
    BY <1>1, <1>2, <1>3, TreeInvMeans

LEMMA TreeInvStep == CodesInv /\ TreeAfterCodes /\ TreeInv /\ [Next]_vars => TreeInv'
  <1> SUFFICES ASSUME CodesInv, TreeAfterCodes, TreeInv, [Next]_vars PROVE TreeInv'
    OBVIOUS
  <1>1. CASE TreeStep
    <2>1. BuildTree /\ codes' = codes
      BY <1>1 DEF TreeStep, codeVars
    <2>2. cpc = "ok"
      BY <2>1, BuildTreePlace DEF TreeAfterCodes
    <2>3. Apart(codes)
      BY <2>2, CodesApart
    <2> QED
      BY <2>1, <2>3, NextSymbolInv, EnterBitInv, EndCodeInv, EndTreeInv DEF BuildTree
  <1>2. CASE TreeBegin
    <2>1. StartTree /\ codes' = codes /\ cpc = "ok"
      BY <1>2 DEF TreeBegin, codeVars
    <2> QED
      BY <2>1, CodesApart, StartTreeInv
  <1>3. CASE CodesBegin \/ CodesStep \/ CheckPayload
    <2>1. UNCHANGED <<tpc, tree, tsymbol, depth, at>>
      BY <1>3 DEF CodesBegin, CodesStep, CheckPayload, treeVars
    <2>2. tpc = "idle"
      BY <1>3 DEF TreeAfterCodes, CodesBegin, CodesStep, CheckPayload
    <2>3. TreePlace(tpc', tree', codes', tsymbol', depth', at')
      BY <2>1, <2>2, TreeInvMeans DEF TreePlace
    <2> QED
      BY <2>1, <2>2, <2>3, TreeInvMeans, TreeInvMeansNext
  <1>4. CASE UNCHANGED <<treeVars, codeVars>>
    <2>1. UNCHANGED <<tpc, tree, tsymbol, depth, at, codes>>
      BY <1>4 DEF treeVars, codeVars
    <2> QED
      BY <2>1, TreeInvMeans, TreeInvMeansNext
  <1>5. CASE LengthsStep \/ WriteBegin \/ WriteBit \/ WriteEnd \/ ReadBegin \/ ReadBit \/ ReadEnd
             \/ HelperFails \/ Terminated \/ UNCHANGED vars
    BY <1>4, <1>5 DEF LengthsStep, WriteBegin, WriteBit, WriteEnd, ReadBegin, ReadBit,
                      ReadEnd, ReadFails, HelperFails, Terminated, vars
  <1> QED
    BY <1>1, <1>2, <1>3, <1>5 DEF Next, Step

----------------------------------------------------------------------------
(* Walking the tree.                                                       *)

WalkBody(bits, w) ==
    [k \in 0 .. Len(bits) |->
        IF k = 0 THEN 1
        ELSE IF w[k - 1] = None THEN None
        ELSE tree[w[k - 1]].child[bits[k]]]

\* The nodes on the way.
Way(t, bits, w) ==
    /\ w \in [0 .. Len(bits) -> {None} \cup DOMAIN t] /\ w[0] = 1
    /\ \A k \in 1 .. Len(bits) :
          w[k] = IF w[k - 1] = None THEN None ELSE t[w[k - 1]].child[bits[k]]

\* There is one way along some bits.
LEMMA WayUnique ==
  ASSUME NEW t, NEW bits \in Seq(Bit), NEW v, NEW w, Way(t, bits, v),
         DOMAIN w = 0 .. Len(bits), w[0] = 1,
         \A k \in 1 .. Len(bits) :
            w[k] = IF w[k - 1] = None THEN None ELSE t[w[k - 1]].child[bits[k]]
  PROVE  \A k \in 0 .. Len(bits) : w[k] = v[k]
  <1> DEFINE T == {k \in Nat : k <= Len(bits) => w[k] = v[k]}
  <1>1. 0 \in T
    BY DEF Way
  <1>2. ASSUME NEW k \in T PROVE k + 1 \in T
    <2> SUFFICES ASSUME k + 1 <= Len(bits) PROVE w[k + 1] = v[k + 1]
      OBVIOUS
    <2>1. k + 1 \in 1 .. Len(bits) /\ (k + 1) - 1 = k /\ w[k] = v[k]
      OBVIOUS
    <2> QED
      BY <2>1 DEF Way
  <1>3. T = Nat
    <2> HIDE DEF T
    <2>1. T \subseteq Nat
      BY DEF T
    <2> QED
      BY <1>1, <1>2, <2>1, NatInductionSet
  <1>4. ASSUME NEW k \in 0 .. Len(bits) PROVE w[k] = v[k]
    <2>1. k \in T
      <3> HIDE DEF T
      <3> QED
        BY <1>3
    <2> QED
      BY <2>1
  <1> QED
    BY <1>4

LEMMA WayExists ==
  ASSUME NEW t, 1 \in DOMAIN t,
         \A n \in DOMAIN t, b \in Bit : t[n].child[b] \in {None} \cup DOMAIN t,
         NEW bits \in Seq(Bit)
  PROVE  \E w : Way(t, bits, w)
  <1> DEFINE S == {None} \cup DOMAIN t
             N == Len(bits)
             step == [q \in Nat \X S |->
                         IF q[2] \in DOMAIN t /\ q[2] # None /\ q[1] \in 1 .. N
                         THEN t[q[2]].child[bits[q[1]]] ELSE None]
  <1>1. N \in Nat /\ \A k \in 1 .. N : bits[k] \in Bit
    OBVIOUS
  <1>2. step \in [Nat \X S -> S]
    <2>1. ASSUME NEW q \in Nat \X S
          PROVE  (IF q[2] \in DOMAIN t /\ q[2] # None /\ q[1] \in 1 .. N
                  THEN t[q[2]].child[bits[q[1]]] ELSE None) \in S
      BY <1>1
    <2> QED
      BY <2>1
  <1>3. 1 \in S
    OBVIOUS
  <1>4. PICK w : Recurs(w, N, S, 1, step)
    <2> HIDE DEF step, S
    <2> QED
      BY <1>1, <1>2, <1>3, BoundedRecursion
  <1>5. w \in [0 .. N -> S] /\ w[0] = 1
    BY <1>4 DEF Recurs
  <1>6. ASSUME NEW k \in 1 .. N
        PROVE  w[k] = IF w[k - 1] = None THEN None ELSE t[w[k - 1]].child[bits[k]]
    <2>1. w[k] = step[<<k, w[k - 1]>>]
      BY <1>4 DEF Recurs
    <2>2. k \in Nat /\ k - 1 \in 0 .. N
      BY <1>1
    <2>3. w[k - 1] \in S
      BY <1>5, <2>2
    <2>4. <<k, w[k - 1]>> \in Nat \X S
      BY <2>2, <2>3
    <2> QED
      BY <2>1, <2>3, <2>4
  <1> QED
    BY <1>5, <1>6 DEF Way

LEMMA WalkFacts ==
  ASSUME 1 \in DOMAIN tree,
         \A n \in DOMAIN tree, b \in Bit : tree[n].child[b] \in {None} \cup DOMAIN tree,
         NEW bits \in Seq(Bit)
  PROVE  \E w : Way(tree, bits, w) /\ Walk(bits) = w[Len(bits)]
  <1>1. PICK v : Way(tree, bits, v)
    BY WayExists
  <1>2. v = WalkBody(bits, v)
    BY <1>1 DEF Way, WalkBody
  <1> DEFINE c == CHOOSE s : s = WalkBody(bits, s)
  <1>3. c = WalkBody(bits, c)
    BY <1>2
  <1>4. Walk(bits) = c[Len(bits)]
    BY DEF Walk, WalkBody
  <1> HIDE DEF c
  <1>5. /\ DOMAIN c = 0 .. Len(bits) /\ c[0] = 1
        /\ \A k \in 1 .. Len(bits) :
              c[k] = IF c[k - 1] = None THEN None ELSE tree[c[k - 1]].child[bits[k]]
    <2>1. PICK d : d = c
      OBVIOUS
    <2>2. d = WalkBody(bits, d)
      BY <1>3, <2>1
    <2>3. \A k \in 0 .. Len(bits) :
             d[k] = IF k = 0 THEN 1 ELSE IF d[k - 1] = None THEN None
                    ELSE tree[d[k - 1]].child[bits[k]]
      BY <2>2 DEF WalkBody
    <2>4. DOMAIN d = 0 .. Len(bits) /\ 0 \in 0 .. Len(bits)
          /\ \A k \in 1 .. Len(bits) : k \in 0 .. Len(bits) /\ k # 0
      BY <2>2 DEF WalkBody
    <2> QED
      BY <2>1, <2>3, <2>4
  <1>6. Len(bits) \in 0 .. Len(bits)
    OBVIOUS
  <1>7. c[Len(bits)] = v[Len(bits)]
    BY <1>1, <1>5, <1>6, WayUnique
  <1> QED
    BY <1>1, <1>4, <1>7

\* Bits lead to the node that they are the path of.
LEMMA WalkAlongPath ==
  ASSUME Apart(codes), TreeShape(tree), NEW p, Hangs(tree, Beginnings(codes), p),
         NEW n \in DOMAIN tree
  PROVE  Walk(p[n]) = n
  <1>1. /\ 1 \in DOMAIN tree /\ None \notin DOMAIN tree
        /\ p[n] \in Seq(Bit)
        /\ \A m \in DOMAIN tree, b \in Bit : tree[m].child[b] \in {None} \cup DOMAIN tree
    BY HangsFacts
  <1>2. PICK bits : bits = p[n]
    OBVIOUS
  <1>3. PICK w : Way(tree, bits, w) /\ Walk(bits) = w[Len(bits)]
    BY <1>1, <1>2, WalkFacts
  <1> DEFINE T == {k \in Nat : k <= Len(bits) =>
                      w[k] \in DOMAIN tree /\ p[w[k]] = SubSeq(bits, 1, k)}
  <1>4. bits \in Seq(Bit) /\ Len(bits) \in Nat
    BY <1>1, <1>2
  <1>5. 0 \in T
    <2>1. w[0] = 1 /\ p[1] = <<>> /\ SubSeq(bits, 1, 0) = <<>>
      BY <1>3, <1>4, WholeBeginning DEF Way, Hangs
    <2> QED
      BY <1>1, <2>1
  <1>6. ASSUME NEW k \in T PROVE k + 1 \in T
    <2> SUFFICES ASSUME k + 1 <= Len(bits)
                 PROVE  w[k + 1] \in DOMAIN tree /\ p[w[k + 1]] = SubSeq(bits, 1, k + 1)
      OBVIOUS
    <2>1. /\ k + 1 \in 1 .. Len(bits) /\ (k + 1) - 1 = k /\ k \in 0 .. Len(bits) /\ k < Len(bits)
          /\ k + 1 \in 0 .. Len(bits)
          /\ w[k] \in DOMAIN tree /\ p[w[k]] = SubSeq(bits, 1, k)
      BY <1>4
    <2>2. bits[k + 1] \in Bit /\ SubSeq(bits, 1, k + 1) = Append(SubSeq(bits, 1, k), bits[k + 1])
      BY <1>4, <2>1, BeginningFacts
    <2>3. w[k + 1] = tree[w[k]].child[bits[k + 1]]
      BY <1>1, <1>3, <2>1 DEF Way
    <2>4. PICK m \in DOMAIN tree : p[m] = SubSeq(bits, 1, k + 1)
      <3>1. \A j \in 0 .. Len(p[n]) : \E m \in DOMAIN tree : p[m] = SubSeq(p[n], 1, j)
        BY DEF Hangs
      <3> HIDE DEF T
      <3> QED
        BY <1>2, <2>1, <3>1
    <2>5. tree[w[k]].child[bits[k + 1]] = m
      <3>1. PICK o \in DOMAIN tree : o = w[k]
        BY <2>1
      <3>2. PICK b \in Bit : b = bits[k + 1]
        BY <2>2
      <3>3. tree[o].child[b] = m <=> p[m] = Append(p[o], b)
        BY HangsChild
      <3> QED
        BY <2>1, <2>2, <2>4, <3>1, <3>2, <3>3
    <2> QED
      BY <2>3, <2>4, <2>5
  <1>7. T = Nat
    <2> HIDE DEF T
    <2>1. T \subseteq Nat
      BY DEF T
    <2> QED
      BY <1>5, <1>6, <2>1, NatInductionSet
  <1>8. Len(bits) \in T
    <2> HIDE DEF T
    <2> QED
      BY <1>4, <1>7
  <1>9. w[Len(bits)] \in DOMAIN tree /\ p[w[Len(bits)]] = bits
    BY <1>4, <1>8, WholeBeginning
  <1>10. w[Len(bits)] = n
    BY <1>2, <1>9 DEF Hangs
  <1> QED
    BY <1>2, <1>3, <1>10

LEMMA TreeIsFit == CodesInv /\ TreeAfterCodes /\ TreeInv => TreeFitsTheCodes
  <1> SUFFICES ASSUME CodesInv, TreeAfterCodes, TreeInv PROVE TreeFitsTheCodes
    OBVIOUS
  <1>1. TreeShape(tree) /\ Len(tree) <= MaxNodes
    BY TreeInvMeans, NodesNat DEF TreeShape
  <1>2. ASSUME tpc = "ok", NEW s \in Symbol, codes[s] # <<>>
        PROVE  Walk(codes[s]) # None /\ tree[Walk(codes[s])].symbol = s
    <2>1. Apart(codes)
      BY <1>2, CodesApart DEF TreeAfterCodes
    <2>2. PICK p : Hangs(tree, Beginnings(codes), p) /\ Carries(tree, codes, p, tsymbol)
      BY <1>2, TreeInvFacts DEF Stands
    <2>3. s < tsymbol
      BY <1>2, TreeInvFacts, SymbolsNat DEF TreePlace, Symbol
    <2>4. PICK n \in DOMAIN tree : p[n] = codes[s] /\ tree[n].symbol = s
      BY <1>2, <2>2, <2>3 DEF Carries
    <2>5. Walk(p[n]) = n
      BY <1>1, <2>1, <2>2, WalkAlongPath
    <2>6. n # None
      BY <1>1, <2>1, <2>2, HangsFacts
    <2> QED
      BY <2>4, <2>5, <2>6
  <1>3. tpc = "fail" => Cardinality(CodePaths) > MaxNodes
    BY DEF TreeInv
  <1> QED
    BY <1>1, <1>2, <1>3 DEF TreeFitsTheCodes

\* While the tree is made each of its nodes stands for the beginning of a
\* code, no two for the same one, and a leaf for a whole code (huff.c:275-313).
THEOREM TreeStandsForCodes == Spec => []TreeInv
  <1> DEFINE Inv == TableTypes /\ CodesInv /\ TreeAfterCodes /\ TreeInv
  <1>1. Init => Inv
    BY TableTypesInit, CodesInvInit, TreeAfterCodesInit, TreeInvInit
  <1>2. Inv /\ [Next]_vars => Inv'
    BY TableTypesStep, CodesInvStep, TreeAfterCodesStep, TreeInvStep
  <1>3. Inv => TreeInv
    OBVIOUS
  <1> QED
    BY <1>1, <1>2, <1>3, PTL DEF Spec

\* build_decode_tree stays within its array, a finished tree leads along the
\* code of each symbol to that symbol, and codes are refused only if they
\* need more nodes than there are (huff.c:274-313).
THEOREM TreeFits == Spec => []TreeFitsTheCodes
  <1> DEFINE Inv == TableTypes /\ CodesInv /\ TreeAfterCodes /\ TreeInv
  <1>1. Init => Inv
    BY TableTypesInit, CodesInvInit, TreeAfterCodesInit, TreeInvInit
  <1>2. Inv /\ [Next]_vars => Inv'
    BY TableTypesStep, CodesInvStep, TreeAfterCodesStep, TreeInvStep
  <1>3. Inv => TreeFitsTheCodes
    BY TreeIsFit
  <1> QED
    BY <1>1, <1>2, <1>3, PTL DEF Spec

----------------------------------------------------------------------------
(* There are enough nodes for codes that fill the code space.              *)

\* If all but some paths branch twice, less than half of them do.
LEMMA BranchingCount ==
  ASSUME NEW P, IsFiniteSet(P), P \subseteq Seq(Bit), <<>> \in P, NEW L, L \subseteq P,
         \A p \in P \ L, b \in Bit : Append(p, b) \in P
  PROVE  /\ Cardinality(P) \in Nat /\ Cardinality(L) \in Nat
         /\ Cardinality(P) + 1 <= 2 * Cardinality(L)
  <1> DEFINE I == P \ L
             rest == P \ {<<>>}
             f == [x \in I \X Bit |-> Append(x[1], x[2])]
  <1>1. /\ IsFiniteSet(I) /\ Cardinality(I) \in Nat /\ Cardinality(P) \in Nat
        /\ Cardinality(L) \in Nat /\ Cardinality(I) = Cardinality(P) - Cardinality(L)
    <2>1. P \cap L = L /\ L \in SUBSET P
      OBVIOUS
    <2>2. IsFiniteSet(I) /\ Cardinality(I) = Cardinality(P) - Cardinality(P \cap L)
      BY FS_Difference
    <2>3. IsFiniteSet(L)
      BY <2>1, FS_Subset
    <2> HIDE DEF I
    <2> QED
      BY <2>1, <2>2, <2>3, FS_CardinalityType
  <1>2. /\ IsFiniteSet(rest) /\ Cardinality(rest) = Cardinality(P) - 1
    BY FS_RemoveElement
  <1>3. IsFiniteSet(Bit) /\ Cardinality(Bit) = 2
    <2>1. Bit = {0} \cup {1} /\ 1 \notin {0}
      BY DEF Bit
    <2>2. IsFiniteSet({0}) /\ Cardinality({0}) = 1
      BY FS_Singleton
    <2>3. IsFiniteSet({0} \cup {1}) /\ Cardinality({0} \cup {1}) = 1 + 1
      BY <2>1, <2>2, FS_AddElement
    <2>4. 1 + 1 = 2
      OBVIOUS
    <2> QED
      BY <2>1, <2>3, <2>4
  <1>4. Cardinality(I \X Bit) = Cardinality(I) * 2
    <2> HIDE DEF I
    <2> QED
      BY <1>1, <1>3, FS_Product
  <1>5. f \in [I \X Bit -> rest]
    <2>1. ASSUME NEW x \in I \X Bit PROVE Append(x[1], x[2]) \in rest
      <3>1. x[1] \in P /\ x[1] \notin L /\ x[2] \in Bit /\ x[1] \in Seq(Bit)
        OBVIOUS
      <3>2. Append(x[1], x[2]) \in P
        BY <3>1
      <3>3. Append(x[1], x[2]) # <<>>
        <4>1. ASSUME NEW c \in Seq(Bit), NEW a \in Bit PROVE Append(c, a) # <<>>
          <5>1. Len(c) \in Nat /\ Len(Append(c, a)) = Len(c) + 1
            OBVIOUS
          <5>2. Len(Append(c, a)) # 0
            BY <5>1
          <5>3. Len(<<>>) = 0
            OBVIOUS
          <5> QED
            BY <5>2, <5>3
        <4> QED
          BY <3>1, <4>1
      <3> QED
        BY <3>2, <3>3
    <2> HIDE DEF I, rest
    <2> QED
      BY <2>1
  <1>6. ASSUME NEW x \in I \X Bit, NEW y \in I \X Bit, f[x] = f[y] PROVE x = y
    <2>1. /\ x[1] \in Seq(Bit) /\ y[1] \in Seq(Bit) /\ x[2] \in Bit /\ y[2] \in Bit
          /\ x = <<x[1], x[2]>> /\ y = <<y[1], y[2]>>
      OBVIOUS
    <2>2. Append(x[1], x[2]) = Append(y[1], y[2])
      <3> HIDE DEF I
      <3> QED
        BY <1>6
    <2>3. x[1] = y[1] /\ x[2] = y[2]
      BY ONLY <2>1, <2>2, AppendApart
    <2> QED
      BY <2>1, <2>3
  <1>7. f \in Injection(I \X Bit, rest)
    <2> HIDE DEF I, rest, f
    <2> QED
      BY <1>5, <1>6 DEF Injection, IsInjective
  <1>8. Cardinality(I \X Bit) <= Cardinality(rest)
    <2> HIDE DEF I, rest, f
    <2> QED
      BY <1>2, <1>7, FS_Injection
  <1> HIDE DEF I, rest, f
  <1> QED
    BY <1>1, <1>2, <1>4, <1>8

\* Behind the code in each place is the code in the next.
LEMMA NextPlace ==
  ASSUME NEW arg, NEW q, NEW n, NEW cur, NEW cs, Given(arg, q, n, cur, cs),
         NEW i \in 1 .. Len(q), i + 1 <= Len(q)
  PROVE  /\ Kraft(Sooner(arg, q[i])) \in Nat
         /\ Kraft(Sooner(arg, q[i + 1])) = Kraft(Sooner(arg, q[i])) + Share(arg[q[i]])
  <1>1. /\ Len(q) \in Nat /\ DOMAIN q = 1 .. Len(q) /\ i \in Nat /\ i + 1 \in 1 .. Len(q)
        /\ i \in 1 .. Len(q) /\ i < i + 1
        /\ \A j \in 1 .. Len(q) : q[j] \in Symbol /\ arg[q[j]] \in 1 .. MaxCodeBits
        /\ \A j, k \in 1 .. Len(q) : j < k => q[j] # q[k]
        /\ \A s \in Symbol : arg[s] # 0 => \E j \in 1 .. Len(q) : q[j] = s
        /\ arg \in [Symbol -> 0 .. MaxCodeBits]
    <2>1. Len(q) \in Nat
      BY GivenFacts
    <2>2. i \in Nat /\ i + 1 \in 1 .. Len(q) /\ i < i + 1
      BY <2>1
    <2>3. arg \in [Symbol -> 0 .. MaxCodeBits]
      BY DEF Given
    <2>4. /\ DOMAIN q = 1 .. Len(q)
          /\ \A j \in 1 .. Len(q) : q[j] \in Symbol /\ arg[q[j]] \in 1 .. MaxCodeBits
      BY GivenFacts
    <2>5. \A j, k \in 1 .. Len(q) : j < k => q[j] # q[k]
      BY GivenFacts
    <2>6. \A s \in Symbol : arg[s] # 0 => \E j \in 1 .. Len(q) : q[j] = s
      BY GivenFacts
    <2> QED
      BY <2>1, <2>2, <2>3, <2>4, <2>5, <2>6
  <1>2. ASSUME NEW j \in 1 .. Len(q), NEW k \in 1 .. Len(q)
        PROVE  Earlier(arg, q[j], q[k]) <=> j < k
    <2>1. \A a, b \in 1 .. Len(q) : a < b => Earlier(arg, q[a], q[b])
      BY <1>1 DEF Given
    <2>2. \A m \in 1 .. MaxCodeBits : m \in Nat
      BY MaxBitsNat
    <2>3. arg[q[j]] \in Nat /\ arg[q[k]] \in Nat /\ q[j] \in Nat /\ q[k] \in Nat
      BY <1>1, <2>2, SymbolIsInt
    <2>4. ~(Earlier(arg, q[j], q[k]) /\ Earlier(arg, q[k], q[j]))
      BY <2>3 DEF Earlier
    <2>5. ~Earlier(arg, q[j], q[j])
      BY <2>3 DEF Earlier
    <2>6. j < k \/ j = k \/ k < j
      BY <1>1
    <2>7. j \in Nat /\ k \in Nat
      BY <1>1
    <2> QED
      BY <2>1, <2>4, <2>5, <2>6, <2>7
  <1> DEFINE f == Sooner(arg, q[i])
             g == Sooner(arg, q[i + 1])
  <1>3. f \in [Symbol -> 0 .. MaxCodeBits] /\ g \in [Symbol -> 0 .. MaxCodeBits]
    BY <1>1, MaxBitsNat DEF Sooner
  <1>4. f[q[i]] = 0 /\ g[q[i]] = arg[q[i]]
    <2>1. ~Earlier(arg, q[i], q[i]) /\ Earlier(arg, q[i], q[i + 1])
      BY <1>1, <1>2
    <2> QED
      BY <1>1, <2>1 DEF Sooner
  <1>5. ASSUME NEW s \in Symbol, s # q[i] PROVE f[s] = g[s]
    <2>1. CASE arg[s] = 0
      BY <2>1 DEF Sooner
    <2>2. CASE arg[s] # 0
      <3>1. PICK j \in 1 .. Len(q) : q[j] = s
        BY <1>1, <2>2
      <3>2. j < i <=> j < i + 1
        <4>1. j # i /\ j \in Nat
          BY <1>1, <1>5, <3>1
        <4> QED
          BY <1>1, <4>1
      <3>3. Earlier(arg, s, q[i]) <=> Earlier(arg, s, q[i + 1])
        BY <1>1, <1>2, <3>1, <3>2
      <3> QED
        BY <3>3 DEF Sooner
    <2> QED
      BY <2>1, <2>2
  <1> HIDE DEF f, g
  <1>6. /\ Shares(f) \in [Symbol -> Nat] /\ Shares(g) \in [Symbol -> Nat]
        /\ Kraft(f) = Total(Shares(f)) /\ Kraft(f) \in Nat /\ Kraft(g) = Total(Shares(g))
    BY <1>3, SharesNat
  <1>7. /\ Shares(f)[q[i]] = 0 /\ Shares(g)[q[i]] = Share(arg[q[i]])
        /\ \A s \in Symbol : s # q[i] => Shares(g)[s] = Shares(f)[s]
    BY <1>1, <1>4, <1>5 DEF Shares, Share
  <1>8. Total(Shares(g)) = Total(Shares(f)) + Shares(g)[q[i]] - Shares(f)[q[i]]
    <2>1. PICK z, a, b : z = q[i] /\ a = Shares(f) /\ b = Shares(g) /\ z \in Symbol
      BY <1>1
    <2>2. a \in [Symbol -> Nat] /\ b \in [Symbol -> Nat] /\ \A s \in Symbol : s # z => b[s] = a[s]
      BY <1>6, <1>7, <2>1
    <2>3. Total(b) = Total(a) + b[z] - a[z]
      BY ONLY <2>1, <2>2, TotalUpdate
    <2> QED
      BY <2>1, <2>3
  <1>9. Share(arg[q[i]]) \in Nat
    BY <1>1, ShareNat
  <1>10. Kraft(g) = Kraft(f) + Share(arg[q[i]])
    BY <1>6, <1>7, <1>8, <1>9
  <1> QED
    BY <1>6, <1>10 DEF f, g

\* Codes that fill the code space leave no value out.
LEMMA ValueTaken ==
  ASSUME NEW arg, NEW q, NEW cur, NEW cs, Given(arg, q, Len(q), cur, cs), q # <<>>,
         InPlace(arg, q, Len(q), cs), Kraft(arg) = pow2[MaxCodeBits],
         NEW x \in Nat, x < pow2[MaxCodeBits]
  PROVE  \E i \in 1 .. Len(q) :
            Value(cs[q[i]]) <= x /\ x < Value(cs[q[i]]) + Share(arg[q[i]])
  <1>1. /\ Len(q) \in Nat /\ Len(q) >= 1
        /\ \A i \in 1 .. Len(q) : q[i] \in Symbol /\ arg[q[i]] \in 1 .. MaxCodeBits
        /\ \A i \in 1 .. Len(q) : cs[q[i]] \in Seq(Bit) /\ Len(cs[q[i]]) = arg[q[i]]
    <2>1. Len(q) \in Nat
      BY GivenFacts
    <2>2. Len(q) # 0
      BY EmptySeq DEF Given
    <2> QED
      BY <2>1, <2>2, GivenFacts
  <1>2. ASSUME NEW i \in 1 .. Len(q)
        PROVE  Value(cs[q[i]]) \in Nat /\ Share(arg[q[i]]) \in Nat
    BY <1>1, ValueBound, ShareNat
  <1> DEFINE T == {i \in Nat : i \in 1 .. Len(q) /\ x < Value(cs[q[i]]) + Share(arg[q[i]])}
  <1>3. Len(q) \in T
    <2>1. Len(q) \in 1 .. Len(q) /\ Len(q) > 0
      BY <1>1
    <2>2. Value(cur) + Share(Len(cur)) = Kraft(Lengths(cs)) /\ cur = cs[q[Len(q)]]
      BY <2>1 DEF Given, Lengths
    <2>3. Lengths(cs) = arg
      <3>1. \A s \in Symbol : Len(cs[s]) = arg[s]
        BY GivenAll
      <3>2. arg \in [Symbol -> 0 .. MaxCodeBits]
        BY DEF Given
      <3> QED
        BY <3>1, <3>2 DEF Lengths
    <2> QED
      BY <1>1, <2>1, <2>2, <2>3
  <1>4. PICK i \in T : \A j \in T : i <= j
    <2>1. T \in SUBSET Nat /\ T # {}
      BY <1>3
    <2> HIDE DEF T
    <2> QED
      BY <2>1, LeastNat
  <1>5. i \in 1 .. Len(q) /\ x < Value(cs[q[i]]) + Share(arg[q[i]]) /\ i \in Nat
    OBVIOUS
  <1>6. Value(cs[q[i]]) <= x
    <2>1. CASE i = 1
      <3>1. Value(cs[q[1]]) = Kraft(Sooner(arg, q[1]))
        BY <1>5, <2>1 DEF InPlace
      <3>2. \A s \in Symbol : Sooner(arg, q[1])[s] = 0
        <4>1. SUFFICES ASSUME NEW s \in Symbol, arg[s] # 0 PROVE ~Earlier(arg, s, q[1])
          BY DEF Sooner
        <4>2. PICK j \in 1 .. Len(q) : q[j] = s
          BY <4>1, GivenFacts
        <4>3. j = 1 \/ 1 < j
          BY <1>1
        <4>4. s = q[1] \/ Earlier(arg, q[1], s)
          <5>1. DOMAIN q = 1 .. Len(q) /\ 1 \in 1 .. Len(q)
            BY <1>1, GivenFacts
          <5> QED
            BY <4>2, <4>3, <5>1 DEF Given
        <4>5. arg[s] \in Nat /\ arg[q[1]] \in Nat /\ s \in Nat /\ q[1] \in Nat
          <5>1. \A m \in 1 .. MaxCodeBits : m \in Nat
            BY MaxBitsNat
          <5>2. 1 \in 1 .. Len(q)
            BY <1>1
          <5> QED
            BY <1>1, <4>2, <5>1, <5>2, SymbolIsInt
        <4> QED
          BY <4>4, <4>5 DEF Earlier
      <3>3. Kraft(Sooner(arg, q[1])) = 0
        <4>1. PICK f : f = Sooner(arg, q[1])
          OBVIOUS
        <4>2. f \in [Symbol -> 0 .. MaxCodeBits] /\ \A s \in Symbol : f[s] = 0
          BY <3>2, <4>1, MaxBitsNat DEF Sooner
        <4>3. Shares(f) \in [Symbol -> Nat] /\ Kraft(f) = Total(Shares(f))
          BY <4>2, SharesNat
        <4>4. \A s \in Symbol : Shares(f)[s] = 0
          BY <4>2 DEF Shares, Share
        <4> QED
          BY <4>1, <4>3, <4>4, TotalZero
      <3> QED
        BY <2>1, <3>1, <3>3
    <2>2. CASE i # 1
      <3>1. PICK k \in Nat : k = i - 1
        BY <1>5, <2>2
      <3>2. /\ k \in 1 .. Len(q) /\ k + 1 = i /\ k + 1 <= Len(q) /\ ~(i <= k)
        BY <1>1, <1>5, <2>2, <3>1
      <3>3. k \notin T
        <4> HIDE DEF T
        <4> QED
          BY <1>4, <3>2
      <3>4. ~(x < Value(cs[q[k]]) + Share(arg[q[k]]))
        BY <3>1, <3>2, <3>3
      <3>5. Kraft(Sooner(arg, q[k + 1])) = Kraft(Sooner(arg, q[k])) + Share(arg[q[k]])
        BY <3>2, NextPlace
      <3>6. Value(cs[q[k]]) = Kraft(Sooner(arg, q[k])) /\ Value(cs[q[i]]) = Kraft(Sooner(arg, q[i]))
        BY <1>5, <3>2 DEF InPlace
      <3>7. Value(cs[q[i]]) = Value(cs[q[k]]) + Share(arg[q[k]])
        BY <3>2, <3>5, <3>6
      <3>8. Value(cs[q[k]]) \in Nat /\ Share(arg[q[k]]) \in Nat
        BY <1>2, <3>2
      <3> HIDE DEF T
      <3> QED
        BY <3>4, <3>7, <3>8
    <2> QED
      BY <2>1, <2>2
  <1> QED
    BY <1>5, <1>6

\* Codes that fill the code space branch at each bit.
LEMMA FullBranches ==
  ASSUME NEW arg, NEW q, NEW cur, NEW cs, Given(arg, q, Len(q), cur, cs), q # <<>>,
         InPlace(arg, q, Len(q), cs), Kraft(arg) = pow2[MaxCodeBits],
         NEW t \in Symbol, NEW k \in 0 .. Len(cs[t]), k < Len(cs[t]), NEW b \in Bit
  PROVE  Append(SubSeq(cs[t], 1, k), b) \in Beginnings(cs)
  <1>1. /\ cs \in [Symbol -> Seq(Bit)] /\ arg \in [Symbol -> 0 .. MaxCodeBits]
        /\ \A s \in Symbol : Len(cs[s]) = arg[s]
        /\ \A s, u \in Coded(arg) : s # u => ~IsPrefixOf(cs[s], cs[u])
    <2>1. cs \in [Symbol -> Seq(Bit)] /\ arg \in [Symbol -> 0 .. MaxCodeBits]
      BY DEF Given
    <2>2. \A s \in Symbol : Len(cs[s]) = arg[s]
      BY GivenAll
    <2>3. \A s, u \in Coded(arg) : s # u => ~IsPrefixOf(cs[s], cs[u])
      BY GivenAll
    <2> QED
      BY <2>1, <2>2, <2>3
  <1>2. PICK p : p = SubSeq(cs[t], 1, k)
    OBVIOUS
  <1>3. PICK c : c = Append(p, b)
    OBVIOUS
  <1>4. /\ cs[t] \in Seq(Bit) /\ p \in Seq(Bit) /\ Len(p) = k /\ k \in Nat
        /\ Len(cs[t]) \in Nat /\ Len(cs[t]) <= MaxCodeBits
    <2>1. cs[t] \in Seq(Bit) /\ Len(cs[t]) \in Nat
      BY <1>1
    <2>2. p \in Seq(Bit) /\ Len(p) = k /\ k \in Nat
      BY <1>2, <2>1, BeginningFacts
    <2>3. Len(cs[t]) <= MaxCodeBits
      BY <1>1, MaxBitsNat
    <2> QED
      BY <2>1, <2>2, <2>3
  <1>5. /\ c \in Seq(Bit) /\ Len(c) = k + 1 /\ Len(c) \in 1 .. MaxCodeBits
        /\ \A j \in 0 .. k : SubSeq(c, 1, j) = SubSeq(cs[t], 1, j)
    <2>1. /\ c \in Seq(Bit) /\ Len(c) = k + 1
          /\ \A j \in 0 .. k : SubSeq(c, 1, j) = SubSeq(p, 1, j)
      BY <1>3, <1>4, AppendFacts
    <2>2. \A j \in 0 .. k : SubSeq(p, 1, j) = SubSeq(cs[t], 1, j)
      BY <1>2, <1>4, BeginningFacts
    <2>3. k + 1 \in 1 .. MaxCodeBits
      BY <1>4, MaxBitsNat
    <2> QED
      BY <2>1, <2>2, <2>3
  <1>6. /\ Value(c) \in Nat /\ Share(Len(c)) \in Nat /\ Share(Len(c)) >= 1
        /\ Value(c) < pow2[MaxCodeBits]
    <2>1. /\ Value(c) \in Nat /\ Value(c) + Share(Len(c)) <= pow2[MaxCodeBits]
      BY <1>5, ValueBound
    <2>2. Share(Len(c)) \in Nat /\ Share(Len(c)) >= 1 /\ pow2[MaxCodeBits] \in Nat
      BY <1>5, ShareNat, ShareFacts
    <2> QED
      BY <2>1, <2>2
  <1>7. PICK i \in 1 .. Len(q) :
           Value(cs[q[i]]) <= Value(c) /\ Value(c) < Value(cs[q[i]]) + Share(arg[q[i]])
    BY <1>6, ValueTaken
  <1>8. PICK s \in Symbol : s = q[i] /\ arg[s] \in 1 .. MaxCodeBits
    BY GivenFacts
  <1>9. /\ cs[s] \in Seq(Bit) /\ Len(cs[s]) = arg[s] /\ Len(cs[s]) \in Nat
        /\ Len(cs[s]) <= MaxCodeBits /\ Value(cs[s]) \in Nat /\ Share(Len(cs[s])) \in Nat
        /\ Len(c) <= MaxCodeBits /\ arg[s] # 0
    <2>1. cs[s] \in Seq(Bit) /\ Len(cs[s]) = arg[s] /\ Len(cs[s]) \in Nat /\ Len(c) \in Nat
      BY <1>1, <1>5
    <2>2. Len(cs[s]) <= MaxCodeBits /\ Len(c) <= MaxCodeBits /\ arg[s] # 0
      BY <1>5, <1>8, <2>1, MaxBitsNat
    <2>3. Value(cs[s]) \in Nat /\ Share(Len(cs[s])) \in Nat
      BY <1>8, <2>1, ValueBound, ShareNat
    <2> QED
      BY <2>1, <2>2, <2>3
  <1>10. ~BranchesBefore(cs[s], c)
    <2>1. BranchesBefore(cs[s], c) => Value(cs[s]) + Share(Len(cs[s])) <= Value(c)
      BY <1>5, <1>9, BranchValue
    <2>2. Value(c) < Value(cs[s]) + Share(Len(cs[s]))
      BY <1>7, <1>8, <1>9
    <2> QED
      BY <1>6, <1>9, <2>1, <2>2
  <1>11. ~BranchesBefore(c, cs[s])
    <2>1. BranchesBefore(c, cs[s]) => Value(c) + Share(Len(c)) <= Value(cs[s])
      BY <1>5, <1>9, BranchValue
    <2>2. Value(cs[s]) <= Value(c)
      BY <1>7, <1>8
    <2> QED
      BY <1>6, <1>9, <2>1, <2>2
  <1>12. CASE IsPrefixOf(c, cs[s])
    <2>1. c = SubSeq(cs[s], 1, Len(c)) /\ Len(c) \in 0 .. Len(cs[s])
      BY <1>5, <1>9, <1>12 DEF IsPrefixOf
    <2> QED
      BY <1>1, <1>2, <1>3, <2>1, BeginningsMeans
  <1>13. CASE IsPrefixOf(cs[s], c)
    <2>1. SubSeq(c, 1, Len(cs[s])) = cs[s] /\ Len(cs[s]) <= k + 1
      BY <1>5, <1>13 DEF IsPrefixOf
    <2>2. CASE Len(cs[s]) = k + 1
      <3>1. c = cs[s]
        BY <1>5, <2>1, <2>2, WholeBeginning
      <3>2. SubSeq(cs[s], 1, Len(cs[s])) = cs[s] /\ Len(cs[s]) \in 0 .. Len(cs[s])
        BY <1>9, WholeBeginning
      <3> QED
        BY <1>1, <1>2, <1>3, <3>1, <3>2, BeginningsMeans
    <2>3. CASE Len(cs[s]) # k + 1
      <3>1. Len(cs[s]) \in 0 .. k /\ Len(cs[s]) < Len(cs[t]) /\ Len(cs[s]) <= Len(cs[t])
        <4>1. PICK x, y \in Nat : x = Len(cs[s]) /\ y = Len(cs[t])
          BY <1>4, <1>9
        <4>2. k \in Nat /\ k < y /\ x <= k + 1 /\ x # k + 1
          BY <1>4, <2>1, <2>3, <4>1
        <4>3. x \in 0 .. k /\ x < y /\ x <= y
          BY <4>2
        <4> QED
          BY <4>1, <4>3
      <3>2. IsPrefixOf(cs[s], cs[t])
        BY <1>5, <2>1, <3>1 DEF IsPrefixOf
      <3>3. s # t /\ arg[t] # 0
        <4>1. Len(cs[t]) = arg[t] /\ Len(cs[t]) # 0
          BY <1>1, <1>4, <1>9, <3>1
        <4> QED
          BY <1>4, <1>9, <3>1, <4>1
      <3> QED
        BY <1>1, <1>9, <3>2, <3>3 DEF Coded
    <2> QED
      BY <2>2, <2>3
  <1> QED
    BY <1>5, <1>9, <1>10, <1>11, <1>12, <1>13, BranchOrBegin

\* There are no more whole codes than symbols.
LEMMA WholeCodes ==
  ASSUME NEW cs \in [Symbol -> Seq(Bit)]
  PROVE  /\ IsFiniteSet({cs[s] : s \in Symbol}) /\ Cardinality({cs[s] : s \in Symbol}) \in Nat
         /\ Cardinality({cs[s] : s \in Symbol}) <= Symbols
  <1> DEFINE L == {cs[s] : s \in Symbol}
  <1>1. IsFiniteSet(Symbol) /\ Cardinality(Symbol) = Symbols
    <2>1. Symbols - 1 \in Int /\ ~(0 > Symbols - 1) /\ (Symbols - 1) - 0 + 1 = Symbols
      BY SymbolsNat
    <2> QED
      BY <2>1, FS_Interval DEF Symbol
  <1>2. cs \in Surjection(Symbol, L)
    BY DEF Surjection
  <1>3. IsFiniteSet(L) /\ Cardinality(L) <= Cardinality(Symbol)
    <2> HIDE DEF L
    <2> QED
      BY <1>1, <1>2, FS_Surjection
  <1> HIDE DEF L
  <1>4. IsFiniteSet(L) /\ Cardinality(L) \in Nat /\ Cardinality(L) <= Symbols
    BY <1>1, <1>3, FS_CardinalityType
  <1> QED
    BY <1>4 DEF L

LEMMA RoomIfFull ==
  ASSUME NEW arg, NEW q, NEW cur, NEW cs, Given(arg, q, Len(q), cur, cs), q # <<>>,
         InPlace(arg, q, Len(q), cs), Kraft(arg) = pow2[MaxCodeBits]
  PROVE  Cardinality(Beginnings(cs)) <= MaxNodes
  <1>1. /\ cs \in [Symbol -> Seq(Bit)] /\ arg \in [Symbol -> 0 .. MaxCodeBits]
        /\ \A s \in Symbol : Len(cs[s]) = arg[s]
    <2>1. cs \in [Symbol -> Seq(Bit)] /\ arg \in [Symbol -> 0 .. MaxCodeBits]
      BY DEF Given
    <2>2. \A s \in Symbol : Len(cs[s]) = arg[s]
      BY GivenAll
    <2> QED
      BY <2>1, <2>2
  <1> DEFINE P == Beginnings(cs)
             W == {cs[s] : s \in Symbol}
             L == W \ {<<>>}
  <1>2. /\ \A p : p \in P <=> \E s \in Symbol : \E k \in 0 .. Len(cs[s]) : p = SubSeq(cs[s], 1, k)
        /\ P \subseteq Seq(Bit) /\ <<>> \in P
    BY <1>1, BeginningsMeans
  <1>3. IsFiniteSet(P)
    <2>1. \A s \in Symbol : Len(cs[s]) <= MaxCodeBits
      BY <1>1, MaxBitsNat
    <2> QED
      BY <1>1, <2>1, BeginningsFinite
  <1>4. L \subseteq P
    <2>1. ASSUME NEW s \in Symbol PROVE cs[s] \in P
      <3>1. cs[s] \in Seq(Bit)
        BY <1>1
      <3>2. Len(cs[s]) \in 0 .. Len(cs[s]) /\ SubSeq(cs[s], 1, Len(cs[s])) = cs[s]
        BY <3>1, WholeBeginning
      <3> HIDE DEF P
      <3> QED
        BY <1>2, <3>2
    <2> QED
      BY <2>1
  <1>5. ASSUME NEW p \in P \ L, NEW b \in Bit PROVE Append(p, b) \in P
    <2>1. \E t \in Symbol : \E k \in 0 .. Len(cs[t]) :
             p = SubSeq(cs[t], 1, k) /\ k < Len(cs[t])
      <3>0. PICK s \in Symbol : \E k \in 0 .. Len(cs[s]) : p = SubSeq(cs[s], 1, k)
        BY <1>2
      <3>1. PICK k \in 0 .. Len(cs[s]) : p = SubSeq(cs[s], 1, k)
        BY <3>0
      <3>2. cs[s] \in Seq(Bit) /\ Len(cs[s]) \in Nat
        BY <1>1
      <3>3. CASE k < Len(cs[s])
        BY <3>1, <3>3
      <3>4. CASE ~(k < Len(cs[s]))
        <4>1. k = Len(cs[s]) /\ p = cs[s]
          BY <3>1, <3>2, <3>4, WholeBeginning
        <4>2. p = <<>>
          BY <4>1
        <4>3. PICK t \in Symbol : arg[t] # 0
          <5>1. 1 \in 1 .. Len(q)
            <6>1. Len(q) \in Nat /\ Len(q) # 0
              BY EmptySeq, GivenFacts DEF Given
            <6> QED
              BY <6>1
          <5> QED
            BY <5>1, GivenFacts, MaxBitsNat
        <4>4. cs[t] \in Seq(Bit) /\ Len(cs[t]) = arg[t]
          BY <1>1
        <4>5. 0 \in 0 .. Len(cs[t]) /\ 0 < Len(cs[t]) /\ SubSeq(cs[t], 1, 0) = <<>>
          BY <4>3, <4>4, WholeBeginning
        <4> QED
          BY <4>2, <4>5
      <3> QED
        BY <3>3, <3>4
    <2> QED
      BY <2>1, FullBranches
  <1>6. /\ Cardinality(P) \in Nat /\ Cardinality(L) \in Nat
        /\ Cardinality(P) + 1 <= 2 * Cardinality(L)
    <2> HIDE DEF P, L
    <2> QED
      BY <1>2, <1>3, <1>4, <1>5, BranchingCount
  <1>7. Cardinality(L) <= Symbols
    <2>1. IsFiniteSet(W) /\ Cardinality(W) \in Nat /\ Cardinality(W) <= Symbols
      BY <1>1, WholeCodes
    <2>2. L \in SUBSET W
      OBVIOUS
    <2>3. Cardinality(L) <= Cardinality(W)
      <3> HIDE DEF W, L
      <3> QED
        BY <2>1, <2>2, FS_Subset
    <2> HIDE DEF W, L
    <2> QED
      BY <1>6, <2>1, <2>3, SymbolsNat
  <1> HIDE DEF P, L
  <1>8. Cardinality(P) <= MaxNodes
    BY <1>6, <1>7, SymbolsNat DEF MaxNodes
  <1> QED
    BY <1>8 DEF P

\* A code of one bit needs two nodes.
LEMMA RoomIfOne ==
  ASSUME NEW cs \in [Symbol -> Seq(Bit)], NEW x \in Symbol,
         \A s \in Symbol : Len(cs[s]) <= 1, \A s \in Symbol : s # x => cs[s] = <<>>
  PROVE  Cardinality(Beginnings(cs)) <= MaxNodes
  <1> DEFINE P == Beginnings(cs)
             R == {<<>>} \cup {cs[x]}
  <1>1. P \in SUBSET R
    <2>1. ASSUME NEW p \in P PROVE p \in R
      <3>0. PICK s \in Symbol : \E k \in 0 .. Len(cs[s]) : p = SubSeq(cs[s], 1, k)
        BY BeginningsMeans
      <3>1. PICK k \in 0 .. Len(cs[s]) : p = SubSeq(cs[s], 1, k)
        BY <3>0
      <3>2. cs[s] \in Seq(Bit) /\ Len(cs[s]) \in Nat /\ Len(cs[s]) <= 1
        OBVIOUS
      <3>3. k = 0 \/ k = Len(cs[s])
        BY <3>2
      <3>4. p = <<>> \/ p = cs[s]
        BY <3>1, <3>2, <3>3, WholeBeginning
      <3> QED
        BY <3>4
    <2> HIDE DEF P, R
    <2> QED
      BY <2>1
  <1>2. IsFiniteSet(R) /\ Cardinality(R) \in Nat /\ Cardinality(R) <= 2
    <2>1. IsFiniteSet({<<>>}) /\ Cardinality({<<>>}) = 1
      BY FS_Singleton
    <2>2. /\ IsFiniteSet({<<>>} \cup {cs[x]})
          /\ Cardinality({<<>>} \cup {cs[x]}) =
                IF cs[x] \in {<<>>} THEN Cardinality({<<>>}) ELSE Cardinality({<<>>}) + 1
      BY <2>1, FS_AddElement
    <2>3. PICK S : S = {<<>>} \cup {cs[x]}
      OBVIOUS
    <2>4. IsFiniteSet(S) /\ (Cardinality(S) = 1 \/ Cardinality(S) = 1 + 1)
      BY <2>1, <2>2, <2>3
    <2>5. Cardinality(S) \in Nat /\ Cardinality(S) <= 2
      BY <2>4
    <2> QED
      BY <2>3, <2>4, <2>5
  <1>3. Cardinality(P) <= Cardinality(R) /\ IsFiniteSet(P)
    <2> HIDE DEF P, R
    <2> QED
      BY <1>1, <1>2, FS_Subset
  <1> HIDE DEF P, R
  <1>4. Cardinality(P) \in Nat
    BY <1>3, FS_CardinalityType
  <1>5. Cardinality(P) <= MaxNodes
    BY <1>2, <1>3, <1>4, SymbolsAssumption DEF MaxNodes
  <1> QED
    BY <1>5 DEF P

----------------------------------------------------------------------------
(* The bit writer.                                                         *)

LEMMA ByteBitsNat == ByteBits \in Nat /\ ByteBits >= 1
  BY PayloadAssumption

\* A bit that is added behind others changes no quotient that they make.
LEMMA BitBehind ==
  ASSUME NEW e \in Nat \ {0}, NEW g \in Nat \ {0}, NEW m \in Nat, NEW b \in {0, 1}
  PROVE  ((2 * m + b) * e) \div (e * (2 * g)) = (2 * m * e) \div (e * (2 * g))
  <1> DEFINE d == e * (2 * g)
  <1>1. PICK h \in Nat, l \in 0 .. g - 1 : m = g * h + l
    <2>1. m \div g \in Nat /\ m % g \in 0 .. g - 1 /\ m = g * (m \div g) + (m % g)
      <3>1. m = 1 * m
        OBVIOUS
      <3>2. m < g * (m + 1)
        <4>1. g * (m + 1) >= m + 1
          BY ProductAtLeast
        <4> QED
          BY <4>1
      <3>3. m \div g \in Nat
        BY <3>2, QuotientBelow
      <3> QED
        BY <3>3, Division
    <2> QED
      BY <2>1
  <1>2. d \in Nat /\ d # 0
    <2>1. e * (2 * g) >= 2 * g
      BY ProductAtLeast
    <2>2. d \in Int
      OBVIOUS
    <2> QED
      BY <2>1, <2>2
  <1>3. 2 * m * e = d * h + (2 * l) * e
    <2>1. 2 * m * e = 2 * (g * h) * e + (2 * l) * e
      BY <1>1
    <2>2. 2 * (g * h) * e = d * h
      OBVIOUS
    <2> QED
      BY <2>1, <2>2
  <1>4. (2 * m + b) * e = d * h + (2 * l + b) * e
    <2>1. (2 * m + b) * e = 2 * m * e + b * e
      OBVIOUS
    <2>2. (2 * l + b) * e = (2 * l) * e + b * e
      OBVIOUS
    <2> QED
      BY <1>3, <2>1, <2>2
  <1>5. ASSUME NEW n \in 0 .. 2 * g - 1 PROVE n * e \in 0 .. d - 1
    <2>1. (2 * g - n) * e >= e
      BY ProductAtLeast
    <2>2. (2 * g - n) * e = d - n * e
      OBVIOUS
    <2>3. n * e \in Nat
      OBVIOUS
    <2> QED
      BY <2>1, <2>2, <2>3, <1>2
  <1>6. 2 * l \in 0 .. 2 * g - 1 /\ 2 * l + b \in 0 .. 2 * g - 1
    BY <1>1
  <1>7. (2 * l) * e \in 0 .. d - 1 /\ (2 * l + b) * e \in 0 .. d - 1
    BY <1>5, <1>6
  <1> HIDE DEF d
  <1>8. (d * h + (2 * l) * e) \div d = h /\ (d * h + (2 * l + b) * e) \div d = h
    BY <1>1, <1>2, <1>7, DivisionUnique
  <1>9. ((2 * m + b) * e) \div d = (2 * m * e) \div d
    BY <1>3, <1>4, <1>8
  <1> QED
    BY <1>9 DEF d

\* A byte whose first r bits are set, and one bit more.
LEMMA NextBitOfByte ==
  ASSUME NEW r \in 0 .. ByteBits - 1, NEW m \in 0 .. pow2[r] - 1, NEW b \in Bit, NEW v, NEW w,
         v = m * pow2[ByteBits - r], w = v + b * pow2[ByteBits - 1 - r]
  PROVE  /\ w \in Nat /\ w < pow2[ByteBits] /\ w % pow2[ByteBits - (r + 1)] = 0
         /\ (w \div pow2[ByteBits - 1 - r]) % 2 = b
         /\ \A j \in 0 .. r - 1 :
               w \div pow2[ByteBits - 1 - j] = v \div pow2[ByteBits - 1 - j]
  <1>1. ByteBits \in Nat /\ r \in Nat /\ ByteBits - 1 - r \in Nat /\ ByteBits - r \in Nat
        /\ ByteBits - (r + 1) = ByteBits - 1 - r /\ ByteBits - r = (ByteBits - 1 - r) + 1
    BY ByteBitsNat
  <1>2. PICK e \in Nat \ {0} : e = pow2[ByteBits - 1 - r]
    BY <1>1, Pow2Positive
  <1>3. PICK p \in Nat \ {0} : p = pow2[r]
    BY <1>1, Pow2Positive
  <1>4. pow2[ByteBits - r] = 2 * e
    BY <1>1, <1>2, Pow2Def
  <1>5. pow2[ByteBits] = 2 * e * p
    <2>1. ByteBits = (ByteBits - r) + r
      BY <1>1
    <2>2. pow2[(ByteBits - r) + r] = pow2[ByteBits - r] * pow2[r]
      BY <1>1, Pow2Sum
    <2> QED
      BY <1>3, <1>4, <2>1, <2>2
  <1>6. m \in Nat /\ m + 1 <= p /\ b \in {0, 1}
    BY <1>3 DEF Bit
  <1>7. v = 2 * m * e /\ w = (2 * m + b) * e
    <2>1. v = m * (2 * e) /\ w = v + b * e
      BY <1>2, <1>4
    <2>2. (2 * m + b) * e = m * (2 * e) + b * e
      BY <1>6
    <2> QED
      BY <1>6, <2>1, <2>2
  <1>8. PICK c \in Nat : c = 2 * m + b /\ c < 2 * p /\ c % 2 = b
    <2>1. 2 * m + b \in Nat /\ 2 * m + b < 2 * p /\ (2 * m + b) % 2 = b
      BY <1>6
    <2> QED
      BY <2>1
  <1>9. w = e * c + 0 /\ w = c * e
    BY <1>7, <1>8
  <1>10. w \div e = c /\ w % e = 0
    <2>1. 0 \in 0 .. e - 1
      OBVIOUS
    <2>2. PICK z \in 0 .. e - 1 : z = 0
      BY <2>1
    <2>3. (e * c + z) \div e = c /\ (e * c + z) % e = z
      BY DivisionUnique
    <2> QED
      BY <1>9, <2>2, <2>3
  <1>11. w \in Nat /\ w < pow2[ByteBits]
    <2>1. (2 * p - c) * e >= e
      BY <1>8, ProductAtLeast
    <2>2. (2 * p - c) * e = 2 * e * p - c * e
      OBVIOUS
    <2>3. c * e \in Nat
      OBVIOUS
    <2> QED
      BY <1>5, <1>9, <2>1, <2>2, <2>3
  <1>12. ASSUME NEW j \in 0 .. r - 1
         PROVE  w \div pow2[ByteBits - 1 - j] = v \div pow2[ByteBits - 1 - j]
    <2>1. r - j - 1 \in Nat /\ r - j \in Nat /\ r - j = (r - j - 1) + 1
          /\ ByteBits - 1 - j = (ByteBits - 1 - r) + (r - j)
      BY <1>1
    <2>2. PICK g \in Nat \ {0} : g = pow2[r - j - 1]
      BY <2>1, Pow2Positive
    <2>3. pow2[r - j] = 2 * g
      BY <2>1, <2>2, Pow2Def
    <2>4. pow2[(ByteBits - 1 - r) + (r - j)] = pow2[ByteBits - 1 - r] * pow2[r - j]
      BY <1>1, <2>1, Pow2Sum
    <2>5. pow2[ByteBits - 1 - j] = e * (2 * g)
      BY <1>2, <2>1, <2>3, <2>4
    <2>6. ((2 * m + b) * e) \div (e * (2 * g)) = (2 * m * e) \div (e * (2 * g))
      BY <1>6, BitBehind
    <2> QED
      BY <1>7, <2>5, <2>6
  <1> QED
    BY <1>1, <1>2, <1>8, <1>10, <1>11, <1>12

\* Where the next bit goes.
LEMMA BytePlace ==
  ASSUME NEW n \in Nat
  PROVE  \E q \in Nat : \E r \in 0 .. ByteBits - 1 :
           /\ n = ByteBits * q + r /\ n \div ByteBits = q /\ n % ByteBits = r
           /\ (n + ByteBits - 1) \div ByteBits = (IF r = 0 THEN q ELSE q + 1)
           /\ ((n + 1) + ByteBits - 1) \div ByteBits = q + 1
           /\ (n + 1) % ByteBits = IF r + 1 = ByteBits THEN 0 ELSE r + 1
  <1>1. PICK B \in Nat \ {0} : B = ByteBits
    BY ByteBitsNat
  <1>2. PICK q \in Int, r \in 0 .. B - 1 : n = B * q + r /\ n \div B = q /\ n % B = r
    BY Division
  <1>3. q \in Nat
    <2>1. B * (n + 1) >= n + 1
      BY ProductAtLeast
    <2>2. n \div B \in Nat
      BY <2>1, QuotientBelow
    <2> QED
      BY <1>2, <2>2
  <1>4. B * (q + 1) = B * q + B
    BY <1>2
  <1>5. (n + B - 1) \div B = IF r = 0 THEN q ELSE q + 1
    <2>1. CASE r = 0
      <3>1. n + B - 1 = B * q + (B - 1) /\ B - 1 \in 0 .. B - 1
        BY <1>2, <2>1
      <3> QED
        BY <1>2, <2>1, <3>1, DivisionUnique
    <2>2. CASE r # 0
      <3>1. n + B - 1 = B * (q + 1) + (r - 1) /\ r - 1 \in 0 .. B - 1 /\ q + 1 \in Int
        BY <1>2, <1>4, <2>2
      <3> QED
        BY <2>2, <3>1, DivisionUnique
    <2> QED
      BY <2>1, <2>2
  <1>6. ((n + 1) + B - 1) \div B = q + 1
    <2>1. (n + 1) + B - 1 = B * (q + 1) + r /\ q + 1 \in Int
      BY <1>2, <1>4
    <2> QED
      BY <2>1, DivisionUnique
  <1>7. (n + 1) % B = IF r + 1 = B THEN 0 ELSE r + 1
    <2>1. CASE r + 1 = B
      <3>1. PICK z \in 0 .. B - 1 : z = 0
        OBVIOUS
      <3>2. n + 1 = B * (q + 1) + z /\ q + 1 \in Int
        BY <1>2, <1>4, <2>1, <3>1
      <3>3. (B * (q + 1) + z) % B = z
        BY <3>2, DivisionUnique
      <3> QED
        BY <2>1, <3>1, <3>2, <3>3
    <2>2. CASE r + 1 # B
      <3>1. n + 1 = B * q + (r + 1) /\ r + 1 \in 0 .. B - 1
        BY <1>2, <2>2
      <3> QED
        BY <1>2, <2>2, <3>1, DivisionUnique
    <2> QED
      BY <2>1, <2>2
  <1> QED
    BY <1>1, <1>2, <1>3, <1>5, <1>6, <1>7

\* Bits of a payload's data.
BitOf(d, p) == (d[p \div ByteBits + 1] \div pow2[Shift(p)]) % 2

BitsOf(d, n) == [i \in 1 .. n |-> BitOf(d, i - 1)]

PackedData(d, n) ==
    /\ d \in Seq(Nat)
    /\ \A i \in DOMAIN d : d[i] < pow2[ByteBits]
    /\ Len(d) = (n + ByteBits - 1) \div ByteBits
    /\ n % ByteBits # 0 => Last(d) % pow2[ByteBits - (n % ByteBits)] = 0

\* bit_writer_write of the bit b behind n others.
Wrote(d, n, b, e) ==
    e = IF n % ByteBits = 0 THEN Append(d, b * pow2[Shift(n)])
        ELSE [d EXCEPT ![Len(d)] = d[Len(d)] + b * pow2[Shift(n)]]

LEMMA BitsOfFacts ==
  ASSUME NEW d \in Seq(Nat), NEW n \in Nat, Len(d) = (n + ByteBits - 1) \div ByteBits
  PROVE  /\ BitsOf(d, n) \in Seq(Bit) /\ Len(BitsOf(d, n)) = n
         /\ \A i \in 1 .. n : BitsOf(d, n)[i] = BitOf(d, i - 1)
  <1>1. ASSUME NEW i \in 1 .. n PROVE BitOf(d, i - 1) \in Bit
    <2>1. PICK p \in Nat : p = i - 1 /\ p < n
      OBVIOUS
    <2>2. PICK q \in Nat : \E r \in 0 .. ByteBits - 1 :
             p = ByteBits * q + r /\ p \div ByteBits = q /\ p % ByteBits = r
      BY BytePlace
    <2>3. PICK r \in 0 .. ByteBits - 1 :
             p = ByteBits * q + r /\ p \div ByteBits = q /\ p % ByteBits = r
      BY <2>2
    <2>4. q + 1 \in 1 .. Len(d)
      <3>1. PICK q2 \in Nat : \E r2 \in 0 .. ByteBits - 1 :
              /\ n = ByteBits * q2 + r2
              /\ (n + ByteBits - 1) \div ByteBits = (IF r2 = 0 THEN q2 ELSE q2 + 1)
        BY BytePlace
      <3>2. PICK r2 \in 0 .. ByteBits - 1 :
              /\ n = ByteBits * q2 + r2
              /\ (n + ByteBits - 1) \div ByteBits = (IF r2 = 0 THEN q2 ELSE q2 + 1)
        BY <3>1
      <3>3. ~(q >= q2 + 1)
        <4> SUFFICES ASSUME q >= q2 + 1 PROVE FALSE
          OBVIOUS
        <4>1. PICK B \in Nat \ {0} : B = ByteBits
          BY ByteBitsNat
        <4>2. B * q >= B * (q2 + 1)
          <5>1. (q - (q2 + 1)) \in Nat /\ B * (q - (q2 + 1)) \in Nat
            OBVIOUS
          <5>2. B * (q - (q2 + 1)) = B * q - B * (q2 + 1)
            OBVIOUS
          <5> QED
            BY <5>1, <5>2
        <4>3. B * (q2 + 1) = B * q2 + B
          OBVIOUS
        <4> QED
          BY <2>1, <2>3, <3>2, <4>1, <4>2, <4>3
      <3>4. CASE r2 = 0
        <4>1. q # q2
          <5>1. ByteBits * q2 \in Nat
            BY ByteBitsNat
          <5> SUFFICES ASSUME q = q2 PROVE FALSE
            OBVIOUS
          <5>2. p = ByteBits * q2 + r /\ n = ByteBits * q2
            BY <2>3, <3>2, <3>4, <5>1
          <5> QED
            BY <2>1, <5>1, <5>2
        <4> QED
          BY <3>2, <3>3, <3>4, <4>1
      <3>5. CASE r2 # 0
        BY <3>2, <3>3, <3>5
      <3> QED
        BY <3>4, <3>5
    <2>5. d[q + 1] \in Nat
      BY <2>4
    <2>6. ByteBits - 1 - r \in Nat
      BY ByteBitsNat
    <2>7. PICK g \in Nat \ {0} : g = pow2[Shift(p)]
      BY <2>3, <2>6, Pow2Positive DEF Shift
    <2>8. PICK v \in Nat : v = d[q + 1]
      BY <2>5
    <2>9. v \div g \in Int /\ (v \div g) % 2 \in {0, 1}
      BY Division
    <2> QED
      BY <2>1, <2>3, <2>7, <2>8, <2>9 DEF BitOf, Bit
  <1>2. DOMAIN BitsOf(d, n) = 1 .. n /\ \A i \in 1 .. n : BitsOf(d, n)[i] = BitOf(d, i - 1)
    BY DEF BitsOf
  <1>3. BitsOf(d, n) \in [1 .. n -> Bit]
    BY <1>1 DEF BitsOf
  <1> QED
    BY <1>2, <1>3

LEMMA WroteFacts ==
  ASSUME NEW d, NEW n \in Nat, PackedData(d, n), NEW b \in Bit, NEW e, Wrote(d, n, b, e)
  PROVE  PackedData(e, n + 1) /\ BitsOf(e, n + 1) = Append(BitsOf(d, n), b)
  <1>1. PICK q \in Nat : \E r \in 0 .. ByteBits - 1 :
           /\ n = ByteBits * q + r /\ n \div ByteBits = q /\ n % ByteBits = r
           /\ (n + ByteBits - 1) \div ByteBits = (IF r = 0 THEN q ELSE q + 1)
           /\ ((n + 1) + ByteBits - 1) \div ByteBits = q + 1
           /\ (n + 1) % ByteBits = IF r + 1 = ByteBits THEN 0 ELSE r + 1
    BY BytePlace
  <1>2. PICK r \in 0 .. ByteBits - 1 :
           /\ n = ByteBits * q + r /\ n \div ByteBits = q /\ n % ByteBits = r
           /\ (n + ByteBits - 1) \div ByteBits = (IF r = 0 THEN q ELSE q + 1)
           /\ ((n + 1) + ByteBits - 1) \div ByteBits = q + 1
           /\ (n + 1) % ByteBits = IF r + 1 = ByteBits THEN 0 ELSE r + 1
    BY <1>1
  <1>3. d \in Seq(Nat) /\ Len(d) = (IF r = 0 THEN q ELSE q + 1) /\ \A i \in DOMAIN d : d[i] < pow2[ByteBits]
        /\ DOMAIN d = 1 .. Len(d)
    BY <1>2 DEF PackedData
  <1>4. Shift(n) = ByteBits - 1 - r /\ ByteBits - 1 - r \in Nat /\ ByteBits - r \in Nat /\ r \in Nat
    BY <1>2, ByteBitsNat DEF Shift
  <1>5. PICK bit \in Nat : bit = b * pow2[ByteBits - 1 - r]
    <2>1. PICK g \in Nat : g = pow2[ByteBits - 1 - r]
      BY <1>4, Pow2Positive
    <2> QED
      BY <2>1 DEF Bit
  \* The byte before and after.
  <1>6. \E v, w \in Nat : \E m \in 0 .. pow2[r] - 1 :
           /\ v = m * pow2[ByteBits - r] /\ w = v + bit
           /\ r = 0 => v = 0
           /\ r # 0 => d[q + 1] = v
    <2>1. CASE r = 0
      <3>1. PICK m \in 0 .. pow2[r] - 1 : m = 0
        BY <2>1, Pow2Def
      <3>2. m * pow2[ByteBits - r] = 0
        BY <1>4, <3>1, Pow2Positive
      <3> QED
        BY <2>1, <3>1, <3>2
    <2>2. CASE r # 0
      <3>1. q + 1 \in DOMAIN d /\ d # <<>> /\ Last(d) = d[q + 1]
        BY <1>3, <2>2 DEF Last
      <3>2. PICK v \in Nat : v = d[q + 1]
        BY <1>3, <3>1
      <3>3. v < pow2[ByteBits] /\ v % pow2[ByteBits - r] = 0
        BY <1>2, <1>3, <2>2, <3>1, <3>2 DEF PackedData
      <3>4. PICK g \in Nat \ {0} : g = pow2[ByteBits - r]
        BY <1>4, Pow2Positive
      <3>5. PICK p \in Nat \ {0} : p = pow2[r]
        BY <1>4, Pow2Positive
      <3>6. pow2[ByteBits] = g * p
        <4>1. pow2[(ByteBits - r) + r] = pow2[ByteBits - r] * pow2[r]
          BY <1>4, Pow2Sum
        <4>2. (ByteBits - r) + r = ByteBits
          BY <1>4, ByteBitsNat
        <4> QED
          BY <3>4, <3>5, <4>1, <4>2
      <3>7. PICK m \in Nat : m = v \div g /\ m < p
        BY <3>3, <3>6, QuotientBelow
      <3>8. v = g * m + 0
        <4>1. v = g * (v \div g) + (v % g)
          BY Division
        <4>2. v % g = 0
          BY <3>3, <3>4
        <4> QED
          BY <3>7, <4>1, <4>2
      <3>9. v = m * g /\ m \in 0 .. p - 1
        BY <3>7, <3>8
      <3> QED
        BY <1>5, <2>2, <3>2, <3>4, <3>5, <3>9
    <2> QED
      BY <2>1, <2>2
  <1>7. PICK v \in Nat, w \in Nat : \E m \in 0 .. pow2[r] - 1 :
           /\ v = m * pow2[ByteBits - r] /\ w = v + bit
           /\ r = 0 => v = 0
           /\ r # 0 => d[q + 1] = v
    BY <1>6
  <1>8. PICK m \in 0 .. pow2[r] - 1 :
           /\ v = m * pow2[ByteBits - r] /\ w = v + bit
           /\ r = 0 => v = 0
           /\ r # 0 => d[q + 1] = v
    BY <1>7
  <1>9. /\ w < pow2[ByteBits] /\ w % pow2[ByteBits - (r + 1)] = 0
        /\ (w \div pow2[ByteBits - 1 - r]) % 2 = b
        /\ \A j \in 0 .. r - 1 : w \div pow2[ByteBits - 1 - j] = v \div pow2[ByteBits - 1 - j]
    BY <1>5, <1>8, NextBitOfByte
  <1>10. /\ e \in Seq(Nat) /\ Len(e) = q + 1 /\ e[q + 1] = w
         /\ \A i \in 1 .. q : e[i] = d[i]
    <2>1. CASE r = 0
      <3>1. e = Append(d, w)
        BY <1>2, <1>4, <1>5, <1>8, <2>1 DEF Wrote
      <3> QED
        BY <1>3, <2>1, <3>1
    <2>2. CASE r # 0
      <3>1. e = [d EXCEPT ![q + 1] = w]
        BY <1>2, <1>3, <1>4, <1>5, <1>8, <2>2 DEF Wrote
      <3>2. q + 1 \in DOMAIN d /\ Len(d) = q + 1
        BY <1>3, <2>2
      <3> QED
        BY <1>3, <3>1, <3>2
    <2> QED
      BY <2>1, <2>2
  <1>11. PackedData(e, n + 1)
    <2>1. ASSUME NEW i \in DOMAIN e PROVE e[i] < pow2[ByteBits]
      <3>1. i \in 1 .. q \/ i = q + 1
        BY <1>10
      <3>2. i \in 1 .. q => i \in DOMAIN d
        BY <1>3
      <3> QED
        BY <1>3, <1>9, <1>10, <3>1, <3>2
    <2>2. Last(e) = w
      BY <1>10 DEF Last
    <2>3. (n + 1) % ByteBits # 0 => Last(e) % pow2[ByteBits - ((n + 1) % ByteBits)] = 0
      BY <1>2, <1>9, <2>2
    <2> QED
      BY <1>2, <1>10, <2>1, <2>3 DEF PackedData
  <1>12. ASSUME NEW i \in 1 .. n PROVE BitOf(e, i - 1) = BitOf(d, i - 1)
    <2>1. PICK p \in Nat : p = i - 1 /\ p < n
      OBVIOUS
    <2>2. PICK o \in Nat : \E j \in 0 .. ByteBits - 1 :
             p = ByteBits * o + j /\ p \div ByteBits = o /\ p % ByteBits = j
      BY BytePlace
    <2>3. PICK j \in 0 .. ByteBits - 1 :
             p = ByteBits * o + j /\ p \div ByteBits = o /\ p % ByteBits = j
      BY <2>2
    <2>4. Shift(p) = ByteBits - 1 - j
      BY <2>3 DEF Shift
    <2>5. ~(o >= q + 1)
      <3> SUFFICES ASSUME o >= q + 1 PROVE FALSE
        OBVIOUS
      <3>1. PICK B \in Nat \ {0} : B = ByteBits
        BY ByteBitsNat
      <3>2. B * o >= B * (q + 1)
        <4>1. (o - (q + 1)) \in Nat /\ B * (o - (q + 1)) \in Nat
          OBVIOUS
        <4>2. B * (o - (q + 1)) = B * o - B * (q + 1)
          OBVIOUS
        <4> QED
          BY <4>1, <4>2
      <3>3. B * (q + 1) = B * q + B
        OBVIOUS
      <3> QED
        BY <1>2, <2>1, <2>3, <3>1, <3>2, <3>3
    <2>6. CASE o < q
      <3>1. o + 1 \in 1 .. q
        BY <2>6
      <3>2. e[o + 1] = d[o + 1]
        BY <1>10, <3>1
      <3> QED
        BY <2>1, <2>3, <3>2 DEF BitOf
    <2>7. CASE o = q
      <3>1. ByteBits * q \in Nat
        BY ByteBitsNat
      <3>2. p = ByteBits * q + j
        BY <2>3, <2>7
      <3>3. j \in 0 .. r - 1
        BY <1>2, <2>1, <3>1, <3>2
      <3>4. r # 0
        BY <3>3
      <3>5. w \div pow2[ByteBits - 1 - j] = v \div pow2[ByteBits - 1 - j]
        BY <1>9, <3>3
      <3>6. e[o + 1] = w /\ d[o + 1] = v
        BY <1>8, <1>10, <2>7, <3>4
      <3> QED
        BY <2>1, <2>3, <2>4, <3>5, <3>6 DEF BitOf
    <2> QED
      BY <2>5, <2>6, <2>7
  <1>13. BitOf(e, (n + 1) - 1) = b
    <2>1. (n + 1) - 1 = n
      OBVIOUS
    <2>2. BitOf(e, n) = (e[q + 1] \div pow2[ByteBits - 1 - r]) % 2
      BY <1>2, <1>4 DEF BitOf
    <2>3. BitOf(e, n) = b
      BY <1>9, <1>10, <2>2
    <2> QED
      BY <2>1, <2>3
  <1>14. /\ BitsOf(d, n) \in Seq(Bit) /\ Len(BitsOf(d, n)) = n
         /\ \A i \in 1 .. n : BitsOf(d, n)[i] = BitOf(d, i - 1)
    BY BitsOfFacts DEF PackedData
  <1>15. /\ BitsOf(e, n + 1) \in Seq(Bit) /\ Len(BitsOf(e, n + 1)) = n + 1
         /\ \A i \in 1 .. n + 1 : BitsOf(e, n + 1)[i] = BitOf(e, i - 1)
    BY <1>11, BitsOfFacts DEF PackedData
  <1>16. BitsOf(e, n + 1) = Append(BitsOf(d, n), b)
    <2>1. PICK x \in Seq(Bit) : x = BitsOf(d, n)
      BY <1>14
    <2>2. PICK y \in Seq(Bit) : y = BitsOf(e, n + 1)
      BY <1>15
    <2>3. \A i \in 1 .. n : y[i] = x[i]
      <3> SUFFICES ASSUME NEW i \in 1 .. n PROVE y[i] = x[i]
        OBVIOUS
      <3>1. i \in 1 .. n + 1
        OBVIOUS
      <3> QED
        BY <1>12, <1>14, <1>15, <2>1, <2>2, <3>1
    <2>4. y[n + 1] = b
      <3>1. n + 1 \in 1 .. n + 1
        OBVIOUS
      <3> QED
        BY <1>13, <1>15, <2>2, <3>1
    <2>5. Len(x) = n /\ Len(y) = n + 1
      BY <1>14, <1>15, <2>1, <2>2
    <2>6. y = Append(x, b)
      BY <2>3, <2>4, <2>5
    <2> QED
      BY <2>1, <2>2, <2>6
  <1> QED
    BY <1>11, <1>16

----------------------------------------------------------------------------
(* The codes of a text, one behind the other.                              *)

CodingBody(cs, x, f) ==
    [i \in 1 .. Len(x) |-> IF i = 1 THEN cs[x[i]] ELSE f[i - 1] \o cs[x[i]]]

\* The codings of the beginnings of a text.
Codings(cs, x, f) ==
    /\ f \in [0 .. Len(x) -> Seq(Bit)] /\ f[0] = <<>>
    /\ \A i \in 1 .. Len(x) : f[i] = f[i - 1] \o cs[x[i]]

LEMMA CodingsExist ==
  ASSUME NEW cs \in [Symbol -> Seq(Bit)], NEW x \in Seq(Symbol)
  PROVE  \E f : Codings(cs, x, f)
  <1> DEFINE N == Len(x)
             S == Seq(Bit)
             step == [q \in Nat \X S |-> IF q[1] \in 1 .. N THEN q[2] \o cs[x[q[1]]] ELSE <<>>]
  <1>1. N \in Nat /\ \A k \in 1 .. N : cs[x[k]] \in Seq(Bit)
    OBVIOUS
  <1>2. <<>> \in S
    OBVIOUS
  <1>3. step \in [Nat \X S -> S]
    <2>1. ASSUME NEW q \in Nat \X S
          PROVE  (IF q[1] \in 1 .. N THEN q[2] \o cs[x[q[1]]] ELSE <<>>) \in S
      <3>1. CASE q[1] \in 1 .. N
        <4>1. q[2] \in Seq(Bit) /\ cs[x[q[1]]] \in Seq(Bit)
          BY <1>1, <3>1
        <4> QED
          BY <3>1, <4>1
      <3> QED
        BY <1>2, <3>1
    <2> QED
      BY <2>1
  <1>4. PICK f : Recurs(f, N, S, <<>>, step)
    <2> HIDE DEF step, S
    <2> QED
      BY <1>1, <1>2, <1>3, BoundedRecursion
  <1>5. f \in [0 .. N -> S] /\ f[0] = <<>>
    BY <1>4 DEF Recurs
  <1>6. ASSUME NEW k \in 1 .. N PROVE f[k] = f[k - 1] \o cs[x[k]]
    <2>1. f[k] = step[<<k, f[k - 1]>>]
      BY <1>4 DEF Recurs
    <2>2. k \in Nat /\ k - 1 \in 0 .. N
      BY <1>1
    <2>3. f[k - 1] \in S
      BY <1>5, <2>2
    <2>4. <<k, f[k - 1]>> \in Nat \X S
      BY <2>2, <2>3
    <2> QED
      BY <2>1, <2>4
  <1> QED
    BY <1>5, <1>6 DEF Codings

LEMMA CodingIs ==
  ASSUME NEW cs \in [Symbol -> Seq(Bit)], NEW x \in Seq(Symbol), NEW f, Codings(cs, x, f)
  PROVE  Coding(cs, x) = f[Len(x)]
  <1> DEFINE y == [i \in DOMAIN x |-> cs[x[i]]]
  <1>0. Len(x) \in Nat /\ DOMAIN x = 1 .. Len(x) /\ \A i \in 1 .. Len(x) : x[i] \in Symbol
    OBVIOUS
  <1>1. /\ Len(x) \in Nat /\ DOMAIN x = 1 .. Len(x)
        /\ y \in Seq(Seq(Bit)) /\ Len(y) = Len(x) /\ DOMAIN y = 1 .. Len(x)
        /\ \A i \in 1 .. Len(x) : y[i] = cs[x[i]] /\ y[i] \in Seq(Bit)
    <2>1. \A i \in 1 .. Len(x) : y[i] = cs[x[i]] /\ cs[x[i]] \in Seq(Bit)
      BY <1>0
    <2>2. y \in [1 .. Len(x) -> Seq(Bit)]
      BY <1>0, <2>1
    <2>3. y \in Seq(Seq(Bit)) /\ Len(y) = Len(x) /\ DOMAIN y = 1 .. Len(x)
      <3> HIDE DEF y
      <3>1. PICK n \in Nat : n = Len(x)
        BY <1>0
      <3>2. y \in [1 .. n -> Seq(Bit)]
        BY <2>2, <3>1
      <3>3. y \in Seq(Seq(Bit))
        BY <3>2, SeqDef
      <3>4. DOMAIN y = 1 .. n
        BY <3>2
      <3>5. Len(y) = n
        BY <3>3, <3>4, LenProperties
      <3> QED
        BY <3>1, <3>3, <3>4, <3>5
    <2> QED
      BY <1>0, <2>1, <2>3
  <1>2. CASE Len(x) = 0
    <2>1. y = <<>>
      BY <1>1, <1>2
    <2>2. Coding(cs, x) = y
      BY <1>1, <1>2 DEF Coding, FlattenSeq
    <2> QED
      BY <1>2, <2>1, <2>2 DEF Codings
  <1>3. CASE Len(x) # 0
    <2> DEFINE Body(v) == [i \in 1 .. Len(y) |-> IF i = 1 THEN y[i] ELSE v[i - 1] \o y[i]]
               c == CHOOSE v : v = Body(v)
               g == [i \in 1 .. Len(x) |-> f[i]]
    <2>1. Coding(cs, x) = c[Len(y)]
      BY <1>1, <1>3 DEF Coding, FlattenSeq
    <2>2. g = Body(g)
      <3>1. ASSUME NEW i \in 1 .. Len(x)
            PROVE  f[i] = IF i = 1 THEN y[i] ELSE g[i - 1] \o y[i]
        <4>1. f[i] = f[i - 1] \o y[i] /\ y[i] \in Seq(Bit)
          <5> HIDE DEF y, g, Body, c
          <5> QED
            BY <1>1 DEF Codings
        <4>2. CASE i = 1
          <5>1. f[i - 1] = <<>>
            BY <4>2 DEF Codings
          <5>2. <<>> \o y[i] = y[i]
            BY <4>1
          <5> QED
            BY <4>1, <4>2, <5>1, <5>2
        <4>3. CASE i # 1
          <5>1. i - 1 \in 1 .. Len(x)
            BY <4>3
          <5> QED
            BY <4>1, <4>3, <5>1
        <4> QED
          BY <4>2, <4>3
      <3> HIDE DEF y
      <3> QED
        BY <1>1, <3>1
    <2>3. c = Body(c)
      <3> HIDE DEF g, Body
      <3> QED
        BY <2>2
    <2> DEFINE T == {k \in Nat : k + 1 <= Len(x) => c[k + 1] = f[k + 1]}
    <2>4. \A i \in 1 .. Len(x) : c[i] = IF i = 1 THEN y[i] ELSE c[i - 1] \o y[i]
      <3>1. PICK d : d = c
        OBVIOUS
      <3> HIDE DEF c
      <3>2. d = Body(d)
        BY <2>3, <3>1
      <3> HIDE DEF y
      <3>3. \A i \in 1 .. Len(y) : d[i] = IF i = 1 THEN y[i] ELSE d[i - 1] \o y[i]
        BY <3>2
      <3> QED
        BY <1>1, <3>1, <3>3
    <2> HIDE DEF c
    <2>5. \A i \in 1 .. Len(x) : f[i] = IF i = 1 THEN y[i] ELSE f[i - 1] \o y[i]
      <3> SUFFICES ASSUME NEW i \in 1 .. Len(x)
                   PROVE  f[i] = IF i = 1 THEN y[i] ELSE f[i - 1] \o y[i]
        OBVIOUS
      <3>1. f[i] = f[i - 1] \o y[i] /\ y[i] \in Seq(Bit) /\ f[0] = <<>>
        <4> HIDE DEF y, g, Body, T
        <4> QED
          BY <1>1 DEF Codings
      <3>2. <<>> \o y[i] = y[i]
        BY <3>1
      <3>3. i = 1 => i - 1 = 0
        OBVIOUS
      <3> HIDE DEF y
      <3> QED
        BY <3>1, <3>2, <3>3
    <2> HIDE DEF y
    <2>6. 0 \in T
      BY <1>1, <2>4, <2>5
    <2>7. ASSUME NEW k \in T PROVE k + 1 \in T
      <3> SUFFICES ASSUME (k + 1) + 1 <= Len(x) PROVE c[(k + 1) + 1] = f[(k + 1) + 1]
        OBVIOUS
      <3>1. PICK i \in Nat : i = k + 1
        OBVIOUS
      <3>2. i + 1 \in 1 .. Len(x) /\ i + 1 # 1 /\ (i + 1) - 1 = i /\ c[i] = f[i]
        BY <1>1, <3>1
      <3>3. c[i + 1] = f[i + 1]
        BY <2>4, <2>5, <3>2
      <3> QED
        BY <3>1, <3>3
    <2>8. T = Nat
      <3> HIDE DEF T
      <3>1. T \subseteq Nat
        BY DEF T
      <3> QED
        BY <2>6, <2>7, <3>1, NatInductionSet
    <2>9. PICK k \in Nat : k + 1 = Len(x)
      <3>1. Len(x) - 1 \in Nat /\ (Len(x) - 1) + 1 = Len(x)
        BY <1>1, <1>3
      <3> QED
        BY <3>1
    <2>10. k \in T
      <3> HIDE DEF T
      <3> QED
        BY <2>8
    <2> QED
      BY <1>1, <2>1, <2>9, <2>10
  <1> QED
    BY <1>2, <1>3

\* A coding is a sequence of bits; one symbol more adds its code; those of the
\* beginnings of a text begin that of the text.
LEMMA CodingTypes ==
  ASSUME NEW cs \in [Symbol -> Seq(Bit)], NEW x \in Seq(Symbol)
  PROVE  Coding(cs, x) \in Seq(Bit) /\ (x = <<>> => Coding(cs, x) = <<>>)
  <1>1. PICK f : Codings(cs, x, f)
    BY CodingsExist
  <1>2. Coding(cs, x) = f[Len(x)]
    BY <1>1, CodingIs
  <1>3. Len(x) \in 0 .. Len(x) /\ (x = <<>> => Len(x) = 0)
    OBVIOUS
  <1> QED
    BY <1>1, <1>2, <1>3 DEF Codings

LEMMA CodingBeginning ==
  ASSUME NEW cs \in [Symbol -> Seq(Bit)], NEW x \in Seq(Symbol), NEW f, Codings(cs, x, f),
         NEW k \in 0 .. Len(x)
  PROVE  Coding(cs, SubSeq(x, 1, k)) = f[k]
  <1>0. SubSeq(x, 1, k) \in Seq(Symbol)
    OBVIOUS
  <1>1. PICK y \in Seq(Symbol) : y = SubSeq(x, 1, k)
    BY <1>0
  <1>2. Len(y) = k /\ \A i \in 1 .. k : y[i] = x[i]
    BY <1>1
  <1> DEFINE g == [i \in 0 .. k |-> f[i]]
  <1>3. Codings(cs, y, g)
    <2>1. g \in [0 .. Len(y) -> Seq(Bit)]
      <3>0. \A i \in 0 .. k : i \in 0 .. Len(x)
        OBVIOUS
      <3>1. \A i \in 0 .. k : f[i] \in Seq(Bit)
        BY <3>0 DEF Codings
      <3> QED
        BY <1>2, <3>1
    <2>2. g[0] = <<>>
      BY DEF Codings
    <2>3. ASSUME NEW i \in 1 .. Len(y) PROVE g[i] = g[i - 1] \o cs[y[i]]
      <3>1. i \in 1 .. k /\ i \in 1 .. Len(x) /\ i \in 0 .. k /\ i - 1 \in 0 .. k
        BY <1>2
      <3>2. f[i] = f[i - 1] \o cs[x[i]]
        BY <3>1 DEF Codings
      <3> QED
        BY <1>2, <3>1, <3>2
    <2> HIDE DEF g
    <2> QED
      BY <2>1, <2>2, <2>3 DEF Codings
  <1>4. Coding(cs, y) = g[Len(y)]
    <2> HIDE DEF g
    <2> QED
      BY <1>3, CodingIs
  <1> QED
    BY <1>1, <1>2, <1>4

LEMMA CodingAppend ==
  ASSUME NEW cs \in [Symbol -> Seq(Bit)], NEW x \in Seq(Symbol), NEW s \in Symbol
  PROVE  Coding(cs, Append(x, s)) = Coding(cs, x) \o cs[s]
  <1>0. Append(x, s) \in Seq(Symbol)
    OBVIOUS
  <1>1. PICK y \in Seq(Symbol) : y = Append(x, s)
    BY <1>0
  <1>2. Len(y) = Len(x) + 1 /\ y[Len(x) + 1] = s /\ SubSeq(y, 1, Len(x)) = x
        /\ Len(x) \in 0 .. Len(y) /\ Len(x) + 1 \in 1 .. Len(y) /\ (Len(x) + 1) - 1 = Len(x)
    BY <1>1
  <1>3. PICK f : Codings(cs, y, f)
    BY CodingsExist
  <1>4. Coding(cs, y) = f[Len(x) + 1]
    BY <1>2, <1>3, CodingIs
  <1>5. Coding(cs, x) = f[Len(x)]
    <2>1. Coding(cs, SubSeq(y, 1, Len(x))) = f[Len(x)]
      BY <1>2, <1>3, CodingBeginning
    <2> QED
      BY <1>2, <2>1
  <1>6. f[Len(x) + 1] = f[Len(x)] \o cs[s]
    BY <1>2, <1>3 DEF Codings
  <1> QED
    BY <1>1, <1>4, <1>5, <1>6

LEMMA CodingNext ==
  ASSUME NEW cs \in [Symbol -> Seq(Bit)], NEW x \in Seq(Symbol), NEW k \in 0 .. Len(x) - 1
  PROVE  /\ Coding(cs, SubSeq(x, 1, k + 1)) = Coding(cs, SubSeq(x, 1, k)) \o cs[x[k + 1]]
         /\ SubSeq(x, 1, k) \in Seq(Symbol) /\ x[k + 1] \in Symbol
  <1>1. /\ SubSeq(x, 1, k) \in Seq(Symbol) /\ x[k + 1] \in Symbol
        /\ SubSeq(x, 1, k + 1) = Append(SubSeq(x, 1, k), x[k + 1])
    OBVIOUS
  <1>2. Coding(cs, Append(SubSeq(x, 1, k), x[k + 1])) = Coding(cs, SubSeq(x, 1, k)) \o cs[x[k + 1]]
    BY <1>1, CodingAppend
  <1> QED
    BY <1>1, <1>2

\* a is a beginning of b.
Begins(a, b) == Len(a) <= Len(b) /\ \A i \in 1 .. Len(a) : a[i] = b[i]

LEMMA BeginsTransitive ==
  ASSUME NEW a \in Seq(Bit), NEW b \in Seq(Bit), NEW c \in Seq(Bit), Begins(a, b), Begins(b, c)
  PROVE  Begins(a, c)
  BY DEF Begins

LEMMA BeginsConcat ==
  ASSUME NEW a \in Seq(Bit), NEW b \in Seq(Bit) PROVE Begins(a, a \o b)
  BY DEF Begins

LEMMA CodingBegins ==
  ASSUME NEW cs \in [Symbol -> Seq(Bit)], NEW x \in Seq(Symbol), NEW k \in 0 .. Len(x)
  PROVE  Begins(Coding(cs, SubSeq(x, 1, k)), Coding(cs, x))
  <1> DEFINE T == {j \in Nat : k + j <= Len(x) =>
                      Begins(Coding(cs, SubSeq(x, 1, k)), Coding(cs, SubSeq(x, 1, k + j)))}
  <1>1. \A j \in 0 .. Len(x) : SubSeq(x, 1, j) \in Seq(Symbol)
    OBVIOUS
  <1>2. \A j \in 0 .. Len(x) : Coding(cs, SubSeq(x, 1, j)) \in Seq(Bit)
    BY <1>1, CodingTypes
  <1>3. 0 \in T
    <2>1. PICK c \in Seq(Bit) : c = Coding(cs, SubSeq(x, 1, k))
      BY <1>2
    <2>2. Begins(c, c)
      BY DEF Begins
    <2> QED
      BY <2>1, <2>2
  <1>4. ASSUME NEW j \in T PROVE j + 1 \in T
    <2> SUFFICES ASSUME k + (j + 1) <= Len(x)
                 PROVE  Begins(Coding(cs, SubSeq(x, 1, k)), Coding(cs, SubSeq(x, 1, k + (j + 1))))
      OBVIOUS
    <2>1. /\ k + j \in 0 .. Len(x) - 1 /\ k + j \in 0 .. Len(x) /\ k + (j + 1) = (k + j) + 1
          /\ k \in 0 .. Len(x)
      OBVIOUS
    <2>2. Begins(Coding(cs, SubSeq(x, 1, k)), Coding(cs, SubSeq(x, 1, k + j)))
      OBVIOUS
    <2> HIDE DEF T
    <2>3. PICK a \in Seq(Bit) : a = Coding(cs, SubSeq(x, 1, k))
      BY <1>2
    <2>4. PICK m \in 0 .. Len(x) - 1 : m = k + j
      BY <2>1
    <2>5. PICK b \in Seq(Bit) : b = Coding(cs, SubSeq(x, 1, m))
      BY <1>2, <2>1, <2>4
    <2>6. Coding(cs, SubSeq(x, 1, m + 1)) = b \o cs[x[m + 1]] /\ x[m + 1] \in Symbol
      BY <2>5, CodingNext
    <2>7. PICK c \in Seq(Bit) : c = cs[x[m + 1]]
      BY <2>6
    <2>8. Begins(a, b \o c) /\ b \o c \in Seq(Bit)
      <3>1. b \o c \in Seq(Bit) /\ Begins(b, b \o c)
        BY BeginsConcat
      <3>2. Begins(a, b)
        BY <2>2, <2>3, <2>4, <2>5
      <3>3. PICK z \in Seq(Bit) : z = b \o c
        BY <3>1
      <3> QED
        BY <3>1, <3>2, <3>3, BeginsTransitive
    <2> QED
      BY <2>1, <2>3, <2>4, <2>6, <2>7, <2>8
  <1>5. T = Nat
    <2> HIDE DEF T
    <2>1. T \subseteq Nat
      BY DEF T
    <2> QED
      BY <1>3, <1>4, <2>1, NatInductionSet
  <1>6. PICK j \in Nat : k + j = Len(x)
    <2>1. Len(x) - k \in Nat /\ k + (Len(x) - k) = Len(x)
      OBVIOUS
    <2> QED
      BY <2>1
  <1>7. j \in T
    <2> HIDE DEF T
    <2> QED
      BY <1>5
  <1>8. SubSeq(x, 1, Len(x)) = x /\ k + j <= Len(x)
    BY <1>6
  <1> QED
    BY <1>6, <1>7, <1>8

----------------------------------------------------------------------------
(* Reading bits along the tree.                                            *)

\* What begins with r bits: the codes of o and the way to node n.
ReadsTo(cs, bits, t, p, o, r, n) ==
    LET L == Len(Coding(cs, o))
    IN /\ o \in Seq(Symbol) /\ r \in 0 .. Len(bits)
       /\ L <= r /\ Begins(Coding(cs, o), bits)
       /\ n \in DOMAIN t
       /\ Len(p[n]) = r - L
       /\ \A i \in 1 .. Len(p[n]) : p[n][i] = bits[L + i]

LEMMA SliceMeans ==
  ASSUME NEW b \in Seq(Bit), NEW l \in Nat, NEW r \in 0 .. Len(b), l <= r, NEW c \in Seq(Bit)
  PROVE  c = SubSeq(b, l + 1, r) <=> /\ Len(c) = r - l
                                     /\ \A i \in 1 .. Len(c) : c[i] = b[l + i]
  <1>1. /\ SubSeq(b, l + 1, r) \in Seq(Bit) /\ Len(SubSeq(b, l + 1, r)) = r - l
        /\ \A i \in 1 .. r - l : SubSeq(b, l + 1, r)[i] = b[l + i]
    OBVIOUS
  <1>2. PICK d \in Seq(Bit) : d = SubSeq(b, l + 1, r)
    BY <1>1
  <1>3. Len(d) = r - l /\ \A i \in 1 .. r - l : d[i] = b[l + i]
    BY <1>1, <1>2
  <1>4. (Len(c) = Len(d) /\ \A i \in 1 .. Len(c) : c[i] = d[i]) => c = d
    OBVIOUS
  <1> QED
    BY <1>2, <1>3, <1>4

LEMMA BeginsMeans ==
  ASSUME NEW a \in Seq(Bit), NEW b \in Seq(Bit)
  PROVE  Begins(a, b) <=> IsPrefixOf(a, b)
  <1>1. CASE Len(a) <= Len(b)
    <2>1. Len(a) \in 0 .. Len(b) /\ 0 \in Nat /\ 0 <= Len(a)
      BY <1>1
    <2>2. a = SubSeq(b, 0 + 1, Len(a)) <=> /\ Len(a) = Len(a) - 0
                                           /\ \A i \in 1 .. Len(a) : a[i] = b[0 + i]
      BY <2>1, SliceMeans
    <2>3. \A i \in 1 .. Len(a) : 0 + i = i
      OBVIOUS
    <2>4. 0 + 1 = 1 /\ Len(a) = Len(a) - 0
      OBVIOUS
    <2> QED
      BY <1>1, <2>2, <2>3, <2>4 DEF Begins, IsPrefixOf
  <1> QED
    BY <1>1 DEF Begins, IsPrefixOf

LEMMA BeginsApart ==
  ASSUME NEW a \in Seq(Bit), NEW b \in Seq(Bit), Begins(a, b), Len(a) = Len(b)
  PROVE  a = b
  BY DEF Begins

\* A node's symbol is that of the code it stands for.
LEMMA LeafFacts ==
  ASSUME NEW cs, Apart(cs), NEW t, TreeShape(t), NEW p, NEW k,
         Hangs(t, Beginnings(cs), p), Carries(t, cs, p, k),
         NEW m \in DOMAIN t, t[m].symbol # Inner
  PROVE  t[m].symbol \in Symbol /\ p[m] = cs[t[m].symbol] /\ cs[t[m].symbol] # <<>>
  <1>1. t[m] \in TreeNode
    BY HangsFacts
  <1> QED
    BY <1>1 DEF TreeNode, Carries

LEMMA ReadStart ==
  ASSUME NEW cs, Apart(cs), NEW t, TreeShape(t), NEW p, Hangs(t, Beginnings(cs), p),
         NEW bits \in Seq(Bit)
  PROVE  ReadsTo(cs, bits, t, p, <<>>, 0, 1)
  <1>1. Coding(cs, <<>>) = <<>> /\ <<>> \in Seq(Symbol)
    <2>1. cs \in [Symbol -> Seq(Bit)]
      BY DEF Apart
    <2>2. PICK e \in Seq(Symbol) : e = <<>>
      BY EmptySeq
    <2>3. Coding(cs, e) = <<>>
      BY <2>1, <2>2, CodingTypes
    <2> QED
      BY <2>2, <2>3
  <1>2. 1 \in DOMAIN t /\ p[1] = <<>>
    BY HangsFacts DEF Hangs
  <1>3. Begins(<<>>, bits) /\ 0 \in 0 .. Len(bits) /\ Len(<<>>) = 0
    BY DEF Begins
  <1> QED
    BY <1>1, <1>2, <1>3 DEF ReadsTo

LEMMA ReadStep ==
  ASSUME NEW cs, Apart(cs), NEW t, TreeShape(t), NEW p, NEW k,
         Hangs(t, Beginnings(cs), p), Carries(t, cs, p, k), NEW bits \in Seq(Bit),
         NEW o, NEW r, NEW n, ReadsTo(cs, bits, t, p, o, r, n), r < Len(bits),
         NEW m, m = t[n].child[bits[r + 1]], m # None
  PROVE  /\ m \in DOMAIN t
         /\ Len(p[m]) = r + 1 - Len(Coding(cs, o))
         /\ \A i \in 1 .. Len(p[m]) : p[m][i] = bits[Len(Coding(cs, o)) + i]
         /\ IF t[m].symbol = Inner
            THEN ReadsTo(cs, bits, t, p, o, r + 1, m)
            ELSE ReadsTo(cs, bits, t, p, Append(o, t[m].symbol), r + 1, 1)
  <1>1. /\ o \in Seq(Symbol) /\ r \in Nat /\ r + 1 \in 1 .. Len(bits) /\ n \in DOMAIN t
        /\ cs \in [Symbol -> Seq(Bit)] /\ Len(bits) \in Nat
    BY DEF ReadsTo, Apart
  <1>2. PICK done \in Seq(Bit) : done = Coding(cs, o)
    BY <1>1, CodingTypes
  <1>3. PICK l \in Nat : l = Len(done)
    OBVIOUS
  <1>4. /\ l <= r /\ Begins(done, bits) /\ Len(p[n]) = r - l
        /\ \A i \in 1 .. Len(p[n]) : p[n][i] = bits[l + i]
    BY <1>2, <1>3 DEF ReadsTo
  <1>5. PICK b \in Bit : b = bits[r + 1]
    BY <1>1
  <1>6. m \in DOMAIN t
    BY <1>1, <1>5, HangsFacts
  <1>7. p[m] = Append(p[n], b)
    BY <1>1, <1>5, <1>6, HangsChild
  <1>8. PICK a \in Seq(Bit) : a = p[n]
    BY <1>1, HangsFacts
  <1>9. PICK c \in Seq(Bit) : c = p[m]
    BY <1>6, HangsFacts
  <1>10. c = Append(a, b) /\ Len(a) = r - l /\ \A i \in 1 .. r - l : a[i] = bits[l + i]
    BY <1>4, <1>7, <1>8, <1>9
  <1>11. Len(c) = (r - l) + 1 /\ c[(r - l) + 1] = b /\ \A i \in 1 .. r - l : c[i] = a[i]
    BY <1>1, <1>4, <1>10
  <1>12. Len(c) = r + 1 - l /\ \A i \in 1 .. Len(c) : c[i] = bits[l + i]
    <2>1. Len(c) = r + 1 - l
      BY <1>1, <1>4, <1>11
    <2>2. ASSUME NEW i \in 1 .. Len(c) PROVE c[i] = bits[l + i]
      <3>1. CASE i \in 1 .. r - l
        BY <1>10, <1>11, <3>1
      <3>2. CASE i = (r - l) + 1
        <4>1. l + i = r + 1
          BY <1>1, <3>2
        <4> QED
          BY <1>5, <1>11, <3>2, <4>1
      <3> QED
        BY <1>1, <1>4, <1>11, <3>1, <3>2
    <2> QED
      BY <2>1, <2>2
  <1>13. r + 1 \in 0 .. Len(bits) /\ l <= r + 1
    BY <1>1, <1>4
  <1>14. CASE t[m].symbol = Inner
    <2>1. ReadsTo(cs, bits, t, p, o, r + 1, m)
      BY <1>1, <1>2, <1>3, <1>4, <1>6, <1>9, <1>12, <1>13 DEF ReadsTo
    <2> QED
      BY <1>2, <1>3, <1>6, <1>9, <1>12, <1>14, <2>1
  <1>15. CASE t[m].symbol # Inner
    <2>1. PICK s \in Symbol : s = t[m].symbol /\ c = cs[s]
      BY <1>6, <1>9, <1>15, LeafFacts
    <2>2. Coding(cs, Append(o, s)) = done \o c /\ Append(o, s) \in Seq(Symbol)
      <3>1. Append(o, s) \in Seq(Symbol)
        BY <1>1
      <3>2. Coding(cs, Append(o, s)) = Coding(cs, o) \o cs[s]
        BY <1>1, <2>1, CodingAppend
      <3> QED
        BY <1>2, <2>1, <3>1, <3>2
    <2>3. PICK d \in Seq(Bit) : d = done \o c
      <3>1. done \o c \in Seq(Bit)
        OBVIOUS
      <3> QED
        BY <3>1
    <2>4. Len(d) = r + 1 /\ (\A i \in 1 .. l : d[i] = done[i]) /\ \A i \in 1 .. Len(c) : d[l + i] = c[i]
      BY <1>1, <1>3, <1>4, <1>12, <2>3
    <2>5. Begins(d, bits)
      <3>1. ASSUME NEW i \in 1 .. Len(d) PROVE d[i] = bits[i]
        <4>1. CASE i \in 1 .. l
          BY <1>3, <1>4, <2>4, <4>1 DEF Begins
        <4>2. CASE i \notin 1 .. l
          <5>1. i - l \in 1 .. Len(c) /\ l + (i - l) = i
            BY <1>1, <1>4, <1>12, <2>4, <4>2
          <5> QED
            BY <1>12, <2>4, <5>1
        <4> QED
          BY <4>1, <4>2
      <3> QED
        BY <1>13, <2>4, <3>1 DEF Begins
    <2>6. 1 \in DOMAIN t /\ p[1] = <<>> /\ Len(<<>>) = 0 /\ r + 1 <= r + 1 /\ (r + 1) - (r + 1) = 0
      <3>1. 1 \in DOMAIN t
        BY HangsFacts
      <3>2. p[1] = <<>>
        BY DEF Hangs
      <3>3. Len(<<>>) = 0 /\ r + 1 <= r + 1 /\ (r + 1) - (r + 1) = 0
        BY <1>1
      <3> QED
        BY <3>1, <3>2, <3>3
    <2>7. ReadsTo(cs, bits, t, p, Append(o, s), r + 1, 1)
      BY <1>13, <2>2, <2>3, <2>4, <2>5, <2>6 DEF ReadsTo
    <2> QED
      BY <1>2, <1>3, <1>6, <1>9, <1>12, <1>15, <2>1, <2>7
  <1> QED
    BY <1>14, <1>15

\* In the coding of a text x, the node below is there, and it is a leaf
\* exactly if the code of the next symbol ends with this bit.
LEMMA ReadText ==
  ASSUME NEW cs, Apart(cs), NEW t, TreeShape(t), NEW p,
         Hangs(t, Beginnings(cs), p), Carries(t, cs, p, Symbols),
         NEW x \in Seq(Symbol), \A i \in 1 .. Len(x) : cs[x[i]] # <<>>,
         NEW bits \in Seq(Bit), bits = Coding(cs, x),
         NEW o, NEW r, NEW n, ReadsTo(cs, bits, t, p, o, r, n), r < Len(bits),
         Len(o) < Len(x), o = SubSeq(x, 1, Len(o)),
         r < Len(Coding(cs, o)) + Len(cs[x[Len(o) + 1]]),
         NEW m, m = t[n].child[bits[r + 1]]
  PROVE  /\ m # None
         /\ t[m].symbol = Inner => r + 1 < Len(Coding(cs, o)) + Len(cs[x[Len(o) + 1]])
         /\ t[m].symbol # Inner => /\ t[m].symbol = x[Len(o) + 1]
                                   /\ r + 1 = Len(Coding(cs, o)) + Len(cs[x[Len(o) + 1]])
  <1>1. /\ o \in Seq(Symbol) /\ r \in Nat /\ r + 1 \in 1 .. Len(bits) /\ n \in DOMAIN t
        /\ cs \in [Symbol -> Seq(Bit)] /\ Len(bits) \in Nat
    BY DEF ReadsTo, Apart
  <1>2. PICK done \in Seq(Bit) : done = Coding(cs, o)
    BY <1>1, CodingTypes
  <1>3. PICK l \in Nat : l = Len(done)
    OBVIOUS
  <1>4. /\ l <= r /\ Begins(done, bits) /\ Len(p[n]) = r - l
        /\ \A i \in 1 .. Len(p[n]) : p[n][i] = bits[l + i]
    BY <1>2, <1>3 DEF ReadsTo
  <1>5. PICK k \in 0 .. Len(x) - 1 : k = Len(o)
    <2>1. Len(o) \in Nat /\ Len(x) \in Nat
      BY <1>1
    <2>2. Len(o) \in 0 .. Len(x) - 1
      BY <2>1
    <2> QED
      BY <2>2
  <1>6. PICK s \in Symbol : s = x[k + 1] /\ cs[s] # <<>>
    <2>1. k + 1 \in 1 .. Len(x)
      OBVIOUS
    <2> QED
      BY <2>1
  <1>7. PICK c \in Seq(Bit) : c = cs[s] /\ c # <<>>
    BY <1>1, <1>6
  <1>8. r < l + Len(c) /\ Len(c) \in Nat
    BY <1>2, <1>3, <1>5, <1>6, <1>7
  \* The code of the next symbol is what comes next.
  <1>9. \A i \in 1 .. Len(c) : l + i <= Len(bits) /\ bits[l + i] = c[i]
    <2>1. Coding(cs, SubSeq(x, 1, k + 1)) = done \o c
      <3>1. Coding(cs, SubSeq(x, 1, k + 1)) = Coding(cs, SubSeq(x, 1, k)) \o cs[x[k + 1]]
        BY <1>1, CodingNext
      <3> QED
        BY <1>2, <1>5, <1>6, <1>7, <3>1
    <2>2. k + 1 \in 0 .. Len(x)
      OBVIOUS
    <2>3. Begins(Coding(cs, SubSeq(x, 1, k + 1)), bits)
      BY <1>1, <2>2, CodingBegins
    <2>4. done \o c \in Seq(Bit)
      OBVIOUS
    <2>5. PICK d \in Seq(Bit) : d = done \o c
      BY <2>4
    <2>6. Len(d) = l + Len(c) /\ \A i \in 1 .. Len(c) : d[l + i] = c[i]
      BY <1>3, <2>5
    <2>7. Len(d) <= Len(bits) /\ \A i \in 1 .. Len(d) : d[i] = bits[i]
      BY <2>1, <2>3, <2>5 DEF Begins
    <2> SUFFICES ASSUME NEW i \in 1 .. Len(c) PROVE l + i <= Len(bits) /\ bits[l + i] = c[i]
      OBVIOUS
    <2>8. l + i \in 1 .. Len(d) /\ l + i <= Len(bits)
      BY <1>1, <1>8, <2>6, <2>7
    <2>9. d[l + i] = c[i] /\ d[l + i] = bits[l + i]
      BY <2>6, <2>7, <2>8
    <2> QED
      BY <2>8, <2>9
  <1>10. PICK j \in Nat : j = r - l /\ j < Len(c)
    BY <1>1, <1>4, <1>8
  <1>20. /\ j \in 0 .. Len(c) /\ j + 1 \in 0 .. Len(c) /\ j + 1 \in 1 .. Len(c) /\ j + 1 <= Len(c)
         /\ l + (j + 1) = r + 1 /\ l \in Nat /\ r \in Nat /\ Len(c) \in Nat /\ j = r - l
    <2>1. j \in Nat /\ l \in Nat /\ r \in Nat /\ Len(c) \in Nat /\ j = r - l /\ j < Len(c)
      BY <1>1, <1>10
    <2>2. PICK N \in Nat : N = Len(c)
      BY <2>1
    <2> QED
      BY ONLY <2>1, <2>2
  <1>11. bits[r + 1] = c[j + 1] /\ c[j + 1] \in Bit
    <2>1. bits[l + (j + 1)] = c[j + 1]
      BY <1>9, <1>20
    <2>2. c[j + 1] \in Bit
      BY <1>20
    <2> QED
      BY <1>20, <2>1, <2>2
  <1>12. p[n] = SubSeq(c, 1, j)
    <2>1. PICK a \in Seq(Bit) : a = p[n]
      BY <1>1, HangsFacts
    <2>2. j \in 0 .. Len(c)
      BY <1>20
    <2>3. PICK e \in Seq(Bit) : e = SubSeq(c, 1, j) /\ Len(e) = j /\ \A i \in 1 .. j : e[i] = c[i]
      BY <2>2, BeginningFacts
    <2>4. Len(a) = j
      BY <1>4, <1>10, <2>1
    <2>5. \A i \in 1 .. j : a[i] = e[i]
      <3> SUFFICES ASSUME NEW i \in 1 .. j PROVE a[i] = e[i]
        OBVIOUS
      <3>1. i \in 1 .. Len(c)
        BY <1>8, <1>10
      <3> QED
        BY <1>4, <1>9, <2>1, <2>3, <2>4, <3>1
    <2>6. a = e
      BY <2>3, <2>4, <2>5
    <2> QED
      BY <2>1, <2>3, <2>6
  <1>13. PICK w \in DOMAIN t : p[w] = c /\ t[w].symbol = s
    <2>1. s < Symbols
      BY SymbolsNat DEF Symbol
    <2> QED
      BY <1>6, <1>7, <2>1 DEF Carries
  <1>14. PICK v \in DOMAIN t : p[v] = SubSeq(c, 1, j + 1)
    <2>1. j + 1 \in 0 .. Len(c)
      BY <1>20
    <2>2. \A i \in 0 .. Len(p[w]) : \E v \in DOMAIN t : p[v] = SubSeq(p[w], 1, i)
      BY DEF Hangs
    <2> QED
      BY <1>13, <2>1, <2>2
  <1>15. SubSeq(c, 1, j + 1) = Append(SubSeq(c, 1, j), c[j + 1])
    <2>1. j \in 0 .. Len(c) /\ j < Len(c)
      BY <1>10, <1>20
    <2> QED
      BY <2>1, BeginningFacts
  <1>16. m = v /\ v # None
    <2>1. PICK b \in Bit : b = c[j + 1]
      BY <1>11
    <2>2. t[n].child[b] = v <=> p[v] = Append(p[n], b)
      <3>1. n \in DOMAIN t /\ v \in DOMAIN t /\ b \in Bit /\ Hangs(t, Beginnings(cs), p)
        BY <1>1
      <3> QED
        BY ONLY <3>1, HangsChild
    <2>3. t[n].child[b] = v
      BY <1>12, <1>14, <1>15, <2>1, <2>2
    <2>4. v # None
      BY HangsFacts
    <2> QED
      BY <1>11, <2>1, <2>3, <2>4
  <1>17. t[m].symbol = Inner => r + 1 < l + Len(c)
    <2> SUFFICES ASSUME t[m].symbol = Inner, ~(r + 1 < l + Len(c)) PROVE FALSE
      OBVIOUS
    <2>1. j + 1 = Len(c)
      BY <1>20
    <2>2. p[v] = c
      BY <1>14, <2>1, WholeBeginning
    <2>3. v = w
      BY <1>13, <2>2 DEF Hangs
    <2>4. s # Inner
      BY InnerIsNoSymbol
    <2> QED
      BY <1>13, <1>16, <2>3, <2>4
  <1>18. t[m].symbol # Inner => t[m].symbol = s /\ r + 1 = l + Len(c)
    <2> SUFFICES ASSUME t[m].symbol # Inner PROVE t[m].symbol = s /\ r + 1 = l + Len(c)
      OBVIOUS
    <2>1. PICK u \in Symbol : u = t[m].symbol /\ p[v] = cs[u] /\ cs[u] # <<>>
      BY <1>16, LeafFacts
    <2>2. PICK a \in Seq(Bit) : a = cs[u]
      BY <1>1
    <2>3. a = SubSeq(c, 1, j + 1) /\ Len(a) = j + 1 /\ j + 1 <= Len(c)
      <3>1. PICK i \in 0 .. Len(c) : i = j + 1
        <4>1. j + 1 \in 0 .. Len(c)
          BY <1>20
        <4> QED
          BY <4>1
      <3>2. Len(SubSeq(c, 1, i)) = i
        BY BeginningFacts
      <3>3. a = SubSeq(c, 1, i)
        BY <1>14, <2>1, <2>2, <3>1
      <3>4. i <= Len(c)
        BY <1>20, <3>1
      <3> QED
        BY <3>1, <3>2, <3>3, <3>4
    <2>4. IsPrefixOf(a, c)
      BY <2>3 DEF IsPrefixOf
    <2>5. u = s
      BY <1>6, <1>7, <2>1, <2>2, <2>4 DEF Apart
    <2>6. Len(c) = j + 1
      BY <1>7, <2>2, <2>3, <2>5
    <2> QED
      BY <1>20, <2>1, <2>5, <2>6
  <1> QED
    BY <1>2, <1>3, <1>5, <1>6, <1>7, <1>16, <1>17, <1>18

----------------------------------------------------------------------------
(* Writing a text.                                                         *)

\* TextWritten, of its variables.
WritesTo(lens, x, d, n, w, i, cs) ==
    /\ Standard(lens, cs)
    /\ PackedData(d, n)
    /\ w \in 0 .. Len(x)
    /\ IF w = Len(x)
       THEN BitsOf(d, n) = Coding(cs, x)
       ELSE /\ i \in 0 .. Len(cs[x[w + 1]]) - 1
            /\ BitsOf(d, n) = Coding(cs, SubSeq(x, 1, w)) \o SubSeq(cs[x[w + 1]], 1, i)

\* Each symbol of x has a code.
Covers(lens, x) ==
    /\ lens \in [Symbol -> 0 .. MaxCodeBits]
    /\ x \in Seq(Symbol) /\ x # <<>> /\ \A i \in 1 .. Len(x) : lens[x[i]] # 0

LEMMA NothingPacked == PackedData(<<>>, 0) /\ BitsOf(<<>>, 0) = <<>>
  <1>1. PICK z \in Nat : z = 0
    OBVIOUS
  <1>2. PICK q \in Nat : \E r \in 0 .. ByteBits - 1 :
           /\ z = ByteBits * q + r /\ z \div ByteBits = q /\ z % ByteBits = r
           /\ (z + ByteBits - 1) \div ByteBits = (IF r = 0 THEN q ELSE q + 1)
    BY BytePlace
  <1>3. PICK r \in 0 .. ByteBits - 1 :
           /\ z = ByteBits * q + r /\ z \div ByteBits = q /\ z % ByteBits = r
           /\ (z + ByteBits - 1) \div ByteBits = (IF r = 0 THEN q ELSE q + 1)
    BY <1>2
  <1>4. ByteBits * q >= q
    BY ByteBitsNat, ProductAtLeast
  <1>5. ByteBits * q \in Nat
    BY ByteBitsNat
  <1>6. q = 0 /\ r = 0
    BY <1>1, <1>3, <1>4, <1>5
  <1>7. z % ByteBits = 0 /\ (z + ByteBits - 1) \div ByteBits = 0
    BY <1>3, <1>6
  <1>8. 0 % ByteBits = 0 /\ (0 + ByteBits - 1) \div ByteBits = 0
    BY <1>1, <1>7
  <1>9. PICK d \in Seq(Nat) : d = <<>>
    BY EmptySeq
  <1>10. Len(d) = 0 /\ DOMAIN d = {}
    BY <1>9
  <1>11. PackedData(d, 0)
    BY <1>8, <1>10 DEF PackedData
  <1>12. BitsOf(d, 0) = <<>>
    BY DEF BitsOf
  <1> QED
    BY <1>9, <1>11, <1>12

LEMMA WriteStart ==
  ASSUME NEW lens, NEW x, Covers(lens, x), NEW cs, Standard(lens, cs)
  PROVE  WritesTo(lens, x, <<>>, 0, 0, 0, cs)
  <1>1. Len(x) \in Nat /\ 0 # Len(x) /\ 0 \in 0 .. Len(x) /\ 1 \in 1 .. Len(x) /\ x[1] \in Symbol
    BY EmptySeq DEF Covers
  <1>2. cs \in [Symbol -> Seq(Bit)]
    BY DEF Standard
  <1>3. PICK c \in Seq(Bit) : c = cs[x[1]]
    BY <1>1, <1>2
  <1>4. Len(c) \in Nat /\ Len(c) # 0
    BY <1>1, <1>3 DEF Covers, Standard
  <1>5. 0 \in 0 .. Len(c) - 1 /\ SubSeq(c, 1, 0) = <<>>
    BY <1>4, WholeBeginning
  <1>6. SubSeq(x, 1, 0) = <<>>
    BY DEF Covers
  <1>7. Coding(cs, <<>>) = <<>>
    <2>1. PICK e \in Seq(Symbol) : e = <<>>
      BY EmptySeq
    <2> QED
      BY <1>2, <2>1, CodingTypes
  <1>8. <<>> = <<>> \o <<>>
    OBVIOUS
  <1>9. 0 + 1 = 1
    OBVIOUS
  <1>10. BitsOf(<<>>, 0) = Coding(cs, SubSeq(x, 1, 0)) \o SubSeq(cs[x[0 + 1]], 1, 0)
    BY <1>3, <1>5, <1>6, <1>7, <1>8, <1>9, NothingPacked
  <1>11. 0 \in 0 .. Len(cs[x[0 + 1]]) - 1
    BY <1>3, <1>5, <1>9
  <1> QED
    BY <1>1, <1>10, <1>11, NothingPacked DEF WritesTo

LEMMA SameBits ==
  ASSUME NEW a \in Seq(Bit), NEW b \in Seq(Bit), Len(a) = Len(b),
         \A i \in 1 .. Len(b) : a[i] = b[i]
  PROVE  a = b
  OBVIOUS

LEMMA AppendBehind ==
  ASSUME NEW a \in Seq(Bit), NEW b \in Seq(Bit), NEW e \in Bit
  PROVE  Append(a \o b, e) = a \o Append(b, e)
  <1>1. PICK f \in Seq(Bit) : f = a \o b
    <2>1. a \o b \in Seq(Bit)
      OBVIOUS
    <2> QED
      BY <2>1
  <1>2. PICK g \in Seq(Bit) : g = Append(b, e)
    BY AppendFacts
  <1>3. PICK h \in Seq(Bit) : h = a \o g
    <2>1. a \o g \in Seq(Bit)
      OBVIOUS
    <2> QED
      BY <2>1
  <1>4. PICK k \in Seq(Bit) : k = Append(f, e)
    BY AppendFacts
  <1>5. /\ Len(f) = Len(a) + Len(b) /\ (\A i \in 1 .. Len(f) : f[i] = IF i <= Len(a) THEN a[i] ELSE b[i - Len(a)])
    BY <1>1
  <1>6. Len(g) = Len(b) + 1 /\ g[Len(b) + 1] = e /\ \A i \in 1 .. Len(b) : g[i] = b[i]
    BY <1>2
  <1>7. Len(h) = Len(a) + Len(g) /\ (\A i \in 1 .. Len(h) : h[i] = IF i <= Len(a) THEN a[i] ELSE g[i - Len(a)])
    BY <1>3
  <1>8. Len(k) = Len(f) + 1 /\ k[Len(f) + 1] = e /\ \A i \in 1 .. Len(f) : k[i] = f[i]
    BY <1>4
  <1>9. Len(h) = Len(k)
    BY <1>5, <1>6, <1>7, <1>8
  <1>10. ASSUME NEW i \in 1 .. Len(k) PROVE h[i] = k[i]
    <2>1. CASE i \in 1 .. Len(f)
      <3>1. k[i] = IF i <= Len(a) THEN a[i] ELSE b[i - Len(a)]
        BY <1>5, <1>8, <2>1
      <3>2. h[i] = IF i <= Len(a) THEN a[i] ELSE g[i - Len(a)]
        BY <1>7, <1>9
      <3>3. ~(i <= Len(a)) => i - Len(a) \in 1 .. Len(b)
        BY <1>5, <2>1
      <3> QED
        BY <1>6, <3>1, <3>2, <3>3
    <2>2. CASE i = Len(f) + 1
      <3>1. ~(i <= Len(a)) /\ i - Len(a) = Len(b) + 1
        BY <1>5, <2>2
      <3> QED
        BY <1>6, <1>7, <1>8, <1>9, <2>2, <3>1
    <2> QED
      BY <1>8, <2>1, <2>2
  <1>11. h = k
    BY ONLY <1>3, <1>4, <1>9, <1>10, SameBits
  <1> QED
    BY <1>1, <1>2, <1>3, <1>4, <1>11

LEMMA WriteStep ==
  ASSUME NEW lens, NEW x, Covers(lens, x), NEW d, NEW n \in Nat, NEW w, NEW i, NEW cs,
         WritesTo(lens, x, d, n, w, i, cs), w < Len(x),
         NEW e, Wrote(d, n, cs[x[w + 1]][i + 1], e)
  PROVE  /\ cs[x[w + 1]][i + 1] \in Bit
         /\ i + 1 = Len(cs[x[w + 1]]) => WritesTo(lens, x, e, n + 1, w + 1, 0, cs)
         /\ i + 1 # Len(cs[x[w + 1]]) => WritesTo(lens, x, e, n + 1, w, i + 1, cs)
  <1>1. /\ x \in Seq(Symbol) /\ Len(x) \in Nat /\ w \in 0 .. Len(x) - 1 /\ w + 1 \in 1 .. Len(x)
        /\ w # Len(x) /\ w + 1 \in 0 .. Len(x)
    <2>1. x \in Seq(Symbol) /\ w \in 0 .. Len(x)
      BY DEF Covers, WritesTo
    <2>2. PICK N \in Nat : N = Len(x)
      BY <2>1
    <2>3. w \in 0 .. N /\ w < N
      BY <2>1, <2>2
    <2>4. w \in 0 .. N - 1 /\ w + 1 \in 1 .. N /\ w # N /\ w + 1 \in 0 .. N
      BY ONLY <2>3, N \in Nat
    <2> QED
      BY <2>1, <2>2, <2>4
  <1>2. cs \in [Symbol -> Seq(Bit)] /\ Standard(lens, cs)
    BY DEF WritesTo, Standard
  <1>3. PICK s \in Symbol : s = x[w + 1]
    BY <1>1
  <1>4. PICK c \in Seq(Bit) : c = cs[s]
    BY <1>2
  <1>5. i \in 0 .. Len(c) - 1 /\ Len(c) \in Nat
    BY <1>1, <1>3, <1>4 DEF WritesTo
  <1>6. i \in 0 .. Len(c) /\ i < Len(c) /\ i + 1 \in 1 .. Len(c) /\ i + 1 \in 0 .. Len(c)
    BY <1>5
  <1>7. PICK b \in Bit : b = c[i + 1]
    BY <1>6
  <1>8. SubSeq(c, 1, i) \in Seq(Bit) /\ SubSeq(c, 1, i + 1) = Append(SubSeq(c, 1, i), b)
    BY <1>6, <1>7, BeginningFacts
  <1>9. PICK done \in Seq(Bit) : done = Coding(cs, SubSeq(x, 1, w))
    <2>1. SubSeq(x, 1, w) \in Seq(Symbol)
      BY <1>1, CodingNext, <1>2
    <2> QED
      BY <1>2, <2>1, CodingTypes
  <1>10. BitsOf(d, n) = done \o SubSeq(c, 1, i)
    BY <1>1, <1>3, <1>4, <1>9 DEF WritesTo
  <1>11. PackedData(e, n + 1) /\ BitsOf(e, n + 1) = Append(BitsOf(d, n), b)
    <2>1. Wrote(d, n, b, e)
      BY <1>3, <1>4, <1>7
    <2> QED
      BY <2>1, WroteFacts DEF WritesTo
  <1>12. BitsOf(e, n + 1) = done \o SubSeq(c, 1, i + 1)
    <2>1. PICK a \in Seq(Bit) : a = SubSeq(c, 1, i)
      BY <1>8
    <2>2. Append(done \o a, b) = done \o Append(a, b)
      BY AppendBehind
    <2> QED
      BY <1>8, <1>10, <1>11, <2>1, <2>2
  <1>13. ASSUME i + 1 = Len(c) PROVE WritesTo(lens, x, e, n + 1, w + 1, 0, cs)
    <2>1. BitsOf(e, n + 1) = done \o c
      BY <1>12, <1>13, WholeBeginning
    <2>2. Coding(cs, SubSeq(x, 1, w + 1)) = done \o c
      BY <1>1, <1>2, <1>3, <1>4, <1>9, CodingNext
    <2>3. CASE w + 1 = Len(x)
      <3>1. SubSeq(x, 1, w + 1) = x
        BY <1>1, <2>3
      <3> QED
        BY <1>1, <1>2, <1>11, <2>1, <2>2, <2>3, <3>1 DEF WritesTo
    <2>4. CASE w + 1 # Len(x)
      <3>1. PICK v \in 1 .. Len(x) : v = (w + 1) + 1
        BY <1>1, <2>4
      <3>2. PICK g \in Seq(Bit) : g = cs[x[v]]
        BY <1>1, <1>2
      <3>3. Len(g) # 0 /\ Len(g) \in Nat
        <4>1. x[v] \in Symbol /\ lens[x[v]] # 0
          BY <1>1 DEF Covers
        <4>2. Len(cs[x[v]]) = lens[x[v]]
          BY <1>2, <4>1 DEF Standard
        <4> QED
          BY <3>2, <4>1, <4>2
      <3>4. 0 \in 0 .. Len(g) - 1 /\ SubSeq(g, 1, 0) = <<>>
        BY <3>3, WholeBeginning
      <3>5. (done \o c) \o <<>> = done \o c
        <4>1. done \o c \in Seq(Bit)
          OBVIOUS
        <4> QED
          BY <4>1
      <3>6. BitsOf(e, n + 1) = Coding(cs, SubSeq(x, 1, w + 1)) \o SubSeq(cs[x[(w + 1) + 1]], 1, 0)
        BY <2>1, <2>2, <3>1, <3>2, <3>4, <3>5
      <3>7. 0 \in 0 .. Len(cs[x[(w + 1) + 1]]) - 1
        BY <3>1, <3>2, <3>4
      <3> QED
        BY <1>1, <1>2, <1>11, <2>4, <3>6, <3>7 DEF WritesTo
    <2> QED
      BY <2>3, <2>4
  <1>14. ASSUME i + 1 # Len(c) PROVE WritesTo(lens, x, e, n + 1, w, i + 1, cs)
    <2>1. i + 1 \in 0 .. Len(cs[x[w + 1]]) - 1
      BY <1>3, <1>4, <1>5, <1>14
    <2>2. BitsOf(e, n + 1) = Coding(cs, SubSeq(x, 1, w)) \o SubSeq(cs[x[w + 1]], 1, i + 1)
      BY <1>3, <1>4, <1>9, <1>12
    <2> QED
      BY <1>1, <1>2, <1>11, <2>1, <2>2 DEF WritesTo
  <1> QED
    BY <1>3, <1>4, <1>7, <1>13, <1>14

\* What is written passes the checks of its size.
LEMMA WriteFacts ==
  ASSUME NEW lens, NEW x, Covers(lens, x), NEW d, NEW n \in Nat, NEW i, NEW cs,
         WritesTo(lens, x, d, n, Len(x), i, cs)
  PROVE  /\ n # 0 /\ n <= Len(d) * ByteBits /\ (n - 1) \div ByteBits + 1 = Len(d)
         /\ BitsOf(d, n) = Coding(cs, x)
  <1>1. BitsOf(d, n) = Coding(cs, x)
    BY DEF WritesTo
  <1>2. /\ d \in Seq(Nat) /\ Len(d) = (n + ByteBits - 1) \div ByteBits
        /\ cs \in [Symbol -> Seq(Bit)] /\ x \in Seq(Symbol) /\ Standard(lens, cs)
    BY DEF WritesTo, PackedData, Standard, Covers
  <1>3. n # 0
    <2>1. Len(x) \in Nat /\ 0 \in 0 .. Len(x) - 1 /\ 1 \in 0 .. Len(x) /\ 1 \in 1 .. Len(x)
      BY EmptySeq DEF Covers
    <2>2. PICK c \in Seq(Bit) : c = cs[x[0 + 1]]
      BY <1>2, <2>1
    <2>3. Len(c) \in Nat /\ Len(c) # 0
      BY <1>2, <2>1, <2>2 DEF Covers, Standard
    <2>4. Coding(cs, SubSeq(x, 1, 0 + 1)) = Coding(cs, SubSeq(x, 1, 0)) \o cs[x[0 + 1]]
      BY <1>2, <2>1, CodingNext
    <2>5. PICK a \in Seq(Bit) : a = Coding(cs, SubSeq(x, 1, 0))
      <3>1. SubSeq(x, 1, 0) \in Seq(Symbol)
        BY <1>2, <2>1, CodingNext
      <3> QED
        BY <1>2, <3>1, CodingTypes
    <2>6. Begins(Coding(cs, SubSeq(x, 1, 1)), Coding(cs, x))
      BY <1>2, <2>1, CodingBegins
    <2>7. Len(a \o c) = Len(a) + Len(c) /\ Len(a) \in Nat
      OBVIOUS
    <2>8. Len(a \o c) <= Len(Coding(cs, x))
      <3>1. 0 + 1 = 1
        OBVIOUS
      <3>2. Coding(cs, SubSeq(x, 1, 1)) = a \o c
        BY <2>2, <2>4, <2>5, <3>1
      <3> QED
        BY <2>6, <3>2 DEF Begins
    <2>9. Len(BitsOf(d, n)) = n
      BY <1>2, BitsOfFacts
    <2> QED
      BY <1>1, <2>3, <2>7, <2>8, <2>9
  <1>4. PICK q \in Nat : \E r \in 0 .. ByteBits - 1 :
           /\ n - 1 = ByteBits * q + r /\ (n - 1) \div ByteBits = q
           /\ ((n - 1) + 1 + ByteBits - 1) \div ByteBits = q + 1
    <2>1. PICK k \in Nat : k = n - 1
      BY <1>3
    <2>2. \E q \in Nat : \E r \in 0 .. ByteBits - 1 :
           /\ k = ByteBits * q + r /\ k \div ByteBits = q
           /\ (k + 1 + ByteBits - 1) \div ByteBits = q + 1
      BY BytePlace
    <2> QED
      BY <2>1, <2>2
  <1>5. PICK r \in 0 .. ByteBits - 1 :
           /\ n - 1 = ByteBits * q + r /\ (n - 1) \div ByteBits = q
           /\ ((n - 1) + 1 + ByteBits - 1) \div ByteBits = q + 1
    BY <1>4
  <1>6. (n - 1) + 1 + ByteBits - 1 = n + ByteBits - 1
    BY ByteBitsNat
  <1>7. Len(d) = q + 1
    BY <1>2, <1>5, <1>6
  <1>8. n <= (q + 1) * ByteBits
    <2>1. PICK B \in Nat : B = ByteBits
      BY ByteBitsNat
    <2>2. (q + 1) * B = B * q + B
      OBVIOUS
    <2> QED
      BY <1>5, <2>1, <2>2
  <1> QED
    BY <1>1, <1>3, <1>5, <1>7, <1>8

----------------------------------------------------------------------------
(* The payload and the two functions.                                      *)

USE DEF lenVars, heapVars, codeVars, treeVars, writeVars, readVars

\* A payload that passed the checks has a byte for each bit.
LEMMA CheckedBytes ==
  ASSUME NEW d \in Seq(Nat), NEW n \in Nat, n # 0, (n - 1) \div ByteBits + 1 = Len(d)
  PROVE  Len(d) = (n + ByteBits - 1) \div ByteBits
  <1>1. PICK k \in Nat : k = n - 1
    OBVIOUS
  <1>2. PICK q \in Nat : \E r \in 0 .. ByteBits - 1 :
           k \div ByteBits = q /\ (k + 1 + ByteBits - 1) \div ByteBits = q + 1
    BY BytePlace
  <1>3. k + 1 + ByteBits - 1 = n + ByteBits - 1
    BY <1>1, ByteBitsNat
  <1> QED
    BY <1>1, <1>2, <1>3

LEMMA BitsFacts ==
  ASSUME PhaseInv, Decoding \/ phase = "ok"
  PROVE  /\ Bits = BitsOf(payload.data, payload.bit_count)
         /\ Bits \in Seq(Bit) /\ Len(Bits) = payload.bit_count
         /\ \A r \in 0 .. payload.bit_count - 1 : Bits[r + 1] = BitAt(r)
  <1>1. PICK d \in Seq(Nat) : d = payload.data
    BY DEF PhaseInv
  <1>2. PICK n \in Nat : n = payload.bit_count
    BY DEF PhaseInv
  <1>3. Len(d) = (n + ByteBits - 1) \div ByteBits
    BY <1>1, <1>2, CheckedBytes DEF PhaseInv, PayloadOK
  <1>4. Bits = BitsOf(d, n)
    BY <1>1, <1>2 DEF Bits, BitsOf, BitAt, BitOf
  <1>5. BitsOf(d, n) \in Seq(Bit) /\ Len(BitsOf(d, n)) = n
    BY <1>3, BitsOfFacts
  <1>6. ASSUME NEW r \in 0 .. n - 1 PROVE Bits[r + 1] = BitAt(r)
    <2>1. r + 1 \in 1 .. n /\ (r + 1) - 1 = r
      BY <1>2
    <2> QED
      BY <1>2, <2>1 DEF Bits
  <1> QED
    BY <1>1, <1>2, <1>4, <1>5, <1>6

\* Each symbol of a text gets a code.
LEMMA TextCovered ==
  ASSUME ForestInv, TableTypes, PhaseInv, text # <<>>, hpc \in {"done", "returned"}
  PROVE  /\ Covers(lengths, text)
         /\ Kraft(lengths) <= pow2[MaxCodeBits]
         /\ \/ Kraft(lengths) = pow2[MaxCodeBits]
            \/ \E x \in Symbol : /\ \A s \in Symbol : s # x => lengths[s] = 0
                                 /\ \A s \in Symbol : lengths[s] <= 1
  <1>1. /\ \A s \in Symbol : lengths[s] # 0 <=> Frequency(s) > 0
        /\ Kraft(lengths) <= pow2[MaxCodeBits]
        /\ \/ Kraft(lengths) = pow2[MaxCodeBits]
           \/ /\ Cardinality({s \in Symbol : Frequency(s) > 0}) = 1
              /\ \A s \in Symbol : lengths[s] <= 1
    BY DEF ForestInv, LengthsStand
  <1>2. text \in Seq(Symbol) /\ lengths \in [Symbol -> 0 .. MaxCodeBits]
    BY DEF PhaseInv, TableTypes
  <1>3. IsFiniteSet(DOMAIN text) /\ DOMAIN text = 1 .. Len(text)
    <2>1. DOMAIN text = 1 .. Len(text) /\ Len(text) \in Int /\ 1 \in Int
      BY <1>2
    <2> QED
      BY <2>1, FS_Interval
  <1>4. ASSUME NEW i \in 1 .. Len(text) PROVE lengths[text[i]] # 0
    <2>1. text[i] \in Symbol /\ i \in DOMAIN text
      BY <1>2, <1>3
    <2> DEFINE places == {j \in DOMAIN text : text[j] = text[i]}
    <2>2. places \in SUBSET DOMAIN text /\ i \in places
      BY <2>1
    <2>3. IsFiniteSet(places) /\ places # {}
      <3> HIDE DEF places
      <3> QED
        BY <1>3, <2>2, FS_Subset
    <2>4. Cardinality(places) \in Nat /\ Cardinality(places) # 0
      <3> HIDE DEF places
      <3> QED
        BY <2>3, FS_CardinalityType, FS_EmptySet
    <2>5. Frequency(text[i]) > 0
      BY <2>4 DEF Frequency
    <2> QED
      BY <1>1, <2>1, <2>5
  <1>5. ASSUME Cardinality({s \in Symbol : Frequency(s) > 0}) = 1
        PROVE  \E x \in Symbol : \A s \in Symbol : s # x => lengths[s] = 0
    <2> DEFINE used == {s \in Symbol : Frequency(s) > 0}
    <2>1. IsFiniteSet(used)
      <3>1. IsFiniteSet(Symbol)
        BY SymbolsNat, FS_Interval DEF Symbol
      <3>2. used \in SUBSET Symbol
        OBVIOUS
      <3> HIDE DEF used
      <3> QED
        BY <3>1, <3>2, FS_Subset
    <2>2. \E x : used = {x}
      <3>1. Cardinality(used) = 1
        BY <1>5
      <3> HIDE DEF used
      <3> QED
        BY <2>1, <3>1, FS_Singleton
    <2>3. PICK x : used = {x}
      BY <2>2
    <2>4. x \in Symbol
      <3>1. x \in used
        <4> HIDE DEF used
        <4> QED
          BY <2>3
      <3> QED
        BY <3>1
    <2>5. ASSUME NEW s \in Symbol, s # x PROVE lengths[s] = 0
      <3>1. s \notin used
        <4> HIDE DEF used
        <4> QED
          BY <2>3, <2>5
      <3> QED
        BY <1>1, <3>1
    <2> QED
      BY <2>4, <2>5
  <1> QED
    BY <1>1, <1>2, <1>4, <1>5 DEF Covers

\* In write the codes are the ones that the lengths leave.
LEMMA WriteCodes ==
  ASSUME TableTypes, CodesInv, CodesInPlace, PhaseInv, TextOnItsWay, phase = "write",
         NEW cs, TextWritten(cs)
  PROVE  cs = codes
  <1>1. Standard(table, codes) /\ table = lengths /\ Standard(lengths, cs)
    BY CodesStandard DEF PhaseInv, TextOnItsWay, TextWritten
  <1> QED
    BY <1>1, StandardUnique DEF TableTypes

LEMMA TextWrittenMeans ==
  ASSUME PhaseInv, NEW cs
  PROVE  TextWritten(cs) <=>
            WritesTo(lengths, text, payload.data, payload.bit_count, written, wbit, cs)
  <1>1. payload.data \in Seq(Nat)
    BY DEF PhaseInv
  <1>2. Packed <=> PackedData(payload.data, payload.bit_count)
    BY <1>1 DEF Packed, PackedData
  <1>3. Bits = BitsOf(payload.data, payload.bit_count)
    BY DEF Bits, BitsOf, BitAt, BitOf
  <1> QED
    BY <1>2, <1>3 DEF TextWritten, WritesTo

LEMMA TextWrittenMeansNext ==
  ASSUME payload'.data \in Seq(Nat), NEW cs
  PROVE  TextWritten(cs)' <=>
            WritesTo(lengths', text', payload'.data, payload'.bit_count, written', wbit', cs)
  <1>2. Packed' <=> PackedData(payload'.data, payload'.bit_count)
    BY DEF Packed, PackedData
  <1>3. Bits' = BitsOf(payload'.data, payload'.bit_count)
    BY DEF Bits, BitsOf, BitAt, BitOf
  <1> QED
    BY <1>2, <1>3 DEF TextWritten, WritesTo

LEMMA PhaseInvInit == Init => PhaseInv
  <1> SUFFICES ASSUME Init PROVE PhaseInv
    OBVIOUS
  <1>1. phase \in {"lengths", "payload"} /\ (foreign => phase = "payload")
        /\ rpos = 0 /\ node = 1 /\ out = <<>>
    BY DEF Init
  <1>2. text \in Seq(Symbol)
    <2>1. CASE text = <<>>
      BY <2>1
    <2>2. CASE text \in UNION {[1 .. n -> Symbol] : n \in 1 .. MaxText}
      <3>1. PICK n \in 1 .. MaxText : text \in [1 .. n -> Symbol]
        BY <2>2
      <3>2. n \in Nat
        OBVIOUS
      <3> QED
        BY <3>1, <3>2
    <2> QED
      BY <2>1, <2>2 DEF Init
  <1>3. /\ payload.lengths \in [Symbol -> 0 .. MaxCodeBits]
        /\ payload.data \in Seq(Nat)
        /\ payload.bit_count \in Nat /\ payload.token_size \in Nat
    <2>1. CASE payload = Empty
      <3>1. 0 \in 0 .. MaxCodeBits
        BY MaxBitsNat
      <3> QED
        BY <2>1, <3>1 DEF Empty
    <2>2. CASE payload \in Payload
      <3>1. /\ payload.lengths \in [Symbol -> 0 .. MaxCodeBits]
            /\ payload.data \in UNION {[1 .. n -> 0 .. pow2[ByteBits] - 1] : n \in 0 .. MaxData}
            /\ payload.bit_count \in 0 .. MaxData * ByteBits /\ payload.token_size \in 0 .. MaxTokens
        BY <2>2 DEF Payload
      <3>2. PICK n \in 0 .. MaxData : payload.data \in [1 .. n -> 0 .. pow2[ByteBits] - 1]
        BY <3>1
      <3>3. payload.data \in [1 .. n -> Nat] /\ n \in Nat
        BY <3>2
      <3>4. payload.data \in Seq(Nat)
        BY <3>3
      <3>5. payload.bit_count \in Nat /\ payload.token_size \in Nat
        BY <3>1
      <3> QED
        BY <3>1, <3>4, <3>5
    <2> QED
      BY <2>1, <2>2 DEF Init
  <1> QED
    BY <1>1, <1>2, <1>3 DEF PhaseInv, Compressing, Decoding

LEMMA TextInvInit == Init => TextInv
  <1> SUFFICES ASSUME Init, ~foreign PROVE TextOnItsWay
    BY DEF TextInv
  <1>1. /\ text \in UNION {[1 .. n -> Symbol] : n \in 1 .. MaxText}
        /\ phase = "lengths" /\ payload = Empty /\ written = 0 /\ wbit = 0
    BY DEF Init
  <1>2. text # <<>>
    <2>1. PICK n \in 1 .. MaxText : text \in [1 .. n -> Symbol]
      BY <1>1
    <2>2. 1 \in DOMAIN text
      BY <2>1
    <2> QED
      BY <2>2
  <1> QED
    BY <1>1, <1>2 DEF TextOnItsWay, Empty, Compressing

LEMMA ReadInvInit == Init => ReadInv
  BY DEF Init, ReadInv

\* The calls in their order.
PhaseSteps ==
    /\ phase \in {"lengths", "codes", "write", "payload", "table", "tree", "read", "ok", "fail"}
    /\ foreign => ~Compressing
    /\ text \in Seq(Symbol)
    /\ phase = "codes" => cpc # "idle"
    /\ phase = "write" => cpc = "ok"
    /\ phase = "tree" => cpc = "ok" /\ tpc # "idle"
    /\ phase \in {"read", "ok"} => cpc = "ok" /\ tpc = "ok"
    /\ Compressing \/ phase \in {"payload", "table", "tree"} =>
          rpos = 0 /\ node = 1 /\ out = <<>>

PhaseTypes ==
    /\ payload.lengths \in [Symbol -> 0 .. MaxCodeBits]
    /\ payload.data \in Seq(Nat)
    /\ payload.bit_count \in Nat /\ payload.token_size \in Nat

PhaseChecked == Decoding \/ phase = "ok" => PayloadOK /\ table = payload.lengths

LEMMA PhaseInvParts == PhaseInv <=> PhaseSteps /\ PhaseTypes /\ PhaseChecked
  BY DEF PhaseInv, PhaseSteps, PhaseTypes, PhaseChecked

LEMMA PhaseInvPartsNext == PhaseInv' <=> PhaseSteps' /\ PhaseTypes' /\ PhaseChecked'
  BY DEF PhaseInv, PhaseSteps, PhaseTypes, PhaseChecked

LEMMA PhaseStepsStep ==
  ASSUME PhaseInv, TreeAfterCodes, [Next]_vars PROVE PhaseSteps'
  <1> USE DEF PhaseSteps, Compressing
  <1>0. PhaseSteps
    BY PhaseInvParts
  <1>1. CASE LengthsStep
    <2>1. text' = text
      BY <1>1 DEF LengthsStep, BuildLengths, NextLeaf, EndLeaves, SiftUp, PopNode, SiftDown, Merge,
                  OnlySymbol, assign_lengths
    <2> QED
      BY <1>0, <1>1, <2>1 DEF LengthsStep
  <1>2. CASE CodesBegin
    BY <1>0, <1>2 DEF CodesBegin, StartCodes
  <1>3. CASE CodesStep
    <2>1. cpc' \in {"code", "ok", "fail"}
      BY <1>3 DEF CodesStep, BuildCodes, FirstCode, NextCode, NoCodeLeft, EndCodes, Give
    <2> QED
      BY <1>0, <1>3, <2>1 DEF CodesStep
  <1>4. CASE WriteBegin \/ WriteBit \/ WriteEnd \/ CheckPayload
    BY <1>0, <1>4 DEF WriteBegin, WriteBit, WriteEnd, CheckPayload
  <1>5. CASE TreeBegin
    BY <1>0, <1>5 DEF TreeBegin, StartTree
  <1>8. CASE TreeStep
    <2>1. tpc' # "idle"
      <3>1. BuildTree /\ phase = "tree" /\ tpc # "idle"
        BY <1>0, <1>8 DEF TreeStep
      <3> QED
        BY <3>1 DEF BuildTree, NextSymbol, EnterBit, EndCode, EndTree, TreeFails
    <2> QED
      BY <1>0, <1>8, <2>1 DEF TreeStep
  <1>6. CASE ReadBegin \/ ReadBit \/ ReadEnd
    BY <1>0, <1>6 DEF ReadBegin, ReadBit, ReadEnd, ReadFails
  <1>7. CASE HelperFails \/ Terminated \/ UNCHANGED vars
    BY <1>0, <1>7 DEF HelperFails, Terminated, vars
  <1> QED
    BY <1>1, <1>2, <1>3, <1>4, <1>5, <1>6, <1>7, <1>8 DEF Next, Step

\* One bit of a text is written.
LEMMA WriteBitStep ==
  ASSUME ForestInv, TableTypes, CodesInv, CodesInPlace, PhaseInv, TextInv, WriteBit
  PROVE  /\ ~foreign /\ payload'.data \in Seq(Nat)
         /\ payload'.bit_count = payload.bit_count + 1
         /\ payload'.lengths = payload.lengths /\ payload'.token_size = payload.token_size
         /\ \E cs : WritesTo(lengths, text, payload'.data, payload'.bit_count, written', wbit', cs)
  <1>1. phase = "write" /\ written < Len(text)
    BY DEF WriteBit
  <1>2. ~foreign /\ TextOnItsWay
    BY <1>1 DEF PhaseInv, Compressing, TextInv
  <1>3. PICK cs : TextWritten(cs)
    BY <1>1, <1>2 DEF TextOnItsWay
  <1>4. cs = codes
    BY <1>1, <1>2, <1>3, WriteCodes
  <1>5. WritesTo(lengths, text, payload.data, payload.bit_count, written, wbit, cs)
    BY <1>3, TextWrittenMeans
  <1>6. Covers(lengths, text)
    BY <1>1, <1>2, TextCovered DEF TextOnItsWay
  <1>7. PICK n \in Nat : n = payload.bit_count
    BY DEF PhaseInv
  <1>8. PICK bit : bit = cs[text[written + 1]][wbit + 1]
    OBVIOUS
  <1>9. bit_writer_write(bit) /\
        IF wbit + 1 = Len(cs[text[written + 1]])
        THEN wbit' = 0 /\ written' = written + 1
        ELSE wbit' = wbit + 1 /\ written' = written
    BY <1>4, <1>8 DEF WriteBit
  <1>10. PICK e : e = payload'.data
    OBVIOUS
  <1>11. /\ e = IF n % ByteBits = 0 THEN Append(payload.data, bit * pow2[Shift(n)])
                 ELSE [payload.data EXCEPT ![Len(payload.data)] = @ + bit * pow2[Shift(n)]]
         /\ payload'.bit_count = n + 1
         /\ payload'.lengths = payload.lengths /\ payload'.token_size = payload.token_size
    <2>1. DOMAIN payload = {"lengths", "data", "bit_count", "token_size"}
      BY DEF TableTypes
    <2>2. PICK g : g = IF n % ByteBits = 0 THEN Append(payload.data, bit * pow2[Shift(n)])
                       ELSE [payload.data EXCEPT ![Len(payload.data)] = @ + bit * pow2[Shift(n)]]
      OBVIOUS
    <2>3. payload' = [payload EXCEPT !.bit_count = n + 1, !.data = g]
      BY <1>7, <1>9, <2>2 DEF bit_writer_write
    <2>4. /\ payload'.data = g /\ payload'.bit_count = n + 1
          /\ payload'.lengths = payload.lengths /\ payload'.token_size = payload.token_size
      BY <2>1, <2>3
    <2> QED
      BY <1>10, <2>2, <2>4
  <1>12. Wrote(payload.data, n, bit, e)
    BY <1>11 DEF Wrote
  <1>13. /\ wbit + 1 = Len(cs[text[written + 1]]) =>
               WritesTo(lengths, text, e, n + 1, written + 1, 0, cs)
         /\ wbit + 1 # Len(cs[text[written + 1]]) =>
               WritesTo(lengths, text, e, n + 1, written, wbit + 1, cs)
    BY <1>1, <1>5, <1>6, <1>7, <1>8, <1>12, WriteStep
  <1>14. WritesTo(lengths, text, e, n + 1, written', wbit', cs)
    <2>1. CASE wbit + 1 = Len(cs[text[written + 1]])
      BY <1>9, <1>13, <2>1
    <2>2. CASE wbit + 1 # Len(cs[text[written + 1]])
      BY <1>9, <1>13, <2>2
    <2> QED
      BY <2>1, <2>2
  <1>15. e \in Seq(Nat)
    BY <1>14 DEF WritesTo, PackedData
  <1>16. WritesTo(lengths, text, payload'.data, payload'.bit_count, written', wbit', cs)
    BY <1>10, <1>11, <1>14
  <1> QED
    BY <1>2, <1>7, <1>10, <1>11, <1>15, <1>16

LEMMA PhaseTypesStep ==
  ASSUME ForestInv, TableTypes, CodesInv, CodesInPlace, PhaseInv, TextInv, [Next]_vars
  PROVE  PhaseTypes'
  <1>0. PhaseTypes
    BY PhaseInvParts
  <1>1. CASE payload' = payload
    BY <1>0, <1>1 DEF PhaseTypes
  <1>2. CASE WriteBit
    <2>1. /\ payload'.data \in Seq(Nat) /\ payload'.bit_count = payload.bit_count + 1
          /\ payload'.lengths = payload.lengths /\ payload'.token_size = payload.token_size
      BY <1>2, WriteBitStep
    <2>2. payload.bit_count + 1 \in Nat
      BY <1>0 DEF PhaseTypes
    <2> QED
      BY <1>0, <2>1, <2>2 DEF PhaseTypes
  <1>3. CASE WriteEnd
    <2>1. /\ payload'.data = payload.data /\ payload'.bit_count = payload.bit_count
          /\ payload'.lengths = lengths /\ payload'.token_size = Len(text)
      BY <1>3 DEF WriteEnd, TableTypes
    <2>2. Len(text) \in Nat /\ lengths \in [Symbol -> 0 .. MaxCodeBits]
      BY DEF PhaseInv, TableTypes
    <2> QED
      BY <1>0, <2>1, <2>2 DEF PhaseTypes
  <1>4. CASE LengthsStep \/ CodesBegin \/ CodesStep \/ WriteBegin \/ CheckPayload \/ TreeBegin
             \/ TreeStep \/ ReadBegin \/ ReadBit \/ ReadEnd \/ HelperFails \/ Terminated
             \/ UNCHANGED vars
    BY <1>1, <1>4 DEF LengthsStep, CodesBegin, CodesStep, WriteBegin, CheckPayload, TreeBegin,
                      TreeStep, ReadBegin, ReadBit, ReadEnd, HelperFails, Terminated, vars
  <1> QED
    BY <1>2, <1>3, <1>4 DEF Next, Step

LEMMA PhaseCheckedStep ==
  ASSUME PhaseInv, [Next]_vars PROVE PhaseChecked'
  <1> USE DEF PhaseChecked, Decoding
  <1>0. PhaseChecked
    BY PhaseInvParts
  <1>1. ASSUME payload' = payload PROVE PayloadOK' = PayloadOK
    BY <1>1 DEF PayloadOK
  <1>2. CASE CheckPayload
    BY <1>1, <1>2 DEF CheckPayload, StartCodes
  <1>3. CASE CodesStep
    <2>1. table' = table /\ payload' = payload /\ phase' = phase
      BY <1>3 DEF CodesStep, BuildCodes, FirstCode, NextCode, NoCodeLeft, EndCodes, Give
    <2> QED
      BY <1>0, <1>1, <2>1
  <1>4. CASE TreeBegin \/ TreeStep \/ ReadBegin \/ ReadBit \/ ReadEnd \/ HelperFails \/ Terminated
             \/ UNCHANGED vars
    <2>1. /\ table' = table /\ payload' = payload
          /\ Decoding' \/ phase' = "ok" => Decoding \/ phase = "ok"
      BY <1>4 DEF TreeBegin, TreeStep, ReadBegin, ReadBit, ReadEnd, ReadFails, HelperFails,
                  Terminated, vars
    <2> QED
      BY <1>0, <1>1, <2>1
  <1>5. CASE LengthsStep \/ CodesBegin \/ WriteBegin \/ WriteBit \/ WriteEnd
    <2>1. phase' \in {"lengths", "codes", "write", "payload"}
      BY <1>5 DEF LengthsStep, CodesBegin, WriteBegin, WriteBit, WriteEnd
    <2> QED
      BY <2>1
  <1> QED
    BY <1>2, <1>3, <1>4, <1>5 DEF Next, Step

LEMMA PhaseInvStep ==
  ASSUME ForestInv, TableTypes, CodesInv, CodesInPlace, TreeAfterCodes, PhaseInv, TextInv,
         [Next]_vars
  PROVE  PhaseInv'
  BY PhaseStepsStep, PhaseTypesStep, PhaseCheckedStep, PhaseInvPartsNext

\* The codes are complete when they are finished.
LEMMA AllGiven ==
  ASSUME CodesInv, cpc = "ok"
  PROVE  Given(table, order, Len(order), current, codes) /\ order # <<>> /\ coded = Len(order)
  <1>1. Given(table, order, coded, current, codes)
    BY CodesInvMeans
  <1>2. /\ Len(order) \in Nat /\ coded \in Nat /\ coded <= Len(order)
        /\ \A i \in 1 .. Len(order) : order[i] \in Symbol /\ table[order[i]] \in 1 .. MaxCodeBits
        /\ \A i, j \in 1 .. Len(order) : i < j => order[i] # order[j]
        /\ \A s \in Symbol : table[s] # 0 => \E i \in 1 .. Len(order) : order[i] = s
    BY <1>1, GivenFacts
  <1>3. /\ \A s \in Symbol : Len(codes[s]) = table[s]
        /\ {s \in Symbol : table[s] # 0} # {}
    BY DEF CodesInv, CodesFitTheTable
  <1>4. order # <<>>
    <2>1. PICK s \in Symbol : table[s] # 0
      BY <1>3
    <2>2. PICK i \in 1 .. Len(order) : order[i] = s
      BY <1>2, <2>1
    <2> QED
      BY <2>2
  <1>5. coded = Len(order)
    <2> SUFFICES ASSUME coded < Len(order) PROVE FALSE
      BY <1>2
    <2>1. PICK k \in 1 .. Len(order) : k = coded + 1
      BY <1>2
    <2>2. order[k] \in Symbol /\ table[order[k]] # 0
      <3>1. table[order[k]] \in 1 .. MaxCodeBits
        BY <1>2
      <3> QED
        BY <1>2, <3>1, MaxBitsNat
    <2>3. ~\E i \in 1 .. coded : order[i] = order[k]
      BY <1>2, <2>1
    <2>4. Len(codes[order[k]]) = 0
      BY <1>1, <2>2, <2>3 DEF Given
    <2> QED
      BY <1>3, <2>2, <2>4
  <1> QED
    BY <1>1, <1>4, <1>5

\* Nothing on the way of a text is refused.
LEMMA HelpersSucceed ==
  ASSUME ForestInv, TableTypes, CodesInv, CodesInPlace, TreeAfterCodes, TreeInv, PhaseInv,
         TextOnItsWay
  PROVE  ~HelperFails
  <1>0. text # <<>> /\ (phase # "lengths" => hpc = "returned")
    BY DEF TextOnItsWay
  <1>1. ASSUME phase = "lengths", hpc = "fail" PROVE FALSE
    <2>1. \A s \in Symbol : Frequency(s) = 0
      BY <1>1 DEF ForestInv, LengthsStand
    <2>2. text \in Seq(Symbol)
      BY DEF PhaseInv
    <2>3. 1 \in DOMAIN text /\ text[1] \in Symbol
      BY <1>0, <2>2
    <2> DEFINE places == {j \in DOMAIN text : text[j] = text[1]}
    <2>4. places # {} /\ places \in SUBSET DOMAIN text
      BY <2>3
    <2>5. IsFiniteSet(DOMAIN text)
      <3>1. DOMAIN text = 1 .. Len(text) /\ Len(text) \in Int /\ 1 \in Int
        BY <2>2
      <3> QED
        BY <3>1, FS_Interval
    <2>6. Cardinality(places) # 0
      <3> HIDE DEF places
      <3>1. IsFiniteSet(places)
        BY <2>4, <2>5, FS_Subset
      <3> QED
        BY <2>4, <3>1, FS_EmptySet
    <2>7. Frequency(text[1]) = Cardinality(places)
      BY DEF Frequency
    <2> QED
      BY <2>1, <2>3, <2>6, <2>7
  <1>2. ASSUME phase \in {"codes", "table", "tree"}
        PROVE  /\ table = lengths
               /\ Covers(lengths, text) /\ Kraft(lengths) <= pow2[MaxCodeBits]
               /\ \/ Kraft(lengths) = pow2[MaxCodeBits]
                  \/ \E x \in Symbol : /\ \A s \in Symbol : s # x => lengths[s] = 0
                                       /\ \A s \in Symbol : lengths[s] <= 1
    <2>1. table = lengths
      BY <1>2 DEF TextOnItsWay, PhaseInv, Decoding, Compressing
    <2> QED
      BY <1>0, <1>2, <2>1, TextCovered
  <1>3. ASSUME phase \in {"codes", "table"}, cpc = "fail" PROVE FALSE
    <2>1. {s \in Symbol : table[s] # 0} = {} \/ Kraft(table) > pow2[MaxCodeBits]
      BY <1>3 DEF CodesInv, CodesFitTheTable
    <2>2. {s \in Symbol : table[s] # 0} # {}
      <3>1. Len(text) \in Nat /\ 1 \in 1 .. Len(text) /\ text[1] \in Symbol
        BY <1>2, <1>3 DEF Covers
      <3>2. table[text[1]] # 0
        BY <1>2, <1>3, <3>1 DEF Covers
      <3> QED
        BY <3>1, <3>2
    <2>3. Kraft(table) \in Nat /\ pow2[MaxCodeBits] \in Nat
      <3>1. lengths \in [Symbol -> 0 .. MaxCodeBits]
        BY DEF TableTypes
      <3>2. Kraft(lengths) \in Nat
        BY <3>1, SharesNat
      <3> QED
        BY <1>2, <1>3, <3>2, MaxBitsNat, Pow2Positive
    <2> QED
      BY <1>2, <1>3, <2>1, <2>2, <2>3
  <1>4. ASSUME phase = "tree", tpc = "fail" PROVE FALSE
    <2>1. Cardinality(Beginnings(codes)) > MaxNodes
      BY <1>4, TreeInvMeans
    <2>2. cpc = "ok"
      BY <1>4 DEF PhaseInv
    <2>3. Given(table, order, Len(order), current, codes) /\ order # <<>> /\ coded = Len(order)
      BY <2>2, AllGiven
    <2>4. Standard(table, codes)
      BY <2>2, CodesStandard
    <2>5. codes \in [Symbol -> Seq(Bit)] /\ \A s \in Symbol : Len(codes[s]) = table[s]
      BY <2>4 DEF Standard
    <2>6. Cardinality(Beginnings(codes)) <= MaxNodes
      <3>1. CASE Kraft(lengths) = pow2[MaxCodeBits]
        <4>1. InPlace(table, order, Len(order), codes)
          BY <2>3, InPlaceMeans
        <4> QED
          BY <1>2, <1>4, <2>3, <3>1, <4>1, RoomIfFull
      <3>2. CASE \E x \in Symbol : /\ \A s \in Symbol : s # x => lengths[s] = 0
                                   /\ \A s \in Symbol : lengths[s] <= 1
        <4>1. PICK x \in Symbol : /\ \A s \in Symbol : s # x => lengths[s] = 0
                                  /\ \A s \in Symbol : lengths[s] <= 1
          BY <3>2
        <4>2. \A s \in Symbol : Len(codes[s]) <= 1
          BY <1>2, <1>4, <2>5, <4>1
        <4>3. \A s \in Symbol : s # x => codes[s] = <<>>
          BY <1>2, <1>4, <2>5, <4>1, EmptySeq
        <4> QED
          BY <2>5, <4>2, <4>3, RoomIfOne
      <3> QED
        BY <1>2, <1>4, <3>1, <3>2
    <2>7. Cardinality(Beginnings(codes)) \in Nat
      <3>1. \A s \in Symbol : Len(codes[s]) <= MaxCodeBits
        BY <2>2, CodesApart DEF Apart
      <3> QED
        BY <2>5, <3>1, BeginningsFinite, FS_CardinalityType
    <2> QED
      BY <2>1, <2>6, <2>7, NodesNat
  <1> QED
    BY <1>1, <1>3, <1>4 DEF HelperFails

----------------------------------------------------------------------------
(* Reading any payload.                                                    *)

\* ReadStands, of its variables.
ReadPlace(cs, bits, t, p, o, r, n, count) ==
    /\ o \in Seq(Symbol) /\ r \in 0 .. count
    /\ Len(Coding(cs, o)) <= r /\ IsPrefixOf(Coding(cs, o), bits)
    /\ n \in DOMAIN t
    /\ p[n] = SubSeq(bits, Len(Coding(cs, o)) + 1, r)

LEMMA ReadStandsMeans ==
  ASSUME NEW path
  PROVE  ReadStands(path) <=>
            /\ TreeStands(path)
            /\ ReadPlace(codes, Bits, tree, path, out, rpos, node, payload.bit_count)
            /\ Len(out) <= payload.token_size
            /\ phase = "ok" => /\ rpos = payload.bit_count /\ node = 1
                               /\ Len(out) = payload.token_size
  BY DEF ReadStands, ReadPlace

LEMMA ReadStandsMeansNext ==
  ASSUME NEW path
  PROVE  ReadStands(path)' <=>
            /\ TreeStands(path)'
            /\ ReadPlace(codes', Bits', tree', path, out', rpos', node', payload'.bit_count)
            /\ Len(out') <= payload'.token_size
            /\ phase' = "ok" => /\ rpos' = payload'.bit_count /\ node' = 1
                                /\ Len(out') = payload'.token_size
  BY DEF ReadStands, ReadPlace

LEMMA TreeStandsMeans ==
  ASSUME NEW path
  PROVE  TreeStands(path) <=> Stands(tpc, tree, codes, path, tsymbol, depth, at)
  BY DEF TreeStands, PathsOfNodes, CodePaths, Stands, Hangs, Carries, Reaches, Beginnings

LEMMA TreeStandsStays ==
  ASSUME NEW path, UNCHANGED <<tpc, tree, codes, tsymbol, depth, at>>, TreeStands(path)
  PROVE  TreeStands(path)'
  BY DEF TreeStands, PathsOfNodes, CodePaths

LEMMA PlaceMeans ==
  ASSUME NEW cs, Apart(cs), NEW t, TreeShape(t), NEW p, Hangs(t, Beginnings(cs), p),
         NEW bits \in Seq(Bit), NEW o, NEW r, NEW n
  PROVE  ReadPlace(cs, bits, t, p, o, r, n, Len(bits)) <=> ReadsTo(cs, bits, t, p, o, r, n)
  <1> DEFINE both == o \in Seq(Symbol) /\ r \in 0 .. Len(bits) /\ n \in DOMAIN t
                     /\ Len(Coding(cs, o)) <= r
  <1>1. CASE both
    <2>1. cs \in [Symbol -> Seq(Bit)]
      BY DEF Apart
    <2>2. PICK a \in Seq(Bit) : a = Coding(cs, o)
      BY <1>1, <2>1, CodingTypes
    <2>3. PICK c \in Seq(Bit) : c = p[n]
      BY <1>1, HangsFacts
    <2>4. PICK l \in Nat : l = Len(a) /\ l <= r
      BY <1>1, <2>2
    <2>7. r \in 0 .. Len(bits) /\ l <= r
      BY <1>1, <2>4
    <2>5. c = SubSeq(bits, l + 1, r) <=> /\ Len(c) = r - l
                                         /\ \A i \in 1 .. Len(c) : c[i] = bits[l + i]
      BY <2>7, SliceMeans
    <2>6. Begins(a, bits) <=> IsPrefixOf(a, bits)
      BY BeginsMeans
    <2> QED
      BY <1>1, <2>2, <2>3, <2>4, <2>5, <2>6 DEF ReadPlace, ReadsTo
  <1>2. CASE ~both
    BY <1>2 DEF ReadPlace, ReadsTo
  <1> QED
    BY <1>1, <1>2

\* What a decoder has at hand in read and at the end.
LEMMA ReadFacts ==
  ASSUME CodesInv, TreeInv, PhaseInv, phase \in {"read", "ok"}, NEW path, ReadStands(path)
  PROVE  /\ Apart(codes) /\ TreeShape(tree)
         /\ Hangs(tree, Beginnings(codes), path) /\ Carries(tree, codes, path, Symbols)
         /\ Bits \in Seq(Bit) /\ Len(Bits) = payload.bit_count
         /\ \A r \in 0 .. payload.bit_count - 1 : Bits[r + 1] = BitAt(r)
         /\ ReadsTo(codes, Bits, tree, path, out, rpos, node)
  <1>1. cpc = "ok" /\ tpc = "ok" /\ (Decoding \/ phase = "ok")
    BY DEF PhaseInv, Decoding
  <1>2. Apart(codes)
    BY <1>1, CodesApart
  <1>3. TreeShape(tree) /\ tsymbol = Symbols
    BY <1>1, TreeInvMeans DEF TreePlace
  <1>4. Hangs(tree, Beginnings(codes), path) /\ Carries(tree, codes, path, Symbols)
    BY <1>3, ReadStandsMeans, TreeStandsMeans DEF Stands
  <1>5. /\ Bits \in Seq(Bit) /\ Len(Bits) = payload.bit_count
        /\ \A r \in 0 .. payload.bit_count - 1 : Bits[r + 1] = BitAt(r)
    BY <1>1, BitsFacts
  <1>6. ReadPlace(codes, Bits, tree, path, out, rpos, node, Len(Bits))
    BY <1>5, ReadStandsMeans
  <1>7. ReadsTo(codes, Bits, tree, path, out, rpos, node)
    BY <1>2, <1>3, <1>4, <1>5, <1>6, PlaceMeans
  <1> QED
    BY <1>2, <1>3, <1>4, <1>5, <1>7

LEMMA BitsStay == payload' = payload => Bits' = Bits
  BY DEF Bits, BitAt, Shift

LEMMA ReadBeginStands ==
  ASSUME CodesInv, TreeInv, PhaseInv, ReadBegin PROVE ReadInv'
  <1>1. phase = "tree" /\ tpc = "ok" /\ phase' = "read" /\ payload' = payload
        /\ UNCHANGED <<tpc, tree, codes, tsymbol, depth, at, rpos, node, out>>
    BY DEF ReadBegin
  <1>2. cpc = "ok" /\ rpos = 0 /\ node = 1 /\ out = <<>> /\ Decoding
    BY <1>1 DEF PhaseInv, Decoding
  <1>3. PICK path : Stands(tpc, tree, codes, path, tsymbol, depth, at)
    BY <1>1, TreeInvMeans
  <1>4. Apart(codes) /\ TreeShape(tree)
    BY <1>2, CodesApart, TreeInvMeans
  <1>5. Bits \in Seq(Bit) /\ Len(Bits) = payload.bit_count
    BY <1>2, BitsFacts
  <1>6. ReadsTo(codes, Bits, tree, path, <<>>, 0, 1)
    BY <1>3, <1>4, <1>5, ReadStart DEF Stands
  <1>7. ReadPlace(codes, Bits, tree, path, <<>>, 0, 1, Len(Bits))
    BY <1>3, <1>4, <1>5, <1>6, PlaceMeans DEF Stands
  <1>8. TreeStands(path)'
    BY <1>1, <1>3, TreeStandsMeans, TreeStandsStays
  <1>9. Len(<<>>) <= payload.token_size
    BY DEF PhaseInv
  <1>10. ReadStands(path)'
    BY <1>1, <1>2, <1>5, <1>7, <1>8, <1>9, BitsStay, ReadStandsMeansNext
  <1> QED
    BY <1>10 DEF ReadInv

LEMMA ReadBitStands ==
  ASSUME CodesInv, TreeInv, PhaseInv, ReadInv, ReadBit PROVE ReadInv'
  <1> SUFFICES ASSUME phase' \in {"read", "ok"} PROVE \E path : ReadStands(path)'
    BY DEF ReadInv
  <1>1. phase = "read" /\ payload' = payload /\ rpos < payload.bit_count /\ rpos' = rpos + 1
        /\ UNCHANGED <<tpc, tree, codes, tsymbol, depth, at>>
    BY DEF ReadBit
  <1>2. PICK path : ReadStands(path)
    BY <1>1 DEF ReadInv
  <1>3. /\ Apart(codes) /\ TreeShape(tree)
        /\ Hangs(tree, Beginnings(codes), path) /\ Carries(tree, codes, path, Symbols)
        /\ Bits \in Seq(Bit) /\ Len(Bits) = payload.bit_count
        /\ \A r \in 0 .. payload.bit_count - 1 : Bits[r + 1] = BitAt(r)
        /\ ReadsTo(codes, Bits, tree, path, out, rpos, node)
    BY <1>1, <1>2, ReadFacts
  <1>4. PICK bits \in Seq(Bit) : bits = Bits
    BY <1>3
  <1>5. PICK m : m = tree[node].child[bits[rpos + 1]]
    OBVIOUS
  <1>6. rpos \in 0 .. payload.bit_count - 1 /\ bits[rpos + 1] = BitAt(rpos)
    <2>1. rpos \in Nat /\ payload.bit_count \in Nat
      BY <1>3 DEF ReadsTo, PhaseInv
    <2>2. rpos \in 0 .. payload.bit_count - 1
      BY <1>1, <2>1
    <2> QED
      BY <1>3, <1>4, <2>2
  <1>7. /\ m # None /\ phase' = "read"
        /\ IF tree[m].symbol = Inner
           THEN node' = m /\ out' = out
           ELSE /\ ~(Len(out) >= payload.token_size)
                /\ out' = Append(out, tree[m].symbol) /\ node' = 1
    BY <1>1, <1>5, <1>6 DEF ReadBit, ReadFails
  <1>8. IF tree[m].symbol = Inner
        THEN ReadsTo(codes, bits, tree, path, out, rpos + 1, m)
        ELSE ReadsTo(codes, bits, tree, path, Append(out, tree[m].symbol), rpos + 1, 1)
    BY <1>1, <1>3, <1>4, <1>5, <1>7, ReadStep
  <1>9. ReadsTo(codes, bits, tree, path, out', rpos', node')
    BY <1>1, <1>7, <1>8
  <1>10. ReadPlace(codes, bits, tree, path, out', rpos', node', Len(bits))
    BY <1>3, <1>9, PlaceMeans
  <1>11. Len(out') <= payload.token_size
    <2>1. Len(out) <= payload.token_size /\ out \in Seq(Symbol) /\ payload.token_size \in Nat
      BY <1>2, <1>3, ReadStandsMeans DEF ReadsTo, PhaseInv
    <2>2. CASE tree[m].symbol = Inner
      BY <1>7, <2>1, <2>2
    <2>3. CASE tree[m].symbol # Inner
      <3>1. out' = Append(out, tree[m].symbol) /\ ~(Len(out) >= payload.token_size)
        BY <1>7, <2>3
      <3>2. Len(Append(out, tree[m].symbol)) = Len(out) + 1 /\ Len(out) \in Nat
        BY <2>1
      <3> QED
        BY <2>1, <3>1, <3>2
    <2> QED
      BY <2>2, <2>3
  <1>12. TreeStands(path)'
    BY <1>1, <1>2, ReadStandsMeans, TreeStandsStays
  <1>13. ReadPlace(codes', Bits', tree', path, out', rpos', node', payload'.bit_count)
    BY <1>1, <1>3, <1>4, <1>10, BitsStay
  <1>14. ReadStands(path)'
    BY <1>1, <1>7, <1>11, <1>12, <1>13, ReadStandsMeansNext
  <1> QED
    BY <1>14

LEMMA ReadEndStands ==
  ASSUME PhaseInv, ReadInv, ReadEnd PROVE ReadInv'
  <1> SUFFICES ASSUME phase' \in {"read", "ok"} PROVE \E path : ReadStands(path)'
    BY DEF ReadInv
  <1>1. phase = "read" /\ payload' = payload /\ rpos = payload.bit_count
        /\ UNCHANGED <<tpc, tree, codes, tsymbol, depth, at, rpos, node, out>>
        /\ phase' = "ok" /\ node = 1 /\ Len(out) = payload.token_size
    BY DEF ReadEnd
  <1>2. PICK path : ReadStands(path)
    BY <1>1 DEF ReadInv
  <1>3. TreeStands(path)'
    BY <1>1, <1>2, ReadStandsMeans, TreeStandsStays
  <1>4. ReadStands(path)'
    BY <1>1, <1>2, <1>3, BitsStay, ReadStandsMeans, ReadStandsMeansNext
  <1> QED
    BY <1>4

LEMMA ReadInvStep ==
  ASSUME CodesInv, TreeInv, PhaseInv, ReadInv, [Next]_vars PROVE ReadInv'
  <1>1. CASE ReadBegin
    BY <1>1, ReadBeginStands
  <1>2. CASE ReadBit
    BY <1>2, ReadBitStands
  <1>3. CASE ReadEnd
    BY <1>3, ReadEndStands
  <1>4. CASE Terminated \/ UNCHANGED vars
    <2>1. UNCHANGED <<phase, payload, tpc, tree, codes, tsymbol, depth, at, rpos, node, out>>
      BY <1>4 DEF Terminated, vars
    <2> SUFFICES ASSUME phase' \in {"read", "ok"} PROVE \E path : ReadStands(path)'
      BY DEF ReadInv
    <2>2. PICK path : ReadStands(path)
      BY <2>1 DEF ReadInv
    <2>3. TreeStands(path)'
      BY <2>1, <2>2, ReadStandsMeans, TreeStandsStays
    <2>4. ReadStands(path)'
      BY <2>1, <2>2, <2>3, BitsStay, ReadStandsMeans, ReadStandsMeansNext
    <2> QED
      BY <2>4
  <1>5. CASE LengthsStep \/ CodesBegin \/ CodesStep \/ WriteBegin \/ WriteBit \/ WriteEnd
             \/ CheckPayload \/ TreeBegin \/ TreeStep \/ HelperFails
    <2>1. phase' \notin {"read", "ok"}
      BY <1>5 DEF LengthsStep, CodesBegin, CodesStep, WriteBegin, WriteBit, WriteEnd, CheckPayload,
                  TreeBegin, TreeStep, HelperFails
    <2> QED
      BY <2>1 DEF ReadInv
  <1> QED
    BY <1>1, <1>2, <1>3, <1>4, <1>5 DEF Next, Step

\* At the end of a code and of the bits, the codes are all there is.
LEMMA ReadAll ==
  ASSUME NEW cs, Apart(cs), NEW t, TreeShape(t), NEW p, Hangs(t, Beginnings(cs), p),
         NEW bits \in Seq(Bit), NEW o, NEW r, ReadsTo(cs, bits, t, p, o, r, 1)
  PROVE  Len(Coding(cs, o)) = r
  <1>1. p[1] = <<>> /\ Len(<<>>) = 0
    BY DEF Hangs
  <1>2. cs \in [Symbol -> Seq(Bit)] /\ o \in Seq(Symbol) /\ r \in Int
    BY DEF Apart, ReadsTo
  <1>3. PICK a \in Seq(Bit) : a = Coding(cs, o)
    BY <1>2, CodingTypes
  <1>4. Len(a) \in Nat /\ Len(p[1]) = r - Len(a)
    BY <1>3 DEF ReadsTo
  <1> QED
    BY <1>1, <1>2, <1>3, <1>4

\* From the way that has been read to what is said of the decoder.
LEMMA DecodedMeans ==
  ASSUME CodesInv, TreeInv, PhaseInv, ReadInv PROVE DecodedIsCoded
  <1> DEFINE bits == [i \in 1 .. payload.bit_count |-> BitAt(i - 1)]
             done == FlattenSeq([i \in DOMAIN out |-> codes[out[i]]])
  <1>1. bits = Bits /\ done = Coding(codes, out)
    BY DEF Bits, Coding
  <1> HIDE DEF bits, done
  <1>2. ASSUME phase \in {"read", "ok"}
        PROVE  /\ Len(out) <= payload.token_size
               /\ Len(done) <= rpos /\ IsPrefixOf(done, bits)
               /\ Walk(SubSeq(bits, Len(done) + 1, rpos)) = node
               /\ phase = "ok" => /\ Len(done) = payload.bit_count
                                  /\ Len(out) = payload.token_size
    <2>1. PICK path : ReadStands(path)
      BY <1>2 DEF ReadInv
    <2>2. /\ Apart(codes) /\ TreeShape(tree) /\ Hangs(tree, Beginnings(codes), path)
          /\ Bits \in Seq(Bit) /\ ReadsTo(codes, Bits, tree, path, out, rpos, node)
      BY <1>2, <2>1, ReadFacts
    <2>3. /\ Len(out) <= payload.token_size /\ node \in DOMAIN tree
          /\ Len(done) <= rpos /\ IsPrefixOf(done, bits)
          /\ path[node] = SubSeq(bits, Len(done) + 1, rpos)
          /\ phase = "ok" => rpos = payload.bit_count /\ node = 1 /\ Len(out) = payload.token_size
      BY <1>1, <2>1 DEF ReadStands
    <2>4. Walk(path[node]) = node
      BY <2>2, <2>3, WalkAlongPath
    <2>5. phase = "ok" => Len(done) = payload.bit_count
      BY <1>1, <2>2, <2>3, ReadAll
    <2> QED
      BY <2>3, <2>4, <2>5
  <1> QED
    BY <1>2 DEF DecodedIsCoded, bits, done

----------------------------------------------------------------------------
(* Reading a text.                                                         *)

\* TextRead, of its variables.
OnText(cs, x, o, r, count) ==
    /\ Len(o) <= Len(x)
    /\ o = SubSeq(x, 1, Len(o))
    /\ IF Len(o) = Len(x)
       THEN r = count
       ELSE r < Len(Coding(cs, o)) + Len(cs[x[Len(o) + 1]])

LEMMA TextReadMeans == TextRead <=> OnText(codes, text, out, rpos, payload.bit_count)
  BY DEF TextRead, OnText

LEMMA TextReadMeansNext ==
  TextRead' <=> OnText(codes', text', out', rpos', payload'.bit_count)
  BY DEF TextRead, OnText

LEMMA OnTextStart ==
  ASSUME NEW cs \in [Symbol -> Seq(Bit)], NEW x \in Seq(Symbol), x # <<>>,
         \A i \in 1 .. Len(x) : cs[x[i]] # <<>>, NEW count
  PROVE  OnText(cs, x, <<>>, 0, count)
  <1>1. /\ Len(<<>>) = 0 /\ Len(x) \in Nat /\ Len(x) # 0 /\ SubSeq(x, 1, 0) = <<>>
        /\ 1 \in 1 .. Len(x) /\ x[1] \in Symbol /\ 0 + 1 = 1
    BY EmptySeq
  <1>2. PICK c \in Seq(Bit) : c = cs[x[1]] /\ c # <<>>
    BY <1>1
  <1>3. PICK e \in Seq(Symbol) : e = <<>>
    BY EmptySeq
  <1>4. Coding(cs, <<>>) = <<>>
    BY <1>3, CodingTypes
  <1>5. 0 < Len(Coding(cs, <<>>)) + Len(cs[x[Len(<<>>) + 1]])
    <2>1. Len(c) \in Nat /\ Len(c) # 0
      BY <1>2, EmptySeq
    <2> QED
      BY <1>1, <1>2, <1>4, <2>1
  <1> QED
    BY <1>1, <1>5 DEF OnText

\* One more symbol of a sequence.
LEMMA SymbolsNext ==
  ASSUME NEW x \in Seq(Symbol), NEW k \in Nat, k + 1 \in 1 .. Len(x)
  PROVE  Append(SubSeq(x, 1, k), x[k + 1]) = SubSeq(x, 1, k + 1)
  OBVIOUS

\* The code of the next symbol has been read.
LEMMA OnTextNext ==
  ASSUME NEW cs \in [Symbol -> Seq(Bit)], NEW x \in Seq(Symbol),
         \A i \in 1 .. Len(x) : cs[x[i]] # <<>>,
         NEW o, NEW r, OnText(cs, x, o, r, Len(Coding(cs, x))), Len(o) < Len(x), NEW s,
         s = x[Len(o) + 1], NEW q, q = Len(Coding(cs, o)) + Len(cs[s])
  PROVE  OnText(cs, x, Append(o, s), q, Len(Coding(cs, x)))
  <1>1. o = SubSeq(x, 1, Len(o))
    BY DEF OnText
  <1>2. PICK k \in 0 .. Len(x) - 1 : o = SubSeq(x, 1, k) /\ Len(o) = k
    <2>1. Len(x) \in Nat
      OBVIOUS
    <2>2. Len(o) \in Nat
      <3>1. DOMAIN SubSeq(x, 1, Len(o)) = 1 .. Len(o)
        BY <1>1
      <3> QED
        BY <1>1
    <2>3. Len(o) \in 0 .. Len(x) - 1
      BY <2>1, <2>2
    <2>4. \A m : m = Len(o) => m \in 0 .. Len(x) - 1 /\ o = SubSeq(x, 1, m) /\ Len(o) = m
      BY ONLY <1>1, <2>3
    <2> QED
      BY ONLY <2>4
  <1>3. /\ k + 1 \in 1 .. Len(x) /\ k + 1 \in 0 .. Len(x) /\ s \in Symbol /\ Len(x) \in Nat
        /\ Append(o, s) = SubSeq(x, 1, k + 1) /\ Len(Append(o, s)) = k + 1
    <2>1. Len(x) \in Nat
      OBVIOUS
    <2>2. /\ k \in Nat /\ k + 1 \in Nat /\ k + 1 \in 1 .. Len(x) /\ k + 1 \in 0 .. Len(x)
          /\ k + 1 - 1 = k
      BY ONLY <2>1, k \in 0 .. Len(x) - 1
    <2>3. s = x[k + 1]
      BY <1>2
    <2>4. s \in Symbol
      BY <2>2, <2>3
    <2>5. Len(SubSeq(x, 1, k + 1)) = k + 1
      BY <2>1, <2>2
    <2>6. Append(o, s) = SubSeq(x, 1, k + 1)
      <3>1. Append(SubSeq(x, 1, k), x[k + 1]) = SubSeq(x, 1, k + 1)
        BY <2>1, <2>2, SymbolsNext
      <3> QED
        BY ONLY <1>2, <2>3, <3>1
    <2> QED
      BY ONLY <2>1, <2>2, <2>4, <2>5, <2>6
  <1>4. Coding(cs, SubSeq(x, 1, k + 1)) = Coding(cs, o) \o cs[s] /\ o \in Seq(Symbol)
    BY <1>2, CodingNext
  <1>5. PICK a \in Seq(Bit) : a = Coding(cs, o)
    BY <1>4, CodingTypes
  <1>6. PICK c \in Seq(Bit) : c = cs[s]
    BY <1>3
  <1>7. Len(Coding(cs, Append(o, s))) = q /\ q \in Nat
    <2>1. Len(a \o c) = Len(a) + Len(c) /\ Len(a) + Len(c) \in Nat
      OBVIOUS
    <2> QED
      BY <1>3, <1>4, <1>5, <1>6, <2>1
  <1>10. PICK y : y = Append(o, s)
    OBVIOUS
  <1>11. Len(y) = k + 1 /\ y = SubSeq(x, 1, k + 1) /\ Len(Coding(cs, y)) = q /\ k + 1 <= Len(x)
    BY <1>3, <1>7, <1>10
  <1>8. CASE k + 1 = Len(x)
    <2>1. SubSeq(x, 1, k + 1) = x
      BY <1>3, <1>8
    <2>2. y = x
      BY <1>11, <2>1
    <2>3. OnText(cs, x, y, q, Len(Coding(cs, x)))
      <3>1. Len(y) = Len(x) /\ Len(y) <= Len(x)
        BY ONLY <1>3, <1>8, <1>11
      <3>2. y = SubSeq(x, 1, Len(y)) /\ q = Len(Coding(cs, x))
        BY ONLY <1>11, <2>2
      <3> QED
        BY ONLY <3>1, <3>2 DEF OnText
    <2> QED
      BY ONLY <1>10, <2>3
  <1>9. CASE k + 1 # Len(x)
    <2>1. PICK j \in 1 .. Len(x) : j = Len(y) + 1
      <3>1. k + 1 \in 1 .. Len(x) /\ Len(x) \in Nat
        BY <1>3
      <3>2. PICK N \in Nat, m \in Nat : N = Len(x) /\ m = k + 1 /\ m \in 1 .. N
        BY ONLY <3>1
      <3>3. m + 1 \in 1 .. N
        <4>1. m # N
          BY <1>9, <3>2
        <4> QED
          BY ONLY <3>2, <4>1, m \in Nat, N \in Nat
      <3>4. m + 1 = Len(y) + 1
        BY <1>11, <3>2
      <3> QED
        BY ONLY <3>2, <3>3, <3>4
    <2>2. PICK d \in Seq(Bit) : d = cs[x[j]] /\ d # <<>>
      <3>1. x[j] \in Symbol /\ cs[x[j]] # <<>>
        <4>1. DOMAIN x = 1 .. Len(x)
          OBVIOUS
        <4> QED
          BY <4>1
      <3>2. cs[x[j]] \in Seq(Bit)
        BY <3>1
      <3> QED
        BY ONLY <3>1, <3>2
    <2>3. Len(d) \in Nat /\ Len(d) # 0
      BY <2>2, EmptySeq
    <2>4. q < Len(Coding(cs, y)) + Len(cs[x[Len(y) + 1]])
      <3>1. cs[x[Len(y) + 1]] = d
        BY ONLY <2>1, <2>2
      <3>2. q < q + Len(d)
        BY ONLY <1>7, <2>3
      <3> QED
        BY <1>11, <3>1, <3>2
    <2>5. OnText(cs, x, y, q, Len(Coding(cs, x)))
      BY <1>9, <1>11, <2>4 DEF OnText
    <2> QED
      BY <1>10, <2>5
  <1> QED
    BY <1>8, <1>9

\* All bits are read: so is the text.
LEMMA OnTextEnd ==
  ASSUME NEW cs \in [Symbol -> Seq(Bit)], NEW x \in Seq(Symbol),
         NEW o \in Seq(Symbol), OnText(cs, x, o, Len(Coding(cs, x)), Len(Coding(cs, x)))
  PROVE  o = x
  <1>1. Len(o) \in Nat /\ Len(x) \in Nat /\ Len(o) <= Len(x) /\ o = SubSeq(x, 1, Len(o))
    BY DEF OnText
  <1>2. ASSUME Len(o) # Len(x) PROVE FALSE
    <2>1. PICK k \in 0 .. Len(x) - 1 : k = Len(o)
      <3>1. Len(o) \in 0 .. Len(x) - 1
        BY <1>1, <1>2
      <3> QED
        BY <3>1
    <2>2. Len(Coding(cs, x)) < Len(Coding(cs, o)) + Len(cs[x[k + 1]])
      BY <1>2, <2>1 DEF OnText
    <2>3. Coding(cs, SubSeq(x, 1, k + 1)) = Coding(cs, o) \o cs[x[k + 1]] /\ x[k + 1] \in Symbol
      BY <1>1, <2>1, CodingNext
    <2>4. PICK a \in Seq(Bit) : a = Coding(cs, o)
      BY CodingTypes
    <2>5. PICK c \in Seq(Bit) : c = cs[x[k + 1]]
      BY <2>3
    <2>6. PICK b \in Seq(Bit) : b = Coding(cs, x)
      BY CodingTypes
    <2>7. k + 1 \in 0 .. Len(x)
      BY <1>1
    <2>8. Begins(Coding(cs, SubSeq(x, 1, k + 1)), b)
      BY <2>6, <2>7, CodingBegins
    <2>9. Len(a \o c) = Len(a) + Len(c) /\ Len(a \o c) <= Len(b)
      BY <2>3, <2>4, <2>5, <2>8 DEF Begins
    <2> QED
      BY <2>2, <2>4, <2>5, <2>6, <2>9
  <1> QED
    BY <1>1, <1>2

----------------------------------------------------------------------------
(* A text on its way.                                                      *)

LEMMA TextWrittenStays ==
  ASSUME PhaseInv, NEW cs, TextWritten(cs), UNCHANGED <<lengths, text, payload, written, wbit>>
  PROVE  TextWritten(cs)'
  <1>1. payload'.data \in Seq(Nat)
    BY DEF PhaseInv
  <1> QED
    BY <1>1, TextWrittenMeans, TextWrittenMeansNext

\* The payload of a text passes the checks.
LEMMA TextPayloadOK ==
  ASSUME ForestInv, TableTypes, PhaseInv, TextOnItsWay, phase = "payload"
  PROVE  PayloadOK
  <1>1. hpc = "returned" /\ text # <<>> /\ payload.token_size = Len(text) /\ written = Len(text)
    BY DEF TextOnItsWay, Compressing
  <1>2. PICK cs : TextWritten(cs)
    BY DEF TextOnItsWay
  <1>3. Covers(lengths, text)
    BY <1>1, TextCovered
  <1>4. WritesTo(lengths, text, payload.data, payload.bit_count, Len(text), wbit, cs)
    BY <1>1, <1>2, TextWrittenMeans
  <1>5. /\ payload.bit_count # 0 /\ payload.bit_count <= Len(payload.data) * ByteBits
        /\ (payload.bit_count - 1) \div ByteBits + 1 = Len(payload.data)
    <2>1. payload.bit_count \in Nat
      BY DEF PhaseInv
    <2> QED
      BY <1>3, <1>4, <2>1, WriteFacts
  <1>6. Len(text) # 0
    BY <1>1, EmptySeq DEF PhaseInv
  <1>7. payload.bit_count % ByteBits # 0 =>
           Last(payload.data) % pow2[ByteBits - (payload.bit_count % ByteBits)] = 0
    BY <1>2 DEF TextWritten, Packed
  <1> QED
    BY <1>1, <1>5, <1>6, <1>7 DEF PayloadOK

\* What a decoder of the text has at hand once the codes are made.
LEMMA TextCodes ==
  ASSUME ForestInv, TableTypes, CodesInv, CodesInPlace, PhaseInv, TextOnItsWay,
         phase \in {"tree", "read", "ok"}
  PROVE  /\ codes \in [Symbol -> Seq(Bit)] /\ text \in Seq(Symbol) /\ text # <<>>
         /\ Bits = Coding(codes, text) /\ Len(Coding(codes, text)) = payload.bit_count
         /\ \A i \in 1 .. Len(text) : codes[text[i]] # <<>>
         /\ payload.token_size = Len(text)
  <1>1. /\ hpc = "returned" /\ text # <<>> /\ payload.token_size = Len(text)
        /\ payload.lengths = lengths /\ written = Len(text)
    BY DEF TextOnItsWay, Compressing
  <1>2. cpc = "ok" /\ table = lengths /\ text \in Seq(Symbol) /\ (Decoding \/ phase = "ok")
    BY <1>1 DEF PhaseInv, Decoding
  <1>3. PICK cs : TextWritten(cs)
    BY DEF TextOnItsWay
  <1>4. Standard(lengths, cs) /\ Bits = Coding(cs, text)
    BY <1>1, <1>3 DEF TextWritten
  <1>5. Standard(lengths, codes)
    BY <1>2, CodesStandard
  <1>6. cs = codes
    BY <1>4, <1>5, StandardUnique DEF TableTypes
  <1>7. Covers(lengths, text)
    BY <1>1, TextCovered
  <1>8. codes \in [Symbol -> Seq(Bit)] /\ \A s \in Symbol : Len(codes[s]) = lengths[s]
    BY <1>5 DEF Standard
  <1>9. ASSUME NEW i \in 1 .. Len(text) PROVE codes[text[i]] # <<>>
    <2>1. text[i] \in Symbol /\ lengths[text[i]] # 0
      BY <1>2, <1>7 DEF Covers
    <2>2. Len(<<>>) = 0
      OBVIOUS
    <2> QED
      BY <1>8, <2>1, <2>2
  <1> QED
    BY <1>1, <1>2, <1>4, <1>6, <1>8, <1>9, BitsFacts

LEMMA TextReadBegin ==
  ASSUME ForestInv, TableTypes, CodesInv, CodesInPlace, PhaseInv, TextOnItsWay, ReadBegin
  PROVE  TextRead'
  <1>1. phase = "tree" /\ UNCHANGED <<codes, text, out, rpos, payload>>
    BY DEF ReadBegin
  <1>2. out = <<>> /\ rpos = 0
    BY <1>1 DEF PhaseInv
  <1>3. OnText(codes, text, <<>>, 0, payload.bit_count)
    BY <1>1, TextCodes, OnTextStart
  <1> QED
    BY <1>1, <1>2, <1>3, TextReadMeansNext

\* No bit of the text is refused.
LEMMA TextReadBit ==
  ASSUME ForestInv, TableTypes, CodesInv, CodesInPlace, TreeInv, PhaseInv, TextOnItsWay, ReadInv,
         ReadBit
  PROVE  phase' = "read" /\ TextRead'
  <1>1. phase = "read" /\ rpos < payload.bit_count /\ rpos' = rpos + 1
        /\ UNCHANGED <<codes, text, payload>>
    BY DEF ReadBit
  <1>2. PICK path : ReadStands(path)
    BY <1>1 DEF ReadInv
  <1>3. /\ Apart(codes) /\ TreeShape(tree)
        /\ Hangs(tree, Beginnings(codes), path) /\ Carries(tree, codes, path, Symbols)
        /\ Bits \in Seq(Bit) /\ Len(Bits) = payload.bit_count
        /\ \A r \in 0 .. payload.bit_count - 1 : Bits[r + 1] = BitAt(r)
        /\ ReadsTo(codes, Bits, tree, path, out, rpos, node)
    BY <1>1, <1>2, ReadFacts
  <1>4. PICK bits \in Seq(Bit) : bits = Bits
    BY <1>3
  <1>5. /\ codes \in [Symbol -> Seq(Bit)] /\ text \in Seq(Symbol) /\ text # <<>>
        /\ bits = Coding(codes, text) /\ Len(bits) = payload.bit_count
        /\ \A i \in 1 .. Len(text) : codes[text[i]] # <<>>
        /\ payload.token_size = Len(text)
    BY <1>1, <1>4, TextCodes
  <1>6. OnText(codes, text, out, rpos, Len(bits))
    BY <1>1, <1>5, TextReadMeans DEF TextOnItsWay
  <1>7. rpos \in 0 .. payload.bit_count - 1 /\ bits[rpos + 1] = BitAt(rpos) /\ rpos \in Nat
    <2>1. rpos \in Nat /\ payload.bit_count \in Nat
      BY <1>3 DEF ReadsTo, PhaseInv
    <2>2. rpos \in 0 .. payload.bit_count - 1
      BY <1>1, <2>1
    <2> QED
      BY <1>3, <1>4, <2>1, <2>2
  <1>8. /\ Len(out) < Len(text) /\ out = SubSeq(text, 1, Len(out)) /\ out \in Seq(Symbol)
        /\ rpos < Len(Coding(codes, out)) + Len(codes[text[Len(out) + 1]])
    <2>1. out \in Seq(Symbol)
      BY <1>3 DEF ReadsTo
    <2>2. Len(out) # Len(text)
      BY <1>1, <1>5, <1>6, <1>7 DEF OnText
    <2>3. Len(out) < Len(text)
      BY <1>5, <1>6, <2>1, <2>2 DEF OnText
    <2> QED
      BY <1>6, <2>1, <2>2, <2>3 DEF OnText
  <1>9. PICK m : m = tree[node].child[bits[rpos + 1]]
    OBVIOUS
  <1>10. /\ m # None
         /\ tree[m].symbol = Inner =>
               rpos + 1 < Len(Coding(codes, out)) + Len(codes[text[Len(out) + 1]])
         /\ tree[m].symbol # Inner =>
               /\ tree[m].symbol = text[Len(out) + 1]
               /\ rpos + 1 = Len(Coding(codes, out)) + Len(codes[text[Len(out) + 1]])
    <2>1. rpos < Len(bits) /\ ReadsTo(codes, bits, tree, path, out, rpos, node)
      BY <1>1, <1>3, <1>4, <1>5
    <2>2. PICK t : t = tree
      OBVIOUS
    <2>3. PICK cs : cs = codes
      OBVIOUS
    <2>4. PICK x \in Seq(Symbol) : x = text
      BY <1>5
    <2>5. PICK o : o = out
      OBVIOUS
    <2>6. PICK q : q = rpos
      OBVIOUS
    <2>7. PICK n : n = node
      OBVIOUS
    <2>8. Apart(cs) /\ TreeShape(t) /\ Hangs(t, Beginnings(cs), path) /\ Carries(t, cs, path, Symbols)
      BY <1>3, <2>2, <2>3
    <2>9. (\A i \in 1 .. Len(x) : cs[x[i]] # <<>>) /\ bits = Coding(cs, x)
      BY <1>5, <2>3, <2>4
    <2>10. ReadsTo(cs, bits, t, path, o, q, n) /\ q < Len(bits)
      BY <2>1, <2>2, <2>3, <2>5, <2>6, <2>7
    <2>11. /\ Len(o) < Len(x) /\ o = SubSeq(x, 1, Len(o))
           /\ q < Len(Coding(cs, o)) + Len(cs[x[Len(o) + 1]])
      BY <1>8, <2>3, <2>4, <2>5, <2>6
    <2>12. m = t[n].child[bits[q + 1]]
      BY <1>9, <2>2, <2>6, <2>7
    <2>13. /\ m # None
           /\ t[m].symbol = Inner => q + 1 < Len(Coding(cs, o)) + Len(cs[x[Len(o) + 1]])
           /\ t[m].symbol # Inner => /\ t[m].symbol = x[Len(o) + 1]
                                     /\ q + 1 = Len(Coding(cs, o)) + Len(cs[x[Len(o) + 1]])
      BY <2>8, <2>9, <2>10, <2>11, <2>12, ReadText
    <2> QED
      BY <2>2, <2>3, <2>4, <2>5, <2>6, <2>13
  <1>11. ~(Len(out) >= payload.token_size)
    BY <1>5, <1>8
  <1>12. /\ phase' = "read"
         /\ IF tree[m].symbol = Inner THEN out' = out ELSE out' = Append(out, tree[m].symbol)
    BY <1>1, <1>7, <1>9, <1>10, <1>11 DEF ReadBit
  <1>13. OnText(codes, text, out', rpos', Len(bits))
    <2>1. CASE tree[m].symbol = Inner
      BY <1>1, <1>6, <1>8, <1>10, <1>12, <2>1 DEF OnText
    <2>2. CASE tree[m].symbol # Inner
      <3>1. PICK s : s = text[Len(out) + 1]
        OBVIOUS
      <3>2. PICK q : q = Len(Coding(codes, out)) + Len(codes[s])
        OBVIOUS
      <3>3. OnText(codes, text, Append(out, s), q, Len(Coding(codes, text)))
        BY <1>5, <1>6, <1>8, <3>1, <3>2, OnTextNext
      <3>4. out' = Append(out, s) /\ rpos' = q
        BY <1>1, <1>10, <1>12, <2>2, <3>1, <3>2
      <3> QED
        BY <1>5, <3>3, <3>4
    <2> QED
      BY <2>1, <2>2
  <1> QED
    BY <1>1, <1>5, <1>12, <1>13, TextReadMeansNext

\* The bits end with the text.
LEMMA TextReadEnd ==
  ASSUME ForestInv, TableTypes, CodesInv, CodesInPlace, TreeInv, PhaseInv, TextOnItsWay, ReadInv,
         ReadEnd
  PROVE  phase' = "ok" /\ TextRead'
  <1>1. phase = "read" /\ rpos = payload.bit_count
        /\ phase' = (IF node = 1 /\ Len(out) = payload.token_size THEN "ok" ELSE "fail")
        /\ UNCHANGED <<codes, text, out, rpos, payload>>
    BY DEF ReadEnd
  <1>2. PICK path : ReadStands(path)
    BY <1>1 DEF ReadInv
  <1>3. /\ Apart(codes) /\ TreeShape(tree) /\ Hangs(tree, Beginnings(codes), path)
        /\ ReadsTo(codes, Bits, tree, path, out, rpos, node)
    BY <1>1, <1>2, ReadFacts
  <1>4. /\ codes \in [Symbol -> Seq(Bit)] /\ text \in Seq(Symbol)
        /\ Len(Coding(codes, text)) = payload.bit_count /\ payload.token_size = Len(text)
    BY <1>1, TextCodes
  <1>5. TextRead /\ OnText(codes, text, out, rpos, payload.bit_count)
    BY <1>1, TextReadMeans DEF TextOnItsWay
  <1>6. out \in Seq(Symbol)
    BY <1>3 DEF ReadsTo
  <1>7. out = text
    BY <1>1, <1>4, <1>5, <1>6, OnTextEnd
  <1>8. node = 1
    <2>1. Len(path[node]) = rpos - Len(Coding(codes, out)) /\ node \in DOMAIN tree
      BY <1>3 DEF ReadsTo
    <2>2. payload.bit_count \in Nat
      BY DEF PhaseInv
    <2>3. Len(path[node]) = 0
      BY <1>1, <1>4, <1>7, <2>1, <2>2
    <2>4. PICK a \in Seq(Bit) : a = path[node]
      BY <1>3, <2>1, HangsFacts
    <2>5. path[node] = <<>>
      BY <2>3, <2>4, EmptySeq
    <2>6. path[1] = <<>> /\ 1 \in DOMAIN tree
      BY <1>3, HangsFacts DEF Hangs
    <2> QED
      BY <1>3, <2>1, <2>5, <2>6 DEF Hangs
  <1> QED
    BY <1>1, <1>4, <1>5, <1>7, <1>8, TextReadMeansNext

LEMMA TextInvStep ==
  ASSUME ForestInv, TableTypes, CodesInv, CodesInPlace, TreeAfterCodes, TreeInv, PhaseInv,
         TextInv, ReadInv, [Next]_vars
  PROVE  TextInv'
  <1> SUFFICES ASSUME ~foreign, TextOnItsWay PROVE TextOnItsWay'
    <2>1. foreign' = foreign
      BY DEF Next, Step, LengthsStep, CodesBegin, CodesStep, WriteBegin, WriteBit, WriteEnd,
             CheckPayload, TreeBegin, TreeStep, ReadBegin, ReadBit, ReadEnd, HelperFails,
             Terminated, vars
    <2> QED
      BY <2>1 DEF TextInv
  <1> USE DEF Compressing
  <1>1. CASE LengthsStep
    <2>1. text' = text
      BY <1>1 DEF LengthsStep, BuildLengths, NextLeaf, EndLeaves, SiftUp, PopNode, SiftDown, Merge,
                  OnlySymbol, assign_lengths
    <2> QED
      BY <1>1, <2>1 DEF LengthsStep, TextOnItsWay
  <1>2. CASE CodesBegin
    BY <1>2 DEF CodesBegin, StartCodes, TextOnItsWay
  <1>3. ASSUME UNCHANGED <<lengths, text, hpc, table, payload, written, wbit>>, phase' # "fail",
               phase' \in {"read", "ok"} => TextRead',
               \/ phase' = phase
               \/ phase \in {"payload", "table", "tree", "read"}
                     /\ phase' \in {"table", "tree", "read", "ok"}
        PROVE  TextOnItsWay'
    <2>1. ASSUME phase' \notin {"lengths", "codes"} PROVE \E cs : TextWritten(cs)'
      <3>1. PICK cs : TextWritten(cs)
        BY <1>3, <2>1 DEF TextOnItsWay
      <3>2. TextWritten(cs)'
        BY <1>3, <3>1, TextWrittenStays
      <3> QED
        BY <3>2
    <2> QED
      BY <1>3, <2>1 DEF TextOnItsWay
  <1>4. CASE CodesStep
    <2>1. table' = table
      BY <1>4 DEF CodesStep, BuildCodes, FirstCode, NextCode, NoCodeLeft, EndCodes, Give
    <2> QED
      BY <1>3, <1>4, <2>1 DEF CodesStep
  <1>5. CASE WriteBegin
    <2>1. /\ phase = "codes" /\ cpc = "ok" /\ phase' = "write"
          /\ UNCHANGED <<lengths, text, hpc, table, payload, written, wbit>>
      BY <1>5 DEF WriteBegin
    <2>2. Covers(lengths, text)
      BY <2>1, TextCovered DEF TextOnItsWay
    <2>3. Standard(lengths, codes)
      BY <2>1, CodesStandard DEF TextOnItsWay
    <2>4. WritesTo(lengths, text, <<>>, 0, 0, 0, codes)
      BY <2>2, <2>3, WriteStart
    <2>5. payload.data = <<>> /\ payload.bit_count = 0 /\ written = 0 /\ wbit = 0
      BY <2>1 DEF TextOnItsWay
    <2>6. TextWritten(codes)
      BY <2>4, <2>5, TextWrittenMeans
    <2>7. PICK cs : cs = codes
      OBVIOUS
    <2>8. TextWritten(cs)'
      BY <2>1, <2>6, <2>7, TextWrittenStays
    <2> QED
      BY <2>1, <2>8 DEF TextOnItsWay
  <1>6. CASE WriteBit
    <2>1. /\ phase = "write" /\ phase' = "write" /\ UNCHANGED <<lengths, text, hpc, table>>
      BY <1>6 DEF WriteBit
    <2>2. PICK cs : WritesTo(lengths, text, payload'.data, payload'.bit_count, written', wbit', cs)
      BY <1>6, WriteBitStep
    <2>3. TextWritten(cs)'
      BY <1>6, <2>1, <2>2, WriteBitStep, TextWrittenMeansNext
    <2> QED
      BY <2>1, <2>3 DEF TextOnItsWay
  <1>7. CASE WriteEnd
    <2>1. /\ phase = "write" /\ phase' = "payload" /\ written = Len(text)
          /\ UNCHANGED <<lengths, text, hpc, table, written, wbit>>
          /\ payload'.data = payload.data /\ payload'.bit_count = payload.bit_count
          /\ payload'.lengths = lengths /\ payload'.token_size = Len(text)
      BY <1>7 DEF WriteEnd, TableTypes
    <2>2. PICK cs : TextWritten(cs)
      BY <2>1 DEF TextOnItsWay
    <2>3. payload'.data \in Seq(Nat)
      BY <2>1 DEF PhaseInv
    <2>4. TextWritten(cs)'
      BY <2>1, <2>2, <2>3, TextWrittenMeans, TextWrittenMeansNext
    <2> QED
      BY <2>1, <2>4 DEF TextOnItsWay
  <1>8. CASE CheckPayload
    <2>1. phase = "payload" /\ PayloadOK
      BY <1>8, TextPayloadOK DEF CheckPayload
    <2>2. /\ phase' = "table" /\ UNCHANGED <<lengths, text, hpc, payload, written, wbit>>
      BY <1>8, <2>1 DEF CheckPayload
    <2>3. PICK cs : TextWritten(cs)
      BY <2>1 DEF TextOnItsWay
    <2>4. TextWritten(cs)'
      BY <2>2, <2>3, TextWrittenStays
    <2> QED
      BY <2>1, <2>2, <2>4 DEF TextOnItsWay
  <1>9. CASE TreeBegin \/ TreeStep
    BY <1>3, <1>9 DEF TreeBegin, TreeStep
  <1>10. CASE ReadBegin
    BY <1>3, <1>10, TextReadBegin DEF ReadBegin
  <1>11. CASE ReadBit
    BY <1>3, <1>11, TextReadBit DEF ReadBit
  <1>12. CASE ReadEnd
    BY <1>3, <1>12, TextReadEnd DEF ReadEnd
  <1>13. CASE HelperFails
    BY <1>13, HelpersSucceed
  <1>14. CASE Terminated \/ UNCHANGED vars
    <2>1. UNCHANGED <<lengths, text, hpc, table, payload, written, wbit, phase, codes, out, rpos>>
      BY <1>14 DEF Terminated, vars
    <2>2. phase' \in {"read", "ok"} => TextRead'
      BY <2>1, TextReadMeans, TextReadMeansNext DEF TextOnItsWay
    <2>3. phase' # "fail"
      BY <2>1 DEF TextOnItsWay
    <2> QED
      BY <1>3, <2>1, <2>2, <2>3
  <1> QED
    BY <1>1, <1>2, <1>4, <1>5, <1>6, <1>7, <1>8, <1>9, <1>10, <1>11, <1>12, <1>13, <1>14
       DEF Next, Step

----------------------------------------------------------------------------
(* From the text to the result.                                            *)

\* All that is kept on the way.
DecodeInv ==
    /\ HeapInv /\ ForestInv /\ TableTypes
    /\ CodesInv /\ CodesInPlace
    /\ TreeAfterCodes /\ TreeInv
    /\ PhaseInv /\ TextInv /\ ReadInv

LEMMA DecodeInvInit == Init => DecodeInv
  BY HeapInvInit, ForestInvInit, TableTypesInit, CodesInvInit, CodesInPlaceInit,
     TreeAfterCodesInit, TreeInvInit, PhaseInvInit, TextInvInit, ReadInvInit DEF DecodeInv

LEMMA DecodeInvStep == DecodeInv /\ [Next]_vars => DecodeInv'
  <1> SUFFICES ASSUME DecodeInv, [Next]_vars PROVE DecodeInv'
    OBVIOUS
  <1>1. HeapInv' /\ ForestInv' /\ TableTypes'
    BY HeapInvStep, ForestInvStep, TableTypesStep DEF DecodeInv
  <1>2. CodesInv'
    BY CodesInvStep DEF DecodeInv
  <1>3. CodesInPlace'
    BY <1>2, CodesInPlaceStep DEF DecodeInv
  <1>4. TreeAfterCodes' /\ TreeInv'
    BY TreeAfterCodesStep, TreeInvStep DEF DecodeInv
  <1>5. PhaseInv'
    BY PhaseInvStep DEF DecodeInv
  <1>6. TextInv'
    BY TextInvStep DEF DecodeInv
  <1>7. ReadInv'
    BY ReadInvStep DEF DecodeInv
  <1> QED
    BY <1>1, <1>2, <1>3, <1>4, <1>5, <1>6, <1>7 DEF DecodeInv

LEMMA SurvivesMeans ==
  ASSUME PhaseInv, TextInv, ReadInv PROVE TextSurvives
  <1> SUFFICES ASSUME ~foreign PROVE phase # "fail" /\ (phase = "ok" => out = text)
    BY DEF TextSurvives
  <1>1. TextOnItsWay
    BY DEF TextInv
  <1>2. phase # "fail"
    BY <1>1 DEF TextOnItsWay
  <1>3. ASSUME phase = "ok" PROVE out = text
    <2>1. PICK path : ReadStands(path)
      BY <1>3 DEF ReadInv
    <2>2. Len(out) = payload.token_size
      BY <1>3, <2>1 DEF ReadStands
    <2>3. payload.token_size = Len(text) /\ out = SubSeq(text, 1, Len(out))
      BY <1>1, <1>3 DEF TextOnItsWay, Compressing, TextRead
    <2>4. SubSeq(text, 1, Len(text)) = text
      BY DEF PhaseInv
    <2> QED
      BY <2>2, <2>3, <2>4
  <1> QED
    BY <1>2, <1>3

\* In the decoder's loop over any payload, the bits taken are the codes of
\* the symbols put out and the way to the node reached, and it succeeds only
\* at the end of a code, with the bits and the symbols that were announced
\* (huff.c:346-397).
THEOREM DecodesWhatWasCoded == Spec => []DecodedIsCoded
  <1>1. DecodeInv => DecodedIsCoded
    BY DecodedMeans DEF DecodeInv
  <1> QED
    BY <1>1, DecodeInvInit, DecodeInvStep, PTL DEF Spec

\* Whatever the text, its length and the number of symbols: huffman_compress
\* and huffman_decompress refuse nothing of it, and the result is the text
\* (huff.c:315-397).
THEOREM TextsSurvive == Spec => []TextSurvives
  <1>1. DecodeInv => TextSurvives
    BY SurvivesMeans DEF DecodeInv
  <1> QED
    BY <1>1, DecodeInvInit, DecodeInvStep, PTL DEF Spec

====
