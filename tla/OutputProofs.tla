--------------------------- MODULE OutputProofs ----------------------------
(***************************************************************************)
(* The outputs of a batch are kept apart, whatever files, rows and batches *)
(* there are.  The first half is about the operators: a number behind the  *)
(* stem of a name can be read off again, so among one number more than     *)
(* there are paths taken one gives a free path (NumbersApart,              *)
(* SomeNumberIsFree), and Settle, whose recursion is over the places of    *)
(* the list, gives every row a path of its own (SettleFacts).  The second  *)
(* half shows OutputInv inductive, one lemma for each action.              *)
(***************************************************************************)
EXTENDS OutputPaths, NatLemmas, SequenceTheorems, FiniteSetTheorems

----------------------------------------------------------------------------
(* The inductive invariant.                                                *)

Row == [input : Paths, format : Kinds, output : Paths]
Job == [input : Paths, output : Paths, operation : Kinds \cup {"compress"}]

\* No number behind a name makes the one path the other.
Away(path, other) ==
    path.dir # other.dir \/ Len(path.name) # Len(other.name)

PathTypes ==
    /\ disk \in [DOMAIN disk -> Kinds]
    /\ DOMAIN disk \subseteq Paths /\ IsFiniteSet(DOMAIN disk)
    /\ compressMode \in BOOLEAN /\ replanned \in BOOLEAN
    /\ location \in Directories \cup {SourceFolder}
    /\ suffix \in Endings
    /\ tasks \in Seq(Row)
    /\ requests \in Seq(Job)
    /\ done \in 0 .. Len(requests)
    /\ pc \in {"idle", "asking", "running"}
    /\ IsFiniteSet(inputPaths)

\* The rows of the list have inputs and outputs of their own.
ListInv ==
    /\ \A i, j \in DOMAIN tasks :
         i # j => /\ tasks[i].input # tasks[j].input
                  /\ tasks[i].output # tasks[j].output
    /\ \A i \in DOMAIN tasks : Away(tasks[i].output, tasks[i].input)

\* A question is about the list, unless the list was replanned behind it.
QuestionInv ==
    pc = "asking" /\ ~replanned =>
        /\ inputPaths = Inputs(tasks)
        /\ \A i, j \in DOMAIN tasks : tasks[i].output # tasks[j].input

\* Unless existing files may be replaced, no output to come exists.
RequestsInv ==
    /\ OutputsApart
    /\ pc # "running" => requests = <<>> /\ lost = {}
    /\ lost \subseteq {requests[i].output : i \in DOMAIN requests}
    /\ answer # "replace" =>
         /\ lost = {}
         /\ \A i \in DOMAIN requests :
              i > done => requests[i].output \notin DOMAIN disk

\* The inductive invariant behind OutputsApart and ReplacesOnlyIfAsked.
OutputInv == PathTypes /\ ListInv /\ QuestionInv /\ RequestsInv

----------------------------------------------------------------------------
(* Names.                                                                  *)

LEMMA NumberedPath ==
  ASSUME NEW path \in Paths, NEW n \in Nat
  PROVE  /\ makeNumberedPath(path, n) \in Paths
         /\ makeNumberedPath(path, n).dir = path.dir
         /\ Len(makeNumberedPath(path, n).name) = Len(path.name)
  <1> DEFINE stem == IF HasExtension(path.name) THEN Len(path.name) - 1 ELSE Len(path.name)
             part == path.name[stem]
             new  == [part EXCEPT !.numbers = Append(@, n)]
             name == [path.name EXCEPT ![stem] = new]
  <1>1. path.name \in Seq(Parts) /\ path.name # <<>> /\ path.dir \in Folders
        /\ path = [dir |-> path.dir, name |-> path.name]
    BY DEF Paths, Names
  <1>2. Len(path.name) \in Nat \ {0}
    BY <1>1
  <1>3. stem \in 1 .. Len(path.name)
    <2>1. HasExtension(path.name) => Len(path.name) > 1
      BY DEF HasExtension
    <2> QED
      BY <1>2, <2>1
  <1> HIDE DEF stem
  <1>4. part \in Parts
    BY <1>1, <1>3
  <1> HIDE DEF part
  <1>5. new \in Parts
    <2>1. part.numbers \in Seq(Nat) /\ part.word \in Words
      BY <1>4 DEF Parts
    <2>2. Append(part.numbers, n) \in Seq(Nat)
      BY <2>1, AppendProperties
    <2>3. new = [word |-> part.word, numbers |-> Append(part.numbers, n)]
      <3>1. part = [word |-> part.word, numbers |-> part.numbers]
        BY <1>4 DEF Parts
      <3> DEFINE longer == Append(part.numbers, n)
      <3> HIDE DEF longer
      <3>2. [part EXCEPT !.numbers = longer] = [word |-> part.word, numbers |-> longer]
        BY <3>1
      <3>3. [part EXCEPT !.numbers = Append(@, n)] = [part EXCEPT !.numbers = longer]
        BY <3>1 DEF longer
      <3> QED
        BY <3>2, <3>3 DEF longer
    <2> QED
      BY <2>1, <2>2, <2>3 DEF Parts
  <1>6. makeNumberedPath(path, n) = [path EXCEPT !.name = name]
    BY DEF makeNumberedPath, stem, part
  <1> HIDE DEF new
  <1>7. name \in Seq(Parts) /\ Len(name) = Len(path.name)
    BY <1>1, <1>3, <1>5
  <1> HIDE DEF name
  <1>8. name # <<>>
    BY <1>2, <1>7
  <1>9. makeNumberedPath(path, n) = [dir |-> path.dir, name |-> name]
    BY <1>1, <1>6
  <1> QED
    BY <1>1, <1>7, <1>8, <1>9 DEF Paths, Names

\* The last number of a numbered path can be read off again.
LEMMA NumbersApart ==
  ASSUME NEW path \in Paths, NEW m \in Nat, NEW n \in Nat,
         makeNumberedPath(path, m) = makeNumberedPath(path, n)
  PROVE  m = n
  <1> DEFINE stem == IF HasExtension(path.name) THEN Len(path.name) - 1 ELSE Len(path.name)
             numbers == path.name[stem].numbers
             last(p) == p.name[stem].numbers[Len(numbers) + 1]
  <1>1. path.name \in Seq(Parts) /\ path.name # <<>> /\ Len(path.name) \in Nat \ {0}
        /\ path = [dir |-> path.dir, name |-> path.name]
    BY DEF Paths, Names
  <1>2. stem \in 1 .. Len(path.name)
    <2>1. HasExtension(path.name) => Len(path.name) > 1
      BY DEF HasExtension
    <2> QED
      BY <1>1, <2>1
  <1>3. \A k \in Nat : last(makeNumberedPath(path, k)) = k
    <2> SUFFICES ASSUME NEW k \in Nat PROVE last(makeNumberedPath(path, k)) = k
      OBVIOUS
    <2> DEFINE part == path.name[stem]
               longer == Append(numbers, k)
    <2>1. makeNumberedPath(path, k) = [path EXCEPT !.name[stem].numbers = Append(@, k)]
      BY DEF makeNumberedPath
    <2> HIDE DEF stem
    <2>2. part \in Parts
      BY <1>1, <1>2
    <2>3. part = [word |-> part.word, numbers |-> part.numbers] /\ numbers \in Seq(Nat)
      BY <2>2 DEF Parts
    <2>4. makeNumberedPath(path, k).name[stem].numbers = longer
      BY <1>1, <1>2, <2>1, <2>3
    <2>5. longer[Len(numbers) + 1] = k
      BY <2>3, AppendProperties
    <2> QED
      BY <2>4, <2>5
  <1> HIDE DEF last
  <1>4. last(makeNumberedPath(path, m)) = m /\ last(makeNumberedPath(path, n)) = n
    BY <1>3
  <1> QED
    BY <1>4

\* There are more numbers to try than paths that are taken.
LEMMA SomeNumberIsFree ==
  ASSUME NEW path \in Paths, NEW taken, IsFiniteSet(taken)
  PROVE  \E n \in 1 .. Cardinality(taken) + 1 : makeNumberedPath(path, n) \notin taken
  <1> SUFFICES ASSUME \A n \in 1 .. Cardinality(taken) + 1 : makeNumberedPath(path, n) \in taken
               PROVE  FALSE
    OBVIOUS
  <1> DEFINE c == Cardinality(taken)
             numbers == 1 .. c + 1
             f == [n \in numbers |-> makeNumberedPath(path, n)]
  <1>1. c \in Nat
    BY FS_CardinalityType
  <1> HIDE DEF c
  <1>2. f \in [numbers -> taken]
    BY DEF c
  <1>3. IsFiniteSet(numbers) /\ Cardinality(numbers) = c + 1
    <2>1. /\ IsFiniteSet(1 .. c + 1)
          /\ Cardinality(1 .. c + 1) = IF 1 > c + 1 THEN 0 ELSE (c + 1) - 1 + 1
      BY <1>1, FS_Interval
    <2>2. (IF 1 > c + 1 THEN 0 ELSE (c + 1) - 1 + 1) = c + 1
      BY <1>1
    <2> QED
      BY <2>1, <2>2
  <1>4. PICK x, y \in numbers : x # y /\ f[x] = f[y]
    <2>1. Cardinality(taken) < Cardinality(numbers)
      BY <1>1, <1>3 DEF c
    <2> HIDE DEF numbers, f
    <2> QED
      BY <1>2, <1>3, <2>1, FS_PigeonHole
  <1>5. x \in Nat /\ y \in Nat
    BY <1>1
  <1>6. makeNumberedPath(path, x) = makeNumberedPath(path, y)
    BY <1>4
  <1> QED
    BY <1>4, <1>5, <1>6, NumbersApart

\* FirstFree finds a path that is not taken, in the folder and with the number
\* of parts of the one it was given.
LEMMA FirstFreeFacts ==
  ASSUME NEW path \in Paths, NEW taken, IsFiniteSet(taken)
  PROVE  /\ FirstFree(path, taken) \in Paths
         /\ FirstFree(path, taken) \notin taken
         /\ FirstFree(path, taken).dir = path.dir
         /\ Len(FirstFree(path, taken).name) = Len(path.name)
         /\ path \notin taken => FirstFree(path, taken) = path
  <1> DEFINE S == {n \in 1 .. Cardinality(taken) + 1 : makeNumberedPath(path, n) \notin taken}
  <1>1. CASE path \notin taken
    BY <1>1 DEF FirstFree
  <1>2. CASE path \in taken
    <2>1. Cardinality(taken) \in Nat
      BY FS_CardinalityType
    <2>2. S \in SUBSET Nat /\ S # {}
      BY <2>1, SomeNumberIsFree
    <2>3. \E x \in S : \A y \in S : x <= y
      <3> HIDE DEF S
      <3> QED
        BY <2>2, LeastNat
    <2>4. Min(S) \in S
      BY <2>3 DEF Min
    <2>5. FirstFree(path, taken) = makeNumberedPath(path, Min(S))
      BY <1>2 DEF FirstFree
    <2>6. Min(S) \in Nat /\ makeNumberedPath(path, Min(S)) \notin taken
      BY <2>2, <2>4
    <2> QED
      BY <1>2, <2>5, <2>6, NumberedPath
  <1> QED
    BY <1>1, <1>2

LEMMA ImageFinite ==
  ASSUME NEW m \in Nat, NEW f, DOMAIN f = 1 .. m
  PROVE  IsFiniteSet({f[j] : j \in 1 .. m})
  <1> DEFINE T == {f[j] : j \in 1 .. m}
             g == [j \in 1 .. m |-> f[j]]
  <1>1. g \in Surjection(1 .. m, T)
    BY DEF Surjection
  <1>2. IsFiniteSet(1 .. m)
    BY FS_Interval
  <1> HIDE DEF g, T
  <1>3. IsFiniteSet(T)
    BY <1>1, <1>2, FS_Surjection
  <1> QED
    BY <1>3 DEF T

----------------------------------------------------------------------------
(* Settle, whose recursion is over the places of the list.                 *)

\* The equation of the recursion.
Settles(s, paths, taken) ==
    s = [i \in 1 .. Len(paths) |->
            FirstFree(paths[i], taken \cup {s[j] : j \in 1 .. i - 1})]

LEMMA SettleExists ==
  ASSUME NEW paths \in Seq(Paths), NEW taken, IsFiniteSet(taken)
  PROVE  \E s \in Seq(Paths) : Settles(s, paths, taken)
  <1> DEFINE n == Len(paths)
             next(i, q) == IF i < n THEN Append(q, FirstFree(paths[i + 1], taken \cup ToSet(q)))
                           ELSE q
             step == [p \in Nat \X Seq(Paths) |-> next(p[1], p[2])]
  <1>1. n \in Nat /\ \A i \in 1 .. n : paths[i] \in Paths
    OBVIOUS
  <1>2. ASSUME NEW i \in Nat, NEW q \in Seq(Paths), i < n
        PROVE  /\ FirstFree(paths[i + 1], taken \cup ToSet(q)) \in Paths
               /\ next(i, q) \in Seq(Paths)
    <2>1. i + 1 \in 1 .. n
      BY <1>1, <1>2
    <2>2. Len(q) \in Nat /\ DOMAIN q = 1 .. Len(q)
      OBVIOUS
    <2>3. ToSet(q) = {q[j] : j \in 1 .. Len(q)}
      BY <2>2 DEF ToSet
    <2>4. IsFiniteSet(ToSet(q))
      BY <2>2, <2>3, ImageFinite
    <2>5. IsFiniteSet(taken \cup ToSet(q))
      BY <2>4, FS_Union
    <2>6. FirstFree(paths[i + 1], taken \cup ToSet(q)) \in Paths
      BY <1>1, <2>1, <2>5, FirstFreeFacts
    <2> QED
      BY <1>2, <2>6, AppendProperties
  <1>3. step \in [Nat \X Seq(Paths) -> Seq(Paths)]
    <2>1. ASSUME NEW i \in Nat, NEW q \in Seq(Paths) PROVE next(i, q) \in Seq(Paths)
      BY <1>2
    <2> HIDE DEF next
    <2> QED
      BY <2>1
  <1>4. <<>> \in Seq(Paths)
    BY EmptySeq
  <1>5. PICK g : Follows(g, Seq(Paths), <<>>, step)
    <2> HIDE DEF step
    <2> QED
      BY <1>3, <1>4, RecursionExists
  <1>6. /\ g \in [Nat -> Seq(Paths)] /\ g[0] = <<>>
        /\ \A i \in Nat : g[i + 1] = next(i, g[i])
    <2>1. /\ g \in [Nat -> Seq(Paths)] /\ g[0] = <<>>
          /\ \A i \in Nat : g[i + 1] = step[<<i, g[i]>>]
      BY <1>5 DEF Follows
    <2>2. \A i \in Nat : step[<<i, g[i]>>] = next(i, g[i])
      <3> HIDE DEF next
      <3> QED
        BY <2>1
    <2> HIDE DEF step, next
    <2> QED
      BY <2>1, <2>2
  <1>7. \A i \in Nat : i <= n => Len(g[i]) = i
    <2> DEFINE T == {i \in Nat : i <= n => Len(g[i]) = i}
    <2>1. 0 \in T
      BY <1>6
    <2>2. ASSUME NEW i \in T PROVE i + 1 \in T
      <3>1. ASSUME i + 1 <= n PROVE Len(g[i + 1]) = i + 1
        <4>1. i < n /\ Len(g[i]) = i /\ g[i] \in Seq(Paths)
          <5>1. i \in Nat /\ (i <= n => Len(g[i]) = i)
            OBVIOUS
          <5>2. n \in Nat
            OBVIOUS
          <5> HIDE DEF n, T
          <5>3. i < n
            BY <3>1, <5>1, <5>2
          <5> QED
            BY <1>6, <5>1, <5>2, <5>3
        <4>2. g[i + 1] = Append(g[i], FirstFree(paths[i + 1], taken \cup ToSet(g[i])))
          BY <1>6, <4>1
        <4>3. FirstFree(paths[i + 1], taken \cup ToSet(g[i])) \in Paths
          BY <1>2, <4>1
        <4> QED
          BY <4>1, <4>2, <4>3, AppendProperties
      <3> QED
        BY <3>1
    <2>3. T = Nat
      <3> HIDE DEF T
      <3> QED
        BY <2>1, <2>2, NatInductionSet DEF T
    <2> QED
      BY <2>3
  <1>8. ASSUME NEW i \in Nat, i < n
        PROVE  /\ g[i + 1][i + 1] = FirstFree(paths[i + 1], taken \cup ToSet(g[i]))
               /\ \A j \in 1 .. i : g[i + 1][j] = g[i][j]
    <2>1. g[i] \in Seq(Paths) /\ Len(g[i]) = i
      BY <1>1, <1>6, <1>7, <1>8
    <2>2. g[i + 1] = Append(g[i], FirstFree(paths[i + 1], taken \cup ToSet(g[i])))
      BY <1>6, <1>8
    <2>3. FirstFree(paths[i + 1], taken \cup ToSet(g[i])) \in Paths
      BY <1>2, <1>8, <2>1
    <2> QED
      BY <2>1, <2>2, <2>3, AppendProperties
  <1>9. \A i \in Nat : i <= n => \A j \in 1 .. i : g[i][j] = g[j][j]
    <2> DEFINE T == {i \in Nat : i <= n => \A j \in 1 .. i : g[i][j] = g[j][j]}
    <2>1. 0 \in T
      OBVIOUS
    <2>2. ASSUME NEW i \in T PROVE i + 1 \in T
      <3>1. ASSUME i + 1 <= n, NEW j \in 1 .. i + 1 PROVE g[i + 1][j] = g[j][j]
        <4>1. i < n
          BY <1>1, <3>1
        <4>2. CASE j = i + 1
          BY <4>2
        <4>3. CASE j # i + 1
          <5>1. j \in 1 .. i
            BY <3>1, <4>3
          <5>2. g[i + 1][j] = g[i][j]
            BY <1>8, <4>1, <5>1
          <5>3. i <= n
            BY <1>1, <4>1
          <5>4. g[i][j] = g[j][j]
            BY <2>2, <5>1, <5>3
          <5> QED
            BY <5>2, <5>4
        <4> QED
          BY <4>2, <4>3
      <3> QED
        BY <3>1
    <2>3. T = Nat
      <3> HIDE DEF T
      <3> QED
        BY <2>1, <2>2, NatInductionSet DEF T
    <2> QED
      BY <2>3
  <1> DEFINE s == g[n]
  <1>10. s \in Seq(Paths) /\ Len(s) = n /\ \A i \in 1 .. n : s[i] = g[i][i]
    <2>1. n \in Nat /\ n <= n
      BY <1>1
    <2>2. s \in Seq(Paths)
      BY <1>6, <2>1
    <2>3. Len(s) = n
      BY <1>7, <2>1
    <2>4. \A i \in 1 .. n : s[i] = g[i][i]
      BY <1>9, <2>1
    <2> QED
      BY <2>2, <2>3, <2>4
  <1>11. ASSUME NEW i \in 1 .. n
         PROVE  s[i] = FirstFree(paths[i], taken \cup {s[j] : j \in 1 .. i - 1})
    <2>1. i - 1 \in Nat /\ i - 1 < n /\ (i - 1) + 1 = i
      BY <1>1
    <2>2. g[i][i] = FirstFree(paths[i], taken \cup ToSet(g[i - 1]))
      BY <1>8, <2>1
    <2>3. ToSet(g[i - 1]) = {s[j] : j \in 1 .. i - 1}
      <3>1. g[i - 1] \in Seq(Paths) /\ Len(g[i - 1]) = i - 1
        <4>1. i - 1 \in Nat /\ i - 1 <= n
          BY <1>1, <2>1
        <4>2. Len(g[i - 1]) = i - 1
          BY <1>7, <4>1
        <4>3. g[i - 1] \in Seq(Paths)
          BY <1>6, <4>1
        <4> QED
          BY <4>2, <4>3
      <3>2. ToSet(g[i - 1]) = {g[i - 1][j] : j \in 1 .. i - 1}
        BY <3>1 DEF ToSet
      <3>3. \A j \in 1 .. i - 1 : g[i - 1][j] = s[j]
        <4> SUFFICES ASSUME NEW j \in 1 .. i - 1 PROVE g[i - 1][j] = s[j]
          OBVIOUS
        <4>1. i - 1 \in Nat /\ i - 1 <= n /\ j \in 1 .. n
          BY <1>1, <2>1
        <4>2. g[i - 1][j] = g[j][j]
          BY <1>9, <4>1
        <4>3. s[j] = g[j][j]
          BY <1>10, <4>1
        <4> QED
          BY <4>2, <4>3
      <3> HIDE DEF s
      <3> QED
        BY <3>2, <3>3
    <2> QED
      BY <1>10, <2>2, <2>3
  <1>12. s = [i \in 1 .. n |-> FirstFree(paths[i], taken \cup {s[j] : j \in 1 .. i - 1})]
    <2> HIDE DEF s, n
    <2>1. s \in Seq(Paths) /\ DOMAIN s = 1 .. n
      BY <1>10
    <2>2. s = [i \in 1 .. n |-> s[i]]
      BY <2>1
    <2>3. [i \in 1 .. n |-> s[i]]
            = [i \in 1 .. n |-> FirstFree(paths[i], taken \cup {s[j] : j \in 1 .. i - 1})]
      BY <1>11
    <2> QED
      BY <2>2, <2>3
  <1>13. Settles(s, paths, taken)
    <2> HIDE DEF s
    <2> QED
      BY <1>12 DEF Settles
  <1> HIDE DEF s
  <1> QED
    BY <1>10, <1>13

\* What Settle returns: every path settled stays in its folder, away from the
\* paths taken and from all the others.
LEMMA SettleFacts ==
  ASSUME NEW paths \in Seq(Paths), NEW taken, IsFiniteSet(taken), NEW s, s = Settle(paths, taken)
  PROVE  /\ s \in Seq(Paths) /\ Len(s) = Len(paths)
         /\ \A i \in DOMAIN paths :
               s[i] \notin taken /\ s[i].dir = paths[i].dir
               /\ Len(s[i].name) = Len(paths[i].name)
         /\ \A i, j \in DOMAIN paths : i # j => s[i] # s[j]
  <1> DEFINE n == Len(paths)
  <1>1. n \in Nat /\ DOMAIN paths = 1 .. n /\ \A i \in 1 .. n : paths[i] \in Paths
    OBVIOUS
  <1>2. s = CHOOSE f : Settles(f, paths, taken)
    BY DEF Settle, Settles
  <1>3. \E f : Settles(f, paths, taken)
    BY SettleExists
  <1>4. Settles(s, paths, taken)
    BY <1>2, <1>3
  <1>5. /\ DOMAIN s = 1 .. n
        /\ \A i \in 1 .. n : s[i] = FirstFree(paths[i], taken \cup {s[j] : j \in 1 .. i - 1})
    BY <1>4 DEF Settles
  <1>6. ASSUME NEW i \in 1 .. n PROVE IsFiniteSet(taken \cup {s[j] : j \in 1 .. i - 1})
    <2> DEFINE f == [j \in 1 .. i - 1 |-> s[j]]
    <2>1. i - 1 \in Nat /\ DOMAIN f = 1 .. i - 1
      BY <1>1
    <2>2. {f[j] : j \in 1 .. i - 1} = {s[j] : j \in 1 .. i - 1}
      OBVIOUS
    <2> HIDE DEF f
    <2>3. IsFiniteSet({s[j] : j \in 1 .. i - 1})
      BY <2>1, <2>2, ImageFinite
    <2> QED
      BY <2>3, FS_Union
  <1>7. ASSUME NEW i \in 1 .. n
        PROVE  /\ s[i] \in Paths /\ s[i] \notin taken
               /\ s[i].dir = paths[i].dir /\ Len(s[i].name) = Len(paths[i].name)
               /\ \A j \in 1 .. i - 1 : s[i] # s[j]
    <2> DEFINE avoid == taken \cup {s[j] : j \in 1 .. i - 1}
    <2>1. s[i] = FirstFree(paths[i], avoid) /\ IsFiniteSet(avoid) /\ paths[i] \in Paths
      BY <1>1, <1>5, <1>6
    <2>2. taken \subseteq avoid /\ \A j \in 1 .. i - 1 : s[j] \in avoid
      OBVIOUS
    <2> HIDE DEF avoid
    <2>3. /\ s[i] \in Paths /\ s[i] \notin avoid
          /\ s[i].dir = paths[i].dir /\ Len(s[i].name) = Len(paths[i].name)
      BY <2>1, FirstFreeFacts
    <2> QED
      BY <2>2, <2>3
  <1>8. s \in Seq(Paths) /\ Len(s) = n
    <2>1. s = [i \in 1 .. n |-> s[i]]
      BY <1>4 DEF Settles
    <2>2. s \in [1 .. n -> Paths]
      BY <1>7, <2>1
    <2> QED
      BY <1>1, <2>2
  <1>9. \A i, j \in 1 .. n : i # j => s[i] # s[j]
    <2>1. \A i, j \in 1 .. n : i < j => s[i] # s[j]
      BY <1>1, <1>7
    <2> QED
      BY <1>1, <2>1
  <1> QED
    BY <1>1, <1>7, <1>8, <1>9

----------------------------------------------------------------------------
(* The list.                                                               *)

LEMMA OneLess ==
  ASSUME NEW k \in Nat, k > 1 PROVE k - 1 # 0 /\ k - 1 # k
  OBVIOUS

\* A proposal differs from its input in the folder or the number of parts.
LEMMA ProposalFacts ==
  ASSUME compressMode \in BOOLEAN, NEW row \in Row, NEW input, input = row.input,
         NEW where \in Directories \cup {SourceFolder}, NEW ending \in Endings,
         NEW p, p = proposedOutputPath(row, where, ending)
  PROVE  p \in Paths /\ Away(p, input)
  <1> DEFINE dir  == IF where = SourceFolder THEN input.dir ELSE where
             name == IF compressMode THEN input.name \o ending
                     ELSE Extracted(input.name, row.format)
             path == [dir |-> dir, name |-> name]
             longer == Append(name, Part("restored"))
  <1>1. /\ input \in Paths /\ input.dir \in Folders
        /\ input.name \in Seq(Parts) /\ input.name # <<>>
        /\ input = [dir |-> input.dir, name |-> input.name]
    BY DEF Row, Paths, Names
  <1>2. Len(input.name) \in Nat \ {0}
    BY <1>1
  <1>3. dir \in Folders
    BY <1>1 DEF Folders
  <1>4. Part("restored") \in Parts
    <2>1. <<>> \in Seq(Nat) /\ "restored" \in Words
      BY FilesAssumption, EmptySeq
    <2> QED
      BY <2>1 DEF Part, Parts
  <1>5. /\ name \in Seq(Parts) /\ Len(name) # 0
        /\ compressMode \/ Len(name) # Len(input.name)
    <2>1. CASE compressMode
      <3>1. ending \in Seq(Parts)
        BY FilesAssumption
      <3>2. name = input.name \o ending
        BY <2>1
      <3>3. name \in Seq(Parts) /\ Len(name) = Len(input.name) + Len(ending)
        <4> HIDE DEF name
        <4> QED
          BY <1>1, <3>1, <3>2, ConcatProperties
      <3> QED
        BY <1>2, <2>1, <3>1, <3>3
    <2>2. CASE ~compressMode
      <3>1. name = Extracted(input.name, row.format)
        BY <2>2
      <3> HIDE DEF name
      <3>2. CASE name = Front(input.name) /\ HasExtension(input.name)
        <4>1. Len(input.name) > 1
          BY <3>2 DEF HasExtension
        <4>2. name = SubSeq(input.name, 1, Len(input.name) - 1)
          BY <3>2 DEF Front
        <4>3. PICK k \in Nat : k > 1 /\ k = Len(input.name)
          BY <1>2, <4>1
        <4>4. name \in Seq(Parts) /\ Len(name) = k - 1
          BY <1>1, <4>2, <4>3
        <4>5. k - 1 # 0 /\ k - 1 # k
          BY <4>3, OneLess
        <4> QED
          BY <4>3, <4>4, <4>5
      <3>3. CASE name = Append(input.name, Part("restored"))
        <4>1. name \in Seq(Parts) /\ Len(name) = Len(input.name) + 1
          BY <1>1, <1>4, <3>3, AppendProperties
        <4> QED
          BY <1>2, <4>1
      <3> QED
        BY <3>1, <3>2, <3>3 DEF Extracted
    <2> QED
      BY <2>1, <2>2
  <1>6. /\ longer \in Seq(Parts) /\ Len(longer) = Len(name) + 1
    <2> HIDE DEF name
    <2> QED
      BY <1>4, <1>5, AppendProperties
  <1>7. p = IF path = input THEN [path EXCEPT !.name = Append(@, Part("restored"))]
            ELSE path
    BY DEF proposedOutputPath
  <1>8. p = IF path = input THEN [dir |-> dir, name |-> longer] ELSE path
    <2> HIDE DEF dir, name
    <2>1. [path EXCEPT !.name = Append(@, Part("restored"))] = [dir |-> dir, name |-> longer]
      OBVIOUS
    <2> HIDE DEF path, longer
    <2> QED
      BY <1>7, <2>1
  <1>9. longer # <<>> /\ name # <<>>
    <2> HIDE DEF name, longer
    <2> QED
      BY <1>5, <1>6
  <1>10. p \in Paths
    <2> HIDE DEF name, dir, longer
    <2>1. [dir |-> dir, name |-> longer] \in Paths /\ [dir |-> dir, name |-> name] \in Paths
      BY <1>3, <1>5, <1>6, <1>9 DEF Paths, Names
    <2> QED
      BY <1>8, <2>1
  <1>11. Away(p, input)
    <2> HIDE DEF name, dir, longer
    <2>1. CASE path = input
      <3>1. p = [dir |-> dir, name |-> longer] /\ name = input.name
        BY <1>8, <2>1
      <3>2. Len(p.name) = Len(input.name) + 1
        BY <1>6, <3>1
      <3> QED
        BY <1>2, <3>2 DEF Away
    <2>2. CASE path # input
      <3>1. p.dir = dir /\ p.name = name
        BY <1>8, <2>2
      <3>2. CASE dir # input.dir
        BY <3>1, <3>2 DEF Away
      <3>3. CASE dir = input.dir
        <4>1. name # input.name
          BY <1>1, <2>2, <3>3
        <4>2. CASE ~compressMode
          BY <1>5, <3>1, <4>2 DEF Away
        <4>3. CASE compressMode
          <5>1. ending \in Seq(Parts) /\ name = input.name \o ending
            BY <4>3, FilesAssumption DEF name
          <5>2. ending # <<>>
            BY <1>1, <4>1, <5>1, ConcatEmptySeq
          <5>3. Len(ending) \in Nat \ {0}
            BY <5>1, <5>2
          <5>4. Len(name) = Len(input.name) + Len(ending)
            BY <1>1, <5>1, ConcatProperties
          <5> QED
            BY <1>2, <3>1, <5>3, <5>4 DEF Away
        <4> QED
          BY <4>2, <4>3
      <3> QED
        BY <3>2, <3>3
    <2> QED
      BY <2>1, <2>2
  <1> QED
    BY <1>10, <1>11

LEMMA WithOutputsFacts ==
  ASSUME NEW rows \in Seq(Row), NEW outputs \in Seq(Paths), Len(outputs) = Len(rows),
         NEW new, new = WithOutputs(rows, outputs)
  PROVE  /\ new \in Seq(Row) /\ Len(new) = Len(rows) /\ DOMAIN new = DOMAIN rows
         /\ \A i \in DOMAIN rows :
              /\ new[i].input = rows[i].input /\ new[i].format = rows[i].format
              /\ new[i].output = outputs[i]
  <1>1. /\ DOMAIN rows = 1 .. Len(rows) /\ Len(rows) \in Nat
        /\ \A i \in 1 .. Len(rows) : rows[i] \in Row /\ outputs[i] \in Paths
    OBVIOUS
  <1>2. new = [i \in 1 .. Len(rows) |-> [rows[i] EXCEPT !.output = outputs[i]]]
    BY <1>1 DEF WithOutputs
  <1>3. \A i \in 1 .. Len(rows) :
           /\ new[i] \in Row
           /\ new[i].input = rows[i].input /\ new[i].format = rows[i].format
           /\ new[i].output = outputs[i]
    BY <1>1, <1>2 DEF Row
  <1>4. new \in [1 .. Len(rows) -> Row]
    BY <1>2, <1>3
  <1>5. new \in Seq(Row) /\ Len(new) = Len(rows)
    BY <1>1, <1>4
  <1> QED
    BY <1>1, <1>3, <1>5

\* updateOutputPaths keeps the inputs and gives every row an output of its own.
LEMMA PlanFacts ==
  ASSUME compressMode \in BOOLEAN, NEW rows \in Seq(Row),
         NEW where \in Directories \cup {SourceFolder}, NEW ending \in Endings,
         NEW new, new = updateOutputPaths(rows, where, ending)
  PROVE  /\ new \in Seq(Row) /\ Len(new) = Len(rows) /\ DOMAIN new = DOMAIN rows
         /\ \A i \in DOMAIN rows :
              /\ new[i].input = rows[i].input /\ new[i].format = rows[i].format
              /\ Away(new[i].output, rows[i].input)
         /\ \A i, j \in DOMAIN rows : i # j => new[i].output # new[j].output
  <1> DEFINE proposed == [i \in DOMAIN rows |-> proposedOutputPath(rows[i], where, ending)]
             settled == Settle(proposed, {})
  <1>1. DOMAIN rows = 1 .. Len(rows) /\ Len(rows) \in Nat /\ \A i \in DOMAIN rows : rows[i] \in Row
    OBVIOUS
  <1>2. \A i \in DOMAIN rows : proposed[i] \in Paths /\ Away(proposed[i], rows[i].input)
    BY <1>1, ProposalFacts
  <1>3. DOMAIN proposed = 1 .. Len(rows)
    BY <1>1
  <1>4. new = WithOutputs(rows, settled)
    BY DEF updateOutputPaths
  <1> HIDE DEF proposed
  <1>5. proposed \in Seq(Paths) /\ Len(proposed) = Len(rows)
    <2>1. proposed \in [1 .. Len(rows) -> Paths]
      BY <1>1, <1>2, <1>3 DEF proposed
    <2> QED
      BY <1>1, <2>1
  <1>6. IsFiniteSet({})
    BY FS_EmptySet
  <1> HIDE DEF settled
  <1>7. /\ settled \in Seq(Paths) /\ Len(settled) = Len(rows)
        /\ \A i \in DOMAIN rows : settled[i].dir = proposed[i].dir
                                  /\ Len(settled[i].name) = Len(proposed[i].name)
        /\ \A i, j \in DOMAIN rows : i # j => settled[i] # settled[j]
    BY <1>1, <1>3, <1>5, <1>6, SettleFacts DEF settled
  <1>8. \A i \in DOMAIN rows : Away(settled[i], rows[i].input)
    BY <1>2, <1>7 DEF Away
  <1>9. /\ new \in Seq(Row) /\ Len(new) = Len(rows) /\ DOMAIN new = DOMAIN rows
        /\ \A i \in DOMAIN rows :
              /\ new[i].input = rows[i].input /\ new[i].format = rows[i].format
              /\ new[i].output = settled[i]
    BY <1>4, <1>7, WithOutputsFacts
  <1> QED
    BY <1>7, <1>8, <1>9

----------------------------------------------------------------------------
(* Lists of rows.                                                          *)

InputsDiffer(rows) ==
    \A i, j \in DOMAIN rows : i # j => rows[i].input # rows[j].input

\* What ListInv says of the list.
Planned(rows) ==
    /\ InputsDiffer(rows)
    /\ \A i, j \in DOMAIN rows : i # j => rows[i].output # rows[j].output
    /\ \A i \in DOMAIN rows : Away(rows[i].output, rows[i].input)

LEMMA ListIsPlanned == ListInv <=> Planned(tasks)
  BY DEF ListInv, Planned, InputsDiffer

LEMMA PlanGood ==
  ASSUME compressMode \in BOOLEAN, NEW rows \in Seq(Row), InputsDiffer(rows),
         NEW where \in Directories \cup {SourceFolder}, NEW ending \in Endings,
         NEW new, new = updateOutputPaths(rows, where, ending)
  PROVE  new \in Seq(Row) /\ Planned(new)
  <1>1. /\ new \in Seq(Row) /\ DOMAIN new = DOMAIN rows
        /\ \A i \in DOMAIN rows :
              /\ new[i].input = rows[i].input
              /\ Away(new[i].output, rows[i].input)
        /\ \A i, j \in DOMAIN rows : i # j => new[i].output # new[j].output
    BY PlanFacts
  <1> QED
    BY <1>1 DEF Planned, InputsDiffer

\* Settling the outputs of a list again leaves it planned.
LEMMA ResettleGood ==
  ASSUME NEW rows \in Seq(Row), Planned(rows), NEW taken, IsFiniteSet(taken),
         NEW new, new = WithOutputs(rows, Settle(Outputs(rows), taken))
  PROVE  /\ new \in Seq(Row) /\ Planned(new) /\ DOMAIN new = DOMAIN rows
         /\ \A i \in DOMAIN rows :
               new[i].input = rows[i].input /\ new[i].output \notin taken
  <1> DEFINE outputs == Outputs(rows)
             settled == Settle(outputs, taken)
  <1>1. DOMAIN rows = 1 .. Len(rows) /\ Len(rows) \in Nat /\ \A i \in DOMAIN rows : rows[i] \in Row
    OBVIOUS
  <1>2. /\ outputs \in Seq(Paths) /\ Len(outputs) = Len(rows)
        /\ \A i \in DOMAIN rows : outputs[i] = rows[i].output
    <2>1. outputs = [i \in 1 .. Len(rows) |-> rows[i].output]
      BY <1>1 DEF Outputs
    <2>2. \A i \in 1 .. Len(rows) : rows[i].output \in Paths
      BY <1>1 DEF Row
    <2>3. outputs \in [1 .. Len(rows) -> Paths]
      BY <2>1, <2>2
    <2> QED
      BY <1>1, <2>1, <2>3
  <1> HIDE DEF outputs
  <1>3. DOMAIN outputs = DOMAIN rows
    BY <1>1, <1>2
  <1> HIDE DEF settled
  <1>4. /\ settled \in Seq(Paths) /\ Len(settled) = Len(rows)
        /\ \A i \in DOMAIN rows :
              settled[i] \notin taken /\ settled[i].dir = rows[i].output.dir
              /\ Len(settled[i].name) = Len(rows[i].output.name)
        /\ \A i, j \in DOMAIN rows : i # j => settled[i] # settled[j]
    BY <1>2, <1>3, SettleFacts DEF settled
  <1>5. new = WithOutputs(rows, settled)
    BY DEF settled, outputs
  <1>6. /\ new \in Seq(Row) /\ DOMAIN new = DOMAIN rows
        /\ \A i \in DOMAIN rows :
              new[i].input = rows[i].input /\ new[i].output = settled[i]
    BY <1>4, <1>5, WithOutputsFacts
  <1>7. \A i \in DOMAIN rows : Away(new[i].output, new[i].input)
    <2>1. ASSUME NEW i \in DOMAIN rows
          PROVE  Away(settled[i], rows[i].input)
      BY <1>4 DEF Planned, Away
    <2> QED
      BY <1>6, <2>1
  <1> QED
    BY <1>4, <1>6, <1>7 DEF Planned, InputsDiffer

LEMMA InputsFinite ==
  ASSUME NEW rows \in Seq(Row) PROVE IsFiniteSet(Inputs(rows))
  <1> DEFINE f == [i \in 1 .. Len(rows) |-> rows[i].input]
  <1>1. Len(rows) \in Nat /\ DOMAIN rows = 1 .. Len(rows)
    OBVIOUS
  <1>2. Inputs(rows) = {f[i] : i \in 1 .. Len(rows)} /\ DOMAIN f = 1 .. Len(rows)
    BY <1>1 DEF Inputs
  <1> HIDE DEF f
  <1> QED
    BY <1>1, <1>2, ImageFinite

LEMMA SameInputs ==
  ASSUME NEW rows, NEW new, DOMAIN new = DOMAIN rows,
         \A i \in DOMAIN rows : new[i].input = rows[i].input
  PROVE  Inputs(new) = Inputs(rows)
  BY DEF Inputs

LEMMA AddGood ==
  ASSUME NEW rows \in Seq(Row), InputsDiffer(rows), NEW row \in Row,
         row.input \notin Inputs(rows)
  PROVE  Append(rows, row) \in Seq(Row) /\ InputsDiffer(Append(rows, row))
  <1> DEFINE new == Append(rows, row)
  <1>1. /\ new \in Seq(Row) /\ DOMAIN new = 1 .. Len(rows) + 1 /\ DOMAIN rows = 1 .. Len(rows)
        /\ Len(rows) \in Nat
        /\ \A i \in 1 .. Len(rows) : new[i] = rows[i]
        /\ new[Len(rows) + 1] = row
    BY AppendProperties
  <1> HIDE DEF new
  <1>2. \A i \in 1 .. Len(rows) : rows[i].input # row.input
    BY <1>1 DEF Inputs
  <1>3. ASSUME NEW i \in DOMAIN new, NEW j \in DOMAIN new, i # j
        PROVE  new[i].input # new[j].input
    <2>1. CASE i \in 1 .. Len(rows) /\ j \in 1 .. Len(rows)
      BY <1>1, <1>3, <2>1 DEF InputsDiffer
    <2>2. CASE i = Len(rows) + 1 /\ j \in 1 .. Len(rows)
      BY <1>1, <1>2, <2>2
    <2>3. CASE j = Len(rows) + 1 /\ i \in 1 .. Len(rows)
      BY <1>1, <1>2, <2>3
    <2> QED
      BY <1>1, <1>3, <2>1, <2>2, <2>3
  <1>4. InputsDiffer(new)
    BY <1>3 DEF InputsDiffer
  <1> QED
    BY <1>1, <1>4 DEF new

LEMMA RemoveGood ==
  ASSUME NEW rows \in Seq(Row), InputsDiffer(rows), NEW k \in DOMAIN rows
  PROVE  RemoveAt(rows, k) \in Seq(Row) /\ InputsDiffer(RemoveAt(rows, k))
  <1> DEFINE new    == RemoveAt(rows, k)
             old(i) == IF i < k THEN i ELSE i + 1
             left   == SubSeq(rows, 1, k - 1)
             right  == SubSeq(rows, k + 1, Len(rows))
  <1>1. Len(rows) \in Nat /\ DOMAIN rows = 1 .. Len(rows) /\ k \in 1 .. Len(rows)
    OBVIOUS
  <1>2. /\ left \in Seq(Row) /\ Len(left) = k - 1
        /\ \A i \in 1 .. k - 1 : left[i] = rows[i]
    BY <1>1, SubSeqProperties
  <1>3. /\ right \in Seq(Row) /\ Len(right) = Len(rows) - k
        /\ \A i \in 1 .. Len(rows) - k : right[i] = rows[k + i]
    BY <1>1, SubSeqProperties
  <1>4. new = left \o right
    BY DEF RemoveAt
  <1> HIDE DEF left, right, new
  <1>5. new \in Seq(Row) /\ DOMAIN new = 1 .. Len(rows) - 1
    <2>1. left \in Seq(Row) /\ right \in Seq(Row)
      BY <1>2, <1>3
    <2>2. new \in Seq(Row) /\ Len(new) = Len(left) + Len(right)
      BY ONLY <2>1, <1>4, ConcatProperties
    <2>3. (k - 1) + (Len(rows) - k) = Len(rows) - 1
      BY <1>1
    <2> QED
      BY <1>2, <1>3, <2>2, <2>3
  <1>6. ASSUME NEW i \in DOMAIN new
        PROVE  new[i] = rows[old(i)] /\ old(i) \in DOMAIN rows
    <2>1. i \in 1 .. Len(rows) - 1
      BY <1>5
    <2>2. new[i] = IF i <= Len(left) THEN left[i] ELSE right[i - Len(left)]
      BY <1>1, <1>2, <1>3, <1>4, <2>1, ConcatProperties
    <2>3. CASE i < k
      BY <1>1, <1>2, <2>1, <2>2, <2>3
    <2>4. CASE ~(i < k)
      <3>1. new[i] = right[i - (k - 1)] /\ i - (k - 1) \in 1 .. Len(rows) - k
        BY <1>1, <1>2, <2>1, <2>2, <2>4
      <3>2. k + (i - (k - 1)) = i + 1
        BY <1>1, <2>1
      <3>3. right[i - (k - 1)] = rows[i + 1]
        BY <1>3, <3>1, <3>2
      <3>4. i + 1 \in 1 .. Len(rows)
        BY <1>1, <2>1
      <3> QED
        BY <1>1, <2>4, <3>1, <3>3, <3>4
    <2> QED
      BY <2>3, <2>4
  <1>7. \A i, j \in DOMAIN new : i # j => old(i) # old(j)
    BY <1>1, <1>5
  <1> HIDE DEF old
  <1>8. InputsDiffer(new)
    BY <1>6, <1>7 DEF InputsDiffer
  <1> QED
    BY <1>5, <1>8 DEF new

----------------------------------------------------------------------------
(* The inductive invariant.                                                *)

LEMMA InitOutputInv == Init => OutputInv
  <1> SUFFICES ASSUME Init PROVE OutputInv
    OBVIOUS
  <1>1. PICK there \in SUBSET DOMAIN Files : disk = Restrict(Files, there)
    BY DEF Init
  <1>2. /\ disk \in [DOMAIN disk -> Kinds] /\ DOMAIN disk \subseteq Paths
        /\ DOMAIN disk = there
    BY <1>1, FilesAssumption DEF Restrict
  <1>3. IsFiniteSet(DOMAIN disk)
    BY <1>1, <1>2, FilesAssumption, FS_Subset
  <1>4. PathTypes
    <2>1. tasks \in Seq(Row) /\ requests \in Seq(Job) /\ done \in 0 .. Len(requests)
      BY EmptySeq DEF Init
    <2>2. IsFiniteSet(inputPaths)
      BY FS_EmptySet DEF Init
    <2> QED
      BY <1>2, <1>3, <2>1, <2>2 DEF Init, PathTypes
  <1>5. ListInv /\ QuestionInv /\ RequestsInv
    BY DEF Init, ListInv, QuestionInv, RequestsInv, OutputsApart
  <1> QED
    BY <1>4, <1>5 DEF OutputInv

\* Outside a batch there are no requests to speak of.
LEMMA NoRequests ==
  ASSUME RequestsInv, pc # "running", pc' # "running",
         requests' = requests, lost' = lost
  PROVE  RequestsInv'
  BY DEF RequestsInv, OutputsApart

LEMMA AddFileStep ==
  ASSUME OutputInv, NEW path \in DOMAIN disk, AddFile(path) PROVE OutputInv'
  <1> USE DEF batchVars, history, OutputInv
  <1> DEFINE task == [input  |-> path,
                      format |-> IF compressMode THEN "mgz" ELSE disk[path],
                      output |-> path]
  <1>1. task \in Row /\ task.input = path
    <2>1. path \in Paths /\ disk[path] \in Kinds
      BY DEF PathTypes
    <2> QED
      BY <2>1 DEF Row, Kinds
  <1>2. tasks' = updateOutputPaths(Append(tasks, task), location, suffix)
    BY DEF AddFile
  <1> HIDE DEF task
  <1>3. tasks \in Seq(Row) /\ InputsDiffer(tasks) /\ task.input \notin Inputs(tasks)
    BY <1>1, ListIsPlanned DEF AddFile, PathTypes, Planned
  <1>4. Append(tasks, task) \in Seq(Row) /\ InputsDiffer(Append(tasks, task))
    BY <1>1, <1>3, AddGood
  <1>5. tasks' \in Seq(Row) /\ Planned(tasks')
    <2>1. compressMode \in BOOLEAN /\ location \in Directories \cup {SourceFolder}
          /\ suffix \in Endings
      BY DEF PathTypes
    <2> DEFINE rows == Append(tasks, task)
    <2> HIDE DEF rows
    <2> QED
      BY <1>2, <1>4, <2>1, PlanGood DEF rows
  <1>6. PathTypes'
    BY <1>5 DEF AddFile, PathTypes
  <1>7. ListInv'
    BY <1>5 DEF ListInv, Planned, InputsDiffer
  <1>8. pc = "idle" /\ pc' = "idle" /\ requests' = requests /\ lost' = lost
    BY DEF AddFile, Idle
  <1>9. QuestionInv' /\ RequestsInv'
    BY <1>8, NoRequests DEF QuestionInv
  <1> QED
    BY <1>6, <1>7, <1>9

LEMMA HandleRemoveStep ==
  ASSUME OutputInv, NEW path \in pending, HandleRemove(path) PROVE OutputInv'
  <1> USE DEF batchVars, history, OutputInv
  <1>1. CASE pc = "running" \/ path \notin Inputs(tasks)
    <2>1. UNCHANGED <<disk, compressMode, location, suffix, tasks, pc, inputPaths,
                      requests, done, batches, answer, replanned, lost>>
      BY <1>1 DEF HandleRemove
    <2> QED
      BY <2>1 DEF PathTypes, ListInv, QuestionInv, RequestsInv, OutputsApart, Inputs
  <1>2. CASE ~(pc = "running" \/ path \notin Inputs(tasks))
    <2>1. PICK k \in DOMAIN tasks : tasks' = updateOutputPaths(RemoveAt(tasks, k), location, suffix)
      BY <1>2 DEF HandleRemove
    <2>2. tasks \in Seq(Row) /\ InputsDiffer(tasks)
      BY ListIsPlanned DEF PathTypes, Planned
    <2> DEFINE rows == RemoveAt(tasks, k)
    <2>3. rows \in Seq(Row) /\ InputsDiffer(rows)
      BY <2>2, RemoveGood
    <2> HIDE DEF rows
    <2>4. compressMode \in BOOLEAN /\ location \in Directories \cup {SourceFolder}
          /\ suffix \in Endings
      BY DEF PathTypes
    <2>5. tasks' \in Seq(Row) /\ Planned(tasks')
      BY <2>1, <2>3, <2>4, PlanGood DEF rows
    <2>6. replanned' = (pc = "asking" \/ replanned) /\ pc' = pc
          /\ requests' = requests /\ lost' = lost
      BY <1>2 DEF HandleRemove
    <2>7. replanned' \in BOOLEAN
      BY <2>6
    <2>8. PathTypes'
      BY <2>5, <2>7 DEF HandleRemove, PathTypes
    <2>9. ListInv'
      BY <2>5 DEF ListInv, Planned, InputsDiffer
    <2>10. QuestionInv'
      BY <2>6 DEF QuestionInv
    <2>11. RequestsInv'
      BY <1>2, <2>6, NoRequests
    <2> QED
      BY <2>8, <2>9, <2>10, <2>11
  <1> QED
    BY <1>1, <1>2

LEMMA SetOutputStep ==
  ASSUME OutputInv, NEW where \in Directories \cup {SourceFolder},
         NEW ending \in Endings, SetOutput(where, ending)
  PROVE  OutputInv'
  <1> USE DEF batchVars, history, OutputInv
  <1>1. tasks' = updateOutputPaths(tasks, where, ending) /\ compressMode \in BOOLEAN
        /\ tasks \in Seq(Row) /\ InputsDiffer(tasks)
    BY ListIsPlanned DEF SetOutput, PathTypes, Planned
  <1>2. tasks' \in Seq(Row) /\ Planned(tasks')
    BY <1>1, PlanGood
  <1>3. PathTypes'
    BY <1>2 DEF SetOutput, PathTypes
  <1>4. ListInv'
    BY <1>2 DEF ListInv, Planned, InputsDiffer
  <1>5. pc = "idle" /\ pc' = "idle" /\ requests' = requests /\ lost' = lost
    BY DEF SetOutput, Idle
  <1> QED
    BY <1>3, <1>4, <1>5, NoRequests DEF QuestionInv

LEMMA ClearTasksStep ==
  ASSUME OutputInv, ClearTasks PROVE OutputInv'
  <1> USE DEF batchVars, history, OutputInv
  <1>1. pc = "idle" /\ pc' = "idle" /\ requests' = requests /\ lost' = lost /\ tasks' = <<>>
    BY DEF ClearTasks, Idle
  <1>2. PathTypes'
    BY EmptySeq DEF ClearTasks, PathTypes
  <1>3. ListInv'
    BY <1>1 DEF ListInv
  <1> QED
    BY <1>1, <1>2, <1>3, NoRequests DEF QuestionInv

\* A batch begins with a list whose outputs are kept apart.
LEMMA BeginStep ==
  ASSUME OutputInv, NEW rows \in Seq(Row), Planned(rows), NEW how, Begin(rows, how),
         UNCHANGED <<disk, compressMode, location, suffix>>, replanned' \in BOOLEAN,
         \A i, j \in DOMAIN rows : ~replanned' => rows[i].output # rows[j].input,
         how = "replace" \/ \A i \in DOMAIN rows : rows[i].output \notin DOMAIN disk
  PROVE  OutputInv'
  <1> DEFINE job(i) == [input     |-> rows[i].input,
                        output    |-> rows[i].output,
                        operation |-> IF compressMode THEN "compress"
                                      ELSE rows[i].format]
  <1>1. /\ requests' = [i \in DOMAIN rows |-> job(i)]
        /\ tasks' = rows /\ done' = 0 /\ answer' = how
        /\ lost' = {} /\ inputPaths' = {} /\ pc' = "running"
    BY DEF Begin
  <1>2. Len(rows) \in Nat /\ DOMAIN rows = 1 .. Len(rows) /\ \A i \in DOMAIN rows : rows[i] \in Row
    OBVIOUS
  <1>3. \A i \in DOMAIN rows :
           /\ job(i) \in Job
           /\ job(i).input = rows[i].input /\ job(i).output = rows[i].output
    BY <1>2 DEF Row, Job
  <1> HIDE DEF job
  <1>4. requests' \in Seq(Job) /\ Len(requests') = Len(rows) /\ DOMAIN requests' = DOMAIN rows
    <2>1. requests' \in [1 .. Len(rows) -> Job]
      BY <1>1, <1>2, <1>3
    <2> QED
      BY <1>2, <2>1
  <1>5. \A i \in DOMAIN rows :
           requests'[i].input = rows[i].input /\ requests'[i].output = rows[i].output
    BY <1>1, <1>3
  <1>6. PathTypes'
    <2>1. tasks' \in Seq(Row) /\ requests' \in Seq(Job) /\ done' \in 0 .. Len(requests')
      BY <1>1, <1>2, <1>4
    <2>2. IsFiniteSet(inputPaths')
      BY <1>1, FS_EmptySet
    <2> QED
      BY <1>1, <2>1, <2>2 DEF PathTypes, OutputInv
  <1>7. ListInv'
    BY <1>1 DEF ListInv, Planned, InputsDiffer
  <1>8. QuestionInv'
    BY <1>1 DEF QuestionInv
  <1>9. OutputsApart'
    <2>1. \A i, j \in DOMAIN rows :
             /\ i # j => rows[i].input # rows[j].input /\ rows[i].output # rows[j].output
             /\ i = j \/ ~replanned' => rows[i].output # rows[j].input
      <3>1. \A i \in DOMAIN rows : rows[i].output # rows[i].input
        BY DEF Planned, Away
      <3> QED
        BY <3>1 DEF Planned, InputsDiffer
    <2> QED
      BY <1>4, <1>5, <2>1 DEF OutputsApart
  <1>10. RequestsInv'
    BY <1>1, <1>4, <1>5, <1>9 DEF RequestsInv
  <1> QED
    BY <1>6, <1>7, <1>8, <1>10 DEF OutputInv

LEMMA StartStep ==
  ASSUME OutputInv, StartProcessing PROVE OutputInv'
  <1> DEFINE plan == updateOutputPaths(tasks, location, suffix)
             kept == WithOutputs(plan, Settle(Outputs(plan), Inputs(plan)))
  <1>1. /\ IF ToSet(Outputs(kept)) \cap DOMAIN disk = {}
           THEN Begin(kept, "none")
           ELSE /\ tasks' = kept
                /\ inputPaths' = Inputs(kept)
                /\ pc' = "asking"
                /\ UNCHANGED <<batchVars, answer, lost>>
        /\ replanned' = FALSE
        /\ UNCHANGED <<disk, compressMode, location, suffix, pending>>
    BY DEF StartProcessing
  <1>2. tasks \in Seq(Row) /\ InputsDiffer(tasks) /\ compressMode \in BOOLEAN
        /\ location \in Directories \cup {SourceFolder} /\ suffix \in Endings
    BY ListIsPlanned DEF OutputInv, PathTypes, Planned
  <1>3. PICK planned : planned = plan
    OBVIOUS
  <1>4. planned \in Seq(Row) /\ Planned(planned)
    BY <1>2, <1>3, PlanGood
  <1>5. IsFiniteSet(Inputs(planned))
    BY <1>4, InputsFinite
  <1>6. PICK rows : rows = WithOutputs(planned, Settle(Outputs(planned), Inputs(planned)))
    OBVIOUS
  <1>7. rows = kept
    BY <1>3, <1>6
  <1> HIDE DEF plan, kept
  <1>8. /\ rows \in Seq(Row) /\ Planned(rows) /\ DOMAIN rows = DOMAIN planned
        /\ \A i \in DOMAIN planned :
              rows[i].input = planned[i].input /\ rows[i].output \notin Inputs(planned)
    BY <1>4, <1>5, <1>6, ResettleGood
  <1>9. Inputs(rows) = Inputs(planned)
    BY <1>8, SameInputs
  <1>10. \A i, j \in DOMAIN rows : rows[i].output # rows[j].input
    BY <1>8, <1>9 DEF Inputs
  <1>11. CASE ToSet(Outputs(rows)) \cap DOMAIN disk = {}
    <2>1. Begin(rows, "none")
      BY <1>1, <1>7, <1>11
    <2>2. \A i \in DOMAIN rows : rows[i].output \in ToSet(Outputs(rows))
      <3>1. DOMAIN rows = 1 .. Len(rows) /\ Len(rows) \in Nat
        BY <1>8
      <3>2. DOMAIN Outputs(rows) = DOMAIN rows
            /\ \A i \in DOMAIN rows : Outputs(rows)[i] = rows[i].output
        BY DEF Outputs
      <3> QED
        BY <3>1, <3>2 DEF ToSet
    <2>3. \A i \in DOMAIN rows : rows[i].output \notin DOMAIN disk
      BY <1>11, <2>2
    <2>4. UNCHANGED <<disk, compressMode, location, suffix>> /\ replanned' \in BOOLEAN
      BY <1>1
    <2> QED
      BY <1>8, <1>10, <2>1, <2>3, <2>4, BeginStep
  <1>12. CASE ToSet(Outputs(rows)) \cap DOMAIN disk # {}
    <2>1. /\ tasks' = rows /\ inputPaths' = Inputs(rows) /\ pc' = "asking"
          /\ UNCHANGED <<disk, compressMode, location, suffix, requests, done,
                         batches, answer, lost>>
          /\ replanned' = FALSE
      BY <1>1, <1>7, <1>12 DEF batchVars
    <2>2. IsFiniteSet(inputPaths')
      BY <1>8, <2>1, InputsFinite
    <2>3. PathTypes'
      BY <1>8, <2>1, <2>2 DEF OutputInv, PathTypes
    <2>4. ListInv'
      BY <1>8, <2>1 DEF ListInv, Planned, InputsDiffer
    <2>5. QuestionInv'
      <3>1. \A i, j \in DOMAIN tasks' : tasks'[i].output # tasks'[j].input
        BY <1>10, <2>1
      <3>2. inputPaths' = Inputs(tasks')
        BY <2>1
      <3> QED
        BY <3>1, <3>2 DEF QuestionInv, Inputs
    <2>6. RequestsInv'
      <3>1. pc # "running"
        BY DEF StartProcessing, Idle
      <3> QED
        BY <2>1, <3>1, NoRequests DEF OutputInv
    <2> QED
      BY <2>3, <2>4, <2>5, <2>6 DEF OutputInv
  <1> QED
    BY <1>11, <1>12

LEMMA ReplaceStep ==
  ASSUME OutputInv, AnswerReplace PROVE OutputInv'
  <1>1. Begin(tasks, "replace") /\ UNCHANGED <<disk, compressMode, location, suffix, replanned>>
        /\ pc = "asking"
    BY DEF AnswerReplace
  <1>2. tasks \in Seq(Row) /\ Planned(tasks) /\ replanned \in BOOLEAN
    BY ListIsPlanned DEF OutputInv, PathTypes
  <1>3. \A i, j \in DOMAIN tasks : ~replanned => tasks[i].output # tasks[j].input
    BY <1>1 DEF OutputInv, QuestionInv
  <1>4. PICK rows : rows = tasks
    OBVIOUS
  <1> QED
    BY <1>1, <1>2, <1>3, <1>4, BeginStep

LEMMA RenameStep ==
  ASSUME OutputInv, AnswerRename PROVE OutputInv'
  <1> DEFINE taken == DOMAIN disk \cup inputPaths
  <1>1. PICK rows : rows = WithOutputs(tasks, Settle(Outputs(tasks), taken))
    OBVIOUS
  <1>2. Begin(rows, "rename") /\ UNCHANGED <<disk, compressMode, location, suffix, replanned>>
        /\ pc = "asking"
    BY <1>1 DEF AnswerRename
  <1>3. tasks \in Seq(Row) /\ Planned(tasks) /\ replanned \in BOOLEAN
    BY ListIsPlanned DEF OutputInv, PathTypes
  <1>4. IsFiniteSet(taken)
    BY FS_Union DEF OutputInv, PathTypes
  <1>5. /\ rows \in Seq(Row) /\ Planned(rows) /\ DOMAIN rows = DOMAIN tasks
        /\ \A i \in DOMAIN tasks :
              rows[i].input = tasks[i].input /\ rows[i].output \notin taken
    <2> HIDE DEF taken
    <2> QED
      BY <1>1, <1>3, <1>4, ResettleGood
  <1>6. \A i, j \in DOMAIN rows : ~replanned => rows[i].output # rows[j].input
    BY <1>2, <1>5 DEF OutputInv, QuestionInv, Inputs
  <1>7. \A i \in DOMAIN rows : rows[i].output \notin DOMAIN disk
    BY <1>5
  <1> QED
    BY <1>2, <1>3, <1>5, <1>6, <1>7, BeginStep

LEMMA CancelStep ==
  ASSUME OutputInv, AnswerCancel PROVE OutputInv'
  <1> USE DEF OutputInv, listVars, batchVars
  <1>1. IsFiniteSet(inputPaths')
    BY FS_EmptySet DEF AnswerCancel
  <1>2. PathTypes'
    BY <1>1 DEF AnswerCancel, PathTypes
  <1>3. ListInv' /\ QuestionInv'
    BY DEF AnswerCancel, ListInv, QuestionInv
  <1>4. RequestsInv'
    BY NoRequests DEF AnswerCancel
  <1> QED
    BY <1>2, <1>3, <1>4

\* The call for one request touches that request's output only.
LEMMA ProcessStep ==
  ASSUME OutputInv, Process PROVE OutputInv'
  <1> USE DEF OutputInv, listVars
  <1> DEFINE output == requests[done + 1].output
  <1>1. /\ pc = "running" /\ done < Len(requests) /\ Request = requests[done + 1]
        /\ done' = done + 1 /\ lost' = lost \cup ({output} \cap DOMAIN disk)
        /\ UNCHANGED <<compressMode, location, suffix, tasks, pc, inputPaths,
                       requests, answer, replanned>>
    BY DEF Process, Request
  <1>2. /\ Len(requests) \in Nat /\ DOMAIN requests = 1 .. Len(requests) /\ done \in Nat
        /\ requests \in Seq(Job) /\ done + 1 \in DOMAIN requests
    BY <1>1 DEF PathTypes
  <1>3. output \in Paths
    <2>1. PICK k \in DOMAIN requests : k = done + 1
      BY <1>2
    <2>2. requests[k] \in Job
      BY <1>2
    <2> QED
      BY <2>1, <2>2 DEF Job
  <1>4. /\ disk' \in [DOMAIN disk' -> Kinds]
        /\ DOMAIN disk' \subseteq DOMAIN disk \cup {output}
    <2>1. CASE \E kind \in IF compressMode THEN {"mgz"} ELSE {"plain", "mgz"} :
                  disk' = With(Request.output, kind)
      <3>1. PICK kind \in Kinds : disk' = With(output, kind)
        BY <1>1, <2>1 DEF Kinds
      <3> HIDE DEF output
      <3> QED
        BY <3>1 DEF With, PathTypes
    <2>2. CASE disk' = Without(Request.output)
      <3>1. disk' = Without(output)
        BY <1>1, <2>2
      <3> HIDE DEF output
      <3> QED
        BY <3>1 DEF Without, Restrict, PathTypes
    <2> QED
      BY <2>1, <2>2 DEF Process
  <1> HIDE DEF output
  <1>5. DOMAIN disk' \subseteq Paths /\ IsFiniteSet(DOMAIN disk')
    <2>1. IsFiniteSet(DOMAIN disk) /\ IsFiniteSet({output})
      BY FS_Singleton DEF PathTypes
    <2>2. IsFiniteSet(DOMAIN disk \cup {output})
      BY <2>1, FS_Union
    <2> QED
      BY <1>3, <1>4, <2>2, FS_Subset DEF PathTypes
  <1>6. PathTypes'
    <2>1. done' \in 0 .. Len(requests')
      BY <1>1, <1>2
    <2> QED
      BY <1>1, <1>4, <1>5, <2>1 DEF PathTypes
  <1>7. ListInv' /\ QuestionInv'
    BY <1>1 DEF ListInv, QuestionInv
  <1>8. OutputsApart'
    BY <1>1 DEF RequestsInv, OutputsApart
  <1>9. lost' \subseteq {requests'[i].output : i \in DOMAIN requests'}
    BY <1>1, <1>2 DEF RequestsInv, output
  <1>10. ASSUME answer # "replace"
         PROVE  /\ lost' = {}
                /\ \A i \in DOMAIN requests : i > done' => requests[i].output \notin DOMAIN disk'
    <2>1. lost = {} /\ \A i \in DOMAIN requests : i > done => requests[i].output \notin DOMAIN disk
      BY <1>10 DEF RequestsInv
    <2>2. output \notin DOMAIN disk
      <3>1. done + 1 > done
        BY <1>2
      <3> QED
        BY <1>2, <2>1, <3>1 DEF output
    <2>3. ASSUME NEW i \in DOMAIN requests, i > done' PROVE requests[i].output \notin DOMAIN disk'
      <3>1. i > done /\ i # done + 1
        BY <1>1, <1>2, <2>3
      <3>2. requests[i].output # output
        BY <1>1, <1>2, <3>1 DEF RequestsInv, OutputsApart, output
      <3> QED
        BY <1>4, <2>1, <3>1, <3>2
    <2> QED
      BY <1>1, <2>1, <2>2, <2>3
  <1>11. RequestsInv'
    BY <1>1, <1>8, <1>9, <1>10 DEF RequestsInv
  <1> QED
    BY <1>6, <1>7, <1>11

LEMMA RefuseStep ==
  ASSUME OutputInv, Refuse PROVE OutputInv'
  <1> USE DEF OutputInv, listVars, history
  <1>1. /\ pc = "running" /\ done < Len(requests) /\ done' = done + 1
        /\ UNCHANGED <<disk, compressMode, location, suffix, tasks, pc, inputPaths,
                       requests, answer, replanned, lost>>
    BY DEF Refuse
  <1>2. Len(requests) \in Nat /\ DOMAIN requests = 1 .. Len(requests) /\ done \in 0 .. Len(requests)
    BY DEF PathTypes
  <1>3. PathTypes'
    <2>1. done' \in 0 .. Len(requests')
      BY <1>1, <1>2
    <2> QED
      BY <1>1, <2>1 DEF PathTypes
  <1>4. ListInv' /\ QuestionInv'
    BY <1>1 DEF ListInv, QuestionInv
  <1>5. \A i \in DOMAIN requests : i > done' => i > done
    BY <1>1, <1>2
  <1>6. OutputsApart'
    BY <1>1 DEF RequestsInv, OutputsApart
  <1>7. RequestsInv'
    BY <1>1, <1>5, <1>6 DEF RequestsInv
  <1> QED
    BY <1>3, <1>4, <1>7

LEMMA EndStep ==
  ASSUME OutputInv, EndBatch PROVE OutputInv'
  <1> USE DEF OutputInv, listVars
  <1>1. /\ pc' = "idle" /\ requests' = <<>> /\ done' = 0 /\ lost' = {}
        /\ replanned' = FALSE
        /\ UNCHANGED <<disk, compressMode, location, suffix, tasks, inputPaths>>
    BY DEF EndBatch
  <1>2. PathTypes'
    <2>1. requests' \in Seq(Job) /\ done' \in 0 .. Len(requests')
      BY <1>1, EmptySeq
    <2> QED
      BY <1>1, <2>1 DEF PathTypes
  <1>3. ListInv' /\ QuestionInv' /\ RequestsInv'
    BY <1>1 DEF ListInv, QuestionInv, RequestsInv, OutputsApart
  <1> QED
    BY <1>2, <1>3

LEMMA OutputStep == OutputInv /\ [Next]_vars => OutputInv'
  <1> SUFFICES ASSUME OutputInv, [Next]_vars PROVE OutputInv'
    OBVIOUS
  <1>1. ASSUME NEW path \in Inputs(tasks), RemoveClicked(path) PROVE OutputInv'
    BY <1>1 DEF RemoveClicked, OutputInv, PathTypes, ListInv, QuestionInv,
                RequestsInv, OutputsApart, Inputs, batchVars, history
  <1>2. ASSUME UNCHANGED vars PROVE OutputInv'
    BY <1>2 DEF vars, listVars, batchVars, history, OutputInv, PathTypes, ListInv,
                QuestionInv, RequestsInv, OutputsApart, Inputs
  <1>3. CASE Stopped
    BY <1>2, <1>3 DEF Stopped
  <1> QED
    BY <1>1, <1>2, <1>3, AddFileStep, HandleRemoveStep, ClearTasksStep, SetOutputStep,
       StartStep, ReplaceStep, RenameStep, CancelStep, ProcessStep, RefuseStep, EndStep
       DEF Next

\* Every reachable state has what the next steps rely on: rows with inputs and
\* outputs of their own, a question that is about the list as it stands or
\* known to be outdated, and requests whose outputs are apart and, unless
\* existing files may be replaced, not there yet (MainWindow.cpp:688-995).
THEOREM OutputInvariant == Spec => []OutputInv
  BY InitOutputInv, OutputStep, PTL DEF Spec

\* The outputs of a batch never meet each other or one of its inputs, but for a
\* removal handled while the question was open (MainWindow.cpp:853-874,
\* 929-951, 976-993).
THEOREM OutputsKeptApart == Spec => []OutputsApart
  <1>1. OutputInv => OutputsApart
    BY DEF OutputInv, RequestsInv
  <1> QED
    BY <1>1, OutputInvariant, PTL

\* A batch writes over or removes a file that was there only when the question
\* was answered with "replace" (MainWindow.cpp:953-995).
THEOREM ReplacesOnlyWhenAsked == Spec => []ReplacesOnlyIfAsked
  <1>1. OutputInv => ReplacesOnlyIfAsked
    BY DEF OutputInv, RequestsInv, ReplacesOnlyIfAsked
  <1> QED
    BY <1>1, OutputInvariant, PTL

\* The list being replanned behind the question is the only way for a batch to
\* destroy a file it was given: without it every input survives, whatever the
\* answer (README.md:61, MainWindow.cpp:735-748 and 953-995).
THEOREM InputsSurviveUnlessReplanned == Spec => [](~replanned => InputsSurvive)
  <1>1. OutputInv => (~replanned => InputsSurvive)
    <2> SUFFICES ASSUME OutputInv, ~replanned, NEW k \in DOMAIN requests
                 PROVE  requests[k].input \notin lost
      BY DEF InputsSurvive
    <2>1. CASE pc # "running"
      BY <2>1 DEF OutputInv, RequestsInv
    <2>2. CASE pc = "running"
      BY <2>2 DEF OutputInv, RequestsInv, OutputsApart
    <2> QED
      BY <2>1, <2>2
  <1> QED
    BY <1>1, OutputInvariant, PTL

====
