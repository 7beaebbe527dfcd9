----------------------------- MODULE MgzProofs -----------------------------
(***************************************************************************)
(* mgz_compress_file and mgz_decompress_file for every block size, size of *)
(* source and number of calls: what an archive and a restored file hold,   *)
(* and that a call leaves all of its output or none.  All of it is about   *)
(* calls whose output path does not lead to their input.                   *)
(***************************************************************************)
EXTENDS MgzFile, NatLemmas, SequenceTheorems

----------------------------------------------------------------------------
(* The inductive invariant.  It holds when the output of a compression is  *)
(* not its input.                                                          *)

\* What an archive may hold, damaged or not.
Headers == [kind : {"header"}, size : Nat, crc : Seq(Byte), count : Nat]
Blocks  == [kind : {"block"}, method : {"stored", "lz77_huffman"}, size : Nat,
            data : Seq(Byte)]
Items   == Headers \cup Blocks \cup {Junk}

Paths == {"plain", "archive", "restored"}

\* Shapes beyond those of TypeOK.
MgzTypes ==
    /\ DOMAIN disk = Paths
    /\ \A f \in Paths : disk[f] = [there |-> disk[f].there, items |-> disk[f].items]
    /\ disk["plain"] = File(source)
    /\ disk["archive"].items \in Seq(Items)
    /\ disk["restored"].items \in Seq(Byte)
    /\ header \in Headers
    /\ buffer \in Seq(IF op = "decompress" THEN Byte ELSE Items)

\* A call knows its output, and has it open.
Running ==
    /\ op = "compress" =>
          target = "archive" /\ ~good /\ ~abandoned
    /\ op = "decompress" =>
          target = "restored" /\ pc \in {"block", "close", "remove"}
    /\ op # "none" => disk[target].there /\ result = "none"
    /\ success => pc \in {"close", "idle"} /\ buffer = <<>>
    /\ pc = "remove" => ~success /\ buffer = <<>>

\* The first k blocks of the source.
BlocksTo(k, items) ==
    /\ Len(items) = k + 1
    /\ \A b \in 1 .. k : items[b + 1] = Block(SourceBlock(b))

\* k blocks reach just as far as the first n bytes of the source.
Reach(k, n) ==
    /\ n = Min2(k * BlockSize, Len(source))
    /\ k = 0 \/ (k - 1) * BlockSize < Len(source)

\* What is on the disk and what stdio holds make up the archive so far, behind
\* a placeholder; without a read error it is cut into full blocks.
Compressing ==
    op = "compress" =>
      LET out == disk["archive"].items \o buffer IN
      /\ rpos <= Len(source)
      /\ bytes = SubSeq(source, 1, rpos)
      /\ pc \in {"block", "seek", "header"} =>
            /\ Len(out) = blocks + 1
            /\ out[1] = Placeholder
            /\ \A i \in 2 .. Len(out) : out[i].kind = "block"
            /\ ~ferror => Reach(blocks, rpos) /\ BlocksTo(blocks, out)
      /\ pc \in {"seek", "header"} => ~ferror /\ rpos = Len(source)
      /\ pc = "header" => buffer = <<>>

\* What a decompression has read and written so far; from a good archive that
\* is the source up to a block.
Decompressing ==
    op = "decompress" =>
      /\ disk["archive"].items # <<>>
      /\ header = disk["archive"].items[1]
      /\ header.count = ExpectedBlocks(header.size)
      /\ rpos = blocks + 1 /\ blocks <= header.count
      /\ pc = "block" => disk["restored"].items \o buffer = bytes
      /\ pc = "block" /\ good =>
            /\ bytes = SubSeq(source, 1, Len(bytes))
            /\ Reach(blocks, Len(bytes))

\* A success stands for what the call owes.
Succeeded ==
    /\ success /\ op = "compress" =>
          /\ BlocksTo(ExpectedBlocks(Len(source)), disk["archive"].items)
          /\ disk["archive"].items[1] =
                Header(Len(source), source, ExpectedBlocks(Len(source)))
    /\ success /\ op = "decompress" =>
          /\ disk["restored"].items = header.crc
          /\ header = Placeholder => Len(disk["archive"].items) = 1

\* A call that is about to fail has a cause.
Failing ==
    pc \in {"close", "remove"} /\ ~success =>
        fault \/ (op = "decompress" /\ ~good)

\* Every header in the archive tells the source, but for the placeholder of an
\* unfinished one, and that one is followed by blocks which it does not count.
ArchiveTells ==
    ~abandoned /\ ~(pc = "remove" /\ target = "archive") =>
      LET items == disk["archive"].items IN
      \A i \in DOMAIN items :
         items[i].kind = "header" =>
            \/ items[i].crc = source
            \/ items[i] = Placeholder /\ Len(items) >= 2

MgzInv ==
    /\ TypeOK /\ MgzTypes
    /\ Running /\ Compressing /\ Decompressing /\ Succeeded /\ Failing
    /\ ArchiveTells
    /\ GoodArchive /\ RestoredIsSource /\ FailureHasCause

----------------------------------------------------------------------------
\* Blocks

\* A file of n bytes takes k blocks when k of them reach its end and k - 1 do
\* not.
LEMMA ExpectedBounds ==
  ASSUME NEW n \in Nat
  PROVE  /\ ExpectedBlocks(n) \in Nat
         /\ ExpectedBlocks(n) = 0 <=> n = 0
         /\ n <= ExpectedBlocks(n) * BlockSize
         /\ n > 0 => (ExpectedBlocks(n) - 1) * BlockSize < n
  <1> DEFINE q == (n - 1) \div BlockSize
  <1>1. CASE n = 0
    BY <1>1, SizesAssumption DEF ExpectedBlocks
  <1>2. CASE n # 0
    <2>1. /\ q \in Int /\ (n - 1) % BlockSize \in 0 .. BlockSize - 1
          /\ n - 1 = BlockSize * q + ((n - 1) % BlockSize)
      BY Division, SizesAssumption
    <2>2. ExpectedBlocks(n) = q + 1
      BY <1>2 DEF ExpectedBlocks
    <2> HIDE DEF q
    <2>3. q >= 0
      <3> SUFFICES ASSUME -q >= 1 PROVE FALSE
        BY <2>1
      <3>1. (-q) * BlockSize >= BlockSize
        BY <2>1, ProductAtLeast, SizesAssumption
      <3>2. (-q) * BlockSize = -(BlockSize * q)
        BY <2>1, SizesAssumption
      <3> QED
        BY <2>1, <3>1, <3>2, <1>2, SizesAssumption
    <2>4. (q + 1) * BlockSize = BlockSize * q + BlockSize
      BY <2>1, SizesAssumption
    <2>5. (q + 1 - 1) * BlockSize = BlockSize * q
      BY <2>1, SizesAssumption
    <2> QED
      BY <2>1, <2>2, <2>3, <2>4, <2>5, <1>2, SizesAssumption
  <1> QED
    BY <1>1, <1>2

LEMMA ProductMonotone ==
  ASSUME NEW i \in Nat, NEW j \in Nat, NEW d \in Nat, i <= j
  PROVE  i * d \in Nat /\ j * d \in Nat /\ i * d <= j * d
  <1>1. (j - i) * d >= 0
    OBVIOUS
  <1>2. (j - i) * d = j * d - i * d
    OBVIOUS
  <1> QED
    BY <1>1, <1>2

LEMMA ProductNext ==
  ASSUME NEW k \in Nat
  PROVE  /\ k * BlockSize \in Nat
         /\ (k + 1) * BlockSize = k * BlockSize + BlockSize
  BY SizesAssumption

\* Blocks that reach the end of the source are as many as it takes.
LEMMA ReachEnd ==
  ASSUME source \in Seq(Byte), NEW k \in Nat, Reach(k, Len(source))
  PROVE  k = ExpectedBlocks(Len(source))
  <1> DEFINE n == Len(source)
             e == ExpectedBlocks(n)
  <1>1. n \in Nat
    BY LenProperties
  <1>2. /\ e \in Nat
        /\ n <= e * BlockSize
        /\ e = 0 <=> n = 0
        /\ n > 0 => (e - 1) * BlockSize < n
    BY <1>1, ExpectedBounds
  <1>3. n <= k * BlockSize /\ (k = 0 \/ (k - 1) * BlockSize < n)
    <2>1. n = Min2(k * BlockSize, n) /\ (k = 0 \/ (k - 1) * BlockSize < n)
      BY DEF Reach
    <2>2. k * BlockSize \in Nat
      BY SizesAssumption
    <2> HIDE DEF n
    <2> QED
      BY <1>1, <2>1, <2>2 DEF Min2
  <1> HIDE DEF n, e
  <1>4. ASSUME e < k PROVE FALSE
    <2>1. k - 1 \in Nat /\ e <= k - 1 /\ BlockSize \in Nat /\ k # 0
      BY <1>2, <1>4, SizesAssumption
    <2>2. /\ e * BlockSize \in Nat /\ (k - 1) * BlockSize \in Nat
          /\ e * BlockSize <= (k - 1) * BlockSize
      BY <1>2, <2>1, ProductMonotone
    <2> QED
      BY <1>1, <1>2, <1>3, <2>1, <2>2
  <1>5. ASSUME k < e PROVE FALSE
    <2>1. e - 1 \in Nat /\ k <= e - 1 /\ BlockSize \in Nat /\ n > 0
      BY <1>1, <1>2, <1>5, SizesAssumption
    <2>2. /\ k * BlockSize \in Nat /\ (e - 1) * BlockSize \in Nat
          /\ k * BlockSize <= (e - 1) * BlockSize
      BY <2>1, ProductMonotone
    <2> QED
      BY <1>1, <1>2, <1>3, <2>1, <2>2
  <1>6. k = e
    BY <1>2, <1>4, <1>5
  <1> QED
    BY <1>6 DEF e, n

\* While the source goes on, the next block is the one behind the first n bytes.
LEMMA ReachNext ==
  ASSUME source \in Seq(Byte), NEW k \in Nat, NEW n \in Nat, Reach(k, n),
         n < Len(source)
  PROVE  LET m == n + Min2(BlockSize, Len(source) - n) IN
         /\ Reach(k + 1, m)
         /\ SubSeq(source, n + 1, m) = SourceBlock(k + 1)
         /\ n = k * BlockSize
  <1> DEFINE m == n + Min2(BlockSize, Len(source) - n)
             l == Len(source)
             p == k * BlockSize
  <1>1. l \in Nat /\ p \in Nat /\ BlockSize \in Nat
    BY LenProperties, ProductNext, SizesAssumption
  <1>2. n = p
    <2>1. n = Min2(p, l) /\ n < l
      BY DEF Reach
    <2> HIDE DEF p, l
    <2> QED
      BY <1>1, <2>1 DEF Min2
  <1>3. (k + 1) * BlockSize = p + BlockSize
    BY ProductNext
  <1>4. m = Min2(p + BlockSize, l)
    <2>1. n < l
      OBVIOUS
    <2> HIDE DEF p
    <2> QED
      BY <1>1, <1>2, <2>1 DEF Min2
  <1>5. (k + 1) - 1 = k
    OBVIOUS
  <1>6. Reach(k + 1, m)
    <2> HIDE DEF m
    <2> QED
      BY <1>2, <1>3, <1>4, <1>5 DEF Reach
  <1>7. SubSeq(source, n + 1, m) = SourceBlock(k + 1)
    <2>1. SourceBlock(k + 1) =
             SubSeq(source, ((k + 1) - 1) * BlockSize + 1,
                    Min2((k + 1) * BlockSize, Len(source)))
      BY DEF SourceBlock
    <2>2. ((k + 1) - 1) * BlockSize + 1 = n + 1
      BY <1>2, <1>5
    <2>3. Min2((k + 1) * BlockSize, Len(source)) = m
      BY <1>3, <1>4
    <2> HIDE DEF m
    <2> QED
      BY <2>1, <2>2, <2>3
  <1> QED
    BY <1>2, <1>6, <1>7

----------------------------------------------------------------------------
\* Items

LEMMA ItemTypes ==
  /\ Junk \in Items
  /\ \A n \in Nat, s \in Seq(Byte), k \in Nat :
        Header(n, s, k) \in Headers /\ Header(n, s, k) \in Items
  /\ \A s \in Seq(Byte) : Block(s) \in Blocks /\ Block(s) \in Items
  /\ Placeholder \in Headers /\ Placeholder \in Items
  <1>1. ASSUME NEW n \in Nat, NEW s \in Seq(Byte), NEW k \in Nat
        PROVE  Header(n, s, k) \in Headers
    BY DEF Header, Headers
  <1>2. ASSUME NEW s \in Seq(Byte)
        PROVE  Block(s) \in Blocks
    <2>1. Len(s) \in Nat
      BY LenProperties
    <2> QED
      BY <2>1 DEF Block, Blocks
  <1>3. <<>> \in Seq(Byte)
    OBVIOUS
  <1> QED
    BY <1>1, <1>2, <1>3 DEF Items, Placeholder

LEMMA ItemKinds ==
  ASSUME NEW item \in Items
  PROVE  /\ item.kind = "header" <=> item \in Headers
         /\ item.kind = "block" <=> item \in Blocks
  BY DEF Items, Headers, Blocks, Junk

LEMMA BlockKind == \A s : Block(s).kind = "block" /\ Block(s).data = s
                          /\ Block(s).size = Len(s)
  BY DEF Block

LEMMA HeaderFields == \A n, s, k :
     /\ Header(n, s, k).kind = "header" /\ Header(n, s, k).size = n
     /\ Header(n, s, k).crc = s /\ Header(n, s, k).count = k
  BY DEF Header

----------------------------------------------------------------------------
\* The invariant, one lemma for each action

LEMMA InitMgz == Init => MgzInv
  <1> SUFFICES ASSUME Init PROVE MgzInv
    OBVIOUS
  <1>1. source \in Seq(Byte)
    <2>1. PICK n \in 0 .. MaxSize : source \in [1 .. n -> Byte]
      BY DEF Init
    <2>2. n \in Nat
      BY SizesAssumption
    <2> QED
      BY <2>1, <2>2
  <1>2. DOMAIN disk = Paths
    BY DEF Paths, Init
  <1>3. /\ disk["plain"] = File(source)
        /\ disk["archive"] = NoFile
        /\ disk["restored"] = NoFile
    BY DEF Init
  <1>4. <<>> \in Seq(Byte) /\ <<>> \in Seq(Items)
    OBVIOUS
  <1>5. /\ op = "none" /\ target = "archive" /\ pc = "idle" /\ rpos = 0
        /\ ferror = FALSE /\ header = Placeholder /\ bytes = <<>> /\ blocks = 0
        /\ buffer = <<>> /\ success = FALSE /\ result = "none" /\ calls = 0
        /\ fault = FALSE /\ good = FALSE /\ abandoned = FALSE
    BY DEF Init
  <1>6. \A f \in Paths : /\ disk[f].there \in BOOLEAN
                         /\ ~disk[f].there => disk[f].items = <<>>
                         /\ disk[f] = [there |-> disk[f].there,
                                       items |-> disk[f].items]
    <2>1. /\ \A s : File(s).there = TRUE
          /\ \A s : File(s) = [there |-> File(s).there, items |-> File(s).items]
          /\ NoFile = [there |-> NoFile.there, items |-> NoFile.items]
          /\ NoFile.there = FALSE /\ NoFile.items = <<>>
      BY DEF File, NoFile
    <2> QED
      BY <1>3, <2>1 DEF Paths
  <1>7. TypeOK
    <2>1. target \in DOMAIN disk /\ calls \in 0 .. MaxCalls
      BY <1>2, <1>5, SizesAssumption DEF Paths
    <2> QED
      BY <1>1, <1>2, <1>4, <1>5, <1>6, <2>1 DEF TypeOK
  <1>8. MgzTypes
    BY <1>2, <1>3, <1>4, <1>5, <1>6, ItemTypes DEF MgzTypes, NoFile
  <1>9. Running /\ Compressing /\ Decompressing /\ Succeeded /\ Failing
    BY <1>5 DEF Running, Compressing, Decompressing, Succeeded, Failing
  <1>10. ArchiveTells
    BY <1>3 DEF ArchiveTells, NoFile
  <1>11. GoodArchive /\ RestoredIsSource /\ FailureHasCause
    BY <1>5 DEF GoodArchive, RestoredIsSource, FailureHasCause
  <1> QED
    BY <1>7, <1>8, <1>9, <1>10, <1>11 DEF MgzInv

LEMMA KeepsRefuse == MgzInv /\ Idle /\ calls < MaxCalls /\ Refuse => MgzInv'
  <1> SUFFICES ASSUME MgzInv, Idle, calls < MaxCalls, Refuse PROVE MgzInv'
    OBVIOUS
  <1> USE DEF Refuse, posVars, histVars
  <1>1. TypeOK'
    BY SizesAssumption DEF MgzInv, TypeOK
  <1>2. MgzTypes'
    BY DEF MgzInv, MgzTypes
  <1>3. Succeeded' /\ Failing' /\ GoodArchive' /\ ArchiveTells'
    BY DEF MgzInv, Succeeded, BlocksTo, SourceBlock, Failing, GoodArchive,
           ArchiveTells
  <1>6. Running'
    BY DEF MgzInv, Running, Idle
  <1>4. Compressing' /\ Decompressing'
    BY DEF Compressing, Decompressing, Idle
  <1>5. RestoredIsSource' /\ FailureHasCause'
    BY DEF RestoredIsSource, FailureHasCause
  <1> QED
    BY <1>1, <1>2, <1>3, <1>4, <1>5, <1>6 DEF MgzInv

\* The parts of the invariant that a new call cannot disturb.
LEMMA KeepsBegin ==
  ASSUME MgzInv, Idle, calls < MaxCalls,
         NEW call \in {"compress", "decompress"}, NEW out \in {"archive", "restored"},
         NEW first \in Nat, NEW firstItems,
         call = "compress" <=> out = "archive",
         Begin(call, out, first, firstItems)
  PROVE  /\ disk'[out] = File(<<>>)
         /\ \A f \in Paths \ {out} : disk'[f] = disk[f]
         /\ TypeOK' /\ Running' /\ Succeeded' /\ Failing'
         /\ DOMAIN disk' = Paths
         /\ \A f \in Paths :
               disk'[f] = [there |-> disk'[f].there, items |-> disk'[f].items]
         /\ disk'["plain"] = File(source')
         /\ disk'["archive"].items \in Seq(Items)
         /\ disk'["restored"].items \in Seq(Byte)
         /\ GoodArchive' /\ RestoredIsSource' /\ FailureHasCause'
  <1> USE DEF Begin, ToClose
  <1>1. DOMAIN disk = Paths /\ out \in Paths
    BY DEF MgzInv, MgzTypes, Paths
  <1>2. DOMAIN disk' = Paths /\ disk'[out] = File(<<>>)
    BY <1>1
  <1>3. \A f \in Paths \ {out} : disk'[f] = disk[f]
    BY <1>1
  <1>4. <<>> \in Seq(Byte) /\ <<>> \in Seq(Items) /\ 0 \in Nat
    OBVIOUS
  <1>5. TypeOK'
    <2>1. \A f \in DOMAIN disk' : disk'[f].there \in BOOLEAN
                                  /\ (~disk'[f].there => disk'[f].items = <<>>)
      BY <1>1, <1>2, <1>3 DEF MgzInv, TypeOK, File
    <2>2. good' \in BOOLEAN /\ abandoned' \in BOOLEAN
      BY DEF MgzInv, TypeOK
    <2>3. calls' \in 0 .. MaxCalls
      BY SizesAssumption DEF MgzInv, TypeOK
    <2>4. pc' \in {"block", "close"} /\ fault' \in BOOLEAN
      OBVIOUS
    <2>5. source' \in Seq(Byte)
      BY DEF MgzInv, TypeOK
    <2> QED
      BY <1>1, <1>2, <1>4, <2>1, <2>2, <2>3, <2>4, <2>5 DEF TypeOK
  <1>6. Running'
    <2>1. disk'[out].there
      BY <1>2 DEF File
    <2>2. op' = call /\ target' = out /\ success' = FALSE /\ result' = "none"
          /\ pc' \in {"block", "close"}
      OBVIOUS
    <2>3. CASE out = "archive"
      <3>1. ~good' /\ ~abandoned'
        BY <2>3
      <3> QED
        BY <2>1, <2>2, <2>3, <3>1 DEF Running
    <2>4. CASE out = "restored"
      BY <2>1, <2>2, <2>4 DEF Running
    <2> QED
      BY <2>3, <2>4
  <1>7. Succeeded' /\ Failing'
    BY DEF Succeeded, Failing
  <1>8. \A f \in Paths :
           disk'[f] = [there |-> disk'[f].there, items |-> disk'[f].items]
    BY <1>2, <1>3 DEF MgzInv, MgzTypes, File
  <1>9. disk'["plain"] = File(source')
    BY <1>3 DEF MgzInv, MgzTypes, Paths
  <1>10. disk'["archive"].items \in Seq(Items)
         /\ disk'["restored"].items \in Seq(Byte)
    BY <1>2, <1>3, <1>4 DEF MgzInv, MgzTypes, Paths, File
  <1>11. GoodArchive'
    <2> SUFFICES ASSUME good' PROVE GoodArchive'
      BY DEF GoodArchive
    <2>1. out = "restored" /\ good /\ disk'["archive"] = disk["archive"]
      BY <1>3 DEF Paths
    <2> QED
      BY <2>1 DEF MgzInv, GoodArchive, SourceBlock
  <1>12. RestoredIsSource' /\ FailureHasCause'
    BY DEF RestoredIsSource, FailureHasCause
  <1> QED
    BY <1>2, <1>3, <1>5, <1>6, <1>7, <1>8, <1>9, <1>10, <1>11, <1>12

LEMMA KeepsStartCompress == ~Aliased /\ MgzInv /\ StartCompress => MgzInv'
  <1> SUFFICES ASSUME ~Aliased, MgzInv, StartCompress PROVE MgzInv'
    OBVIOUS
  <1>1. CASE Refuse
    BY <1>1, KeepsRefuse DEF StartCompress
  <1>2. CASE /\ Begin("compress", "archive", 0, <<Placeholder>>)
             /\ UNCHANGED header
    <2>1. Idle /\ calls < MaxCalls
      BY DEF StartCompress
    <2>2. /\ disk'["archive"] = File(<<>>)
          /\ TypeOK' /\ Running' /\ Succeeded' /\ Failing'
          /\ DOMAIN disk' = Paths
          /\ \A f \in Paths :
                disk'[f] = [there |-> disk'[f].there, items |-> disk'[f].items]
          /\ disk'["plain"] = File(source')
          /\ disk'["archive"].items \in Seq(Items)
          /\ disk'["restored"].items \in Seq(Byte)
          /\ GoodArchive' /\ RestoredIsSource' /\ FailureHasCause'
      BY <1>2, <2>1, KeepsBegin
    <2>3. /\ op' = "compress" /\ target' = "archive" /\ rpos' = 0 /\ blocks' = 0
          /\ bytes' = <<>> /\ buffer' = <<Placeholder>> /\ pc' \in {"block", "close"}
          /\ source' = source /\ header' = header
      BY <1>2 DEF Begin, ToClose
    <2>4. MgzTypes'
      <3>1. header' \in Headers
        BY <2>3 DEF MgzInv, MgzTypes
      <3>2. buffer' \in Seq(Items)
        BY <2>3, ItemTypes
      <3> QED
        BY <2>2, <2>3, <3>1, <3>2 DEF MgzTypes
    <2>5. Compressing'
      <3>1. disk'["archive"].items \o buffer' = <<Placeholder>>
        BY <2>2, <2>3, ItemTypes, ConcatEmptySeq DEF File
      <3>2. source \in Seq(Byte) /\ Len(source) \in Nat
        BY LenProperties DEF MgzInv, TypeOK
      <3>3. Min2(0 * BlockSize, Len(source')) = 0
        <4>1. 0 * BlockSize = 0
          BY SizesAssumption
        <4> QED
          BY <2>3, <3>2, <4>1 DEF Min2
      <3>4. SubSeq(source, 1, 0) = <<>>
        BY SubSeqEmpty
      <3>5. Len(<<Placeholder>>) = 1 /\ <<Placeholder>>[1] = Placeholder
        OBVIOUS
      <3>6. rpos' <= Len(source') /\ bytes' = SubSeq(source', 1, rpos')
        BY <2>3, <3>2, <3>4
      <3>7. Reach(blocks, rpos)'
        BY <2>3, <3>3 DEF Reach
      <3>8. BlocksTo(blocks, disk["archive"].items \o buffer)'
        BY <2>3, <3>1, <3>5 DEF BlocksTo
      <3>9. /\ Len(disk["archive"].items \o buffer)' = blocks' + 1
            /\ (disk["archive"].items \o buffer)[1]' = Placeholder
        BY <2>3, <3>1, <3>5
      <3>10. pc' \notin {"seek", "header"} /\ pc' # "header"
        BY <2>3
      <3>11. \A i \in 2 .. Len(disk["archive"].items \o buffer)' :
                (disk["archive"].items \o buffer)'[i].kind = "block"
        BY <2>3, <3>1, <3>5
      <3> QED
        BY <3>6, <3>7, <3>8, <3>9, <3>10, <3>11 DEF Compressing
    <2>6. Decompressing'
      BY <2>3 DEF Decompressing
    <2>7. ArchiveTells'
      BY <2>2 DEF ArchiveTells, File
    <2> QED
      BY <2>2, <2>4, <2>5, <2>6, <2>7 DEF MgzInv
  <1> QED
    BY <1>1, <1>2 DEF StartCompress

\* Where a compression stands: its input is the source.
LEMMA CompressFacts ==
  ASSUME MgzInv, op = "compress"
  PROVE  /\ Input = source
         /\ source \in Seq(Byte) /\ Len(source) \in Nat
         /\ rpos \in Nat /\ rpos <= Len(source)
         /\ Left = Len(source) - rpos /\ Left \in Nat
         /\ blocks \in Nat /\ bytes \in Seq(Byte) /\ bytes = SubSeq(source, 1, rpos)
         /\ disk["archive"].items \in Seq(Items) /\ buffer \in Seq(Items)
         /\ disk["archive"].items \o buffer \in Seq(Items)
         /\ target = "archive" /\ disk["archive"].there
  <1>1. Input = source
    BY DEF MgzInv, MgzTypes, Input, File
  <1>2. /\ source \in Seq(Byte) /\ rpos \in Nat /\ rpos <= Len(source)
        /\ blocks \in Nat /\ bytes \in Seq(Byte)
    BY DEF MgzInv, TypeOK, Compressing
  <1>3. Len(source) \in Nat
    BY <1>2, LenProperties
  <1>4. Left = Len(source) - rpos /\ Left \in Nat
    BY <1>1, <1>2, <1>3 DEF Left
  <1>5. disk["archive"].items \in Seq(Items) /\ buffer \in Seq(Items)
    BY DEF MgzInv, MgzTypes
  <1>6. disk["archive"].items \o buffer \in Seq(Items)
    BY <1>5, ConcatProperties
  <1>7. bytes = SubSeq(source, 1, rpos)
    BY DEF MgzInv, Compressing
  <1>8. target = "archive" /\ disk["archive"].there
    BY DEF MgzInv, Running
  <1> QED
    BY <1>1, <1>2, <1>3, <1>4, <1>5, <1>6, <1>7, <1>8

\* A step of a compression or a decompression that leaves the files alone and
\* does not come to an end.
LEMMA KeepsFiles ==
  ASSUME MgzInv, ~Idle, pc # "remove", pc' \in {"block", "seek", "header", "close"},
         UNCHANGED <<source, disk, op, target, header, calls, success, result,
                     good, abandoned>>,
         fault' \in BOOLEAN, fault => fault'
  PROVE  ArchiveTells' /\ GoodArchive' /\ RestoredIsSource' /\ FailureHasCause'
  <1>1. ArchiveTells'
    BY DEF MgzInv, ArchiveTells
  <1>2. GoodArchive' /\ RestoredIsSource'
    BY DEF MgzInv, GoodArchive, RestoredIsSource, SourceBlock
  <1>3. FailureHasCause'
    BY DEF MgzInv, FailureHasCause
  <1> QED
    BY <1>1, <1>2, <1>3

LEMMA KeepsCompressBlock == MgzInv /\ CompressBlock => MgzInv'
  <1> SUFFICES ASSUME MgzInv, CompressBlock PROVE MgzInv'
    OBVIOUS
  <1>1. op = "compress" /\ pc = "block"
    BY DEF CompressBlock
  <1>2. UNCHANGED <<source, disk, op, target, header, calls, success, result,
                    good, abandoned>>
    BY DEF CompressBlock, callVars, histVars
  <1>3. /\ Input = source
        /\ source \in Seq(Byte) /\ Len(source) \in Nat
        /\ rpos \in Nat /\ rpos <= Len(source)
        /\ Left = Len(source) - rpos /\ Left \in Nat
        /\ blocks \in Nat /\ bytes \in Seq(Byte) /\ bytes = SubSeq(source, 1, rpos)
        /\ disk["archive"].items \in Seq(Items) /\ buffer \in Seq(Items)
        /\ disk["archive"].items \o buffer \in Seq(Items)
        /\ target = "archive" /\ disk["archive"].there
    BY <1>1, CompressFacts
  <1> DEFINE out == disk["archive"].items \o buffer
             full == Min2(BlockSize, Left)
             data(n) == SubSeq(source, rpos + 1, rpos + n)
  <1>4. full \in Nat /\ full <= Left /\ (full = 0 <=> Left = 0)
    BY <1>3, SizesAssumption DEF Min2
  <1>5. PICK n \in 0 .. full :
           /\ ferror' = (ferror \/ n < full)
           /\ IF n = 0
              THEN /\ IF ferror' THEN ToClose ELSE pc' = "seek" /\ UNCHANGED fault
                   /\ UNCHANGED <<rpos, bytes, blocks, buffer>>
              ELSE /\ rpos' = rpos + n
                   /\ bytes' = bytes \o data(n)
                   /\ \/ ToClose /\ UNCHANGED <<blocks, buffer>>
                      \/ /\ blocks' = blocks + 1
                         /\ buffer' = Append(buffer, Block(data(n)))
                         /\ \/ UNCHANGED <<pc, fault>>
                            \/ ToClose
    BY <1>3 DEF CompressBlock
  <1>6. n \in Nat /\ rpos + n <= Len(source)
    BY <1>3, <1>4
  <1>6a. ~ferror' => ~ferror /\ n = full
    <2> HIDE DEF full
    <2>1. ferror' = (ferror \/ n < full)
      BY <1>5
    <2>2. ~ferror' => ~ferror /\ ~(n < full)
      BY <2>1, Zenon
    <2> QED
      BY <1>4, <2>2
  <1> HIDE DEF full
  <1>7. data(n) \in Seq(Byte)
    <2>1. \A i \in rpos + 1 .. rpos + n : source[i] \in Byte
      BY <1>3, <1>6, ElementOfSeq
    <2> QED
      BY <1>3, <1>6, <2>1, SubSeqProperties
  <1>8. Block(data(n)) \in Items
    BY <1>7, ItemTypes
  <1>9. bytes \o data(n) \in Seq(Byte)
        /\ bytes \o data(n) = SubSeq(source, 1, rpos + n)
    <2>1. 1 \in 1 .. Len(source) + 1 /\ rpos \in 1 - 1 .. Len(source)
          /\ rpos + n \in rpos .. Len(source)
      BY <1>3, <1>6
    <2>2. SubSeq(source, 1, rpos) \o data(n) = SubSeq(source, 1, rpos + n)
      BY <1>3, <2>1, ConcatAdjacentSubSeq
    <2> HIDE DEF data
    <2> QED
      BY <1>3, <1>7, <2>2, ConcatProperties
  <1>10. /\ Append(buffer, Block(data(n))) \in Seq(Items)
         /\ disk["archive"].items \o Append(buffer, Block(data(n)))
               = Append(out, Block(data(n)))
    <2> DEFINE b == Block(data(n))
    <2>1. Append(buffer, b) \in Seq(Items) /\ Append(buffer, b) = buffer \o <<b>>
          /\ <<b>> \in Seq(Items)
      BY <1>3, <1>8, AppendProperties, AppendIsConcat
    <2>2. Append(out, b) = out \o <<b>>
      BY <1>3, <1>8, AppendIsConcat
    <2> HIDE DEF b
    <2> DEFINE file == disk["archive"].items
               one  == <<b>>
    <2>3. file \in Seq(Items) /\ buffer \in Seq(Items) /\ one \in Seq(Items)
      BY <1>3, <2>1
    <2>4. (file \o buffer) \o one = file \o (buffer \o one)
      <3> HIDE DEF file, one
      <3> QED
        BY <2>3, ConcatAssociative
    <2> QED
      BY <2>1, <2>2, <2>4 DEF b
  <1> HIDE DEF data
  <1>11. /\ rpos' \in Nat /\ rpos' <= Len(source) /\ blocks' \in Nat
         /\ bytes' \in Seq(Byte) /\ bytes' = SubSeq(source, 1, rpos')
         /\ buffer' \in Seq(Items)
         /\ pc' \in {"block", "seek", "close"}
         /\ fault' \in BOOLEAN /\ (fault => fault') /\ ferror' \in BOOLEAN
         /\ (pc' = "close" => fault')
    <2>1. fault \in BOOLEAN /\ ferror' \in BOOLEAN
      BY <1>5 DEF MgzInv, TypeOK
    <2>2. CASE n = 0
      BY <1>1, <1>3, <1>5, <2>1, <2>2 DEF ToClose
    <2>3. CASE n # 0
      <3>1. /\ rpos' = rpos + n /\ bytes' = bytes \o data(n)
            /\ \/ blocks' = blocks /\ buffer' = buffer
               \/ /\ blocks' = blocks + 1
                  /\ buffer' = Append(buffer, Block(data(n)))
            /\ \/ pc' = pc /\ fault' = fault
               \/ pc' = "close" /\ fault' = TRUE
        BY <1>5, <2>3 DEF ToClose
      <3>2. rpos' \in Nat /\ rpos' <= Len(source) /\ blocks' \in Nat
        BY <1>3, <1>6, <3>1
      <3>3. bytes' \in Seq(Byte) /\ bytes' = SubSeq(source, 1, rpos')
            /\ buffer' \in Seq(Items)
        BY <1>3, <1>9, <1>10, <3>1
      <3>4. pc' \in {"block", "close"} /\ fault' \in BOOLEAN /\ (fault => fault')
            /\ (pc' = "close" => fault')
        <4>1. CASE pc' = pc /\ fault' = fault
          <5>1. pc' = "block"
            BY <1>1, <4>1
          <5>2. fault' \in BOOLEAN /\ (fault => fault')
            BY <2>1, <4>1
          <5> QED
            BY <5>1, <5>2
        <4>2. CASE pc' = "close" /\ fault' = TRUE
          BY <4>2
        <4> QED
          BY <3>1, <4>1, <4>2
      <3> QED
        BY <2>1, <3>2, <3>3, <3>4
    <2> QED
      BY <2>2, <2>3
  <1>12. TypeOK'
    BY <1>1, <1>2, <1>11 DEF MgzInv, TypeOK
  <1>13. MgzTypes'
    BY <1>1, <1>2, <1>11 DEF MgzInv, MgzTypes
  <1>14. Running'
    <2>1. ~success
      BY <1>1 DEF MgzInv, Running
    <2> QED
      BY <1>1, <1>2, <1>11, <2>1 DEF MgzInv, Running
  <1>15. Compressing'
    <2>1. /\ Len(out) = blocks + 1 /\ out[1] = Placeholder
          /\ \A i \in 2 .. Len(out) : out[i].kind = "block"
          /\ ~ferror => Reach(blocks, rpos) /\ BlocksTo(blocks, out)
      BY <1>1 DEF MgzInv, Compressing
    <2>2. rpos' <= Len(source') /\ bytes' = SubSeq(source', 1, rpos')
      BY <1>2, <1>11
    <2>3. CASE n = 0 /\ ~ferror'
      <3>1. /\ pc' = "seek" /\ ~ferror' /\ ~ferror /\ full = 0
            /\ rpos' = rpos /\ blocks' = blocks /\ buffer' = buffer
        BY <1>5, <1>6a, <2>3
      <3>2. rpos' = Len(source')
        BY <1>2, <1>3, <1>4, <3>1
      <3>3. Reach(blocks, rpos)' /\ BlocksTo(blocks, disk["archive"].items \o buffer)'
        BY <1>2, <2>1, <3>1 DEF Reach, BlocksTo, SourceBlock
      <3>4. /\ Len(disk["archive"].items \o buffer)' = blocks' + 1
            /\ (disk["archive"].items \o buffer)[1]' = Placeholder
        BY <1>2, <2>1, <3>1
      <3>5. \A i \in 2 .. Len(disk["archive"].items \o buffer)' :
               (disk["archive"].items \o buffer)'[i].kind = "block"
        BY <1>2, <2>1, <3>1
      <3> QED
        BY <2>2, <3>1, <3>2, <3>3, <3>4, <3>5 DEF Compressing
    <2>4. CASE pc' = "close"
      BY <1>2, <2>2, <2>4 DEF Compressing
    <2>5. CASE n # 0 /\ pc' # "close"
      <3>1. /\ pc' = "block" /\ blocks' = blocks + 1 /\ rpos' = rpos + n
            /\ disk'["archive"].items \o buffer' = Append(out, Block(data(n)))
        BY <1>1, <1>2, <1>5, <1>10, <2>5 DEF ToClose
      <3>2. /\ Len(Append(out, Block(data(n)))) = blocks + 2
            /\ Append(out, Block(data(n)))[blocks + 2] = Block(data(n))
            /\ \A i \in 1 .. blocks + 1 : Append(out, Block(data(n)))[i] = out[i]
        <4> HIDE DEF out
        <4>1. out \in Seq(Items) /\ Len(out) = blocks + 1
          BY <1>3, <2>1 DEF out
        <4>2. Len(out) + 1 = blocks + 2
          BY <1>3, <4>1
        <4> QED
          BY <1>8, <4>1, <4>2, AppendProperties
      <3>3. /\ Len(disk["archive"].items \o buffer)' = blocks' + 1
            /\ (disk["archive"].items \o buffer)[1]' = Placeholder
        <4>1. 1 \in 1 .. blocks + 1 /\ (blocks + 1) + 1 = blocks + 2
          BY <1>3
        <4> HIDE DEF out
        <4> QED
          BY <2>1, <3>1, <3>2, <4>1
      <3>4. ASSUME ~ferror'
            PROVE  Reach(blocks, rpos)'
                   /\ BlocksTo(blocks, disk["archive"].items \o buffer)'
        <4>1. ~ferror /\ n = full /\ rpos < Len(source)
          BY <1>3, <1>4, <1>6, <1>6a, <2>5, <3>4
        <4>2. Reach(blocks, rpos) /\ BlocksTo(blocks, out)
          BY <2>1, <4>1
        <4>3. Reach(blocks + 1, rpos + n) /\ data(n) = SourceBlock(blocks + 1)
          BY <1>3, <4>1, <4>2, ReachNext DEF full, data
        <4>4. Reach(blocks, rpos)'
          BY <1>2, <3>1, <4>3 DEF Reach
        <4>5. \A b \in 1 .. blocks + 1 :
                 Append(out, Block(data(n)))[b + 1] = Block(SourceBlock(b))
          <5> SUFFICES ASSUME NEW b \in 1 .. blocks + 1
                       PROVE  Append(out, Block(data(n)))[b + 1] = Block(SourceBlock(b))
            OBVIOUS
          <5>1. CASE b = blocks + 1
            <6>1. b + 1 = blocks + 2
              BY <1>3, <5>1
            <6> QED
              BY <3>2, <4>3, <5>1, <6>1
          <5>2. CASE b # blocks + 1
            <6>1. b \in 1 .. blocks /\ b + 1 \in 1 .. blocks + 1
              BY <1>3, <5>2
            <6> QED
              BY <3>2, <4>2, <6>1 DEF BlocksTo
          <5> QED
            BY <5>1, <5>2
        <4>6. BlocksTo(blocks, disk["archive"].items \o buffer)'
          BY <1>2, <3>1, <3>3, <4>5 DEF BlocksTo, SourceBlock, Block
        <4> QED
          BY <4>4, <4>6
      <3>5. \A i \in 2 .. Len(disk["archive"].items \o buffer)' :
               (disk["archive"].items \o buffer)'[i].kind = "block"
        <4> HIDE DEF out
        <4> SUFFICES ASSUME NEW i \in 2 .. blocks + 2
                     PROVE  Append(out, Block(data(n)))[i].kind = "block"
          BY <3>1, <3>2
        <4>1. CASE i = blocks + 2
          BY <3>2, <4>1, BlockKind
        <4>2. CASE i # blocks + 2
          <5>1. i \in 1 .. blocks + 1 /\ i \in 2 .. Len(out)
            BY <1>3, <2>1, <4>2
          <5> QED
            BY <2>1, <3>2, <5>1
        <4> QED
          BY <4>1, <4>2
      <3> QED
        BY <2>2, <3>1, <3>3, <3>4, <3>5 DEF Compressing
    <2> QED
      BY <1>5, <2>3, <2>4, <2>5 DEF ToClose
  <1>16. Decompressing'
    BY <1>1, <1>2 DEF Decompressing
  <1>17. Succeeded' /\ Failing'
    BY <1>1, <1>2, <1>11 DEF MgzInv, Running, Succeeded, Failing
  <1>18. ArchiveTells' /\ GoodArchive' /\ RestoredIsSource' /\ FailureHasCause'
    BY <1>1, <1>2, <1>11, KeepsFiles DEF Idle
  <1> QED
    BY <1>12, <1>13, <1>14, <1>15, <1>16, <1>17, <1>18 DEF MgzInv

LEMMA NewItems ==
  \A a, b, c : [[there |-> a, items |-> b] EXCEPT !.items = c]
                  = [there |-> a, items |-> c]
  OBVIOUS

\* A step that writes to the output of the call leaves the other files alone.
LEMMA WriteFacts ==
  ASSUME MgzInv, ~Idle, NEW its,
         its \in Seq(IF op = "decompress" THEN Byte ELSE Items),
         disk' = [disk EXCEPT ![target].items = its],
         source' = source, target' = target
  PROVE  /\ target \in Paths \ {"plain"}
         /\ target = IF op = "decompress" THEN "restored" ELSE "archive"
         /\ disk'[target].items = its
         /\ \A f \in Paths \ {target} : disk'[f] = disk[f]
         /\ DOMAIN disk' = Paths
         /\ \A f \in Paths :
               disk'[f] = [there |-> disk'[f].there, items |-> disk'[f].items]
         /\ \A f \in DOMAIN disk' : disk'[f].there \in BOOLEAN
                                    /\ (~disk'[f].there => disk'[f].items = <<>>)
         /\ target' \in DOMAIN disk' /\ disk'[target].there
         /\ disk'["plain"] = File(source')
         /\ disk'["archive"].items \in Seq(Items)
         /\ disk'["restored"].items \in Seq(Byte)
  <1>1. /\ target \in Paths \ {"plain"}
        /\ target = IF op = "decompress" THEN "restored" ELSE "archive"
        /\ disk[target].there
    BY DEF MgzInv, TypeOK, Running, Idle, Paths
  <1>2. /\ DOMAIN disk = Paths
        /\ \A f \in Paths :
              disk[f] = [there |-> disk[f].there, items |-> disk[f].items]
        /\ disk["plain"] = File(source)
        /\ disk["archive"].items \in Seq(Items)
        /\ disk["restored"].items \in Seq(Byte)
    BY DEF MgzInv, MgzTypes
  <1>3. /\ DOMAIN disk' = Paths
        /\ \A f \in Paths :
              disk'[f] = [there |-> disk'[f].there, items |-> disk'[f].items]
        /\ disk'[target].items = its /\ disk'[target].there = disk[target].there
        /\ \A f \in Paths \ {target} : disk'[f] = disk[f]
    <2>1. DOMAIN disk' = Paths /\ \A f \in Paths \ {target} : disk'[f] = disk[f]
      BY <1>1, <1>2
    <2>2. disk'[target] = [disk[target] EXCEPT !.items = its]
      BY <1>1, <1>2
    <2>3. disk[target] = [there |-> disk[target].there, items |-> disk[target].items]
      BY <1>1, <1>2
    <2>4. [[there |-> disk[target].there, items |-> disk[target].items]
              EXCEPT !.items = its] = [there |-> disk[target].there, items |-> its]
      BY NewItems
    <2>5. disk'[target] = [there |-> disk[target].there, items |-> its]
      BY <2>2, <2>3, <2>4
    <2>6. disk'[target].items = its /\ disk'[target].there = disk[target].there
      BY <2>5
    <2>7. disk'[target] = [there |-> disk'[target].there, items |-> disk'[target].items]
      BY <2>5, <2>6
    <2>8. \A f \in Paths \ {target} :
             disk'[f] = [there |-> disk'[f].there, items |-> disk'[f].items]
      BY <1>2, <2>1
    <2> QED
      BY <2>1, <2>6, <2>7, <2>8
  <1>4. \A f \in DOMAIN disk' : disk'[f].there \in BOOLEAN
                                /\ (~disk'[f].there => disk'[f].items = <<>>)
    BY <1>1, <1>2, <1>3 DEF MgzInv, TypeOK
  <1>5. disk'["plain"] = File(source')
    BY <1>1, <1>2, <1>3 DEF Paths
  <1>6. disk'["archive"].items \in Seq(Items) /\ disk'["restored"].items \in Seq(Byte)
    BY <1>1, <1>2, <1>3 DEF Paths
  <1> QED
    BY <1>1, <1>3, <1>4, <1>5, <1>6

LEMMA KeepsSeekToHeader == MgzInv /\ SeekToHeader => MgzInv'
  <1> SUFFICES ASSUME MgzInv, SeekToHeader PROVE MgzInv'
    OBVIOUS
  <1>1. op = "compress" /\ pc = "seek" /\ ~Idle /\ ~success
    BY DEF SeekToHeader, Idle, MgzInv, Running
  <1>2. UNCHANGED <<source, op, target, header, calls, rpos, ferror, bytes, blocks,
                    success, result, good, abandoned>>
    BY DEF SeekToHeader, callVars, posVars, histVars
  <1>3. /\ source \in Seq(Byte) /\ Len(source) \in Nat /\ rpos \in Nat
        /\ blocks \in Nat
        /\ disk["archive"].items \in Seq(Items) /\ buffer \in Seq(Items)
        /\ disk["archive"].items \o buffer \in Seq(Items)
        /\ target = "archive" /\ disk["archive"].there
    BY <1>1, CompressFacts
  <1> DEFINE out == disk["archive"].items \o buffer
  <1>4. /\ rpos = Len(source) /\ bytes = SubSeq(source, 1, rpos) /\ ~ferror
        /\ Len(out) = blocks + 1 /\ out[1] = Placeholder
        /\ \A i \in 2 .. Len(out) : out[i].kind = "block"
        /\ Reach(blocks, rpos) /\ BlocksTo(blocks, out)
    BY <1>1 DEF MgzInv, Compressing
  <1>5. CASE ToClose /\ UNCHANGED <<disk, buffer>>
    <2>1. pc' = "close" /\ fault' = TRUE /\ disk' = disk /\ buffer' = buffer
      BY <1>5 DEF ToClose
    <2>2. TypeOK' /\ MgzTypes'
      BY <1>1, <1>2, <2>1 DEF MgzInv, TypeOK, MgzTypes
    <2>3. Running'
      BY <1>1, <1>2, <2>1 DEF MgzInv, Running
    <2>4. Compressing'
      BY <1>2, <1>3, <1>4, <2>1 DEF Compressing
    <2>5. Decompressing' /\ Succeeded' /\ Failing'
      BY <1>1, <1>2, <2>1 DEF Decompressing, Succeeded, Failing
    <2>6. ArchiveTells' /\ GoodArchive' /\ RestoredIsSource' /\ FailureHasCause'
      BY <1>1, <1>2, <2>1, KeepsFiles
    <2> QED
      BY <2>2, <2>3, <2>4, <2>5, <2>6 DEF MgzInv
  <1>6. CASE /\ disk' = [disk EXCEPT ![target].items = @ \o buffer]
             /\ buffer' = <<>> /\ pc' = "header" /\ UNCHANGED fault
    <2>1. disk' = [disk EXCEPT ![target].items = out]
      BY <1>3, <1>6
    <2>2. /\ disk'["archive"].items = out
          /\ \A f \in Paths \ {"archive"} : disk'[f] = disk[f]
          /\ DOMAIN disk' = Paths
          /\ \A f \in Paths :
                disk'[f] = [there |-> disk'[f].there, items |-> disk'[f].items]
          /\ \A f \in DOMAIN disk' :
                disk'[f].there \in BOOLEAN /\ (~disk'[f].there => disk'[f].items = <<>>)
          /\ target' \in DOMAIN disk' /\ disk'[target].there
          /\ disk'["plain"] = File(source')
          /\ disk'["archive"].items \in Seq(Items)
          /\ disk'["restored"].items \in Seq(Byte)
      <3> HIDE DEF out
      <3>1. out \in Seq(IF op = "decompress" THEN Byte ELSE Items)
        BY <1>1, <1>3 DEF out
      <3> QED
        BY <1>1, <1>2, <1>3, <2>1, <3>1, WriteFacts
    <2>3. <<>> \in Seq(Items)
      OBVIOUS
    <2>4. TypeOK'
      BY <1>1, <1>2, <1>6, <2>2 DEF MgzInv, TypeOK
    <2>5. MgzTypes'
      BY <1>1, <1>2, <1>6, <2>2, <2>3 DEF MgzInv, MgzTypes
    <2>6. Running'
      BY <1>1, <1>2, <1>3, <1>6, <2>2 DEF MgzInv, Running
    <2>7. Compressing'
      <3>1. (disk["archive"].items \o buffer)' = out
        BY <1>3, <1>6, <2>2, ConcatEmptySeq
      <3>2. rpos' <= Len(source') /\ bytes' = SubSeq(source', 1, rpos')
            /\ rpos' = Len(source') /\ ~ferror'
        BY <1>2, <1>3, <1>4
      <3>3. /\ Len(disk["archive"].items \o buffer)' = blocks' + 1
            /\ (disk["archive"].items \o buffer)[1]' = Placeholder
        BY <1>2, <1>4, <3>1
      <3>4. Reach(blocks, rpos)' /\ BlocksTo(blocks, disk["archive"].items \o buffer)'
        BY <1>2, <1>4, <3>1 DEF Reach, BlocksTo, SourceBlock
      <3>5. buffer' = <<>>
        BY <1>6
      <3>6. \A i \in 2 .. Len(disk["archive"].items \o buffer)' :
               (disk["archive"].items \o buffer)'[i].kind = "block"
        BY <1>4, <3>1
      <3> QED
        BY <3>2, <3>3, <3>4, <3>5, <3>6 DEF Compressing
    <2>8. Decompressing' /\ Succeeded' /\ Failing'
      BY <1>1, <1>2, <1>6 DEF Decompressing, Succeeded, Failing
    <2>9. ArchiveTells'
      <3> SUFFICES ASSUME NEW i \in DOMAIN out, out[i].kind = "header"
                   PROVE  \/ out[i].crc = source
                          \/ out[i] = Placeholder /\ Len(out) >= 2
        BY <1>2, <2>2 DEF ArchiveTells
      <3>1. i \in 1 .. blocks + 1
        BY <1>3, <1>4, LenProperties
      <3>2. i = 1
        <4> SUFFICES ASSUME i # 1 PROVE FALSE
          OBVIOUS
        <4>1. i \in 2 .. Len(out)
          BY <1>3, <1>4, <3>1
        <4> QED
          BY <1>4, <4>1
      <3>3. CASE blocks = 0
        <4>1. Len(source) = 0
          <5>1. 0 * BlockSize = 0
            BY SizesAssumption
          <5> QED
            BY <1>3, <1>4, <3>3, <5>1 DEF Reach, Min2
        <4>2. source = <<>>
          BY <1>3, <4>1, EmptySeq
        <4> QED
          BY <1>4, <3>2, <4>2 DEF Placeholder, Header
      <3>4. CASE blocks # 0
        BY <1>3, <1>4, <3>2, <3>4
      <3> QED
        BY <3>3, <3>4
    <2>10. GoodArchive'
      BY <1>1, <1>2 DEF MgzInv, Running, GoodArchive
    <2>11. RestoredIsSource' /\ FailureHasCause'
      BY <1>2, <1>6, <2>2 DEF MgzInv, RestoredIsSource, FailureHasCause, Paths
    <2> QED
      BY <2>4, <2>5, <2>6, <2>7, <2>8, <2>9, <2>10, <2>11 DEF MgzInv
  <1> QED
    BY <1>5, <1>6 DEF SeekToHeader

LEMMA KeepsFinishHeader == MgzInv /\ FinishHeader => MgzInv'
  <1> SUFFICES ASSUME MgzInv, FinishHeader PROVE MgzInv'
    OBVIOUS
  <1>1. op = "compress" /\ pc = "header" /\ ~Idle
    BY DEF FinishHeader, Idle
  <1>2. UNCHANGED <<source, op, target, header, calls, rpos, ferror, bytes, blocks,
                    buffer, result, good, abandoned>>
    BY DEF FinishHeader, callVars, posVars, histVars
  <1>3. /\ source \in Seq(Byte) /\ Len(source) \in Nat
        /\ blocks \in Nat
        /\ disk["archive"].items \in Seq(Items) /\ buffer = <<>>
        /\ target = "archive" /\ disk["archive"].there
    BY <1>1, CompressFacts DEF MgzInv, Compressing
  <1> DEFINE out == disk["archive"].items
             head == Header(Len(source), source, ExpectedBlocks(Len(source)))
  <1>4. disk["archive"].items \o buffer = out
    BY <1>3, ConcatEmptySeq
  <1>5. /\ rpos = Len(source) /\ bytes = SubSeq(source, 1, rpos)
        /\ Len(out) = blocks + 1 /\ Reach(blocks, rpos) /\ BlocksTo(blocks, out)
    BY <1>1, <1>4 DEF MgzInv, Compressing
  <1>6. bytes = source /\ blocks = ExpectedBlocks(Len(source))
    BY <1>3, <1>5, SubSeqFull, ReachEnd
  <1>7. CASE ToClose /\ UNCHANGED <<disk, success>>
    <2>1. pc' = "close" /\ fault' = TRUE /\ disk' = disk /\ success' = success
          /\ ~success
      BY <1>1, <1>7 DEF ToClose, MgzInv, Running
    <2>2. TypeOK' /\ MgzTypes'
      BY <1>1, <1>2, <2>1 DEF MgzInv, TypeOK, MgzTypes
    <2>3. Running'
      BY <1>1, <1>2, <2>1 DEF MgzInv, Running
    <2>4. Compressing'
      BY <1>2, <1>3, <1>5, <2>1 DEF Compressing
    <2>5. Decompressing' /\ Succeeded' /\ Failing'
      BY <1>1, <1>2, <2>1 DEF Decompressing, Succeeded, Failing
    <2>6. ArchiveTells' /\ GoodArchive' /\ RestoredIsSource' /\ FailureHasCause'
      BY <1>1, <1>2, <2>1, KeepsFiles
    <2> QED
      BY <2>2, <2>3, <2>4, <2>5, <2>6 DEF MgzInv
  <1>8. CASE /\ disk' = [disk EXCEPT ![target].items[1] =
                           Header(Len(bytes), bytes, blocks)]
             /\ success' = TRUE /\ pc' = "close" /\ UNCHANGED fault
    <2> DEFINE new == [out EXCEPT ![1] = head]
    <2>1. disk' = [disk EXCEPT ![target].items = new]
      BY <1>3, <1>6, <1>8
    <2>2. head \in Items
      BY <1>3, <1>6, ItemTypes
    <2>3. /\ new \in Seq(Items) /\ Len(new) = blocks + 1
          /\ new[1] = head
          /\ \A i \in 1 .. blocks + 1 : i # 1 => new[i] = out[i]
      <3>1. 1 \in 1 .. Len(out) /\ Len(out) = blocks + 1
        BY <1>3, <1>5
      <3> HIDE DEF out, head
      <3>2. out \in Seq(Items)
        BY <1>3 DEF out
      <3> QED
        BY <2>2, <3>1, <3>2, ExceptSeq
    <2>4. /\ disk'["archive"].items = new
          /\ \A f \in Paths \ {"archive"} : disk'[f] = disk[f]
          /\ DOMAIN disk' = Paths
          /\ \A f \in Paths :
                disk'[f] = [there |-> disk'[f].there, items |-> disk'[f].items]
          /\ \A f \in DOMAIN disk' :
                disk'[f].there \in BOOLEAN /\ (~disk'[f].there => disk'[f].items = <<>>)
          /\ target' \in DOMAIN disk' /\ disk'[target].there
          /\ disk'["plain"] = File(source')
          /\ disk'["archive"].items \in Seq(Items)
          /\ disk'["restored"].items \in Seq(Byte)
      <3> HIDE DEF new
      <3>1. new \in Seq(IF op = "decompress" THEN Byte ELSE Items)
        BY <1>1, <2>3
      <3> QED
        BY <1>1, <1>2, <1>3, <2>1, <3>1, WriteFacts
    <2> HIDE DEF new
    <2>5. TypeOK'
      BY <1>1, <1>2, <1>8, <2>4 DEF MgzInv, TypeOK
    <2>6. MgzTypes'
      BY <1>1, <1>2, <2>4 DEF MgzInv, MgzTypes
    <2>7. Running'
      BY <1>1, <1>2, <1>3, <1>8, <2>4 DEF MgzInv, Running
    <2>8. Compressing'
      BY <1>2, <1>3, <1>5, <1>8 DEF Compressing
    <2>9. \A b \in 1 .. blocks : new[b + 1] = Block(SourceBlock(b))
      <3> SUFFICES ASSUME NEW b \in 1 .. blocks
                   PROVE  new[b + 1] = Block(SourceBlock(b))
        OBVIOUS
      <3>1. b + 1 \in 1 .. blocks + 1 /\ b + 1 # 1
        BY <1>3
      <3> QED
        BY <1>5, <2>3, <3>1 DEF BlocksTo
    <2>10. Succeeded'
      <3>1. Len(new) = ExpectedBlocks(Len(source')) + 1
        BY <1>2, <1>6, <2>3
      <3>2. \A b \in 1 .. ExpectedBlocks(Len(source')) : new[b + 1] = Block(SourceBlock(b))'
        BY <1>2, <1>6, <2>9 DEF SourceBlock, Block
      <3>3. BlocksTo(ExpectedBlocks(Len(source)), disk["archive"].items)'
        BY <2>4, <3>1, <3>2 DEF BlocksTo, ExpectedBlocks
      <3>4. disk'["archive"].items[1]
               = Header(Len(source'), source', ExpectedBlocks(Len(source')))
        BY <1>2, <2>3, <2>4
      <3> QED
        BY <1>1, <1>2, <3>3, <3>4 DEF Succeeded
    <2>11. Decompressing' /\ Failing'
      BY <1>1, <1>2, <1>8 DEF Decompressing, Failing
    <2>12. ArchiveTells'
      <3> SUFFICES ASSUME NEW i \in DOMAIN new, new[i].kind = "header"
                   PROVE  new[i].crc = source
        BY <1>2, <2>4 DEF ArchiveTells
      <3>1. i \in 1 .. blocks + 1
        BY <2>3, LenProperties
      <3>2. CASE i = 1
        BY <2>3, <3>2, HeaderFields
      <3>3. CASE i # 1
        <4>1. i - 1 \in 1 .. blocks /\ (i - 1) + 1 = i
          BY <1>3, <3>1, <3>3
        <4>2. new[i] = Block(SourceBlock(i - 1))
          BY <2>9, <4>1
        <4> QED
          BY <4>2, BlockKind
      <3> QED
        BY <3>2, <3>3
    <2>13. GoodArchive'
      BY <1>1, <1>2 DEF MgzInv, Running, GoodArchive
    <2>14. RestoredIsSource' /\ FailureHasCause'
      BY <1>2, <1>8, <2>4 DEF MgzInv, RestoredIsSource, FailureHasCause, Paths
    <2> QED
      BY <2>5, <2>6, <2>7, <2>8, <2>10, <2>11, <2>12, <2>13, <2>14 DEF MgzInv
  <1> QED
    BY <1>7, <1>8 DEF FinishHeader

LEMMA KeepsStdioFlush == MgzInv /\ StdioFlush => MgzInv'
  <1> SUFFICES ASSUME MgzInv, StdioFlush PROVE MgzInv'
    OBVIOUS
  <1>1. pc = "block" /\ ~Idle /\ ~success
    BY DEF StdioFlush, MgzInv, Running, TypeOK, Idle
  <1>2. UNCHANGED <<source, op, target, header, calls, pc, rpos, ferror, bytes,
                    blocks, success, result, fault, good, abandoned>>
    BY DEF StdioFlush, callVars, posVars, histVars
  <1> DEFINE T == IF op = "decompress" THEN Byte ELSE Items
             file == disk[target].items
             part(n) == SubSeq(buffer, 1, n)
             rest(n) == SubSeq(buffer, n + 1, Len(buffer))
  <1>3. buffer \in Seq(T) /\ file \in Seq(T)
        /\ target = IF op = "decompress" THEN "restored" ELSE "archive"
    BY <1>1 DEF MgzInv, MgzTypes, Running, TypeOK, Idle
  <1>4. PICK n \in 1 .. Len(buffer) :
           /\ op = "compress" /\ file = <<>> => n >= 2
           /\ disk' = [disk EXCEPT ![target].items = @ \o part(n)]
           /\ buffer' = rest(n)
    BY DEF StdioFlush
  <1> HIDE DEF T
  <1>5. Len(buffer) \in Nat /\ n \in Nat
    BY <1>3, LenProperties
  <1>6. part(n) \in Seq(T) /\ rest(n) \in Seq(T) /\ part(n) \o rest(n) = buffer
        /\ Len(part(n)) = n /\ part(n)[1] = buffer[1]
    <2>1. /\ \A i \in 1 .. n : buffer[i] \in T
          /\ \A i \in n + 1 .. Len(buffer) : buffer[i] \in T
      BY <1>3, <1>5, ElementOfSeq
    <2>2. part(n) \in Seq(T) /\ rest(n) \in Seq(T) /\ Len(part(n)) = n
          /\ part(n)[1] = buffer[1]
      BY <1>3, <1>5, <2>1, SubSeqProperties
    <2>3. 1 \in 1 .. Len(buffer) + 1 /\ n \in 1 - 1 .. Len(buffer)
          /\ Len(buffer) \in n .. Len(buffer)
      BY <1>5
    <2>4. part(n) \o rest(n) = SubSeq(buffer, 1, Len(buffer))
      BY <1>3, <2>3, ConcatAdjacentSubSeq
    <2> QED
      BY <1>3, <2>2, <2>4, SubSeqFull
  <1> DEFINE new == file \o part(n)
  <1>7. disk' = [disk EXCEPT ![target].items = new]
    BY <1>4
  <1>8. new \in Seq(T) /\ new \o rest(n) = file \o buffer
    <2> DEFINE p == part(n)
               r == rest(n)
    <2> HIDE DEF file, p, r
    <2>1. p \in Seq(T) /\ r \in Seq(T) /\ p \o r = buffer
      BY <1>6 DEF p, r
    <2>2. file \o p \in Seq(T)
      BY <1>3, <2>1, ConcatProperties
    <2>3. (file \o p) \o r = file \o (p \o r)
      <3>1. file \in Seq(T) /\ p \in Seq(T) /\ r \in Seq(T)
        BY <1>3, <2>1
      <3> QED
        BY <3>1, ConcatAssociative
    <2> QED
      BY <2>1, <2>2, <2>3 DEF p, r
  <1> HIDE DEF part, rest
  <1>9. /\ disk'[target].items = new
        /\ \A f \in Paths \ {target} : disk'[f] = disk[f]
        /\ DOMAIN disk' = Paths
        /\ \A f \in Paths :
              disk'[f] = [there |-> disk'[f].there, items |-> disk'[f].items]
        /\ \A f \in DOMAIN disk' :
              disk'[f].there \in BOOLEAN /\ (~disk'[f].there => disk'[f].items = <<>>)
        /\ target' \in DOMAIN disk' /\ disk'[target].there
        /\ disk'["plain"] = File(source')
        /\ disk'["archive"].items \in Seq(Items)
        /\ disk'["restored"].items \in Seq(Byte)
    <2> HIDE DEF new
    <2> QED
      BY <1>1, <1>2, <1>7, <1>8, WriteFacts DEF T
  <1> HIDE DEF new
  <1>10. buffer' \in Seq(T)
    BY <1>4, <1>6
  <1>11. TypeOK'
    BY <1>1, <1>2, <1>9 DEF MgzInv, TypeOK
  <1>12. MgzTypes'
    BY <1>1, <1>2, <1>9, <1>10 DEF MgzInv, MgzTypes, T
  <1>13. Running'
    BY <1>1, <1>2, <1>9 DEF MgzInv, Running
  <1>14. disk'[target].items \o buffer' = file \o buffer
    BY <1>4, <1>8, <1>9
  <1>15. ASSUME op = "compress" PROVE Compressing'
    <2> DEFINE out == disk["archive"].items \o buffer
    <2>1. /\ rpos <= Len(source) /\ bytes = SubSeq(source, 1, rpos)
          /\ Len(out) = blocks + 1 /\ out[1] = Placeholder
          /\ \A i \in 2 .. Len(out) : out[i].kind = "block"
          /\ ~ferror => Reach(blocks, rpos) /\ BlocksTo(blocks, out)
      BY <1>1, <1>15 DEF MgzInv, Compressing
    <2>2. (disk["archive"].items \o buffer)' = out
      BY <1>2, <1>3, <1>14, <1>15
    <2>3. rpos' <= Len(source') /\ bytes' = SubSeq(source', 1, rpos')
      BY <1>2, <2>1
    <2>4. /\ Len(disk["archive"].items \o buffer)' = blocks' + 1
          /\ (disk["archive"].items \o buffer)[1]' = Placeholder
      BY <1>2, <2>1, <2>2
    <2>5. ~ferror' => Reach(blocks, rpos)'
                      /\ BlocksTo(blocks, disk["archive"].items \o buffer)'
      BY <1>2, <2>1, <2>2 DEF Reach, BlocksTo, SourceBlock
    <2>6. pc' = "block"
      BY <1>1, <1>2
    <2>7. \A i \in 2 .. Len(disk["archive"].items \o buffer)' :
             (disk["archive"].items \o buffer)'[i].kind = "block"
      BY <2>1, <2>2
    <2> QED
      BY <2>3, <2>4, <2>5, <2>6, <2>7 DEF Compressing
  <1>16. ASSUME op # "compress" PROVE Compressing'
    BY <1>2, <1>16 DEF Compressing
  <1>17. ASSUME op = "decompress" PROVE Decompressing'
    <2>1. target = "restored" /\ disk'["archive"] = disk["archive"]
      BY <1>3, <1>9, <1>17 DEF Paths
    <2>2. disk'["restored"].items \o buffer' = bytes'
      BY <1>1, <1>2, <1>14, <1>17, <2>1 DEF MgzInv, Decompressing
    <2> QED
      BY <1>1, <1>2, <1>17, <2>1, <2>2 DEF MgzInv, Decompressing, Reach
  <1>18. ASSUME op # "decompress" PROVE Decompressing'
    BY <1>2, <1>18 DEF Decompressing
  <1>19. Succeeded' /\ Failing'
    BY <1>1, <1>2 DEF Succeeded, Failing
  <1>20. ASSUME target = "restored" PROVE ArchiveTells' /\ GoodArchive'
    <2>1. disk'["archive"] = disk["archive"]
      BY <1>9, <1>20 DEF Paths
    <2> QED
      BY <1>2, <2>1 DEF MgzInv, ArchiveTells, GoodArchive, SourceBlock
  <1>21. ASSUME target = "archive" PROVE ArchiveTells' /\ GoodArchive'
    <2>1. op = "compress" /\ ~good'
      BY <1>1, <1>2, <1>3, <1>21 DEF MgzInv, Running, TypeOK, Idle
    <2> DEFINE out == file \o buffer
    <2>2. /\ out[1] = Placeholder /\ \A i \in 2 .. Len(out) : out[i].kind = "block"
          /\ T = Items
      BY <1>1, <1>21, <2>1 DEF MgzInv, Compressing, T
    <2>3. \A i \in 1 .. Len(new) : new[i] = out[i] /\ i <= Len(out)
      <3>1. rest(n) \in Seq(T) /\ new \in Seq(T) /\ out = new \o rest(n)
            /\ Len(new) \in Nat /\ Len(rest(n)) \in Nat
        BY <1>6, <1>8, LenProperties
      <3> HIDE DEF out
      <3> QED
        BY <3>1, ConcatProperties
    <2>4. Len(out) \in Nat
      BY <1>3, ConcatProperties, LenProperties
    <2>5. Len(new) = Len(file) + n /\ Len(file) \in Nat /\ Len(new) \in Nat
          /\ (file # <<>> => file[1] = out[1] /\ 1 \in DOMAIN file)
      <3> HIDE DEF file
      <3>1. file \in Seq(T) /\ buffer \in Seq(T) /\ part(n) \in Seq(T)
            /\ Len(part(n)) = n
        BY <1>3, <1>6
      <3>2. Len(file) \in Nat /\ Len(buffer) \in Nat /\ DOMAIN file = 1 .. Len(file)
            /\ (file # <<>> => Len(file) # 0)
        BY <3>1, LenProperties, EmptySeq
      <3>3. Len(new) = Len(file) + n
        BY <3>1, ConcatProperties DEF new
      <3>4. file # <<>> => (file \o buffer)[1] = file[1]
        BY <3>1, <3>2, ConcatProperties
      <3> QED
        BY <1>5, <3>2, <3>3, <3>4
    <2>6. Placeholder.crc = source \/ Len(new) >= 2
      <3>1. CASE file = <<>>
        BY <1>4, <1>5, <2>1, <2>5, <3>1
      <3>2. CASE file # <<>>
        <4>1. Placeholder.kind = "header"
          BY DEF Placeholder, Header
        <4>2. file = disk["archive"].items /\ ~abandoned
          BY <1>21, <2>1 DEF MgzInv, Running
        <4>3. file[1].crc = source \/ Len(file) >= 2
          BY <1>1, <2>2, <2>5, <3>2, <4>1, <4>2 DEF MgzInv, ArchiveTells
        <4> QED
          BY <1>5, <2>2, <2>5, <3>2, <4>3
      <3> QED
        BY <3>1, <3>2
    <2>7. ArchiveTells'
      <3> SUFFICES ASSUME NEW i \in DOMAIN new, new[i].kind = "header"
                   PROVE  new[i] = Placeholder
        BY <1>2, <1>9, <1>21, <2>6 DEF ArchiveTells
      <3>1. i \in 1 .. Len(new) /\ Len(new) \in Nat
        BY <1>8, LenProperties
      <3>2. i = 1
        <4> SUFFICES ASSUME i # 1 PROVE FALSE
          OBVIOUS
        <4> HIDE DEF out
        <4>1. i \in 2 .. Len(out) /\ new[i] = out[i]
          BY <2>3, <2>4, <3>1
        <4> QED
          BY <2>2, <4>1
      <3> QED
        BY <2>2, <2>3, <3>1, <3>2
    <2> QED
      BY <2>1, <2>7 DEF GoodArchive
  <1>22. RestoredIsSource'
    BY <1>1, <1>2 DEF MgzInv, Running, RestoredIsSource, Idle
  <1>23. FailureHasCause'
    BY <1>2 DEF MgzInv, FailureHasCause
  <1> QED
    BY <1>3, <1>11, <1>12, <1>13, <1>15, <1>16, <1>17, <1>18, <1>19, <1>20, <1>21,
       <1>22, <1>23 DEF MgzInv

LEMMA ReachZero ==
  ASSUME source \in Seq(Byte)
  PROVE  Reach(0, 0) /\ SubSeq(source, 1, 0) = <<>>
  <1>1. 0 * BlockSize = 0 /\ Len(source) \in Nat
    BY SizesAssumption, LenProperties
  <1>2. SubSeq(source, 1, 0) = <<>>
    BY SubSeqEmpty
  <1> QED
    BY <1>1, <1>2 DEF Reach, Min2

LEMMA KeepsStartDecompress == MgzInv /\ StartDecompress => MgzInv'
  <1> SUFFICES ASSUME MgzInv, StartDecompress PROVE MgzInv'
    OBVIOUS
  <1>1. CASE Refuse
    BY <1>1, KeepsRefuse DEF StartDecompress
  <1>2. CASE /\ HeaderOK
             /\ header' = disk["archive"].items[1]
             /\ Begin("decompress", "restored", 1, <<>>)
    <2> DEFINE items == disk["archive"].items
    <2>1. Idle /\ calls < MaxCalls /\ pc = "idle"
      BY DEF StartDecompress, MgzInv, TypeOK, Idle
    <2>2. /\ disk'["restored"] = File(<<>>)
          /\ \A f \in Paths \ {"restored"} : disk'[f] = disk[f]
          /\ TypeOK' /\ Running' /\ Succeeded' /\ Failing'
          /\ DOMAIN disk' = Paths
          /\ \A f \in Paths :
                disk'[f] = [there |-> disk'[f].there, items |-> disk'[f].items]
          /\ disk'["plain"] = File(source')
          /\ disk'["archive"].items \in Seq(Items)
          /\ disk'["restored"].items \in Seq(Byte)
          /\ GoodArchive' /\ RestoredIsSource' /\ FailureHasCause'
      BY <1>2, <2>1, KeepsBegin
    <2>3. /\ op' = "decompress" /\ target' = "restored" /\ rpos' = 1 /\ blocks' = 0
          /\ bytes' = <<>> /\ buffer' = <<>> /\ pc' \in {"block", "close"}
          /\ source' = source /\ header' = items[1]
      BY <1>2 DEF Begin, ToClose
    <2>4. disk'["archive"] = disk["archive"]
      BY <2>2 DEF Paths
    <2>5. abandoned' = abandoned /\ good' = good
      BY <1>2 DEF Begin, MgzInv, TypeOK
    <2>6. /\ items \in Seq(Items) /\ items # <<>> /\ items[1].kind = "header"
          /\ items[1].count = ExpectedBlocks(items[1].size)
      BY <1>2 DEF HeaderOK, MgzInv, MgzTypes
    <2>7. items[1] \in Headers
      <3>1. 1 \in 1 .. Len(items)
        BY <2>6, EmptySeq
      <3>2. items[1] \in Items
        <4> HIDE DEF items
        <4> QED
          BY <2>6, <3>1, ElementOfSeq
      <3> QED
        BY <2>6, <3>2, ItemKinds
    <2>8. MgzTypes'
      <3>1. <<>> \in Seq(Byte)
        OBVIOUS
      <3> QED
        BY <2>2, <2>3, <2>7, <3>1 DEF MgzTypes
    <2>9. Decompressing'
      <3>1. items[1].count \in Nat
        BY <2>7 DEF Headers
      <3>2. rpos' = blocks' + 1 /\ blocks' <= header'.count
        BY <2>3, <3>1
      <3>3. disk'["restored"].items \o buffer' = bytes'
        <4>1. disk'["restored"].items = <<>> /\ buffer' = <<>> /\ bytes' = <<>>
          BY <2>2, <2>3 DEF File
        <4>2. <<>> \o <<>> = <<>>
          OBVIOUS
        <4> QED
          BY <4>1, <4>2
      <3>4. Reach(0, 0) /\ SubSeq(source, 1, 0) = <<>> /\ Len(<<>>) = 0
        BY ReachZero DEF MgzInv, TypeOK
      <3>5. bytes' = SubSeq(source', 1, Len(bytes'))
        BY <2>3, <3>4
      <3>6. Reach(blocks, Len(bytes))'
        BY <2>3, <3>4 DEF Reach
      <3>7. /\ disk'["archive"].items # <<>>
            /\ header' = disk'["archive"].items[1]
        BY <2>3, <2>4, <2>6
      <3>8. header'.count = ExpectedBlocks(header'.size)
        BY <2>3, <2>6
      <3> QED
        BY <3>2, <3>3, <3>5, <3>6, <3>7, <3>8 DEF Decompressing, ExpectedBlocks
    <2>10. Compressing'
      BY <2>3 DEF Compressing
    <2>11. ArchiveTells'
      BY <2>1, <2>3, <2>4, <2>5 DEF MgzInv, ArchiveTells
    <2> QED
      BY <2>2, <2>8, <2>9, <2>10, <2>11 DEF MgzInv
  <1> QED
    BY <1>1, <1>2 DEF StartDecompress

\* Where a decompression stands.
LEMMA DecompressFacts ==
  ASSUME MgzInv, op = "decompress"
  PROVE  /\ Input = disk["archive"].items /\ Input \in Seq(Items)
         /\ Len(Input) \in Nat \ {0}
         /\ header = Input[1] /\ header \in Headers
         /\ header.count \in Nat /\ header.size \in Nat
         /\ header.count = ExpectedBlocks(header.size)
         /\ blocks \in Nat /\ blocks <= header.count /\ rpos = blocks + 1
         /\ Left = Len(Input) - (blocks + 1)
         /\ bytes \in Seq(Byte) /\ Len(bytes) \in Nat /\ buffer \in Seq(Byte)
         /\ disk["restored"].items \in Seq(Byte)
         /\ target = "restored" /\ disk["restored"].there
         /\ source \in Seq(Byte) /\ Len(source) \in Nat
  <1>1. Input = disk["archive"].items /\ Input \in Seq(Items) /\ Input # <<>>
    BY DEF MgzInv, MgzTypes, Decompressing, Input
  <1>2. Len(Input) \in Nat \ {0}
    BY <1>1, EmptySeq
  <1>3. /\ header = Input[1] /\ header \in Headers
        /\ header.count = ExpectedBlocks(header.size)
        /\ blocks <= header.count /\ rpos = blocks + 1
    BY <1>1 DEF MgzInv, MgzTypes, Decompressing
  <1>4. header.count \in Nat /\ header.size \in Nat
    BY <1>3 DEF Headers
  <1>5. /\ blocks \in Nat /\ bytes \in Seq(Byte) /\ source \in Seq(Byte)
    BY DEF MgzInv, TypeOK
  <1>6. Len(bytes) \in Nat /\ Len(source) \in Nat
    BY <1>5, LenProperties
  <1>7. buffer \in Seq(Byte) /\ disk["restored"].items \in Seq(Byte)
        /\ target = "restored" /\ disk["restored"].there
    BY DEF MgzInv, MgzTypes, Running
  <1>8. Left = Len(Input) - (blocks + 1)
    BY <1>3 DEF Left
  <1> QED
    BY <1>1, <1>2, <1>3, <1>4, <1>5, <1>6, <1>7, <1>8

\* A good archive and its header, as a decompression finds them.
LEMMA GoodFacts ==
  ASSUME MgzInv, op = "decompress", good
  PROVE  /\ header.size = Len(source) /\ header.crc = source
         /\ header.count = ExpectedBlocks(Len(source))
         /\ Len(Input) = header.count + 1
         /\ \A b \in 1 .. header.count : Input[b + 1] = Block(SourceBlock(b))
  <1>1. Input = disk["archive"].items /\ header = Input[1]
    BY DecompressFacts
  <1>2. header = Header(Len(source), source, ExpectedBlocks(Len(source)))
    BY <1>1 DEF MgzInv, GoodArchive
  <1>3. /\ header.size = Len(source) /\ header.crc = source
        /\ header.count = ExpectedBlocks(Len(source))
    BY <1>2, HeaderFields
  <1> QED
    BY <1>1, <1>3 DEF MgzInv, GoodArchive

\* From a good archive the next block is accepted, and it is the source's.
LEMMA GoodBlock ==
  ASSUME MgzInv, op = "decompress", good, pc = "block", blocks < header.count
  PROVE  /\ BlockOK
         /\ bytes \o Input[rpos + 1].data
               = SubSeq(source, 1, Len(bytes \o Input[rpos + 1].data))
         /\ Reach(blocks + 1, Len(bytes \o Input[rpos + 1].data))
  <1> DEFINE l == Len(source)
             n == Len(bytes)
             s == SourceBlock(blocks + 1)
             m == n + Min2(BlockSize, l - n)
  <1>1. /\ blocks \in Nat /\ rpos = blocks + 1 /\ Left = Len(Input) - (blocks + 1)
        /\ bytes \in Seq(Byte) /\ n \in Nat
        /\ source \in Seq(Byte) /\ l \in Nat /\ header.count \in Nat
    BY DecompressFacts
  <1>2. /\ header.size = l /\ header.count = ExpectedBlocks(l)
        /\ Len(Input) = header.count + 1
        /\ \A b \in 1 .. header.count : Input[b + 1] = Block(SourceBlock(b))
    BY GoodFacts
  <1>3. bytes = SubSeq(source, 1, n) /\ Reach(blocks, n)
    BY DEF MgzInv, Decompressing
  <1>4. n < l
    <2>1. l > 0 /\ (header.count - 1) * BlockSize < l
      <3>1. /\ ExpectedBlocks(l) = 0 <=> l = 0
            /\ l > 0 => (ExpectedBlocks(l) - 1) * BlockSize < l
        BY <1>1, ExpectedBounds
      <3>2. header.count # 0
        BY <1>1
      <3>3. l > 0
        BY <1>1, <1>2, <3>1, <3>2
      <3> QED
        BY <1>2, <3>1, <3>3
    <2>2. blocks * BlockSize <= (header.count - 1) * BlockSize
      <3>1. header.count - 1 \in Nat /\ blocks <= header.count - 1
            /\ BlockSize \in Nat
        BY <1>1, SizesAssumption
      <3> QED
        BY <1>1, <3>1, ProductMonotone
    <2>3. blocks * BlockSize \in Nat /\ (header.count - 1) * BlockSize \in Int
      BY <1>1, SizesAssumption
    <2>4. n = Min2(blocks * BlockSize, l)
      BY <1>3 DEF Reach
    <2> HIDE DEF n, l
    <2> QED
      BY <1>1, <2>1, <2>2, <2>3, <2>4 DEF Min2
  <1>5. /\ Reach(blocks + 1, m) /\ SubSeq(source, n + 1, m) = s
        /\ n = blocks * BlockSize
    BY <1>1, <1>3, <1>4, ReachNext
  <1>6. m \in Nat /\ n < m /\ m <= l /\ (m = n + BlockSize \/ m = l)
        /\ m <= n + BlockSize
    <2> HIDE DEF n, l
    <2> QED
      BY <1>1, <1>4, SizesAssumption DEF Min2
  <1>7. Input[rpos + 1] = Block(s)
    <2>1. blocks + 1 \in 1 .. header.count
      BY <1>1
    <2> HIDE DEF s
    <2> QED
      BY <1>1, <1>2, <2>1 DEF s
  <1> HIDE DEF m, s
  <1>8. s \in Seq(Byte) /\ Len(s) = m - n
    <2>1. \A i \in n + 1 .. m : source[i] \in Byte
      <3> HIDE DEF n, l
      <3>1. \A i \in n + 1 .. m : i \in 1 .. Len(source)
        BY <1>1, <1>6 DEF l
      <3> QED
        BY <1>1, <3>1, ElementOfSeq
    <2>2. SubSeq(source, n + 1, m) \in Seq(Byte)
          /\ Len(SubSeq(source, n + 1, m)) = IF n + 1 <= m THEN m - (n + 1) + 1 ELSE 0
      BY <1>1, <1>6, <2>1, SubSeqProperties
    <2> HIDE DEF n, l
    <2>3. n + 1 <= m /\ m - (n + 1) + 1 = m - n
      BY <1>1, <1>6
    <2>4. SubSeq(source, n + 1, m) = s
      BY <1>5
    <2> QED
      BY <2>2, <2>3, <2>4
  <1>9. bytes \o s = SubSeq(source, 1, m) /\ Len(bytes \o s) = m
    <2>1. 1 \in 1 .. Len(source) + 1 /\ n \in 1 - 1 .. Len(source)
          /\ m \in n .. Len(source)
      BY <1>1, <1>4, <1>6
    <2>2. SubSeq(source, 1, n) \o SubSeq(source, n + 1, m) = SubSeq(source, 1, m)
      <3> HIDE DEF n, l
      <3> QED
        BY <1>1, <2>1, ConcatAdjacentSubSeq
    <2>3. Len(bytes \o s) = n + Len(s)
      BY <1>1, <1>8, ConcatProperties
    <2> HIDE DEF n, l
    <2>4. Len(bytes \o s) = m
      BY <1>1, <1>6, <1>8, <2>3
    <2>5. bytes = SubSeq(source, 1, n) /\ SubSeq(source, n + 1, m) = s
      BY <1>3, <1>5
    <2>6. bytes \o s = SubSeq(source, 1, m)
      BY <2>2, <2>5
    <2> QED
      BY <2>4, <2>6
  <1>10. BlockOK
    <2>1. Left > 0
      BY <1>1, <1>2
    <2>2. /\ Input[rpos + 1].kind = "block" /\ Input[rpos + 1].size = Len(s)
          /\ Input[rpos + 1].data = s
      BY <1>7, BlockKind
    <2>3. Len(s) # 0 /\ Len(s) = Len(Input[rpos + 1].data)
      BY <1>1, <1>6, <1>8, <2>2
    <2>4. blocks + 1 < header.count => Len(s) = BlockSize
      <3> SUFFICES ASSUME blocks + 1 < header.count PROVE m = n + BlockSize
        BY <1>1, <1>6, <1>8, SizesAssumption
      <3>1. (header.count - 1) * BlockSize < l
        BY <1>1, <1>2, <1>4, ExpectedBounds
      <3>2. (blocks + 1) * BlockSize <= (header.count - 1) * BlockSize
        <4>1. header.count - 1 \in Nat /\ blocks + 1 \in Nat
              /\ blocks + 1 <= header.count - 1 /\ BlockSize \in Nat
          BY <1>1, SizesAssumption
        <4> QED
          BY <4>1, ProductMonotone
      <3>3. (blocks + 1) * BlockSize = n + BlockSize
        BY <1>1, <1>5, ProductNext
      <3>4. (header.count - 1) * BlockSize \in Int /\ BlockSize \in Nat
        BY <1>1, SizesAssumption
      <3> HIDE DEF n, l
      <3> QED
        BY <1>1, <1>6, <3>1, <3>2, <3>3, <3>4
    <2>5. ~(blocks + 1 < header.count) => Len(s) = header.size - Len(bytes)
      <3> SUFFICES ASSUME ~(blocks + 1 < header.count) PROVE m = l
        BY <1>1, <1>2, <1>6, <1>8
      <3>1. header.count = blocks + 1
        BY <1>1
      <3>2. l <= (blocks + 1) * BlockSize
        BY <1>1, <1>2, <3>1, ExpectedBounds
      <3>3. (blocks + 1) * BlockSize = n + BlockSize
        BY <1>1, <1>5, ProductNext
      <3>4. BlockSize \in Nat
        BY SizesAssumption
      <3> HIDE DEF n, l
      <3> QED
        BY <1>1, <1>6, <3>2, <3>3, <3>4
    <2> QED
      BY <2>1, <2>2, <2>3, <2>4, <2>5 DEF BlockOK
  <1>11. Input[rpos + 1].data = s
    BY <1>7, BlockKind
  <1> QED
    BY <1>5, <1>9, <1>10, <1>11

LEMMA KeepsDecompressBlock == MgzInv /\ DecompressBlock => MgzInv'
  <1> SUFFICES ASSUME MgzInv, DecompressBlock PROVE MgzInv'
    OBVIOUS
  <1>1. op = "decompress" /\ pc = "block" /\ blocks < header.count /\ ~Idle
        /\ ~success
    BY DEF DecompressBlock, Idle, MgzInv, Running
  <1>2. UNCHANGED <<source, disk, op, target, header, calls, ferror, success, result,
                    good, abandoned>>
    BY DEF DecompressBlock, callVars, histVars
  <1>3. /\ Input = disk["archive"].items /\ Input \in Seq(Items)
        /\ Len(Input) \in Nat \ {0}
        /\ header = Input[1] /\ header \in Headers
        /\ header.count \in Nat /\ header.size \in Nat
        /\ header.count = ExpectedBlocks(header.size)
        /\ blocks \in Nat /\ blocks <= header.count /\ rpos = blocks + 1
        /\ Left = Len(Input) - (blocks + 1)
        /\ bytes \in Seq(Byte) /\ Len(bytes) \in Nat /\ buffer \in Seq(Byte)
        /\ disk["restored"].items \in Seq(Byte)
        /\ target = "restored" /\ disk["restored"].there
        /\ source \in Seq(Byte) /\ Len(source) \in Nat
    BY <1>1, DecompressFacts
  <1> DEFINE data == Input[rpos + 1].data
  <1>4. CASE /\ BlockOK
             /\ rpos' = rpos + 1 /\ bytes' = bytes \o data
             /\ buffer' = buffer \o data /\ blocks' = blocks + 1
             /\ UNCHANGED <<pc, fault>> \/ ToClose
    <2>1. data \in Seq(Byte)
      <3>1. rpos + 1 \in 1 .. Len(Input) /\ Input[rpos + 1].kind = "block"
        <4>1. Input[rpos + 1].kind = "block"
          BY <1>4 DEF BlockOK
        <4>2. Len(Input) - (blocks + 1) > 0
          BY <1>3, <1>4 DEF BlockOK
        <4> QED
          BY ONLY <1>3, <4>1, <4>2
      <3>2. Input[rpos + 1] \in Items
        BY <1>3, <3>1, ElementOfSeq
      <3>3. Input[rpos + 1] \in Blocks
        BY <3>1, <3>2, ItemKinds
      <3> QED
        BY <3>3 DEF Blocks
    <2>2. /\ pc' \in {"block", "close"} /\ fault' \in BOOLEAN /\ (fault => fault')
          /\ (pc' = "close" => fault')
      <3>1. fault \in BOOLEAN
        BY DEF MgzInv, TypeOK
      <3>2. CASE UNCHANGED <<pc, fault>>
        <4>1. pc' = "block" /\ fault' = fault
          BY <1>1, <3>2
        <4> QED
          BY <3>1, <4>1
      <3>3. CASE ToClose
        BY <3>3 DEF ToClose
      <3> QED
        BY <1>4, <3>2, <3>3
    <2> HIDE DEF data
    <2>3. bytes \o data \in Seq(Byte) /\ buffer \o data \in Seq(Byte)
      BY <1>3, <2>1, ConcatProperties
    <2>4. rpos' \in Nat /\ blocks' \in Nat /\ rpos' = blocks' + 1
          /\ blocks' <= header.count
      <3>1. blocks \in Nat /\ header.count \in Nat /\ rpos = blocks + 1
            /\ blocks < header.count
        BY <1>1, <1>3
      <3>2. rpos' = rpos + 1 /\ blocks' = blocks + 1
        BY <1>4
      <3> QED
        BY <3>1, <3>2
    <2>5. TypeOK'
      BY <1>1, <1>2, <1>4, <2>2, <2>3, <2>4 DEF MgzInv, TypeOK
    <2>6. MgzTypes'
      BY <1>1, <1>2, <1>4, <2>3 DEF MgzInv, MgzTypes
    <2>7. Running'
      BY <1>1, <1>2, <2>2 DEF MgzInv, Running
    <2>8. Compressing' /\ Succeeded'
      BY <1>1, <1>2 DEF Compressing, Succeeded
    <2>9. Failing'
      BY <1>1, <2>2 DEF Failing
    <2>10. Decompressing'
      <3>1. disk'["restored"].items \o buffer' = bytes'
        <4>1. disk["restored"].items \o buffer = bytes
          BY <1>1 DEF MgzInv, Decompressing
        <4> DEFINE file == disk["restored"].items
        <4>2. (file \o buffer) \o data = file \o (buffer \o data)
          <5>1. file \in Seq(Byte) /\ buffer \in Seq(Byte) /\ data \in Seq(Byte)
            BY <1>3, <2>1
          <5> HIDE DEF file
          <5> QED
            BY <5>1, ConcatAssociative
        <4> QED
          BY <1>2, <1>4, <4>1, <4>2
      <3>2. ASSUME good
            PROVE  /\ bytes' = SubSeq(source, 1, Len(bytes'))
                   /\ Reach(blocks', Len(bytes'))
        BY <1>1, <1>4, <3>2, GoodBlock DEF data
      <3>3. good' => bytes' = SubSeq(source', 1, Len(bytes')) /\ Reach(blocks, Len(bytes))'
        BY <1>2, <3>2 DEF Reach
      <3>4. /\ disk'["archive"].items # <<>>
            /\ header' = disk'["archive"].items[1]
            /\ header'.count = ExpectedBlocks(header'.size)
        BY <1>1, <1>2 DEF MgzInv, Decompressing
      <3> QED
        BY <1>2, <2>4, <3>1, <3>3, <3>4 DEF Decompressing, ExpectedBlocks
    <2>11. ArchiveTells' /\ GoodArchive' /\ RestoredIsSource' /\ FailureHasCause'
      BY <1>1, <1>2, <2>2, KeepsFiles
    <2> QED
      BY <2>5, <2>6, <2>7, <2>8, <2>9, <2>10, <2>11 DEF MgzInv
  <1>5. CASE /\ pc' = "close" /\ UNCHANGED <<rpos, bytes, blocks, buffer>>
             /\ fault' = TRUE \/ (fault' = fault /\ ~BlockOK)
    <2>1. /\ fault' \in BOOLEAN /\ (fault => fault')
          /\ (fault' \/ ~good)
      <3>1. CASE fault' = TRUE
        BY <3>1
      <3>2. CASE fault' = fault /\ ~BlockOK
        <4>1. ~good
          BY <1>1, <3>2, GoodBlock
        <4>2. fault \in BOOLEAN
          BY DEF MgzInv, TypeOK
        <4> QED
          BY <3>2, <4>1, <4>2
      <3> QED
        BY <1>5, <3>1, <3>2
    <2>2. TypeOK' /\ MgzTypes'
      BY <1>1, <1>2, <1>5, <2>1 DEF MgzInv, TypeOK, MgzTypes
    <2>3. Running'
      BY <1>1, <1>2, <1>5 DEF MgzInv, Running
    <2>4. Compressing' /\ Succeeded'
      BY <1>1, <1>2 DEF Compressing, Succeeded
    <2>5. Failing'
      BY <1>1, <1>2, <2>1 DEF Failing
    <2>6. Decompressing'
      BY <1>1, <1>2, <1>5 DEF MgzInv, Decompressing, ExpectedBlocks
    <2>7. ArchiveTells' /\ GoodArchive' /\ RestoredIsSource' /\ FailureHasCause'
      BY <1>1, <1>2, <1>5, <2>1, KeepsFiles
    <2> QED
      BY <2>2, <2>3, <2>4, <2>5, <2>6, <2>7 DEF MgzInv
  <1>6. \/ /\ BlockOK
           /\ rpos' = rpos + 1 /\ bytes' = bytes \o data
           /\ buffer' = buffer \o data /\ blocks' = blocks + 1
           /\ UNCHANGED <<pc, fault>> \/ ToClose
        \/ /\ pc' = "close" /\ UNCHANGED <<rpos, bytes, blocks, buffer>>
           /\ fault' = TRUE \/ (fault' = fault /\ ~BlockOK)
    BY DEF DecompressBlock, ToClose
  <1> QED
    BY <1>4, <1>5, <1>6

LEMMA KeepsFinishDecompress == MgzInv /\ FinishDecompress => MgzInv'
  <1> SUFFICES ASSUME MgzInv, FinishDecompress PROVE MgzInv'
    OBVIOUS
  <1>1. op = "decompress" /\ pc = "block" /\ blocks = header.count /\ ~Idle
        /\ ~success
    BY DEF FinishDecompress, Idle, MgzInv, Running
  <1>2. UNCHANGED <<source, op, target, header, calls, rpos, ferror, bytes, blocks,
                    result, good, abandoned>>
    BY DEF FinishDecompress, callVars, posVars, histVars
  <1>3. /\ Input = disk["archive"].items /\ Input \in Seq(Items)
        /\ Len(Input) \in Nat \ {0}
        /\ header = Input[1] /\ header \in Headers
        /\ header.count \in Nat /\ header.size \in Nat
        /\ header.count = ExpectedBlocks(header.size)
        /\ blocks \in Nat /\ blocks <= header.count /\ rpos = blocks + 1
        /\ Left = Len(Input) - (blocks + 1)
        /\ bytes \in Seq(Byte) /\ Len(bytes) \in Nat /\ buffer \in Seq(Byte)
        /\ disk["restored"].items \in Seq(Byte)
        /\ target = "restored" /\ disk["restored"].there
        /\ source \in Seq(Byte) /\ Len(source) \in Nat
    BY <1>1, DecompressFacts
  <1> DEFINE file == disk["restored"].items
  <1>4. file \o buffer = bytes
    BY <1>1 DEF MgzInv, Decompressing
  <1>5. CASE /\ ContentOK
             /\ disk' = [disk EXCEPT ![target].items = @ \o buffer]
             /\ buffer' = <<>> /\ success' = TRUE /\ pc' = "close"
             /\ UNCHANGED fault
    <2>1. disk' = [disk EXCEPT ![target].items = bytes]
      BY <1>3, <1>4, <1>5
    <2>2. /\ disk'["restored"].items = bytes
          /\ \A f \in Paths \ {"restored"} : disk'[f] = disk[f]
          /\ DOMAIN disk' = Paths
          /\ \A f \in Paths :
                disk'[f] = [there |-> disk'[f].there, items |-> disk'[f].items]
          /\ \A f \in DOMAIN disk' :
                disk'[f].there \in BOOLEAN /\ (~disk'[f].there => disk'[f].items = <<>>)
          /\ target' \in DOMAIN disk' /\ disk'[target].there
          /\ disk'["plain"] = File(source')
          /\ disk'["archive"].items \in Seq(Items)
          /\ disk'["restored"].items \in Seq(Byte)
      <3>1. bytes \in Seq(IF op = "decompress" THEN Byte ELSE Items)
        BY <1>1, <1>3
      <3> QED
        BY <1>1, <1>2, <1>3, <2>1, <3>1, WriteFacts
    <2>3. disk'["archive"] = disk["archive"]
      BY <2>2 DEF Paths
    <2>4. <<>> \in Seq(Byte)
      OBVIOUS
    <2>5. TypeOK'
      BY <1>1, <1>2, <1>5, <2>2 DEF MgzInv, TypeOK
    <2>6. MgzTypes'
      BY <1>1, <1>2, <1>5, <2>2, <2>4 DEF MgzInv, MgzTypes
    <2>7. Running'
      BY <1>1, <1>2, <1>3, <1>5, <2>2 DEF MgzInv, Running
    <2>8. Compressing' /\ Failing'
      BY <1>1, <1>2, <1>5 DEF Compressing, Failing
    <2>9. Decompressing'
      BY <1>1, <1>2, <1>5, <2>3 DEF MgzInv, Decompressing, ExpectedBlocks
    <2>10. Succeeded'
      <3>1. bytes = header.crc /\ Left = 0
        BY <1>5 DEF ContentOK
      <3>2. header = Placeholder => Len(Input) = 1
        <4> SUFFICES ASSUME header = Placeholder PROVE Len(Input) = 1
          OBVIOUS
        <4>1. header.count = 0
          BY HeaderFields DEF Placeholder
        <4> QED
          BY <1>1, <1>3, <3>1, <4>1
      <3> QED
        BY <1>1, <1>2, <1>3, <2>2, <2>3, <3>1, <3>2 DEF Succeeded, Placeholder, Header
    <2>11. ArchiveTells' /\ GoodArchive'
      BY <1>1, <1>2, <1>5, <2>3 DEF MgzInv, ArchiveTells, GoodArchive, SourceBlock
    <2>12. RestoredIsSource'
      BY <1>1, <1>2 DEF MgzInv, Running, RestoredIsSource, Idle
    <2>13. FailureHasCause'
      BY <1>2, <1>5 DEF MgzInv, FailureHasCause
    <2> QED
      BY <2>5, <2>6, <2>7, <2>8, <2>9, <2>10, <2>11, <2>12, <2>13 DEF MgzInv
  <1>6. CASE /\ pc' = "close" /\ UNCHANGED <<disk, buffer, success>>
             /\ fault' = TRUE \/ (fault' = fault /\ ~ContentOK)
    <2>1. /\ fault' \in BOOLEAN /\ (fault => fault')
          /\ (fault' \/ ~good)
      <3>1. CASE fault' = TRUE
        BY <3>1
      <3>2. CASE fault' = fault /\ ~ContentOK
        <4>1. fault \in BOOLEAN
          BY DEF MgzInv, TypeOK
        <4>2. ASSUME good PROVE ContentOK
          <5>1. /\ header.size = Len(source) /\ header.crc = source
                /\ header.count = ExpectedBlocks(Len(source))
                /\ Len(Input) = header.count + 1
            BY <1>1, <4>2, GoodFacts
          <5>2. bytes = SubSeq(source, 1, Len(bytes)) /\ Reach(blocks, Len(bytes))
            BY <1>1, <4>2 DEF MgzInv, Decompressing
          <5>3. Len(source) <= blocks * BlockSize
            BY <1>1, <1>3, <5>1, ExpectedBounds
          <5>4. blocks * BlockSize \in Nat
            BY <1>3, ProductNext
          <5>5. Len(bytes) = Len(source)
            BY <1>3, <5>2, <5>3, <5>4 DEF Reach, Min2
          <5>6. bytes = source
            BY <1>3, <5>2, <5>5, SubSeqFull
          <5>7. Left = 0
            BY <1>1, <1>3, <5>1
          <5> QED
            BY <5>1, <5>5, <5>6, <5>7 DEF ContentOK
        <4> QED
          BY <3>2, <4>1, <4>2
      <3> QED
        BY <1>6, <3>1, <3>2
    <2>2. TypeOK' /\ MgzTypes'
      BY <1>1, <1>2, <1>6, <2>1 DEF MgzInv, TypeOK, MgzTypes
    <2>3. Running'
      BY <1>1, <1>2, <1>6 DEF MgzInv, Running
    <2>4. Compressing' /\ Succeeded'
      BY <1>1, <1>2, <1>6 DEF Compressing, Succeeded
    <2>5. Failing'
      BY <1>1, <1>2, <2>1 DEF Failing
    <2>6. Decompressing'
      BY <1>1, <1>2, <1>6 DEF MgzInv, Decompressing, ExpectedBlocks
    <2>7. ArchiveTells' /\ GoodArchive' /\ RestoredIsSource' /\ FailureHasCause'
      BY <1>1, <1>2, <1>6, <2>1, KeepsFiles
    <2> QED
      BY <2>2, <2>3, <2>4, <2>5, <2>6, <2>7 DEF MgzInv
  <1>7. \/ /\ ContentOK
           /\ disk' = [disk EXCEPT ![target].items = @ \o buffer]
           /\ buffer' = <<>> /\ success' = TRUE /\ pc' = "close"
           /\ UNCHANGED fault
        \/ /\ pc' = "close" /\ UNCHANGED <<disk, buffer, success>>
           /\ fault' = TRUE \/ (fault' = fault /\ ~ContentOK)
    BY DEF FinishDecompress, ToClose
  <1> QED
    BY <1>5, <1>6, <1>7

LEMMA KeepsCloseFiles == MgzInv /\ CloseFiles => MgzInv'
  <1> SUFFICES ASSUME MgzInv, CloseFiles PROVE MgzInv'
    OBVIOUS
  <1>1. pc = "close" /\ ~Idle
    BY DEF CloseFiles, MgzInv, TypeOK, Idle
  <1>2. UNCHANGED <<source, target, header, calls, rpos, ferror, bytes, blocks,
                    abandoned>>
    BY DEF CloseFiles, posVars
  <1> DEFINE T == IF op = "decompress" THEN Byte ELSE Items
             file == disk[target].items
  <1>3. buffer \in Seq(T) /\ file \in Seq(T)
        /\ target = IF op = "decompress" THEN "restored" ELSE "archive"
    BY <1>1 DEF MgzInv, MgzTypes, Running, TypeOK, Idle
  <1>4. PICK n \in 0 .. Len(buffer) :
           disk' = [disk EXCEPT ![target].items = @ \o SubSeq(buffer, 1, n)]
    BY DEF CloseFiles
  <1> HIDE DEF T
  <1> DEFINE part == SubSeq(buffer, 1, n)
             new == file \o part
  <1>5. disk' = [disk EXCEPT ![target].items = new]
    BY <1>4
  <1>6. new \in Seq(T)
    <2>1. Len(buffer) \in Nat /\ n \in Nat
      BY <1>3, LenProperties
    <2>2. \A i \in 1 .. n : buffer[i] \in T
      BY <1>3, <2>1, ElementOfSeq
    <2>3. part \in Seq(T)
      BY <2>1, <2>2, SubSeqProperties
    <2> HIDE DEF file, part
    <2> QED
      BY <1>3, <2>3, ConcatProperties
  <1>7. success => new = file
    <2> SUFFICES ASSUME success PROVE new = file
      OBVIOUS
    <2>1. buffer = <<>>
      BY DEF MgzInv, Running
    <2>2. n = 0
      BY <2>1
    <2>3. part = <<>>
      BY <2>2, SubSeqEmpty
    <2> HIDE DEF part, file
    <2> QED
      BY <1>3, <2>3, ConcatEmptySeq
  <1> HIDE DEF new
  <1>8. /\ disk'[target].items = new
        /\ \A f \in Paths \ {target} : disk'[f] = disk[f]
        /\ DOMAIN disk' = Paths
        /\ \A f \in Paths :
              disk'[f] = [there |-> disk'[f].there, items |-> disk'[f].items]
        /\ \A f \in DOMAIN disk' :
              disk'[f].there \in BOOLEAN /\ (~disk'[f].there => disk'[f].items = <<>>)
        /\ target' \in DOMAIN disk' /\ disk'[target].there
        /\ disk'["plain"] = File(source')
        /\ disk'["archive"].items \in Seq(Items)
        /\ disk'["restored"].items \in Seq(Byte)
    BY <1>1, <1>2, <1>5, <1>6, WriteFacts DEF T
  <1>9. buffer' = <<>> /\ <<>> \in Seq(Byte) /\ <<>> \in Seq(Items)
    BY DEF CloseFiles
  <1>10. MgzTypes'
    BY <1>2, <1>8, <1>9 DEF MgzInv, MgzTypes
  <1>11. op \in {"compress", "decompress"} /\ good \in BOOLEAN
    BY <1>1 DEF MgzInv, TypeOK, Idle
  <1>12. ASSUME target = "restored"
         PROVE  disk'["archive"] = disk["archive"] /\ op = "decompress"
    BY <1>3, <1>8, <1>12 DEF Paths
  <1>13. ASSUME target = "archive"
         PROVE  disk'["restored"] = disk["restored"] /\ op = "compress"
    BY <1>3, <1>8, <1>11, <1>13 DEF Paths
  <1>14. CASE /\ success
              /\ Return(IF op = "compress" THEN "compressed" ELSE "restored")
              /\ good' = (good \/ target = "archive")
              /\ UNCHANGED <<success, fault>>
    <2>1. op' = "none" /\ pc' = "idle" /\ success' = success /\ fault' = fault
          /\ result' = IF op = "compress" THEN "compressed" ELSE "restored"
      BY <1>14 DEF Return
    <2>2. good' = IF target = "archive" THEN TRUE ELSE good
      BY <1>11, <1>14
    <2>3. disk'[target].items = file
      BY <1>7, <1>8, <1>14
    <2>4. TypeOK'
      <3>1. result' \in {"compressed", "restored"} /\ good' \in BOOLEAN
        BY <1>11, <2>1, <2>2
      <3> QED
        BY <1>2, <1>8, <1>9, <2>1, <3>1 DEF MgzInv, TypeOK
    <2>5. Running'
      BY <1>9, <2>1 DEF Running
    <2>6. Compressing' /\ Decompressing' /\ Succeeded' /\ Failing'
      BY <2>1 DEF Compressing, Decompressing, Succeeded, Failing
    <2>7. disk'["archive"].items = disk["archive"].items
      <3>1. CASE target = "archive"
        BY <2>3, <3>1
      <3>2. CASE target = "restored"
        BY <1>12, <3>2
      <3> QED
        BY <1>3, <3>1, <3>2
    <2>8. ArchiveTells'
      <3>1. ~abandoned' => ~abandoned
        BY <1>2
      <3> QED
        BY <1>1, <1>2, <2>7, <3>1 DEF MgzInv, ArchiveTells
    <2>9. GoodArchive'
      <3>1. CASE target = "archive"
        <4>1. /\ BlocksTo(ExpectedBlocks(Len(source)), disk["archive"].items)
              /\ disk["archive"].items[1] =
                    Header(Len(source), source, ExpectedBlocks(Len(source)))
          BY <1>13, <1>14, <3>1 DEF MgzInv, Succeeded
        <4> QED
          BY <1>2, <2>7, <4>1 DEF GoodArchive, BlocksTo, SourceBlock
      <3>2. CASE target = "restored"
        <4>1. good' = good
          BY <2>2, <3>2
        <4> QED
          BY <1>2, <2>7, <4>1 DEF MgzInv, GoodArchive, SourceBlock
      <3> QED
        BY <1>3, <3>1, <3>2
    <2>10. RestoredIsSource'
      <3> SUFFICES ASSUME result' = "restored", ~abandoned'
                   PROVE  disk'["restored"] = File(source')
        BY DEF RestoredIsSource
      <3>1. op = "decompress" /\ target = "restored" /\ ~abandoned
        BY <1>2, <1>3, <1>11, <2>1
      <3>2. /\ disk["restored"].items = header.crc
            /\ header = Placeholder => Len(disk["archive"].items) = 1
        BY <1>14, <3>1 DEF MgzInv, Succeeded
      <3>3. /\ header = disk["archive"].items[1]
            /\ 1 \in DOMAIN disk["archive"].items
            /\ header.kind = "header"
        <4>1. /\ Input = disk["archive"].items /\ Input \in Seq(Items)
              /\ Len(Input) \in Nat \ {0} /\ header = Input[1] /\ header \in Headers
          BY <3>1, DecompressFacts
        <4>2. header.kind = "header"
          BY <4>1 DEF Headers
        <4> QED
          BY <4>1, <4>2, LenProperties
      <3>4. header.crc = source
        <4>1. \/ header.crc = source
              \/ header = Placeholder /\ Len(disk["archive"].items) >= 2
          <5>1. \A i \in DOMAIN disk["archive"].items :
                   disk["archive"].items[i].kind = "header" =>
                      \/ disk["archive"].items[i].crc = source
                      \/ /\ disk["archive"].items[i] = Placeholder
                         /\ Len(disk["archive"].items) >= 2
            BY <1>1, <3>1 DEF MgzInv, ArchiveTells
          <5> QED
            BY <3>3, <5>1
        <4>2. ~(header = Placeholder /\ Len(disk["archive"].items) >= 2)
          <5> SUFFICES ASSUME header = Placeholder
                       PROVE  ~(Len(disk["archive"].items) >= 2)
            OBVIOUS
          <5>1. Len(disk["archive"].items) = 1
            BY <3>2
          <5> QED
            BY <5>1
        <4> QED
          BY <4>1, <4>2
      <3>5. disk'["restored"].items = source /\ disk'["restored"].there = TRUE
        BY <1>8, <2>3, <3>1, <3>2, <3>4 DEF Paths
      <3>6. disk'["restored"]
               = [there |-> disk'["restored"].there, items |-> disk'["restored"].items]
        BY <1>8 DEF Paths
      <3> QED
        BY <1>2, <3>5, <3>6 DEF File
    <2>11. FailureHasCause'
      BY <2>1 DEF FailureHasCause
    <2> QED
      BY <1>10, <2>4, <2>5, <2>6, <2>8, <2>9, <2>10, <2>11 DEF MgzInv
  <1>15. CASE /\ pc' = "remove" /\ success' = FALSE
              /\ UNCHANGED <<op, result, good>>
              /\ \/ fault' = TRUE
                 \/ ~success /\ fault' = fault
    <2>1. fault' \in BOOLEAN /\ (fault' \/ (op = "decompress" /\ ~good))
      <3>1. CASE fault' = TRUE
        BY <3>1
      <3>2. CASE ~success /\ fault' = fault
        <4>1. fault \in BOOLEAN /\ (fault \/ (op = "decompress" /\ ~good))
          BY <1>1, <3>2 DEF MgzInv, TypeOK, Failing
        <4> QED
          BY <3>2, <4>1
      <3> QED
        BY <1>15, <3>1, <3>2
    <2>2. TypeOK'
      BY <1>1, <1>2, <1>8, <1>11, <1>15, <2>1 DEF MgzInv, TypeOK
    <2>3. Running'
      BY <1>1, <1>2, <1>8, <1>9, <1>15 DEF MgzInv, Running
    <2>4. Succeeded' /\ Failing'
      BY <1>15, <2>1 DEF Succeeded, Failing
    <2>5. Compressing'
      BY <1>2, <1>15 DEF MgzInv, Compressing
    <2>6. ASSUME op = "decompress" PROVE Decompressing'
      <3>1. disk'["archive"] = disk["archive"]
        BY <1>3, <1>12, <2>6
      <3> QED
        BY <1>2, <1>15, <2>6, <3>1 DEF MgzInv, Decompressing, ExpectedBlocks
    <2>7. ASSUME op # "decompress" PROVE Decompressing'
      BY <1>15, <2>7 DEF Decompressing
    <2>8. ArchiveTells' /\ GoodArchive'
      <3>1. CASE target = "archive"
        <4>1. ~good'
          BY <1>13, <1>15, <3>1 DEF MgzInv, Running
        <4> QED
          BY <1>2, <1>15, <3>1, <4>1 DEF ArchiveTells, GoodArchive
      <3>2. CASE target = "restored"
        <4>1. disk'["archive"] = disk["archive"]
          BY <1>12, <3>2
        <4> QED
          BY <1>1, <1>2, <1>15, <3>2, <4>1
             DEF MgzInv, ArchiveTells, GoodArchive, SourceBlock
      <3> QED
        BY <1>3, <3>1, <3>2
    <2>9. result' = "none"
      BY <1>1, <1>15 DEF MgzInv, Running, Idle
    <2>10. RestoredIsSource' /\ FailureHasCause'
      BY <2>9 DEF RestoredIsSource, FailureHasCause
    <2> QED
      BY <1>10, <2>2, <2>3, <2>4, <2>5, <2>6, <2>7, <2>8, <2>10 DEF MgzInv
  <1>16. \/ /\ success
            /\ Return(IF op = "compress" THEN "compressed" ELSE "restored")
            /\ good' = (good \/ target = "archive")
            /\ UNCHANGED <<success, fault>>
         \/ /\ pc' = "remove" /\ success' = FALSE
            /\ UNCHANGED <<op, result, good>>
            /\ \/ fault' = TRUE
               \/ ~success /\ fault' = fault
    BY DEF CloseFiles, MgzInv, TypeOK
  <1> QED
    BY <1>14, <1>15, <1>16

LEMMA KeepsRemoveOutput == MgzInv /\ RemoveOutput => MgzInv'
  <1> SUFFICES ASSUME MgzInv, RemoveOutput PROVE MgzInv'
    OBVIOUS
  <1>1. /\ pc = "remove" /\ op # "none" /\ op' = "none" /\ pc' = "idle"
        /\ result' = "failed"
        /\ disk' = [disk EXCEPT ![target] = NoFile]
    BY DEF RemoveOutput, Return, MgzInv, TypeOK
  <1>2. UNCHANGED <<source, target, header, calls, rpos, ferror, bytes, blocks,
                    buffer, success, fault, good, abandoned>>
    BY DEF RemoveOutput, posVars, histVars
  <1>3. /\ ~success /\ target \in {"archive", "restored"}
        /\ (target = "archive" => op = "compress" /\ ~good)
        /\ (target = "restored" => op = "decompress")
    BY <1>1 DEF MgzInv, TypeOK, Running
  <1>4. disk'[target] = NoFile /\ DOMAIN disk' = Paths
        /\ \A f \in Paths \ {target} : disk'[f] = disk[f]
    BY <1>1, <1>3 DEF MgzInv, MgzTypes, Paths
  <1>5. /\ NoFile.there = FALSE /\ NoFile.items = <<>>
        /\ NoFile = [there |-> NoFile.there, items |-> NoFile.items]
    BY DEF NoFile
  <1>6. \A f \in Paths : /\ disk'[f].there \in BOOLEAN
                         /\ ~disk'[f].there => disk'[f].items = <<>>
                         /\ disk'[f] = [there |-> disk'[f].there,
                                        items |-> disk'[f].items]
    <2> SUFFICES ASSUME NEW f \in Paths
                 PROVE  /\ disk'[f].there \in BOOLEAN
                        /\ ~disk'[f].there => disk'[f].items = <<>>
                        /\ disk'[f] = [there |-> disk'[f].there,
                                       items |-> disk'[f].items]
      OBVIOUS
    <2>1. CASE f = target
      BY <1>4, <1>5, <2>1
    <2>2. CASE f # target
      BY <1>4, <2>2 DEF MgzInv, TypeOK, MgzTypes
    <2> QED
      BY <2>1, <2>2
  <1>7. <<>> \in Seq(Byte) /\ <<>> \in Seq(Items)
    OBVIOUS
  <1>8. buffer = <<>>
    BY <1>1 DEF MgzInv, Running
  <1>9. TypeOK'
    BY <1>1, <1>2, <1>3, <1>4, <1>6, <1>8 DEF MgzInv, TypeOK, Paths
  <1>10. MgzTypes'
    <2>1. disk'["plain"] = File(source')
      BY <1>2, <1>3, <1>4 DEF MgzInv, MgzTypes, Paths
    <2>2. disk'["archive"].items \in Seq(Items) /\ disk'["restored"].items \in Seq(Byte)
      BY <1>3, <1>4, <1>5, <1>7 DEF MgzInv, MgzTypes, Paths
    <2> QED
      BY <1>1, <1>2, <1>4, <1>6, <1>7, <1>8, <2>1, <2>2 DEF MgzInv, MgzTypes
  <1>11. Running' /\ Compressing' /\ Decompressing' /\ Succeeded' /\ Failing'
    BY <1>1, <1>2, <1>3
       DEF Running, Compressing, Decompressing, Succeeded, Failing
  <1>12. ArchiveTells' /\ GoodArchive'
    <2>1. CASE target = "archive"
      <3>1. disk'["archive"].items = <<>> /\ ~good'
        BY <1>2, <1>3, <1>4, <1>5, <2>1
      <3> QED
        BY <3>1 DEF ArchiveTells, GoodArchive
    <2>2. CASE target = "restored"
      <3>1. disk'["archive"] = disk["archive"]
        BY <1>4, <2>2 DEF Paths
      <3> QED
        BY <1>1, <1>2, <2>2, <3>1
           DEF MgzInv, ArchiveTells, GoodArchive, SourceBlock
    <2> QED
      BY <1>3, <2>1, <2>2
  <1>13. RestoredIsSource'
    BY <1>1 DEF RestoredIsSource
  <1>14. FailureHasCause'
    BY <1>1, <1>2, <1>3 DEF MgzInv, Failing, FailureHasCause
  <1> QED
    BY <1>9, <1>10, <1>11, <1>12, <1>13, <1>14 DEF MgzInv

LEMMA KeepsKill == MgzInv /\ Kill => MgzInv'
  <1> SUFFICES ASSUME MgzInv, Kill PROVE MgzInv'
    OBVIOUS
  <1>1. /\ op' = "none" /\ pc' = "idle" /\ result' = "killed" /\ buffer' = <<>>
        /\ success' = FALSE
        /\ abandoned' = (abandoned \/ (pc = "remove" /\ target = "archive"))
    BY DEF Kill, Return
  <1>2. UNCHANGED <<source, disk, target, header, calls, rpos, ferror, bytes, blocks,
                    fault, good>>
    BY DEF Kill, posVars
  <1>3. <<>> \in Seq(Byte) /\ <<>> \in Seq(Items)
    OBVIOUS
  <1>4. abandoned' \in BOOLEAN
    BY <1>1 DEF MgzInv, TypeOK
  <1>5. TypeOK'
    BY <1>1, <1>2, <1>4 DEF MgzInv, TypeOK
  <1>6. MgzTypes'
    BY <1>1, <1>2, <1>3 DEF MgzInv, MgzTypes
  <1>7. Running' /\ Compressing' /\ Decompressing' /\ Succeeded' /\ Failing'
    BY <1>1 DEF Running, Compressing, Decompressing, Succeeded, Failing
  <1>8. ArchiveTells'
    <2>1. ~abandoned' => ~abandoned /\ ~(pc = "remove" /\ target = "archive")
      BY <1>1, Zenon
    <2> QED
      BY <1>2, <2>1 DEF MgzInv, ArchiveTells
  <1>9. GoodArchive'
    BY <1>2 DEF MgzInv, GoodArchive, SourceBlock
  <1>10. RestoredIsSource' /\ FailureHasCause'
    BY <1>1 DEF RestoredIsSource, FailureHasCause
  <1> QED
    BY <1>5, <1>6, <1>7, <1>8, <1>9, <1>10 DEF MgzInv

\* A changed field leaves the kind of an item as it is.
LEMMA ChangedFields ==
  /\ \A h \in Headers :
        /\ [h EXCEPT !.size = @ + 1] \in Headers
        /\ [h EXCEPT !.size = @ + 1].crc = h.crc
        /\ [h EXCEPT !.count = @ + 1] \in Headers
        /\ [h EXCEPT !.count = @ + 1].crc = h.crc
  /\ \A b \in Blocks :
        /\ [b EXCEPT !.size = @ + 1] \in Blocks
        /\ \A d \in Seq(Byte) : [b EXCEPT !.data = d] \in Blocks
  <1>1. ASSUME NEW h \in Headers
        PROVE  /\ [h EXCEPT !.size = @ + 1] \in Headers
               /\ [h EXCEPT !.size = @ + 1].crc = h.crc
               /\ [h EXCEPT !.count = @ + 1] \in Headers
               /\ [h EXCEPT !.count = @ + 1].crc = h.crc
    BY DEF Headers
  <1>2. ASSUME NEW b \in Blocks
        PROVE  [b EXCEPT !.size = @ + 1] \in Blocks
    BY DEF Blocks
  <1>3. ASSUME NEW b \in Blocks, NEW d \in Seq(Byte)
        PROVE  [b EXCEPT !.data = d] \in Blocks
    BY DEF Blocks
  <1> QED
    BY <1>1, <1>2, <1>3

\* What one damage can turn the items of a good archive into.
LEMMA DamagedItems ==
  ASSUME NEW items \in Seq(Items), NEW damaged \in Damaged(items),
         items # <<>>, items[1] \in Headers,
         \A i \in 2 .. Len(items) : items[i] \in Blocks
  PROVE  /\ damaged \in Seq(Items)
         /\ \A i \in DOMAIN damaged :
               damaged[i].kind = "header" => damaged[i].crc = items[1].crc
  <1> DEFINE Fits(item) == item \in Items
                           /\ (item.kind = "header" => item.crc = items[1].crc)
             Fit == {item \in Items : Fits(item)}
  <1>1. /\ Len(items) \in Nat /\ DOMAIN items = 1 .. Len(items)
        /\ 1 \in DOMAIN items
    BY LenProperties, EmptySeq
  <1>2. \A i \in DOMAIN items : items[i] \in Fit
    <2> SUFFICES ASSUME NEW i \in DOMAIN items PROVE items[i] \in Fit
      OBVIOUS
    <2>1. items[i] \in Items
      BY <1>1, ElementOfSeq
    <2>2. CASE i = 1
      BY <2>1, <2>2
    <2>3. CASE i # 1
      <3>1. items[i] \in Blocks
        BY <1>1, <2>3
      <3>2. items[i].kind = "block"
        BY <3>1 DEF Blocks
      <3> QED
        BY <2>1, <3>2
    <2> QED
      BY <2>2, <2>3
  <1>3. Junk \in Fit
    <2>1. Junk.kind = "junk"
      BY DEF Junk
    <2> QED
      BY <2>1, ItemTypes
  <1>10. /\ \A h \in Headers : h.crc = items[1].crc => h \in Fit
         /\ \A b \in Blocks : b \in Fit
    <2>1. \A b \in Blocks : b.kind = "block"
      BY DEF Blocks
    <2> QED
      BY <2>1 DEF Items
  <1>11. ASSUME NEW i \in DOMAIN items, i # 1 PROVE items[i] \in Blocks
    BY <1>1, <1>11
  <1> HIDE DEF Fit
  <1>4. items \in Seq(Fit)
    <2>1. items \in [1 .. Len(items) -> Fit]
      <3>1. items \in [1 .. Len(items) -> Items]
        BY LenProperties
      <3> QED
        BY <1>1, <1>2, <3>1
    <2> QED
      BY <1>1, <2>1
  <1>5. ASSUME NEW i \in DOMAIN items, NEW e \in Fit
        PROVE  [items EXCEPT ![i] = e] \in Seq(Fit)
    BY <1>1, <1>4, ExceptSeq
  <1>6. ASSUME NEW i \in Int, NEW j \in Int, i >= 1, j <= Len(items)
        PROVE  SubSeq(items, i, j) \in Seq(Fit)
    <2>1. \A k \in i .. j : items[k] \in Fit
      BY <1>1, <1>2, <1>6
    <2> QED
      BY <2>1, SubSeqProperties
  <1>7. damaged \in Seq(Fit)
    <2>1. CASE \E i \in DOMAIN items : damaged = RemoveAt(items, i)
      <3>1. PICK i \in DOMAIN items : damaged = RemoveAt(items, i)
        BY <2>1
      <3>2. SubSeq(items, 1, i - 1) \in Seq(Fit)
            /\ SubSeq(items, i + 1, Len(items)) \in Seq(Fit)
        <4>1. /\ i - 1 \in Int /\ i - 1 <= Len(items) /\ i + 1 \in Int /\ i + 1 >= 1
              /\ 1 \in Int /\ 1 >= 1 /\ Len(items) \in Int
              /\ Len(items) <= Len(items)
          BY <1>1
        <4> QED
          BY <1>6, <4>1
      <3> QED
        BY <3>1, <3>2, ConcatProperties DEF RemoveAt
    <2>2. CASE \E i \in DOMAIN items : damaged = [items EXCEPT ![i] = Junk]
      BY <1>3, <1>5, <2>2
    <2>3. CASE \E i \in DOMAIN items : damaged = [items EXCEPT ![i].size = @ + 1]
      <3>1. PICK i \in DOMAIN items : damaged = [items EXCEPT ![i].size = @ + 1]
        BY <2>3
      <3> DEFINE e == [items[i] EXCEPT !.size = @ + 1]
      <3>2. damaged = [items EXCEPT ![i] = e]
        BY <3>1
      <3>3. e \in Fit
        <4>1. CASE i = 1
          BY <1>10, <4>1, ChangedFields
        <4>2. CASE i # 1
          BY <1>10, <1>11, <4>2, ChangedFields
        <4> QED
          BY <4>1, <4>2
      <3> HIDE DEF e
      <3> QED
        BY <1>5, <3>2, <3>3
    <2>4. CASE damaged = [items EXCEPT ![1].count = @ + 1]
      <3> DEFINE e == [items[1] EXCEPT !.count = @ + 1]
      <3>1. damaged = [items EXCEPT ![1] = e]
        BY <2>4
      <3>2. e \in Fit
        BY <1>10, ChangedFields
      <3> HIDE DEF e
      <3> QED
        BY <1>1, <1>5, <3>1, <3>2
    <2>5. CASE \E i \in DOMAIN items \ {1}, j \in {1}, b \in Byte :
                  damaged = [items EXCEPT ![i].data[j] = b]
      <3>1. PICK i \in DOMAIN items \ {1}, b \in Byte :
               damaged = [items EXCEPT ![i].data[1] = b]
        BY <2>5
      <3> DEFINE d == [items[i].data EXCEPT ![1] = b]
                 e == [items[i] EXCEPT !.data = d]
      <3>2. damaged = [items EXCEPT ![i] = e]
        BY <3>1
      <3>3. e \in Fit
        <4>1. items[i] \in Blocks
          BY <1>11
        <4>2. items[i].data \in Seq(Byte)
          BY <4>1 DEF Blocks
        <4>3. Len(items[i].data) \in Nat /\ d \in [1 .. Len(items[i].data) -> Byte]
          BY <4>2, LenProperties
        <4>4. d \in Seq(Byte)
          <5> DEFINE n == Len(items[i].data)
          <5>1. n \in Nat /\ d \in [1 .. n -> Byte]
            BY <4>3
          <5> HIDE DEF n, d
          <5> QED
            BY <5>1
        <4> HIDE DEF d
        <4> QED
          BY <1>10, <4>1, <4>4, ChangedFields
      <3> HIDE DEF e
      <3> QED
        BY <1>5, <3>2, <3>3
    <2>6. CASE \E i \in DOMAIN items : damaged = InsertAt(items, i, items[i])
      <3>1. PICK i \in DOMAIN items : damaged = InsertAt(items, i, items[i])
        BY <2>6
      <3>2. /\ SubSeq(items, 1, i - 1) \in Seq(Fit)
            /\ SubSeq(items, i, Len(items)) \in Seq(Fit)
            /\ <<items[i]>> \in Seq(Fit)
        BY <1>1, <1>2, <1>6
      <3>3. SubSeq(items, 1, i - 1) \o <<items[i]>> \in Seq(Fit)
        BY <3>2, ConcatProperties
      <3> QED
        BY <3>1, <3>2, <3>3, ConcatProperties DEF InsertAt
    <2>7. CASE \E i \in DOMAIN items, j \in DOMAIN items :
                  damaged = [items EXCEPT ![i] = items[j], ![j] = items[i]]
      <3>1. PICK i \in DOMAIN items, j \in DOMAIN items :
               damaged = [items EXCEPT ![i] = items[j], ![j] = items[i]]
        BY <2>7
      <3>2. items[i] \in Fit /\ items[j] \in Fit
        BY <1>2
      <3>3. damaged \in [1 .. Len(items) -> Fit]
        BY <1>1, <1>2, <3>1, <3>2
      <3> QED
        BY <1>1, <3>3
    <2>8. CASE damaged = Append(items, Junk)
      BY <1>3, <1>4, <2>8, AppendProperties
    <2> QED
      BY <2>1, <2>2, <2>3, <2>4, <2>5, <2>6, <2>7, <2>8 DEF Damaged
  <1>8. damaged \in Seq(Items)
    <2>1. Fit \subseteq Items
      BY DEF Fit
    <2> QED
      BY <1>7, <2>1, SeqMonotonic
  <1>9. ASSUME NEW i \in DOMAIN damaged PROVE damaged[i] \in Fit
    <2>1. DOMAIN damaged = 1 .. Len(damaged)
      BY <1>7, LenProperties
    <2> QED
      BY <1>7, <2>1, ElementOfSeq
  <1> QED
    BY <1>8, <1>9 DEF Fit

LEMMA KeepsDamageArchive == MgzInv /\ DamageArchive => MgzInv'
  <1> SUFFICES ASSUME MgzInv, DamageArchive PROVE MgzInv'
    OBVIOUS
  <1> DEFINE items == disk["archive"].items
             count == ExpectedBlocks(Len(source))
  <1>1. op = "none" /\ pc = "idle" /\ good
    BY DEF DamageArchive, Idle, MgzInv, TypeOK
  <1>2. PICK damaged \in Damaged(items) :
           disk' = [disk EXCEPT !["archive"].items = damaged]
    BY DEF DamageArchive
  <1>3. good' = FALSE
        /\ UNCHANGED <<source, op, target, header, calls, pc, rpos, ferror, bytes,
                       blocks, buffer, success, result, fault, abandoned>>
    BY DEF DamageArchive, callVars, posVars
  <1>4. source \in Seq(Byte) /\ Len(source) \in Nat /\ count \in Nat
    BY LenProperties, ExpectedBounds DEF MgzInv, TypeOK
  <1>5. /\ items \in Seq(Items) /\ Len(items) = count + 1
        /\ items[1] = Header(Len(source), source, count)
        /\ \A k \in 1 .. count : items[k + 1] = Block(SourceBlock(k))
    BY <1>1 DEF MgzInv, MgzTypes, GoodArchive
  <1>6. items # <<>> /\ items[1] \in Headers /\ items[1].crc = source
    <2>1. items # <<>>
      BY <1>4, <1>5, EmptySeq
    <2> HIDE DEF count
    <2> QED
      BY <1>4, <1>5, <2>1, ItemTypes, HeaderFields
  <1>7. \A i \in 2 .. Len(items) : items[i] \in Blocks
    <2> SUFFICES ASSUME NEW i \in 2 .. Len(items) PROVE items[i] \in Blocks
      OBVIOUS
    <2>1. i - 1 \in 1 .. count /\ (i - 1) + 1 = i /\ i \in 1 .. Len(items)
      BY <1>4, <1>5
    <2>2. items[i] = Block(SourceBlock(i - 1))
      BY <1>5, <2>1
    <2>3. items[i].kind = "block"
      BY <2>2, BlockKind
    <2>4. items[i] \in Items
      <3> HIDE DEF items
      <3> QED
        BY <1>5, <2>1, ElementOfSeq
    <2> QED
      BY <2>3, <2>4, ItemKinds
  <1>8. /\ damaged \in Seq(Items)
        /\ \A i \in DOMAIN damaged :
              damaged[i].kind = "header" => damaged[i].crc = source
    <2> HIDE DEF items
    <2> QED
      BY <1>5, <1>6, <1>7, DamagedItems
  <1>9. /\ DOMAIN disk' = Paths
        /\ disk'["archive"] = [there |-> TRUE, items |-> damaged]
        /\ \A f \in Paths \ {"archive"} : disk'[f] = disk[f]
    <2>1. /\ DOMAIN disk = Paths /\ "archive" \in Paths
          /\ disk["archive"] = [there |-> disk["archive"].there, items |-> items]
      BY DEF MgzInv, MgzTypes, Paths
    <2>2. disk["archive"].there = TRUE
      BY <1>6, <2>1 DEF MgzInv, TypeOK
    <2>3. disk'["archive"] = [disk["archive"] EXCEPT !.items = damaged]
      BY <1>2, <2>1
    <2>4. [[there |-> TRUE, items |-> items] EXCEPT !.items = damaged]
             = [there |-> TRUE, items |-> damaged]
      BY NewItems
    <2>5. disk["archive"] = [there |-> TRUE, items |-> items]
      BY <2>1, <2>2
    <2>6. disk'["archive"] = [there |-> TRUE, items |-> damaged]
      BY <2>3, <2>4, <2>5
    <2>7. DOMAIN disk' = Paths /\ \A f \in Paths \ {"archive"} : disk'[f] = disk[f]
      BY <1>2, <2>1
    <2> QED
      BY <2>6, <2>7
  <1>10. \A f \in Paths : /\ disk'[f].there \in BOOLEAN
                          /\ ~disk'[f].there => disk'[f].items = <<>>
                          /\ disk'[f] = [there |-> disk'[f].there,
                                         items |-> disk'[f].items]
    <2> SUFFICES ASSUME NEW f \in Paths
                 PROVE  /\ disk'[f].there \in BOOLEAN
                        /\ ~disk'[f].there => disk'[f].items = <<>>
                        /\ disk'[f] = [there |-> disk'[f].there,
                                       items |-> disk'[f].items]
      OBVIOUS
    <2>1. CASE f = "archive"
      <3>1. disk'[f] = [there |-> TRUE, items |-> damaged]
        BY <1>9, <2>1
      <3>2. disk'[f].there = TRUE /\ disk'[f].items = damaged
        BY <3>1
      <3> QED
        BY <3>1, <3>2
    <2>2. CASE f # "archive"
      BY <1>9, <2>2 DEF MgzInv, TypeOK, MgzTypes
    <2> QED
      BY <2>1, <2>2
  <1>11. TypeOK'
    BY <1>3, <1>9, <1>10 DEF MgzInv, TypeOK, MgzTypes
  <1>12. MgzTypes'
    BY <1>3, <1>8, <1>9, <1>10 DEF MgzInv, MgzTypes, Paths
  <1>13. Running' /\ Compressing' /\ Decompressing' /\ Succeeded' /\ Failing'
    BY <1>1, <1>3
       DEF MgzInv, Running, Compressing, Decompressing, Succeeded, Failing
  <1>14. ArchiveTells' /\ GoodArchive'
    BY <1>3, <1>8, <1>9 DEF ArchiveTells, GoodArchive
  <1>15. RestoredIsSource'
    BY <1>3, <1>9 DEF MgzInv, RestoredIsSource, Paths
  <1>16. FailureHasCause'
    BY <1>1, <1>3 DEF MgzInv, FailureHasCause
  <1> QED
    BY <1>11, <1>12, <1>13, <1>14, <1>15, <1>16 DEF MgzInv

LEMMA MgzInduction == ~Aliased /\ MgzInv /\ [Next]_vars => MgzInv'
  <1> SUFFICES ASSUME ~Aliased, MgzInv, [Next]_vars PROVE MgzInv'
    OBVIOUS
  <1>1. ASSUME UNCHANGED vars PROVE MgzInv'
    <2>1. UNCHANGED <<source, disk, op, target, header, calls, pc, rpos, ferror, bytes,
                      blocks, buffer, success, result, fault, good, abandoned>>
      BY <1>1 DEF vars, callVars, posVars, histVars
    <2>2. TypeOK' /\ MgzTypes' /\ Running'
      BY <2>1 DEF MgzInv, TypeOK, MgzTypes, Running
    <2>3. Compressing'
      BY <2>1 DEF MgzInv, Compressing, Reach, BlocksTo, SourceBlock
    <2>4. Decompressing' /\ Succeeded' /\ Failing'
      BY <2>1 DEF MgzInv, Decompressing, Reach, Succeeded, BlocksTo, SourceBlock,
                  Failing
    <2>5. ArchiveTells' /\ GoodArchive' /\ RestoredIsSource' /\ FailureHasCause'
      BY <2>1 DEF MgzInv, ArchiveTells, GoodArchive, SourceBlock, RestoredIsSource,
                  FailureHasCause
    <2> QED
      BY <2>2, <2>3, <2>4, <2>5 DEF MgzInv
  <1>2. ASSUME Next PROVE MgzInv'
    <2>1. CASE StartCompress
      BY <2>1, KeepsStartCompress
    <2>2. CASE StartDecompress
      BY <2>2, KeepsStartDecompress
    <2>3. CASE CompressBlock
      BY <2>3, KeepsCompressBlock
    <2>4. CASE SeekToHeader
      BY <2>4, KeepsSeekToHeader
    <2>5. CASE FinishHeader
      BY <2>5, KeepsFinishHeader
    <2>6. CASE DecompressBlock
      BY <2>6, KeepsDecompressBlock
    <2>7. CASE FinishDecompress
      BY <2>7, KeepsFinishDecompress
    <2>8. CASE CloseFiles
      BY <2>8, KeepsCloseFiles
    <2>9. CASE RemoveOutput
      BY <2>9, KeepsRemoveOutput
    <2>10. CASE StdioFlush
      BY <2>10, KeepsStdioFlush
    <2>11. CASE Kill
      BY <2>11, KeepsKill
    <2>12. CASE DamageArchive
      BY <2>12, KeepsDamageArchive
    <2>13. CASE Stopped
      BY <2>13, <1>1 DEF Stopped
    <2> QED
      BY <1>2, <2>1, <2>2, <2>3, <2>4, <2>5, <2>6, <2>7, <2>8, <2>9, <2>10, <2>11,
         <2>12, <2>13 DEF Next, Call
  <1> QED
    BY <1>1, <1>2

----------------------------------------------------------------------------
\* What the runs check, for every value of the constants

\* The parts of the invariant hold together in every state, for every block
\* size, source and number of calls.
THEOREM MgzInvariant == ~Aliased => (Spec => []MgzInv)
  <1> SUFFICES ASSUME ~Aliased PROVE Spec => []MgzInv
    OBVIOUS
  <1>1. Init => MgzInv
    BY InitMgz
  <1>2. MgzInv /\ [Next]_vars => MgzInv'
    BY MgzInduction
  <1> QED
    BY <1>1, <1>2, PTL DEF Spec

\* The variables of the codec keep their types.
THEOREM MgzTypeOK == ~Aliased => (Spec => []TypeOK)
  <1>1. MgzInv => TypeOK
    BY DEF MgzInv
  <1> QED
    BY <1>1, MgzInvariant, PTL

\* An archive that a successful compression left is the whole source, in full
\* blocks but for the last, behind a header that matches (format.c:395-486).
THEOREM ArchiveHoldsSource == ~Aliased => (Spec => []GoodArchive)
  <1>1. MgzInv => GoodArchive
    BY DEF MgzInv
  <1> QED
    BY <1>1, MgzInvariant, PTL

\* A decompression that reports success has restored the source, but for the
\* archive of a failed compression that was killed before its "remove".
THEOREM RestoresSource == ~Aliased => (Spec => []RestoredIsSource)
  <1>1. MgzInv => RestoredIsSource
    BY DEF MgzInv
  <1> QED
    BY <1>1, MgzInvariant, PTL

\* A call fails only for a reason: a library call, the user, or the archive.
THEOREM FailsForCause == ~Aliased => (Spec => []FailureHasCause)
  <1>1. MgzInv => FailureHasCause
    BY DEF MgzInv
  <1> QED
    BY <1>1, MgzInvariant, PTL

\* No call changes the plain file it was given, unless its output path leads
\* there: the run of MCMgzAliased.cfg shows that this exception is real.
THEOREM InputOnlyRead == ~Aliased => (Spec => SourceKept)
  <1> SUFFICES ASSUME ~Aliased PROVE Spec => SourceKept
    OBVIOUS
  <1>1. MgzInv => disk["plain"] = File(source)
    BY DEF MgzInv, MgzTypes
  <1>2. [Next]_vars => source' = source
    BY DEF Next, Call, vars, StartCompress, StartDecompress, Begin, Refuse,
           CompressBlock, SeekToHeader, FinishHeader, DecompressBlock,
           FinishDecompress, CloseFiles, RemoveOutput, StdioFlush, Kill,
           DamageArchive, Stopped
  <1>3. disk["plain"] = File(source) /\ (disk["plain"] = File(source))'
        /\ source' = source => disk'["plain"] = disk["plain"]
    BY DEF File
  <1>4. MgzInv /\ MgzInv' /\ [Next]_vars => [disk'["plain"] = disk["plain"]]_vars
    BY <1>1, <1>2, <1>3 DEF MgzInv, MgzTypes
  <1> QED
    BY <1>4, MgzInvariant, PTL DEF Spec, SourceKept

----------------------------------------------------------------------------
\* The calls as FileCall sees them

\* What a compression owes is an archive of as many blocks as it takes.
LEMMA OwedArchive ==
  ASSUME MgzInv, target = "archive",
         BlocksTo(ExpectedBlocks(Len(source)), disk["archive"].items),
         disk["archive"].items[1] =
            Header(Len(source), source, ExpectedBlocks(Len(source)))
  PROVE  disk["archive"].items = Owed
  <1> DEFINE items == disk["archive"].items
             count == ExpectedBlocks(Len(source))
             first == <<Header(Len(source), source, count)>>
             rest  == [k \in 1 .. count |-> Block(SourceBlock(k))]
  <1>1. items \in Seq(Items) /\ Len(items) = count + 1
        /\ \A b \in 1 .. count : items[b + 1] = Block(SourceBlock(b))
    BY DEF MgzInv, MgzTypes, BlocksTo
  <1>2. count \in Nat
    BY LenProperties, ExpectedBounds DEF MgzInv, TypeOK
  <1>3. \A k \in 1 .. count : Block(SourceBlock(k)) \in Items
    <2> SUFFICES ASSUME NEW k \in 1 .. count PROVE Block(SourceBlock(k)) \in Items
      OBVIOUS
    <2>1. k + 1 \in 1 .. Len(items)
      BY <1>1, <1>2
    <2>2. items[k + 1] \in Items
      <3> HIDE DEF items, count
      <3> QED
        BY <1>1, <2>1, ElementOfSeq
    <2> QED
      BY <1>1, <2>2
  <1>4. rest \in Seq(Items) /\ Len(rest) = count
    <2>1. rest \in [1 .. count -> Items]
      BY <1>3
    <2> HIDE DEF rest, count
    <2> QED
      BY <1>2, <2>1
  <1>5. first \in Seq(Items) /\ Len(first) = 1 /\ first[1] = items[1]
    <2>1. Header(Len(source), source, count) = items[1]
      OBVIOUS
    <2>2. items[1] \in Items
      <3>1. 1 \in 1 .. Len(items)
        BY <1>1, <1>2
      <3> HIDE DEF items, count
      <3> QED
        BY <1>1, <3>1, ElementOfSeq
    <2> HIDE DEF items, count
    <2> QED
      BY <2>1, <2>2
  <1>6. first \o rest \in Seq(Items) /\ Len(first \o rest) = Len(items)
        /\ \A i \in 1 .. Len(items) :
              (first \o rest)[i] = IF i <= 1 THEN first[i] ELSE rest[i - 1]
    <2> HIDE DEF first, rest, items, count
    <2>1. Len(first) + Len(rest) = Len(items)
      BY <1>1, <1>2, <1>4, <1>5
    <2>2. first \in Seq(Items) /\ rest \in Seq(Items)
      BY <1>4, <1>5
    <2>3. /\ first \o rest \in Seq(Items)
          /\ Len(first \o rest) = Len(first) + Len(rest)
          /\ \A i \in 1 .. Len(first) + Len(rest) :
                (first \o rest)[i] = IF i <= Len(first) THEN first[i]
                                     ELSE rest[i - Len(first)]
      BY <2>2, ConcatProperties
    <2> QED
      BY <1>5, <2>1, <2>3
  <1>7. \A i \in 1 .. Len(items) : items[i] = (first \o rest)[i]
    <2> SUFFICES ASSUME NEW i \in 1 .. Len(items) PROVE items[i] = (first \o rest)[i]
      OBVIOUS
    <2>1. CASE i = 1
      <3> HIDE DEF first, rest, items
      <3> QED
        BY <1>5, <1>6, <2>1
    <2>2. CASE i # 1
      <3>1. i - 1 \in 1 .. count /\ (i - 1) + 1 = i /\ ~(i <= 1)
        BY <1>1, <1>2, <2>2
      <3>2. items[i] = Block(SourceBlock(i - 1))
        BY <1>1, <3>1
      <3>3. rest[i - 1] = Block(SourceBlock(i - 1))
        BY <3>1
      <3> HIDE DEF first, rest, items
      <3> QED
        BY <1>6, <3>1, <3>2, <3>3
    <2> QED
      BY <2>1, <2>2
  <1>8. items = first \o rest
    <2> HIDE DEF first, rest, items
    <2> QED
      BY <1>1, <1>6, <1>7, SeqEqual
  <1> QED
    BY <1>8 DEF Owed

\* A step inside a call that goes on.
LEMMA CallerWorks ==
  ASSUME MgzInv, MgzInv', ~Idle, op' = op, result' = result
  PROVE  Caller!Next
  <1>1. disk'[target'].there
    BY DEF MgzInv, Running, Idle
  <1> QED
    BY <1>1 DEF Caller!Next, Caller!Work, Ended, Idle

LEMMA CallerOpens ==
  ASSUME MgzInv, Idle, calls < MaxCalls,
         NEW call \in {"compress", "decompress"}, NEW out \in {"archive", "restored"},
         NEW first \in Nat, NEW firstItems,
         call = "compress" <=> out = "archive",
         Begin(call, out, first, firstItems)
  PROVE  Caller!Next
  <1>1. disk'[out] = File(<<>>)
    BY KeepsBegin
  <1>2. op' = call /\ target' = out /\ result' = "none"
    BY DEF Begin
  <1> QED
    BY <1>1, <1>2 DEF Caller!Next, Caller!Open, Caller!File, File, Ended, Idle

LEMMA CallerRefuses ==
  ASSUME Idle, Refuse
  PROVE  Caller!Next
  BY DEF Refuse, Caller!Next, Caller!Refuse, Ended, Idle

LEMMA CallerCloses ==
  ASSUME MgzInv, MgzInv', CloseFiles
  PROVE  Caller!Next
  <1>1. pc = "close" /\ op \in {"compress", "decompress"} /\ ~Idle
    BY DEF CloseFiles, MgzInv, TypeOK, Idle
  <1>2. CASE ~success \/ op' = op
    <2>1. op' = op /\ result' = result
      BY <1>1, <1>2 DEF CloseFiles, Return
    <2> QED
      BY <1>1, <2>1, CallerWorks
  <1>3. CASE success /\ op' # op
    <2>1. op' = "none" /\ result' \in {"compressed", "restored"}
      BY <1>3 DEF CloseFiles, Return
    <2>2. UNCHANGED <<source, target, header>>
      BY DEF CloseFiles
    <2>3. disk'[target] = disk[target]
      <3>1. PICK n \in 0 .. Len(buffer) :
               disk' = [disk EXCEPT ![target].items = @ \o SubSeq(buffer, 1, n)]
        BY DEF CloseFiles
      <3>2. n = 0 /\ SubSeq(buffer, 1, n) = <<>>
        <4>1. buffer = <<>>
          BY <1>3 DEF MgzInv, Running
        <4>2. n = 0
          BY <4>1
        <4> QED
          BY <4>2, SubSeqEmpty
      <3>3. target \in DOMAIN disk
            /\ disk[target] = [there |-> disk[target].there,
                               items |-> disk[target].items]
        BY DEF MgzInv, TypeOK, MgzTypes
      <3>4. disk[target].items \o <<>> = disk[target].items
        <4>1. disk[target].items \in Seq(IF op = "decompress" THEN Byte ELSE Items)
          BY <1>1 DEF MgzInv, MgzTypes, Running
        <4> QED
          BY <4>1, ConcatEmptySeq
      <3>5. disk'[target] = [disk[target] EXCEPT !.items = disk[target].items]
        BY <3>1, <3>2, <3>3, <3>4
      <3> QED
        BY <3>3, <3>5, NewItems
    <2>4. disk[target] = File(Owed)
      <3>1. disk[target].items = Owed
        <4>1. CASE op = "compress"
          <5>1. target = "archive"
            BY <4>1 DEF MgzInv, Running
          <5>2. /\ BlocksTo(ExpectedBlocks(Len(source)), disk["archive"].items)
                /\ disk["archive"].items[1] =
                      Header(Len(source), source, ExpectedBlocks(Len(source)))
            BY <1>3, <4>1 DEF MgzInv, Succeeded
          <5> QED
            BY <5>1, <5>2, OwedArchive
        <4>2. CASE op = "decompress"
          <5>1. target = "restored"
            BY <4>2 DEF MgzInv, Running
          <5> QED
            BY <1>3, <4>2, <5>1 DEF MgzInv, Succeeded, Owed
        <4> QED
          BY <1>1, <4>1, <4>2
      <3>2. disk[target].there = TRUE
        BY <1>1 DEF MgzInv, Running, TypeOK
      <3>3. disk[target] = [there |-> disk[target].there,
                            items |-> disk[target].items]
        BY DEF MgzInv, TypeOK, MgzTypes
      <3> QED
        BY <3>1, <3>2, <3>3 DEF File
    <2>5. Owed' = Owed
      BY <2>2 DEF Owed, SourceBlock, Block, Header, ExpectedBlocks
    <2>6. Ended' = "ok"
      BY <2>1 DEF Ended
    <2>7. disk'[target'] = Caller!File(Owed)
      BY <2>2, <2>3, <2>4 DEF Caller!File, File
    <2> QED
      BY <1>1, <2>1, <2>5, <2>6, <2>7 DEF Caller!Next, Caller!Succeed, Idle
  <1> QED
    BY <1>2, <1>3

\* The codec does what FileCall promises: a success leaves the file it owes, a
\* failure leaves none, a refusal touches nothing (format.c:344-724).
THEOREM MgzImplementsFileCall == ~Aliased => (Spec => AllOrNothing)
  <1> SUFFICES ASSUME ~Aliased PROVE Spec => AllOrNothing
    OBVIOUS
  <1>1. Init => Caller!Init
    BY DEF Init, Caller!Init, Idle, Ended
  <1>2. MgzInv /\ MgzInv' /\ [Next]_vars => [Caller!Next]_(Caller!vars)
    <2> SUFFICES ASSUME MgzInv, MgzInv', [Next]_vars
                 PROVE  Caller!Next \/ UNCHANGED Caller!vars
      OBVIOUS
    <2>1. ASSUME UNCHANGED vars PROVE UNCHANGED Caller!vars
      <3>1. UNCHANGED <<source, disk, op, target, header, result>>
        BY <2>1 DEF vars, callVars
      <3> QED
        BY <3>1 DEF Caller!vars, Idle, Owed, Ended, SourceBlock, Block, Header,
                    ExpectedBlocks
    <2>2. CASE StartCompress
      <3>1. CASE Refuse
        BY <2>2, <3>1, CallerRefuses DEF StartCompress
      <3>2. CASE Begin("compress", "archive", 0, <<Placeholder>>)
        BY <2>2, <3>2, CallerOpens DEF StartCompress
      <3> QED
        BY <2>2, <3>1, <3>2 DEF StartCompress
    <2>3. CASE StartDecompress
      <3>1. CASE Refuse
        BY <2>3, <3>1, CallerRefuses DEF StartDecompress
      <3>2. CASE Begin("decompress", "restored", 1, <<>>)
        BY <2>3, <3>2, CallerOpens DEF StartDecompress
      <3> QED
        BY <2>3, <3>1, <3>2 DEF StartDecompress
    <2>4. CASE CompressBlock \/ SeekToHeader \/ FinishHeader
      <3>1. op = "compress" /\ op' = op /\ result' = result
        BY <2>4 DEF CompressBlock, SeekToHeader, FinishHeader, callVars
      <3> QED
        BY <3>1, CallerWorks DEF Idle
    <2>5. CASE DecompressBlock \/ FinishDecompress
      <3>1. op = "decompress" /\ op' = op /\ result' = result
        BY <2>5 DEF DecompressBlock, FinishDecompress, callVars
      <3> QED
        BY <3>1, CallerWorks DEF Idle
    <2>6. CASE StdioFlush
      <3>1. pc = "block" /\ op' = op /\ result' = result
        BY <2>6 DEF StdioFlush, callVars
      <3> QED
        BY <3>1, CallerWorks DEF Idle, MgzInv, TypeOK
    <2>7. CASE CloseFiles
      BY <2>7, CallerCloses
    <2>8. CASE RemoveOutput
      <3>1. /\ op # "none" /\ op' = "none" /\ result' = "failed"
            /\ target' = target /\ disk'[target] = NoFile
        BY <2>8 DEF RemoveOutput, Return, MgzInv, TypeOK
      <3> QED
        BY <3>1 DEF Caller!Next, Caller!Fail, NoFile, Ended, Idle
    <2>9. CASE Kill
      <3>1. op' = "none" /\ result' = "killed" /\ ~Idle
            /\ UNCHANGED <<disk, target>>
        BY <2>9 DEF Kill, Return
      <3> QED
        BY <3>1 DEF Caller!Next, Caller!Die, Ended, Idle
    <2>10. CASE DamageArchive
      <3>1. Idle /\ op' = op /\ result' = result
        BY <2>10 DEF DamageArchive, callVars
      <3> QED
        BY <3>1 DEF Caller!Next, Caller!Elsewhere, Ended, Idle
    <2>11. CASE Stopped
      BY <2>1, <2>11 DEF Stopped
    <2> QED
      BY <2>1, <2>2, <2>3, <2>4, <2>5, <2>6, <2>7, <2>8, <2>9, <2>10, <2>11
         DEF Next, Call
  <1> QED
    BY <1>1, <1>2, MgzInvariant, PTL DEF Spec, AllOrNothing, Caller!Spec

====
