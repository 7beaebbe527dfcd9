----------------------------- MODULE GzipProofs -----------------------------
(***************************************************************************)
(* gzip_decompress_file for every width of a byte and of the fields, every *)
(* size of the ring and of the buffer and all tables: what the ring and    *)
(* the bit reader hold, and that a call leaves all of its output or none.  *)
(*                                                                         *)
(* Then huffman_build, for every table of lengths.  In units of the        *)
(* longest code, what is available after l bits is what the codes of at    *)
(* most l bits leave (AvailableIs), the first code of l bits begins where  *)
(* they end (next_codeIs), and the code of a symbol where those before it  *)
(* end (SymbolCodeIs).  So symbols take intervals that do not overlap      *)
(* (SymbolsApart), and as a path tells its number (PathsTell), no path     *)
(* begins another when all of them fit (FittingPaths).                     *)
(***************************************************************************)
EXTENDS GzipFile, NatLemmas, SequenceTheorems, FiniteSetTheorems

----------------------------------------------------------------------------
(* The inductive invariant.                                                *)

Places == {"header", "open", "noMemory", "done", "final", "type",
           "storedLength", "storedInverted", "storedByte", "blockEnd",
           "hlit", "hdist", "hclen", "codeLength", "codeSymbol", "repeat",
           "symbol", "lengthExtra", "distance", "distanceExtra", "copy",
           "flush", "trailer", "trailing", "close"}

GzipTypes ==
    /\ pc \in Places
    /\ bits \in Nat /\ bit_count \in Nat /\ bytes_read \in Nat /\ used \in Nat
    /\ plain \in Seq(Nat) /\ buffer \in Seq(Nat)
    /\ output_size \in Nat
    /\ window \in [0 .. OutputWindow - 1 -> Nat]
    /\ disk \in [there : BOOLEAN, items : Seq(Nat)]
    /\ success \in BOOLEAN

\* The symbol is an index of the table that is read next, and the length of a
\* copy is known before its distance.
SymbolIndexes ==
    /\ pc = "repeat"        => symbol - MaxBits \in 1 .. 3
    /\ pc = "lengthExtra"   => symbol - EndOfBlock \in DOMAIN length_bases
    /\ pc = "distanceExtra" => symbol + 1 \in DOMAIN distance_bases
    /\ pc \in {"distance", "distanceExtra"} => left \in Nat \ {0}

\* Every byte that a copy still has to give stands one distance after its
\* like, and the first of those has been emitted.
CopyStands ==
    pc = "copy" =>
        /\ left \in Nat \ {0} /\ output_size + left = Len(plain)
        /\ distance \in 1 .. OutputWindow /\ distance <= output_size
        /\ \A k \in output_size + 1 .. Len(plain) :
              plain[k] = plain[k - distance]

Decoding == Running /\ pc # "noMemory"

\* The file and the buffer hold the beginning of what the stream says, and
\* the checksum covers the file.
SinkHoldsPrefix ==
    Decoding =>
        /\ disk.there /\ crc = disk.items
        /\ output_size = Len(Emitted) /\ output_size <= Len(plain)
        /\ \A i \in 1 .. output_size : Emitted[i] = plain[i]
        /\ pc \notin {"copy", "close"} => output_size = Len(plain)

RingHoldsTheEnd ==
    Decoding =>
        \A k \in 1 .. OutputWindow : k <= output_size =>
            window[(output_size - k) % OutputWindow] =
                Emitted[output_size - k + 1]

\* Before the output is opened nothing was read or written.
Pristine ==
    pc \in {"header", "open", "noMemory"} =>
        /\ bits = 0 /\ bit_count = 0 /\ output_size = 0
        /\ buffer = <<>> /\ crc = <<>> /\ plain = <<>>

Ending ==
    /\ pc # "done" => result = "none"
    /\ pc \in {"trailer", "trailing"} => buffer = <<>>
    /\ success => pc \in {"close", "done"}
    /\ pc = "close" /\ success => disk.items = plain

GzipInv ==
    /\ GzipTypes /\ SymbolIndexes /\ ReaderStaysBehind /\ CopyStands
    /\ SinkHoldsPrefix /\ RingHoldsTheEnd /\ Pristine /\ Ending

LEMMA InitGzip == Init => GzipInv
  <1> SUFFICES ASSUME Init PROVE GzipInv
    OBVIOUS
  <1> USE DEF Init, InflateInit
  <1>1. GzipTypes
    <2>1. <<>> \in Seq(Nat) /\ <<0>> \in Seq(Nat)
      OBVIOUS
    <2>2. disk \in [there : BOOLEAN, items : Seq(Nat)]
      <3>1. Absent \in [there : BOOLEAN, items : Seq(Nat)]
        BY <2>1 DEF Absent
      <3>2. Full(<<0>>) \in [there : BOOLEAN, items : Seq(Nat)]
        BY <2>1 DEF Full
      <3> QED
        BY <3>1, <3>2
    <2>3. window \in [0 .. OutputWindow - 1 -> Nat]
      OBVIOUS
    <2> QED
      BY <2>1, <2>2, <2>3 DEF GzipTypes, Places
  <1>2. SymbolIndexes /\ CopyStands /\ SinkHoldsPrefix /\ RingHoldsTheEnd
    BY DEF SymbolIndexes, CopyStands, SinkHoldsPrefix, RingHoldsTheEnd,
           Decoding, Running
  <1>3. ReaderStaysBehind
    <2>1. Width = 0
      BY DEF Width, Decodes
    <2> QED
      BY <2>1, DeflateAssumption, Pow2Def DEF ReaderStaysBehind
  <1>4. Pristine /\ Ending
    BY DEF Pristine, Ending
  <1> QED
    BY <1>1, <1>2, <1>3, <1>4 DEF GzipInv

LEMMA WidthNat ==
  ASSUME GzipTypes, SymbolIndexes
  PROVE  Width \in Nat
  <1> USE DeflateAssumption, TableAssumption
  <1>1. CASE pc = "repeat"
    BY <1>1 DEF Width, Decodes, SymbolIndexes
  <1>2. CASE pc = "lengthExtra"
    BY <1>2 DEF Width, Decodes, SymbolIndexes
  <1>3. CASE pc = "distanceExtra"
    BY <1>3 DEF Width, Decodes, SymbolIndexes
  <1>4. CASE pc \notin {"repeat", "lengthExtra", "distanceExtra"}
    BY <1>4 DEF Width, Decodes, GzipTypes, Places
  <1> QED
    BY <1>1, <1>2, <1>3, <1>4

\* What a read gives is a natural number below the power of its width.
LEMMA ValueNat ==
  ASSUME GzipTypes, SymbolIndexes
  PROVE  Value \in 0 .. pow2[Width] - 1
  <1>1. bits \in Int /\ pow2[Width] \in Nat \ {0}
    BY WidthNat, Pow2Positive DEF GzipTypes
  <1> QED
    BY <1>1, Division DEF Value

\* The type of a block has four values.
LEMMA TypeIsFour ==
  ASSUME GzipTypes, SymbolIndexes, pc = "type"
  PROVE  Width = 2 /\ Value \in {0, 1, 2, 3}
  <1>1. Width = 2
    BY DEF Width, Decodes
  <1>2. pow2[0 + 1] = 2 /\ pow2[1 + 1] = 4
    BY Pow2Def
  <1>3. Value \in 0 .. 3
    BY <1>1, <1>2, ValueNat
  <1> QED
    BY <1>1, <1>3

\* A read takes bits off the reader and keeps its books.
LEMMA ConsumeKeeps ==
  ASSUME GzipTypes, bits < pow2[bit_count], used + bit_count = ByteBits * bytes_read,
         NEW n \in Nat, n <= bit_count, Consume(n)
  PROVE  /\ bits' \in Nat /\ bit_count' \in Nat /\ used' \in Nat
         /\ bytes_read' \in Nat
         /\ bit_count' = bit_count - n
         /\ bits' < pow2[bit_count']
         /\ used' + bit_count' = ByteBits * bytes_read'
  <1>1. pow2[n] \in Nat \ {0} /\ pow2[bit_count - n] \in Nat
    <2>1. bit_count - n \in Nat
      BY DEF GzipTypes
    <2> QED
      BY <2>1, Pow2Positive
  <1>2. bits < pow2[n] * pow2[bit_count - n]
    <2>1. bit_count - n \in Nat /\ n + (bit_count - n) = bit_count
      BY DEF GzipTypes
    <2> QED
      BY <2>1, Pow2Sum
  <1>3. bits \div pow2[n] \in Nat /\ bits \div pow2[n] < pow2[bit_count - n]
    BY <1>1, <1>2, QuotientBelow DEF GzipTypes
  <1> QED
    BY <1>3 DEF Consume, GzipTypes

----------------------------------------------------------------------------
\* What the steps of the decoder have in common.

\* The places where a block is being decoded.
Inside == Places \ {"header", "open", "noMemory", "done", "flush", "trailer",
                    "trailing", "close"}

\* A flush and an emitted byte, by what they leave.
LEMMA FlushShape ==
  ASSUME NEW pending, NEW next, output_flush(pending, next)
  PROVE  pc' \in {next, "close"}
  BY DEF output_flush, Fail

LEMMA EmitShape ==
  ASSUME NEW v, NEW next, output_emit(v, next)
  PROVE  pc' \in {next, "close"}
  BY FlushShape DEF output_emit

\* Where a step of the decoder starts and where it leads.
LEMMA InflatePlaces ==
  ASSUME GzipTypes, SymbolIndexes, Inflate
  PROVE  pc \in Inside /\ pc' \in Inside \cup {"flush", "close"}
  <1> USE DEF GzipTypes, Inside, Places
  <1>1. CASE Fetch
    <2>1. Width # 0
      BY <1>1 DEF Fetch
    <2>2. pc \in Inside
      BY <2>1 DEF Width, Decodes
    <2> QED
      BY <1>1, <2>2 DEF Fetch, Fail
  <1>2. CASE ReadFinal \/ BlockEnd \/ ReadStoredLength \/ ReadStoredInverted
    BY <1>2 DEF ReadFinal, BlockEnd, ReadStoredLength, ReadStoredInverted,
                Read, At, Fail
  <1>3. CASE ReadType
    <2>1. pc = "type" /\ pc' \in {"storedLength", "symbol", "hlit", "close"}
      BY <1>3, TypeIsFour DEF ReadType, At, Fail
    <2> QED
      BY <2>1
  <1>4. CASE CopyStored
    <2>1. pc = "storedByte" /\ pc' \in {"blockEnd", "storedByte", "close"}
      BY <1>4, EmitShape DEF CopyStored, At
    <2> QED
      BY <2>1
  <1>5. CASE FollowBit
    BY <1>5 DEF FollowBit, Decodes, Fail
  <1>6. CASE ReadCounts
    BY <1>6 DEF ReadCounts, At
  <1>7. CASE ReadCodeLength
    BY <1>7 DEF ReadCodeLength, At
  <1>8. CASE ReadLength
    <2>1. pc = "codeSymbol" /\ pc' \in {"codeSymbol", "symbol", "close", "repeat"}
      BY <1>8 DEF ReadLength, Decoded, At, AddLengths, Fail
    <2> QED
      BY <2>1
  <1>9. CASE ReadRepeat
    <2>1. pc = "repeat" /\ pc' \in {"codeSymbol", "symbol", "close"}
      BY <1>9 DEF ReadRepeat, At, AddLengths, Fail
    <2> QED
      BY <2>1
  <1>10. CASE ReadSymbol
    <2>1. pc = "symbol" /\ pc' \in {"symbol", "blockEnd", "close", "lengthExtra"}
      BY <1>10, EmitShape DEF ReadSymbol, Decoded, At
    <2> QED
      BY <2>1
  <1>11. CASE ReadLengthExtra \/ ReadDistance \/ ReadDistanceExtra
    BY <1>11 DEF ReadLengthExtra, ReadDistance, ReadDistanceExtra, Read, Decoded,
                 At, Fail
  <1>12. CASE CopyByte
    <2>1. pc = "copy" /\ pc' \in {"symbol", "copy", "close"}
      BY <1>12, EmitShape DEF CopyByte
    <2> QED
      BY <2>1
  <1> QED
    BY <1>1, <1>2, <1>3, <1>4, <1>5, <1>6, <1>7, <1>8, <1>9, <1>10, <1>11,
       <1>12 DEF Inflate

\* How a step of the decoder reads: a byte more, or what the place asks for,
\* or, where it asks for nothing, up to the next byte or nothing.
LEMMA InflateReads ==
  ASSUME GzipTypes, SymbolIndexes, Inflate
  PROVE  /\ \/ Fetch
            \/ bit_count >= Width /\ Consume(Width)
            \/ bit_count >= Width /\ ConsumeAndAlign(Width)
            \/ Width = 0 /\ UNCHANGED readVars
         /\ pc' = "flush" => Width = 0 /\ ConsumeAndAlign(0)
  <1>1. CASE Fetch
    <2>1. pc' # "flush"
      BY <1>1, InflatePlaces DEF Fetch, Fail, Inside
    <2> QED
      BY <1>1, <2>1
  <1>2. CASE ReadFinal \/ ReadStoredLength \/ ReadStoredInverted
    BY <1>2 DEF ReadFinal, ReadStoredLength, ReadStoredInverted, Read, At
  <1>3. CASE BlockEnd
    <2>1. Width = 0
      BY <1>3 DEF BlockEnd, Width, Decodes
    <2>2. bit_count >= Width
      BY <2>1 DEF GzipTypes
    <2> QED
      BY <1>3, <2>1, <2>2 DEF BlockEnd, Fail
  <1>4. CASE ReadType
    <2>1. /\ bit_count >= Width
          /\ ConsumeAndAlign(Width) \/ Consume(Width)
          /\ pc' # "flush"
      BY <1>4, TypeIsFour DEF ReadType, At, Fail
    <2> QED
      BY <2>1
  <1>5. CASE CopyStored
    <2>1. bit_count >= Width /\ Consume(Width)
      BY <1>5 DEF CopyStored, At
    <2>2. pc' # "flush"
      BY <1>5, EmitShape DEF CopyStored
    <2> QED
      BY <2>1, <2>2
  <1>6. CASE FollowBit
    <2>1. Width = 1
      BY <1>6 DEF FollowBit, Decodes, Width
    <2>2. pc' # "flush"
      BY <1>6 DEF FollowBit, Decodes, Fail
    <2> QED
      BY <1>6, <2>1, <2>2 DEF FollowBit, At
  <1>7. CASE ReadCounts \/ ReadCodeLength
    <2>1. bit_count >= Width /\ Consume(Width)
      BY <1>7 DEF ReadCounts, ReadCodeLength, At
    <2>2. pc' # "flush"
      BY <1>7 DEF ReadCounts, ReadCodeLength, At
    <2> QED
      BY <2>1, <2>2
  <1>8. CASE ReadLength
    <2>1. pc = "codeSymbol" /\ bit_count >= Width /\ Consume(1) /\ pc' # "flush"
      BY <1>8 DEF ReadLength, Decoded, At, AddLengths, Fail
    <2>2. Width = 1
      BY <2>1 DEF Width, Decodes
    <2> QED
      BY <2>1, <2>2
  <1>9. CASE ReadRepeat
    <2>1. bit_count >= Width /\ Consume(Width) /\ pc' # "flush"
      BY <1>9 DEF ReadRepeat, At, AddLengths, Fail
    <2> QED
      BY <2>1
  <1>10. CASE ReadSymbol
    <2>1. pc = "symbol" /\ bit_count >= Width /\ Consume(1) /\ pc' # "flush"
      BY <1>10, EmitShape DEF ReadSymbol, Decoded, At
    <2>2. Width = 1
      BY <2>1 DEF Width, Decodes
    <2> QED
      BY <2>1, <2>2
  <1>11. CASE ReadLengthExtra \/ ReadDistanceExtra
    BY <1>11 DEF ReadLengthExtra, ReadDistanceExtra, Read, At, Fail
  <1>12. CASE ReadDistance
    <2>1. pc = "distance" /\ bit_count >= Width /\ Consume(1) /\ pc' # "flush"
      BY <1>12 DEF ReadDistance, Decoded, At
    <2>2. Width = 1
      BY <2>1 DEF Width, Decodes
    <2> QED
      BY <2>1, <2>2
  <1>13. CASE CopyByte
    <2>1. Width = 0
      BY <1>13 DEF CopyByte, Width, Decodes
    <2>2. pc' # "flush"
      BY <1>13, EmitShape DEF CopyByte
    <2> QED
      BY <1>13, <2>1, <2>2 DEF CopyByte
  <1> QED
    BY <1>1, <1>2, <1>3, <1>4, <1>5, <1>6, <1>7, <1>8, <1>9, <1>10, <1>11,
       <1>12, <1>13 DEF Inflate

\* Less than a byte is dropped when the reader moves to the next byte.
LEMMA AlignEmpties ==
  ASSUME GzipTypes, bits < pow2[bit_count], used + bit_count = ByteBits * bytes_read,
         NEW n \in Nat, n <= bit_count, bit_count - n < ByteBits,
         ConsumeAndAlign(n)
  PROVE  /\ bits' = 0 /\ bit_count' = 0 /\ used' \in Nat /\ bytes_read' \in Nat
         /\ used' = ByteBits * bytes_read'
  <1>1. (bit_count - n) % ByteBits = bit_count - n
    <2>1. bit_count - n \in 0 .. ByteBits - 1
      BY DeflateAssumption DEF GzipTypes
    <2> QED
      BY <2>1, ModSmall, DeflateAssumption
  <1>2. n + ((bit_count - n) % ByteBits) = bit_count
    BY <1>1 DEF GzipTypes
  <1>3. Consume(bit_count)
    BY <1>2 DEF ConsumeAndAlign
  <1>4. bit_count \in Nat /\ bit_count <= bit_count
    BY DEF GzipTypes
  <1>5. /\ bits' \in Nat /\ bit_count' \in Nat /\ used' \in Nat
        /\ bytes_read' \in Nat /\ bit_count' = bit_count - bit_count
        /\ bits' < pow2[bit_count']
        /\ used' + bit_count' = ByteBits * bytes_read'
    BY <1>3, <1>4, ConsumeKeeps
  <1>6. bit_count' = 0
    BY <1>4, <1>5
  <1>7. bits' < 1
    BY <1>5, <1>6, Pow2Def
  <1> QED
    BY <1>5, <1>6, <1>7

\* What a step of the decoder leaves in the bit reader.
LEMMA ReaderStep ==
  ASSUME GzipInv, Inflate
  PROVE  /\ bits' \in Nat /\ bit_count' \in Nat /\ bytes_read' \in Nat
         /\ used' \in Nat
         /\ used' + bit_count' = ByteBits * bytes_read'
         /\ bits' < pow2[bit_count']
         /\ pc' # "close" =>
               \/ bit_count' < ByteBits
               \/ /\ bit_count' < Width + ByteBits
                  /\ pc' = pc /\ symbol' = symbol
         /\ pc' = "flush" => bits' = 0 /\ bit_count' = 0
  <1> USE DeflateAssumption
  <1>1. GzipTypes /\ SymbolIndexes /\ ReaderStaysBehind
    BY DEF GzipInv
  <1>2. Width \in Nat /\ bit_count \in Nat /\ bits \in Nat
    BY <1>1, WidthNat DEF GzipTypes
  <1>3. /\ used + bit_count = ByteBits * bytes_read
        /\ bits < pow2[bit_count]
        /\ bit_count < Width + ByteBits
    BY <1>1, InflatePlaces DEF ReaderStaysBehind, Inside
  <1>4. pc' = "flush" => Width = 0 /\ ConsumeAndAlign(0)
    BY <1>1, InflateReads
  <1>5. pc' = "flush" => bits' = 0 /\ bit_count' = 0
    BY <1>1, <1>2, <1>3, <1>4, AlignEmpties
  <1>6. CASE Fetch
    <2>1. CASE UNCHANGED <<bits, bit_count, bytes_read>> /\ pc' = "close"
      BY <1>1, <1>3, <1>6, <2>1 DEF Fetch, GzipTypes
    <2>2. CASE ~(UNCHANGED <<bits, bit_count, bytes_read>> /\ pc' = "close")
      <3>1. PICK byte \in Byte : bits' = bits + byte * pow2[bit_count]
        BY <1>6, <2>2 DEF Fetch, Fail
      <3>2. /\ bit_count < Width /\ bit_count' = bit_count + ByteBits
            /\ bytes_read' = bytes_read + 1 /\ used' = used
            /\ pc' = pc /\ symbol' = symbol
        BY <1>6, <2>2 DEF Fetch, Fail, blockVars
      <3>3. byte \in Nat /\ byte + 1 <= pow2[ByteBits]
            /\ pow2[bit_count] \in Nat /\ pow2[ByteBits] \in Nat
        BY <1>2, Pow2Def DEF Byte
      <3>4. pow2[bit_count + ByteBits] = pow2[bit_count] * pow2[ByteBits]
        BY <1>2, Pow2Sum
      <3>5. /\ byte * pow2[bit_count] \in Nat
            /\ byte * pow2[bit_count] + pow2[bit_count]
                 <= pow2[bit_count] * pow2[ByteBits]
        <4> DEFINE p == pow2[bit_count]
                   t == pow2[ByteBits]
        <4>1. p \in Nat /\ t \in Nat /\ byte \in Nat /\ byte + 1 <= t
          BY <3>3
        <4> HIDE DEF p, t
        <4>2. byte * p \in Nat /\ (t - (byte + 1)) * p >= 0
          BY <4>1
        <4>3. (t - (byte + 1)) * p = p * t - (byte * p + p)
          BY <4>1
        <4>4. byte * p \in Nat /\ byte * p + p <= p * t
          BY <4>1, <4>2, <4>3
        <4> QED
          BY <4>4 DEF p, t
      <3>6. bits' < pow2[bit_count']
        <4>1. bits' < byte * pow2[bit_count] + pow2[bit_count]
          BY <1>2, <1>3, <3>1, <3>3, <3>5
        <4>2. pow2[bit_count'] = pow2[bit_count] * pow2[ByteBits]
          BY <3>2, <3>4
        <4>3. pow2[bit_count] * pow2[ByteBits] \in Nat
          BY <3>3
        <4>4. bits' \in Int
          BY <1>2, <3>1, <3>5
        <4> QED
          BY <4>1, <4>2, <4>3, <4>4, <3>3, <3>5
      <3>7. used' + bit_count' = ByteBits * bytes_read'
        BY <1>1, <1>3, <3>2 DEF GzipTypes
      <3>8. bits' \in Nat
        BY <1>2, <3>1, <3>5
      <3> QED
        BY <1>1, <1>2, <1>5, <3>2, <3>6, <3>7, <3>8 DEF GzipTypes
    <2> QED
      BY <2>1, <2>2
  <1>7. CASE bit_count >= Width /\ Consume(Width)
    <2>1. /\ bits' \in Nat /\ bit_count' \in Nat /\ used' \in Nat
          /\ bytes_read' \in Nat /\ bit_count' = bit_count - Width
          /\ bits' < pow2[bit_count']
          /\ used' + bit_count' = ByteBits * bytes_read'
      BY <1>1, <1>2, <1>3, <1>7, ConsumeKeeps
    <2> QED
      BY <1>2, <1>3, <1>5, <2>1
  <1>8. CASE bit_count >= Width /\ ConsumeAndAlign(Width)
    <2>1. /\ bits' = 0 /\ bit_count' = 0 /\ used' \in Nat /\ bytes_read' \in Nat
          /\ used' = ByteBits * bytes_read'
      BY <1>1, <1>2, <1>3, <1>8, AlignEmpties
    <2> QED
      <3>1. bits' \in Nat /\ bit_count' \in Nat /\ bytes_read' \in Nat
            /\ used' + bit_count' = ByteBits * bytes_read'
        <4>1. ByteBits * bytes_read' \in Nat /\ used' + 0 = used'
          <5>1. \A a, b \in Nat : a * b \in Nat /\ a + 0 = a
            OBVIOUS
          <5> QED
            BY ONLY <2>1, <5>1, DeflateAssumption
        <4> QED
          BY <2>1, <4>1
      <3>2. bits' < pow2[bit_count'] /\ bit_count' < ByteBits
        BY <2>1, Pow2Def, DeflateAssumption
      <3> QED
        BY ONLY <2>1, <3>1, <3>2
  <1>9. CASE Width = 0 /\ UNCHANGED readVars
    BY <1>1, <1>3, <1>5, <1>9 DEF readVars, GzipTypes
  <1> QED
    BY <1>1, <1>6, <1>7, <1>8, <1>9, InflateReads

LEMMA SymbolStep ==
  ASSUME GzipInv, Inflate
  PROVE  SymbolIndexes'
  <1> USE TableAssumption, DeflateAssumption, TreeAssumption
  <1>1. GzipTypes /\ SymbolIndexes
    BY DEF GzipInv
  <1>2. EndOfBlock \in Nat /\ Value \in Nat
    BY <1>1, ValueNat, Pow2Positive DEF EndOfBlock
  <1>3. CASE Fetch
    <2>1. pc' # "close" => pc' = pc /\ symbol' = symbol /\ left' = left
      BY <1>3 DEF Fetch, Fail, blockVars
    <2> QED
      BY <1>1, <2>1 DEF SymbolIndexes
  <1>4. CASE ReadFinal \/ ReadStoredLength \/ ReadStoredInverted \/ BlockEnd
    BY <1>4 DEF ReadFinal, ReadStoredLength, ReadStoredInverted, BlockEnd, Read,
                Fail, SymbolIndexes
  <1>5. CASE ReadType
    <2>1. pc' \in {"storedLength", "symbol", "hlit", "close"}
      BY <1>1, <1>5, TypeIsFour DEF ReadType, At, Fail
    <2> QED
      BY <2>1 DEF SymbolIndexes
  <1>6. CASE CopyStored
    <2>1. pc' \in {"blockEnd", "storedByte", "close"}
      BY <1>6, EmitShape DEF CopyStored
    <2> QED
      BY <2>1 DEF SymbolIndexes
  <1>7. CASE FollowBit
    <2>1. /\ pc \in Decodes /\ symbol' = symbol /\ left' = left
          /\ pc' \in {pc, "close"}
      BY <1>7 DEF FollowBit, Fail
    <2> QED
      BY <1>1, <2>1 DEF SymbolIndexes, Decodes
  <1>8. CASE ReadCounts \/ ReadCodeLength
    <2>1. pc' \in {"hdist", "hclen", "codeLength", "codeSymbol", "close"}
      BY <1>8 DEF ReadCounts, ReadCodeLength, At
    <2> QED
      BY <2>1 DEF SymbolIndexes
  <1>9. CASE ReadLength
    <2>1. PICK s \in 0 .. MaxBits + 3 :
             \/ s <= MaxBits /\ AddLengths(1, s)
             \/ ~(s <= MaxBits) /\ symbol' = s /\ pc' \in {"close", "repeat"}
      BY <1>9 DEF ReadLength
    <2>2. pc' \in {"codeSymbol", "symbol", "close"}
             \/ (pc' = "repeat" /\ symbol' - MaxBits \in 1 .. 3)
      <3>1. AddLengths(1, s) => pc' \in {"codeSymbol", "symbol", "close"}
        BY DEF AddLengths, Fail
      <3>2. ~(s <= MaxBits) => s - MaxBits \in 1 .. 3
        OBVIOUS
      <3> QED
        BY <2>1, <3>1, <3>2
    <2> QED
      BY <2>2 DEF SymbolIndexes
  <1>10. CASE ReadRepeat
    <2>1. pc' \in {"codeSymbol", "symbol", "close"}
      BY <1>10 DEF ReadRepeat, AddLengths, Fail
    <2> QED
      BY <2>1 DEF SymbolIndexes
  <1>11. CASE ReadSymbol
    <2>1. PICK s \in DOMAIN FixedLiterals :
             \/ output_emit(s, "symbol")
             \/ /\ s >= EndOfBlock
                /\ symbol' = IF s = EndOfBlock THEN 0 ELSE s
                /\ pc' = IF s = EndOfBlock THEN "blockEnd"
                         ELSE IF s > EndOfBlock + Len(length_bases) THEN "close"
                         ELSE "lengthExtra"
      BY <1>11 DEF ReadSymbol
    <2>2. s \in Nat
      OBVIOUS
    <2>3. CASE output_emit(s, "symbol")
      <3>1. pc' \in {"symbol", "close"}
        BY <2>3, EmitShape
      <3> QED
        BY <3>1 DEF SymbolIndexes
    <2>4. CASE pc' = "lengthExtra"
      <3>1. symbol' - EndOfBlock \in 1 .. Len(length_bases)
        <4>1. s > EndOfBlock /\ s <= EndOfBlock + Len(length_bases) /\ symbol' = s
          <5>1. Len(length_bases) \in Nat
            OBVIOUS
          <5>2. ~output_emit(s, "symbol")
            BY <2>4, EmitShape
          <5> QED
            BY <1>2, <2>1, <2>2, <2>4, <5>1, <5>2
        <4> QED
          BY ONLY <1>2, <2>2, <4>1
      <3> QED
        BY <2>4, <3>1 DEF SymbolIndexes
    <2>5. CASE pc' \in {"blockEnd", "close"}
      BY <2>5 DEF SymbolIndexes
    <2> QED
      BY <2>1, <2>3, <2>4, <2>5
  <1>12. CASE ReadLengthExtra
    <2>1. pc = "lengthExtra" /\ pc' = "distance"
          /\ left' = length_bases[symbol - EndOfBlock] + Value
      BY <1>12 DEF ReadLengthExtra, Read, At
    <2>2. length_bases[symbol - EndOfBlock] \in Nat \ {0}
      BY <1>1, <2>1 DEF SymbolIndexes
    <2>3. left' \in Nat \ {0}
      <3>1. ASSUME NEW a \in Nat \ {0}, NEW b \in Nat PROVE a + b \in Nat \ {0}
        OBVIOUS
      <3> QED
        BY <1>2, <2>1, <2>2, <3>1
    <2> QED
      BY <2>1, <2>3 DEF SymbolIndexes
  <1>13. CASE ReadDistance
    <2>1. PICK s \in DOMAIN FixedDistances :
             /\ pc = "distance" /\ symbol' = s /\ left' = left
             /\ pc' = IF s >= Len(distance_bases) THEN "close" ELSE "distanceExtra"
      BY <1>13 DEF ReadDistance, Decoded, At
    <2>2. s \in Nat /\ Len(distance_bases) \in Nat
          /\ DOMAIN distance_bases = 1 .. Len(distance_bases)
      OBVIOUS
    <2>3. pc' = "distanceExtra" => symbol' + 1 \in DOMAIN distance_bases
      BY <2>1, <2>2
    <2> QED
      BY <1>1, <2>1, <2>3 DEF SymbolIndexes
  <1>14. CASE ReadDistanceExtra
    <2>1. pc' \in {"copy", "close"}
      BY <1>14 DEF ReadDistanceExtra, Fail
    <2> QED
      BY <2>1 DEF SymbolIndexes
  <1>15. CASE CopyByte
    <2>1. pc' \in {"symbol", "copy", "close"}
      BY <1>15, EmitShape DEF CopyByte
    <2> QED
      BY <2>1 DEF SymbolIndexes
  <1> QED
    BY <1>3, <1>4, <1>5, <1>6, <1>7, <1>8, <1>9, <1>10, <1>11, <1>12, <1>13,
       <1>14, <1>15 DEF Inflate

----------------------------------------------------------------------------
\* What the steps of the decoder emit.

\* A step of the decoder emits nothing, or a byte that the stream says, or it
\* begins a copy, or it goes on with one.
LEMMA InflateEmits ==
  ASSUME GzipTypes, SymbolIndexes, Inflate
  PROVE  \/ UNCHANGED <<sinkVars, plain>> /\ pc # "copy" /\ pc' # "copy"
         \/ \E v \in Nat, next \in Inside \ {"copy"} :
               plain' = Append(plain, v) /\ output_emit(v, next) /\ pc # "copy"
         \/ ReadDistanceExtra /\ pc' = "copy"
         \/ CopyByte
  <1>1. CASE Fetch
    <2>1. pc # "copy"
      <3>1. Width # 0
        BY <1>1 DEF Fetch, GzipTypes
      <3> QED
        BY <3>1 DEF Width, Decodes
    <2> QED
      BY <1>1, <2>1 DEF Fetch, Fail
  <1>2. CASE ReadFinal \/ ReadStoredLength \/ ReadStoredInverted \/ BlockEnd
    BY <1>2 DEF ReadFinal, ReadStoredLength, ReadStoredInverted, BlockEnd, Read,
                At, Fail
  <1>3. CASE ReadType
    <2>1. pc = "type" /\ pc' \in {"storedLength", "symbol", "hlit", "close"}
      BY <1>3, TypeIsFour DEF ReadType, At, Fail
    <2> QED
      BY <1>3, <2>1 DEF ReadType
  <1>4. CASE CopyStored
    <2>1. Value \in Nat
      BY ValueNat, WidthNat, Pow2Positive
    <2> DEFINE next == IF left = 1 THEN "blockEnd" ELSE "storedByte"
    <2>2. next \in Inside \ {"copy"}
      BY DEF Inside, Places
    <2>3. plain' = Append(plain, Value) /\ output_emit(Value, next) /\ pc # "copy"
      BY <1>4 DEF CopyStored, At
    <2> HIDE DEF next
    <2> QED
      BY <2>1, <2>2, <2>3
  <1>5. CASE FollowBit
    BY <1>5 DEF FollowBit, Decodes, Fail
  <1>6. CASE ReadCounts \/ ReadCodeLength
    <2>1. pc # "copy" /\ UNCHANGED <<sinkVars, plain>>
      BY <1>6 DEF ReadCounts, ReadCodeLength, At
    <2>2. pc' \in {"hdist", "hclen", "codeLength", "codeSymbol", "close"}
      BY <1>6 DEF ReadCounts, ReadCodeLength, At
    <2> QED
      BY <2>1, <2>2
  <1>7. CASE ReadLength
    <2>1. pc = "codeSymbol" /\ UNCHANGED <<sinkVars, plain>>
      BY <1>7 DEF ReadLength, Decoded, At
    <2>2. pc' # "copy"
      BY <1>7 DEF ReadLength, AddLengths, Fail
    <2> QED
      BY <2>1, <2>2
  <1>8. CASE ReadRepeat
    <2>1. pc = "repeat" /\ UNCHANGED <<sinkVars, plain>> /\ pc' # "copy"
      BY <1>8 DEF ReadRepeat, At, AddLengths, Fail
    <2> QED
      BY <2>1
  <1>9. CASE ReadSymbol
    <2>1. PICK s \in DOMAIN FixedLiterals :
             /\ pc = "symbol"
             /\ \/ plain' = Append(plain, s) /\ output_emit(s, "symbol")
                \/ /\ pc' \in {"blockEnd", "close", "lengthExtra"}
                   /\ UNCHANGED <<sinkVars, plain>>
      BY <1>9 DEF ReadSymbol, Decoded, At
    <2>2. s \in Nat
      BY TableAssumption
    <2>3. "symbol" \in Inside \ {"copy"}
      BY DEF Inside, Places
    <2> QED
      BY <2>1, <2>2, <2>3
  <1>10. CASE ReadLengthExtra \/ ReadDistance
    BY <1>10 DEF ReadLengthExtra, ReadDistance, Read, Decoded, At
  <1>11. CASE ReadDistanceExtra
    <2>1. pc = "distanceExtra" /\ UNCHANGED sinkVars
      BY <1>11 DEF ReadDistanceExtra, At
    <2>2. pc' = "copy" \/ (pc' = "close" /\ UNCHANGED plain)
      BY <1>11 DEF ReadDistanceExtra, Fail
    <2> QED
      BY <1>11, <2>1, <2>2
  <1> QED
    BY <1>1, <1>2, <1>3, <1>4, <1>5, <1>6, <1>7, <1>8, <1>9, <1>10, <1>11
       DEF Inflate

\* An emitted byte goes to the end of what was emitted and into the ring, also
\* when the buffer is flushed and when the flush fails.
LEMMA EmitAppends ==
  ASSUME GzipTypes, disk.there, crc = disk.items,
         NEW v \in Nat, NEW next, output_emit(v, next)
  PROVE  /\ disk' \in [there : BOOLEAN, items : Seq(Nat)] /\ disk'.there
         /\ crc' = disk'.items
         /\ buffer' \in Seq(Nat)
         /\ Emitted' = Append(Emitted, v)
         /\ window' \in [0 .. OutputWindow - 1 -> Nat]
         /\ window' = [window EXCEPT ![output_size % OutputWindow] = v]
         /\ output_size' = output_size + 1
  <1> DEFINE items == disk.items
             pending == Append(buffer, v)
  <1>1. items \in Seq(Nat) /\ buffer \in Seq(Nat) /\ pending \in Seq(Nat)
    BY DEF GzipTypes
  <1>2. /\ window' = [window EXCEPT ![output_size % OutputWindow] = v]
        /\ window' \in [0 .. OutputWindow - 1 -> Nat]
        /\ output_size' = output_size + 1
    BY DEF output_emit, GzipTypes
  <1>3. items \o pending = Append(items \o buffer, v)
    <2>1. <<v>> \in Seq(Nat) /\ items \o buffer \in Seq(Nat)
      BY <1>1
    <2>2. pending = buffer \o <<v>>
      BY <1>1, AppendIsConcat
    <2>3. Append(items \o buffer, v) = (items \o buffer) \o <<v>>
      BY <2>1, AppendIsConcat
    <2>4. (items \o buffer) \o <<v>> = items \o (buffer \o <<v>>)
      <3> HIDE DEF items, pending
      <3> QED
        BY <1>1, <2>1, ConcatAssociative
    <2> HIDE DEF items, pending
    <2> QED
      BY <2>2, <2>3, <2>4
  <1>4. CASE /\ disk' = [disk EXCEPT !.items = @ \o pending]
             /\ crc' = crc \o pending
             /\ buffer' = <<>>
    <2>1. items \o pending \in Seq(Nat)
      BY <1>1
    <2>2. /\ disk' \in [there : BOOLEAN, items : Seq(Nat)] /\ disk'.there
          /\ disk'.items = items \o pending
      BY <1>4, <2>1 DEF GzipTypes
    <2>3. Emitted' = items \o pending
      BY <1>4, <2>1, <2>2, ConcatEmptySeq DEF Emitted
    <2>4. Emitted' = Append(Emitted, v)
      BY <1>3, <2>3 DEF Emitted
    <2>5. <<>> \in Seq(Nat)
      OBVIOUS
    <2> QED
      BY <1>2, <1>4, <2>2, <2>4, <2>5
  <1>5. CASE buffer' = pending /\ UNCHANGED <<disk, crc>>
    BY <1>1, <1>2, <1>3, <1>5 DEF Emitted, GzipTypes
  <1> QED
    BY <1>4, <1>5 DEF output_emit, output_flush

LEMMA EmittedIsSeq ==
  ASSUME GzipTypes
  PROVE  Emitted \in Seq(Nat) /\ Len(Emitted) \in Nat
  BY DEF GzipTypes, Emitted

\* The ring keeps the end of what was emitted when a byte is put into the
\* place that follows, the others being less than its size away.
LEMMA RingStep ==
  ASSUME GzipTypes, RingHoldsTheEnd, Decoding, output_size = Len(Emitted),
         NEW v \in Nat, Emitted' = Append(Emitted, v),
         window' = [window EXCEPT ![output_size % OutputWindow] = v],
         output_size' = output_size + 1
  PROVE  RingHoldsTheEnd'
  <1> USE DeflateAssumption
  <1> DEFINE n == output_size
  <1>1. /\ n \in Nat /\ Emitted \in Seq(Nat) /\ n = Len(Emitted)
        /\ n % OutputWindow \in 0 .. OutputWindow - 1
    <2>1. n \in Int /\ n \in Nat
      BY DEF GzipTypes
    <2> QED
      BY <2>1, EmittedIsSeq, Division
  <1>2. ASSUME NEW k \in 1 .. OutputWindow, k <= n + 1
        PROVE  window'[(n + 1 - k) % OutputWindow] = Emitted'[n + 1 - k + 1]
    <2>1. CASE k = 1
      <3>1. window'[n % OutputWindow] = v
        BY <1>1 DEF GzipTypes
      <3>2. Emitted'[n + 1] = v
        BY <1>1
      <3>3. n + 1 - k = n
        BY <1>1, <2>1
      <3> QED
        BY <3>1, <3>2, <3>3
    <2>2. CASE k # 1
      <3> DEFINE j == k - 1
      <3>1. /\ j \in 1 .. OutputWindow - 1 /\ j \in 1 .. OutputWindow /\ j <= n
            /\ n + 1 - k = n - j
        <4>1. k \in Nat /\ k >= 1 /\ n \in Nat
          BY <1>1, DeflateAssumption
        <4>2. k # 1
          BY <2>2
        <4> HIDE DEF n
        <4> QED
          BY <1>2, <4>1, <4>2
      <3>2. (n - j) % OutputWindow # n % OutputWindow
            /\ (n - j) % OutputWindow \in 0 .. OutputWindow - 1
        <4>1. n \in Int /\ n - j \in Int
          BY <1>1, <3>1
        <4> HIDE DEF n, j
        <4> QED
          BY <3>1, <4>1, ModApart, Division
      <3>3. window'[(n - j) % OutputWindow] = window[(n - j) % OutputWindow]
        BY <3>2 DEF GzipTypes
      <3>4. window[(n - j) % OutputWindow] = Emitted[n - j + 1]
        BY <3>1 DEF RingHoldsTheEnd
      <3>5. Emitted'[n - j + 1] = Emitted[n - j + 1]
        <4>1. n - j + 1 \in 1 .. Len(Emitted)
          BY <1>1, <3>1
        <4> HIDE DEF j
        <4> QED
          BY <1>1, <4>1, AppendProperties
      <3> HIDE DEF j
      <3> QED
        BY <3>1, <3>3, <3>4, <3>5
    <2> QED
      BY <2>1, <2>2
  <1>3. \A k \in 1 .. OutputWindow : k <= output_size' =>
           window'[(output_size' - k) % OutputWindow] =
             Emitted'[output_size' - k + 1]
    <2>1. output_size' = n + 1
      OBVIOUS
    <2> HIDE DEF n
    <2> SUFFICES ASSUME NEW k \in 1 .. OutputWindow, k <= output_size'
                 PROVE  window'[(output_size' - k) % OutputWindow] =
                          Emitted'[output_size' - k + 1]
      OBVIOUS
    <2>2. window'[(n + 1 - k) % OutputWindow] = Emitted'[n + 1 - k + 1]
      BY <1>2, <2>1
    <2> QED
      BY <1>1, <2>1, <2>2
  <1> QED
    BY <1>3 DEF RingHoldsTheEnd

\* What was emitted stays the beginning of what the stream says when the byte
\* that it says next is emitted.
LEMMA PrefixStep ==
  ASSUME GzipTypes, SinkHoldsPrefix, Decoding,
         NEW v \in Nat, NEW next, output_emit(v, next),
         plain' \in Seq(Nat), output_size + 1 <= Len(plain'),
         plain'[output_size + 1] = v,
         \A i \in 1 .. output_size : plain'[i] = plain[i]
  PROVE  /\ disk' \in [there : BOOLEAN, items : Seq(Nat)] /\ disk'.there
         /\ crc' = disk'.items /\ buffer' \in Seq(Nat)
         /\ output_size' \in Nat /\ output_size' = output_size + 1
         /\ output_size' = Len(Emitted') /\ output_size' <= Len(plain')
         /\ \A i \in 1 .. output_size' : Emitted'[i] = plain'[i]
         /\ window' \in [0 .. OutputWindow - 1 -> Nat]
  <1>1. /\ disk.there /\ crc = disk.items /\ output_size = Len(Emitted)
        /\ \A i \in 1 .. output_size : Emitted[i] = plain[i]
    BY DEF SinkHoldsPrefix
  <1>2. Emitted \in Seq(Nat) /\ output_size \in Nat
    BY EmittedIsSeq DEF GzipTypes
  <1>3. /\ disk' \in [there : BOOLEAN, items : Seq(Nat)] /\ disk'.there
        /\ crc' = disk'.items /\ buffer' \in Seq(Nat)
        /\ window' \in [0 .. OutputWindow - 1 -> Nat]
        /\ Emitted' = Append(Emitted, v) /\ output_size' = output_size + 1
    BY <1>1, EmitAppends
  <1>4. Len(Emitted') = output_size + 1
    BY <1>1, <1>2, <1>3
  <1>5. ASSUME NEW i \in 1 .. output_size + 1 PROVE Emitted'[i] = plain'[i]
    BY <1>1, <1>2, <1>3
  <1> QED
    BY <1>2, <1>3, <1>4, <1>5

\* What a copy stands for repeats itself with the distance as its period, also
\* when it is longer than the distance.
LEMMA RepeatedStands ==
  ASSUME plain \in Seq(Nat), NEW d \in Nat \ {0}, d <= Len(plain), NEW n \in Nat
  PROVE  LET said == plain \o Repeated(d, n) IN
         /\ said \in Seq(Nat) /\ Len(said) = Len(plain) + n
         /\ \A i \in 1 .. Len(plain) : said[i] = plain[i]
         /\ \A k \in Len(plain) + 1 .. Len(said) : said[k] = said[k - d]
  <1> DEFINE L == Len(plain)
             r == Repeated(d, n)
             said == plain \o r
  <1>1. L \in Nat /\ d <= L
    OBVIOUS
  <1>2. ASSUME NEW i \in 1 .. n PROVE (i - 1) % d \in 0 .. d - 1
    <2>1. i - 1 \in Int
      OBVIOUS
    <2> QED
      BY <2>1, Division
  <1>3. r \in Seq(Nat) /\ Len(r) = n
        /\ \A i \in 1 .. n : r[i] = plain[L - d + 1 + ((i - 1) % d)]
    <2>1. r = [i \in 1 .. n |-> plain[L - d + 1 + ((i - 1) % d)]]
      BY DEF Repeated
    <2>2. ASSUME NEW i \in 1 .. n
          PROVE  plain[L - d + 1 + ((i - 1) % d)] \in Nat
      <3>1. L - d + 1 + ((i - 1) % d) \in 1 .. L
        BY <1>1, <1>2
      <3> HIDE DEF L
      <3>2. \A j \in 1 .. L : plain[j] \in Nat
        BY ElementOfSeq DEF L
      <3> QED
        BY <3>1, <3>2
    <2> HIDE DEF r, L
    <2>3. r \in [1 .. n -> Nat]
      BY <2>1, <2>2
    <2>4. r \in Seq(Nat) /\ Len(r) = n
      BY <2>3
    <2> QED
      BY <2>1, <2>4
  <1> HIDE DEF r
  <1>4. /\ said \in Seq(Nat) /\ Len(said) = L + n
        /\ \A i \in 1 .. L + n : said[i] = IF i <= L THEN plain[i] ELSE r[i - L]
    BY <1>3, ConcatProperties
  <1> HIDE DEF said
  <1>4a. ASSUME NEW j \in 1 .. L, NEW m, m = j PROVE said[m] = plain[m]
    BY <1>1, <1>4, <1>4a
  <1>4b. ASSUME NEW j \in 1 .. n, NEW m, m = L + j PROVE said[m] = r[j]
    <2>1. m \in 1 .. L + n /\ ~(m <= L) /\ m - L = j
      BY <1>1, <1>4b
    <2> QED
      BY <1>4, <2>1
  <1>5. ASSUME NEW i \in 1 .. n PROVE said[L + i] = said[L + i - d]
    <2> HIDE DEF L
    <2>1. said[L + i] = plain[L - d + 1 + ((i - 1) % d)]
      <3>2. said[L + i] = r[i]
        BY <1>4b
      <3> QED
        BY <1>3, <3>2
    <2>2. CASE i <= d
      <3>1. (i - 1) % d = i - 1
        <4>1. i - 1 \in 0 .. d - 1
          BY <2>2
        <4> QED
          BY <4>1, ModSmall
      <3>2. L - d + 1 + (i - 1) = L + i - d /\ L + i - d \in 1 .. L
        BY <1>1, <2>2
      <3>3. said[L + i - d] = plain[L + i - d]
        BY <1>4a, <3>2
      <3> QED
        BY <2>1, <3>1, <3>2, <3>3
    <2>3. CASE i > d
      <3>1. i - d \in 1 .. n /\ L + i - d = L + (i - d)
        BY <1>1, <2>3
      <3>2. said[L + i - d] = r[i - d]
        BY <1>4b, <3>1
      <3>3. r[i - d] = plain[L - d + 1 + ((i - d - 1) % d)]
        BY <1>3, <3>1
      <3>4. (i - 1) % d = (i - d - 1) % d
        <4>1. (i - d - 1) + d = i - 1 /\ i - d - 1 \in Int
          OBVIOUS
        <4>2. ((i - d - 1) + d) % d = (i - d - 1) % d
          BY <4>1, ModShift
        <4> QED
          BY <4>1, <4>2
      <3> QED
        BY <2>1, <3>2, <3>3, <3>4
    <2> QED
      BY <2>2, <2>3
  <1>6. ASSUME NEW k \in L + 1 .. L + n PROVE said[k] = said[k - d]
    <2>1. k - L \in 1 .. n /\ L + (k - L) = k
      BY <1>1
    <2>2. said[L + (k - L)] = said[L + (k - L) - d]
      BY <1>5, <2>1
    <2> QED
      BY <2>1, <2>2
  <1>7. \A i \in 1 .. L : said[i] = plain[i]
    BY <1>1, <1>4
  <1> QED
    BY <1>4, <1>6, <1>7 DEF said, r

\* A step of the decoder keeps the output a beginning of what the stream says,
\* the ring its end, and a copy at its place.
LEMMA SinkStep ==
  ASSUME GzipInv, Inflate
  PROVE  /\ plain' \in Seq(Nat) /\ buffer' \in Seq(Nat) /\ output_size' \in Nat
         /\ window' \in [0 .. OutputWindow - 1 -> Nat]
         /\ disk' \in [there : BOOLEAN, items : Seq(Nat)]
         /\ CopyStands' /\ SinkHoldsPrefix' /\ RingHoldsTheEnd'
  <1>1. /\ GzipTypes /\ SymbolIndexes /\ CopyStands /\ SinkHoldsPrefix
        /\ RingHoldsTheEnd
    BY DEF GzipInv
  <1>2. pc \in Inside /\ pc' \in Inside \cup {"flush", "close"}
    BY <1>1, InflatePlaces
  <1>3. Decoding /\ pc # "close"
    BY <1>2 DEF Inside, Decoding, Running
  <1>4. /\ disk.there /\ crc = disk.items
        /\ output_size = Len(Emitted) /\ output_size <= Len(plain)
        /\ \A i \in 1 .. output_size : Emitted[i] = plain[i]
        /\ pc # "copy" => output_size = Len(plain)
    BY <1>1, <1>3 DEF SinkHoldsPrefix
  <1>5. plain \in Seq(Nat) /\ output_size \in Nat /\ Len(plain) \in Nat
    BY <1>1 DEF GzipTypes
  <1>6. CASE UNCHANGED <<sinkVars, plain>> /\ pc # "copy" /\ pc' # "copy"
    <2>1. Emitted' = Emitted
      BY <1>6 DEF Emitted, sinkVars
    <2>2. CopyStands'
      BY <1>6 DEF CopyStands
    <2>3. SinkHoldsPrefix'
      BY <1>4, <1>6, <2>1 DEF SinkHoldsPrefix, sinkVars
    <2>4. RingHoldsTheEnd'
      BY <1>1, <1>3, <1>6, <2>1 DEF RingHoldsTheEnd, sinkVars
    <2> QED
      BY <1>1, <1>6, <2>2, <2>3, <2>4 DEF GzipTypes, sinkVars
  <1>7. ASSUME NEW v \in Nat, NEW next \in Inside \ {"copy"},
               plain' = Append(plain, v), output_emit(v, next), pc # "copy"
        PROVE  /\ plain' \in Seq(Nat) /\ buffer' \in Seq(Nat) /\ output_size' \in Nat
               /\ window' \in [0 .. OutputWindow - 1 -> Nat]
               /\ disk' \in [there : BOOLEAN, items : Seq(Nat)]
               /\ CopyStands' /\ SinkHoldsPrefix' /\ RingHoldsTheEnd'
    <2>1. /\ plain' \in Seq(Nat) /\ Len(plain') = output_size + 1
          /\ plain'[output_size + 1] = v
          /\ \A i \in 1 .. output_size : plain'[i] = plain[i]
      BY <1>4, <1>5, <1>7, AppendProperties
    <2>2. /\ disk' \in [there : BOOLEAN, items : Seq(Nat)] /\ disk'.there
          /\ crc' = disk'.items /\ buffer' \in Seq(Nat)
          /\ output_size' \in Nat /\ output_size' = output_size + 1
          /\ output_size' = Len(Emitted') /\ output_size' <= Len(plain')
          /\ \A i \in 1 .. output_size' : Emitted'[i] = plain'[i]
          /\ window' \in [0 .. OutputWindow - 1 -> Nat]
      <3>1. output_size + 1 <= Len(plain')
        BY <1>5, <2>1
      <3> QED
        BY <1>1, <1>3, <1>7, <2>1, <3>1, PrefixStep
    <2>3. pc' # "copy"
      BY <1>7, EmitShape
    <2>4. RingHoldsTheEnd'
      <3>1. /\ Emitted' = Append(Emitted, v)
            /\ window' = [window EXCEPT ![output_size % OutputWindow] = v]
            /\ output_size' = output_size + 1
        BY <1>1, <1>4, <1>7, EmitAppends
      <3> QED
        BY <1>1, <1>3, <1>4, <3>1, RingStep
    <2>5. SinkHoldsPrefix'
      BY <2>1, <2>2 DEF SinkHoldsPrefix
    <2>6. CopyStands'
      BY <2>3 DEF CopyStands
    <2> QED
      BY <2>1, <2>2, <2>4, <2>5, <2>6
  <1>8. CASE ReadDistanceExtra /\ pc' = "copy"
    <2> DEFINE d == distance_bases[symbol + 1] + Value
    <2>1. /\ pc = "distanceExtra" /\ UNCHANGED <<sinkVars, left>>
          /\ ~(d = 0 \/ d > OutputWindow \/ d > output_size)
          /\ distance' = d /\ plain' = plain \o Repeated(d, left)
      BY <1>8 DEF ReadDistanceExtra, At, Fail
    <2>2. d \in Nat
      <3>1. distance_bases[symbol + 1] \in Nat
        BY <1>1, <2>1, TableAssumption DEF SymbolIndexes
      <3>2. Value \in Nat
        BY <1>1, ValueNat, WidthNat, Pow2Positive
      <3>3. \A a \in Nat, b \in Nat : a + b \in Nat
        OBVIOUS
      <3> QED
        BY <3>1, <3>2, <3>3
    <2>3. left \in Nat \ {0}
      BY <1>1, <2>1 DEF SymbolIndexes
    <2> HIDE DEF d
    <2>4. d \in Nat \ {0} /\ d <= OutputWindow /\ d <= output_size
          /\ d <= Len(plain) /\ output_size = Len(plain)
      BY <1>4, <1>5, <2>1, <2>2, DeflateAssumption
    <2>5. /\ plain' \in Seq(Nat) /\ Len(plain') = Len(plain) + left
          /\ \A i \in 1 .. Len(plain) : plain'[i] = plain[i]
          /\ \A k \in Len(plain) + 1 .. Len(plain') : plain'[k] = plain'[k - d]
      BY <1>5, <2>1, <2>3, <2>4, RepeatedStands
    <2>6. CopyStands'
      <3>1. left' = left /\ output_size' = output_size
        BY <2>1 DEF sinkVars
      <3>2. d \in 1 .. OutputWindow
        BY <2>4, DeflateAssumption
      <3> QED
        BY <2>1, <2>3, <2>4, <2>5, <3>1, <3>2 DEF CopyStands
    <2>7. Emitted' = Emitted
      BY <2>1 DEF Emitted, sinkVars
    <2>8. SinkHoldsPrefix'
      <3>1. /\ disk'.there /\ crc' = disk'.items
            /\ output_size' = Len(Emitted')
        BY <1>4, <2>1, <2>7 DEF sinkVars
      <3>2. output_size' <= Len(plain')
        BY <1>5, <2>1, <2>3, <2>4, <2>5 DEF sinkVars
      <3>3. \A i \in 1 .. output_size' : Emitted'[i] = plain'[i]
        BY <1>4, <2>1, <2>4, <2>5, <2>7 DEF sinkVars
      <3> QED
        BY <1>8, <3>1, <3>2, <3>3 DEF SinkHoldsPrefix
    <2>9. RingHoldsTheEnd'
      BY <1>1, <1>3, <2>1, <2>7 DEF RingHoldsTheEnd, sinkVars
    <2> QED
      BY <1>1, <2>1, <2>5, <2>6, <2>8, <2>9 DEF GzipTypes, sinkVars
  <1>9. CASE CopyByte
    <2> DEFINE v == window[(output_size - distance) % OutputWindow]
               next == IF left = 1 THEN "symbol" ELSE "copy"
    <2>1. /\ pc = "copy" /\ left' = left - 1 /\ output_emit(v, next)
          /\ distance' = distance /\ plain' = plain
      BY <1>9 DEF CopyByte
    <2>2. /\ left \in Nat \ {0} /\ output_size + left = Len(plain)
          /\ distance \in 1 .. OutputWindow /\ distance <= output_size
          /\ \A k \in output_size + 1 .. Len(plain) :
                plain[k] = plain[k - distance]
      BY <1>1, <2>1 DEF CopyStands
    <2>3. v = plain[output_size + 1] /\ v \in Nat
      <3>1. v = Emitted[output_size - distance + 1]
        BY <1>1, <1>3, <2>2 DEF RingHoldsTheEnd
      <3>2. output_size - distance + 1 \in 1 .. output_size
        BY <1>5, <2>2
      <3>3. v = plain[output_size - distance + 1]
        BY <1>4, <3>1, <3>2
      <3>4. plain[output_size + 1] = plain[output_size + 1 - distance]
        BY <1>5, <2>2
      <3>5. output_size + 1 - distance = output_size - distance + 1
        BY <1>5, <2>2
      <3>6. output_size + 1 \in 1 .. Len(plain)
        BY <1>5, <2>2
      <3>7. plain[output_size + 1] \in Nat
        BY <1>5, <3>6, ElementOfSeq
      <3> HIDE DEF v
      <3> QED
        BY <3>3, <3>4, <3>5, <3>7
    <2> HIDE DEF v
    <2>4. /\ disk' \in [there : BOOLEAN, items : Seq(Nat)] /\ disk'.there
          /\ crc' = disk'.items /\ buffer' \in Seq(Nat)
          /\ output_size' \in Nat /\ output_size' = output_size + 1
          /\ output_size' = Len(Emitted') /\ output_size' <= Len(plain')
          /\ \A i \in 1 .. output_size' : Emitted'[i] = plain'[i]
          /\ window' \in [0 .. OutputWindow - 1 -> Nat]
      <3>1. /\ plain' \in Seq(Nat) /\ output_size + 1 <= Len(plain')
            /\ plain'[output_size + 1] = v
            /\ \A i \in 1 .. output_size : plain'[i] = plain[i]
        BY <1>5, <2>1, <2>2, <2>3
      <3> QED
        BY <1>1, <1>3, <2>1, <2>3, <3>1, PrefixStep
    <2>5. RingHoldsTheEnd'
      <3>1. /\ Emitted' = Append(Emitted, v)
            /\ window' = [window EXCEPT ![output_size % OutputWindow] = v]
            /\ output_size' = output_size + 1
        BY <1>1, <1>4, <2>1, <2>3, EmitAppends
      <3> QED
        BY <1>1, <1>3, <1>4, <2>3, <3>1, RingStep
    <2>6. pc' \in {next, "close"}
      BY <2>1, EmitShape
    <2>7. pc' = "copy" => left # 1
      BY <2>6
    <2>8. pc' \notin {"copy", "close"} => left = 1
      BY <2>6
    <2>9. CopyStands'
      <3> SUFFICES ASSUME pc' = "copy"
                   PROVE  /\ left' \in Nat \ {0} /\ output_size' + left' = Len(plain')
                          /\ distance' \in 1 .. OutputWindow
                          /\ distance' <= output_size'
                          /\ \A k \in output_size' + 1 .. Len(plain') :
                                plain'[k] = plain'[k - distance']
        BY DEF CopyStands
      <3>1. left' \in Nat \ {0} /\ output_size' + left' = Len(plain')
        <4>1. left # 1 /\ left' = left - 1
          BY <2>1, <2>7
        <4>2. left \in Nat \ {0} /\ output_size + left = Len(plain)
          BY <2>2
        <4>3. output_size' = output_size + 1 /\ Len(plain') = Len(plain)
          BY <2>1, <2>4
        <4> HIDE DEF next
        <4> QED
          BY <1>5, <4>1, <4>2, <4>3
      <3>2. distance' \in 1 .. OutputWindow /\ distance' <= output_size'
        BY <1>5, <2>1, <2>2, <2>4, DeflateAssumption
      <3>3. \A k \in output_size' + 1 .. Len(plain') :
               plain'[k] = plain'[k - distance']
        BY <1>5, <2>1, <2>2, <2>4
      <3> QED
        BY <3>1, <3>2, <3>3
    <2>10. SinkHoldsPrefix'
      <3>1. pc' \notin {"copy", "close"} => output_size' = Len(plain')
        BY <1>5, <2>1, <2>2, <2>4, <2>8
      <3> QED
        BY <2>4, <3>1 DEF SinkHoldsPrefix
    <2> QED
      BY <1>5, <2>1, <2>4, <2>5, <2>9, <2>10
  <1> QED
    BY <1>1, <1>6, <1>7, <1>8, <1>9, InflateEmits

----------------------------------------------------------------------------
\* The invariant.

LEMMA NextWidthNat ==
  ASSUME GzipTypes', SymbolIndexes'
  PROVE  Width' \in Nat
  <1> USE DeflateAssumption, TableAssumption
  <1>1. CASE pc' = "repeat"
    BY <1>1 DEF Width, Decodes, SymbolIndexes
  <1>2. CASE pc' = "lengthExtra"
    BY <1>2 DEF Width, Decodes, SymbolIndexes
  <1>3. CASE pc' = "distanceExtra"
    BY <1>3 DEF Width, Decodes, SymbolIndexes
  <1>4. CASE pc' \notin {"repeat", "lengthExtra", "distanceExtra"}
    BY <1>4 DEF Width, Decodes, GzipTypes, Places
  <1> QED
    BY <1>1, <1>2, <1>3, <1>4

LEMMA InflateKeeps ==
  ASSUME GzipInv, Inflate, UNCHANGED <<success, result>>
  PROVE  GzipInv'
  <1>1. GzipTypes /\ SymbolIndexes /\ Ending
    BY DEF GzipInv
  <1>2. pc \in Inside /\ pc' \in Inside \cup {"flush", "close"}
    BY <1>1, InflatePlaces
  <1>3. pc' \in Places /\ pc' \notin {"header", "open", "noMemory", "done",
                                      "trailer", "trailing"}
    BY <1>2 DEF Inside, Places
  <1>4. /\ bits' \in Nat /\ bit_count' \in Nat /\ bytes_read' \in Nat
        /\ used' \in Nat
        /\ used' + bit_count' = ByteBits * bytes_read'
        /\ bits' < pow2[bit_count']
        /\ pc' # "close" =>
              \/ bit_count' < ByteBits
              \/ /\ bit_count' < Width + ByteBits
                 /\ pc' = pc /\ symbol' = symbol
        /\ pc' = "flush" => bits' = 0 /\ bit_count' = 0
    BY ReaderStep
  <1>5. /\ plain' \in Seq(Nat) /\ buffer' \in Seq(Nat) /\ output_size' \in Nat
        /\ window' \in [0 .. OutputWindow - 1 -> Nat]
        /\ disk' \in [there : BOOLEAN, items : Seq(Nat)]
        /\ CopyStands' /\ SinkHoldsPrefix' /\ RingHoldsTheEnd'
    BY SinkStep
  <1>6. GzipTypes'
    BY <1>1, <1>3, <1>4, <1>5 DEF GzipTypes
  <1>7. SymbolIndexes'
    BY SymbolStep
  <1>8. ReaderStaysBehind'
    <2>1. Width' \in Nat
      BY <1>6, <1>7, NextWidthNat
    <2>2. pc' = pc /\ symbol' = symbol => Width' = Width
      BY DEF Width, Decodes
    <2>3. pc' # "close" => bit_count' < Width' + ByteBits
      <3>1. CASE bit_count' < ByteBits
        BY <1>4, <2>1, <3>1, DeflateAssumption
      <3>2. CASE pc' # "close" /\ ~(bit_count' < ByteBits)
        <4>1. Width' = Width /\ bit_count' < Width + ByteBits
          BY <1>4, <2>2, <3>2
        <4> QED
          BY <4>1
      <3> QED
        BY <3>1, <3>2
    <2> QED
      BY <1>3, <1>4, <2>3 DEF ReaderStaysBehind
  <1>9. Pristine'
    BY <1>3 DEF Pristine
  <1>10. Ending'
    <2>1. ~success /\ result = "none"
      BY <1>1, <1>2 DEF Ending, Inside
    <2> QED
      BY <1>3, <2>1 DEF Ending
  <1> QED
    BY <1>5, <1>6, <1>7, <1>8, <1>9, <1>10 DEF GzipInv

\* When all that the stream says is in the file, the file is what it says.
LEMMA FileIsPlain ==
  ASSUME GzipTypes, SinkHoldsPrefix, Decoding, buffer = <<>>,
         pc \notin {"copy", "close"}
  PROVE  disk.items = plain
  <1>1. disk.items \in Seq(Nat) /\ plain \in Seq(Nat)
    BY DEF GzipTypes
  <1>2. Emitted = disk.items
    BY <1>1, ConcatEmptySeq DEF Emitted
  <1>3. /\ Len(disk.items) = Len(plain)
        /\ \A i \in 1 .. Len(disk.items) : disk.items[i] = plain[i]
    BY <1>2 DEF SinkHoldsPrefix
  <1> QED
    BY <1>1, <1>3, SeqEqual

\* The steps of the file function.
LEMMA CallKeeps ==
  ASSUME GzipInv, Step, ~Inflate
  PROVE  GzipInv'
  <1>1. /\ GzipTypes /\ SymbolIndexes /\ ReaderStaysBehind /\ CopyStands
        /\ SinkHoldsPrefix /\ RingHoldsTheEnd /\ Pristine /\ Ending
    BY DEF GzipInv
  <1>2. /\ UNCHANGED <<readVars, window, output_size, plain>>
        /\ pc' \in {"open", "final", "noMemory", "trailer", "trailing", "close",
                    "done"}
    BY DEF Step, HeaderRejected, HeaderAccepted, OpenFails, OpenOutput, OutOfMemory,
           LastFlush, ReadTrailer, Finish, CloseFiles, Return, Fail, sinkVars,
           output_flush
  <1>3. SymbolIndexes' /\ CopyStands'
    BY <1>2 DEF SymbolIndexes, CopyStands
  <1>4. HeaderRejected \/ HeaderAccepted \/ OpenFails \/ OpenOutput \/ OutOfMemory
        \/ LastFlush \/ ReadTrailer \/ Finish \/ CloseFiles
    BY DEF Step
  <1>5. ReaderStaysBehind'
    <2>1. CASE pc' \in {"close", "done"}
      BY <1>1, <1>2, <2>1 DEF ReaderStaysBehind, readVars
    <2>2. CASE pc' \in {"open", "noMemory"}
      <3>1. pc \in {"header", "open"} /\ Width' = 0
        BY <1>4, <2>2 DEF HeaderRejected, HeaderAccepted, OpenFails, OpenOutput,
             OutOfMemory, LastFlush, ReadTrailer, Finish, CloseFiles, Return, Fail,
             output_flush, Width, Decodes
      <3> QED
        BY <1>1, <1>2, <2>2, <3>1, DeflateAssumption
           DEF ReaderStaysBehind, readVars, Pristine
    <2>3. CASE pc' = "final"
      <3>1. pc = "open" /\ Width' = 1
        BY <1>4, <2>3 DEF HeaderRejected, HeaderAccepted, OpenFails, OpenOutput,
             OutOfMemory, LastFlush, ReadTrailer, Finish, CloseFiles, Return, Fail,
             output_flush, Width, Decodes
      <3> QED
        BY <1>1, <1>2, <2>3, <3>1, DeflateAssumption
           DEF ReaderStaysBehind, readVars, Pristine
    <2>4. CASE pc' \in {"trailer", "trailing"}
      <3>1. pc \in {"flush", "trailer"} /\ Width' = 0
        BY <1>4, <2>4 DEF HeaderRejected, HeaderAccepted, OpenFails, OpenOutput,
             OutOfMemory, LastFlush, ReadTrailer, Finish, CloseFiles, Return, Fail,
             output_flush, Width, Decodes
      <3> QED
        BY <1>1, <1>2, <2>4, <3>1, DeflateAssumption
           DEF ReaderStaysBehind, readVars
    <2> QED
      BY <1>2, <2>1, <2>2, <2>3, <2>4
  <1>6. CASE HeaderRejected \/ OpenFails
    <2>1. UNCHANGED <<bits, bit_count, bytes_read, used, sinkVars, plain, success>>
          /\ pc' = "done" /\ pc \in {"header", "open"}
      BY <1>6 DEF HeaderRejected, OpenFails, Return, readVars
    <2>2. GzipTypes'
      BY <1>1, <2>1 DEF GzipTypes, sinkVars, Places
    <2>3. SinkHoldsPrefix' /\ RingHoldsTheEnd' /\ Pristine' /\ Ending'
      BY <1>1, <2>1 DEF SinkHoldsPrefix, RingHoldsTheEnd, Pristine, Ending,
                        Decoding, Running
    <2> QED
      BY <1>3, <1>5, <2>2, <2>3 DEF GzipInv
  <1>7. CASE HeaderAccepted
    <2>1. /\ UNCHANGED <<bits, bit_count, bytes_read, used, sinkVars, plain,
                         success, result>>
          /\ pc' = "open" /\ pc = "header"
      BY <1>7 DEF HeaderAccepted, readVars
    <2>2. GzipTypes'
      BY <1>1, <2>1 DEF GzipTypes, sinkVars, Places
    <2>3. SinkHoldsPrefix' /\ RingHoldsTheEnd' /\ Pristine' /\ Ending'
      BY <1>1, <2>1 DEF SinkHoldsPrefix, RingHoldsTheEnd, Pristine, Ending,
                        Decoding, Running, sinkVars
    <2> QED
      BY <1>3, <1>5, <2>2, <2>3 DEF GzipInv
  <1>8. CASE OpenOutput
    <2>1. /\ UNCHANGED <<bits, bit_count, bytes_read, used, window, output_size,
                         buffer, crc, plain, success, result>>
          /\ pc' \in {"final", "noMemory"} /\ pc = "open"
          /\ disk' = [there |-> TRUE, items |-> <<>>]
      BY <1>8 DEF OpenOutput, readVars, Full
    <2>2. /\ output_size = 0 /\ buffer = <<>> /\ crc = <<>> /\ plain = <<>>
          /\ bits = 0 /\ bit_count = 0
      BY <1>1, <2>1 DEF Pristine
    <2>3. disk' \in [there : BOOLEAN, items : Seq(Nat)] /\ disk'.there
          /\ disk'.items = <<>>
      BY <2>1, EmptySeq
    <2>4. GzipTypes'
      BY <1>1, <2>1, <2>3 DEF GzipTypes, Places
    <2>5. Emitted' = <<>>
      BY <2>1, <2>2, <2>3, EmptySeq, ConcatEmptySeq DEF Emitted
    <2>6. SinkHoldsPrefix' /\ RingHoldsTheEnd'
      BY <2>1, <2>2, <2>3, <2>5, EmptySeq, DeflateAssumption
         DEF SinkHoldsPrefix, RingHoldsTheEnd
    <2>7. Pristine' /\ Ending'
      BY <1>1, <2>1, <2>2 DEF Pristine, Ending
    <2> QED
      BY <1>3, <1>5, <2>4, <2>6, <2>7 DEF GzipInv
  <1>9. CASE OutOfMemory \/ CloseFiles
    <2>1. /\ UNCHANGED <<bits, bit_count, bytes_read, used, window, output_size,
                         buffer, crc, plain>>
          /\ pc' = "done" /\ success' \in BOOLEAN
          /\ disk' = Absent \/ disk' = disk
      BY <1>1, <1>9 DEF OutOfMemory, CloseFiles, Return, readVars, GzipTypes
    <2>2. Absent \in [there : BOOLEAN, items : Seq(Nat)]
      BY EmptySeq DEF Absent
    <2>3. GzipTypes'
      BY <1>1, <2>1, <2>2 DEF GzipTypes, Places
    <2>4. SinkHoldsPrefix' /\ RingHoldsTheEnd' /\ Pristine' /\ Ending'
      BY <2>1 DEF SinkHoldsPrefix, RingHoldsTheEnd, Pristine, Ending,
                  Decoding, Running
    <2> QED
      BY <1>3, <1>5, <2>3, <2>4 DEF GzipInv
  <1>10. CASE LastFlush
    <2>1. /\ pc = "flush" /\ pc' \in {"trailer", "close"}
          /\ UNCHANGED <<bits, bit_count, bytes_read, used, window, output_size,
                         plain, success, result>>
          /\ \/ /\ disk' = [disk EXCEPT !.items = @ \o buffer]
                /\ crc' = crc \o buffer /\ buffer' = <<>>
             \/ UNCHANGED <<disk, crc, buffer>> /\ pc' = "close"
      BY <1>10 DEF LastFlush, output_flush, Fail, readVars
    <2>2. /\ disk.there /\ crc = disk.items
          /\ output_size = Len(Emitted) /\ output_size = Len(plain)
          /\ \A i \in 1 .. output_size : Emitted[i] = plain[i]
      BY <1>1, <2>1 DEF SinkHoldsPrefix, Decoding, Running
    <2>3. disk.items \in Seq(Nat) /\ buffer \in Seq(Nat)
          /\ disk.items \o buffer \in Seq(Nat)
      BY <1>1 DEF GzipTypes
    <2>4. /\ disk' \in [there : BOOLEAN, items : Seq(Nat)] /\ disk'.there
          /\ crc' = disk'.items /\ buffer' \in Seq(Nat) /\ Emitted' = Emitted
      <3>1. CASE /\ disk' = [disk EXCEPT !.items = @ \o buffer]
                 /\ crc' = crc \o buffer /\ buffer' = <<>>
        <4>1. /\ disk' \in [there : BOOLEAN, items : Seq(Nat)] /\ disk'.there
              /\ disk'.items = disk.items \o buffer
          BY <1>1, <2>2, <2>3, <3>1 DEF GzipTypes
        <4>2. Emitted' = disk.items \o buffer
          BY <2>3, <3>1, <4>1, ConcatEmptySeq DEF Emitted
        <4> QED
          BY <2>2, <3>1, <4>1, <4>2, EmptySeq DEF Emitted
      <3>2. CASE UNCHANGED <<disk, crc, buffer>>
        BY <1>1, <2>2, <3>2 DEF GzipTypes, Emitted
      <3> QED
        BY <2>1, <3>1, <3>2
    <2>5. GzipTypes'
      BY <1>1, <2>1, <2>4 DEF GzipTypes, Places
    <2>6. SinkHoldsPrefix'
      <3>1. /\ output_size' = Len(Emitted') /\ output_size' = Len(plain')
            /\ \A i \in 1 .. output_size' : Emitted'[i] = plain'[i]
        BY <2>1, <2>2, <2>4
      <3>2. output_size' <= Len(plain')
        BY <1>1, <2>1, <3>1 DEF GzipTypes
      <3> QED
        BY <2>4, <3>1, <3>2 DEF SinkHoldsPrefix
    <2>7. RingHoldsTheEnd'
      BY <1>1, <2>1, <2>4 DEF RingHoldsTheEnd, Decoding, Running
    <2>8. Pristine' /\ Ending'
      BY <1>1, <2>1 DEF Pristine, Ending
    <2> QED
      BY <1>3, <1>5, <2>5, <2>6, <2>7, <2>8 DEF GzipInv
  <1>11. CASE ReadTrailer \/ Finish
    <2>1. /\ pc \in {"trailer", "trailing"} /\ pc' \in {"trailing", "close"}
          /\ UNCHANGED <<bits, bit_count, bytes_read, used, window, output_size,
                         buffer, crc, disk, plain, result>>
          /\ success' \in BOOLEAN
          /\ success' => pc' = "close"
      BY <1>1, <1>11 DEF ReadTrailer, Finish, Fail, readVars, sinkVars, GzipTypes,
                         Ending
    <2>2. GzipTypes'
      BY <1>1, <2>1 DEF GzipTypes, Places
    <2>3. Emitted' = Emitted
      BY <2>1 DEF Emitted
    <2>4. SinkHoldsPrefix' /\ RingHoldsTheEnd'
      BY <1>1, <2>1, <2>3 DEF SinkHoldsPrefix, RingHoldsTheEnd, Decoding, Running
    <2>5. disk.items = plain
      BY <1>1, <2>1, FileIsPlain DEF Ending, Decoding, Running
    <2>6. Pristine' /\ Ending'
      BY <1>1, <2>1, <2>5 DEF Pristine, Ending
    <2> QED
      BY <1>3, <1>5, <2>2, <2>4, <2>6 DEF GzipInv
  <1> QED
    BY <1>4, <1>6, <1>7, <1>8, <1>9, <1>10, <1>11

LEMMA StutterKeeps ==
  ASSUME GzipInv, UNCHANGED vars
  PROVE  GzipInv'
  <1> USE DEF vars, readVars, blockVars, sinkVars
  <1>1. Width' = Width /\ Emitted' = Emitted
    BY DEF Width, Decodes, Emitted
  <1>2. GzipTypes' /\ SymbolIndexes' /\ CopyStands' /\ Pristine' /\ Ending'
    BY DEF GzipInv, GzipTypes, SymbolIndexes, CopyStands, Pristine, Ending
  <1>3. ReaderStaysBehind'
    BY <1>1 DEF GzipInv, ReaderStaysBehind
  <1>4. SinkHoldsPrefix' /\ RingHoldsTheEnd'
    BY <1>1 DEF GzipInv, SinkHoldsPrefix, RingHoldsTheEnd, Decoding, Running
  <1> QED
    BY <1>2, <1>3, <1>4 DEF GzipInv

LEMMA NextGzip == GzipInv /\ [Next]_vars => GzipInv'
  <1> SUFFICES ASSUME GzipInv, [Next]_vars PROVE GzipInv'
    OBVIOUS
  <1>1. CASE Step /\ Inflate
    <2>1. CASE UNCHANGED <<success, result>>
      BY <1>1, <2>1, InflateKeeps
    <2>2. CASE ~UNCHANGED <<success, result>>
      <3>1. pc \in Inside
        BY <1>1, InflatePlaces DEF GzipInv
      <3>2. pc \in {"header", "open", "noMemory", "flush", "trailer", "trailing",
                    "close"}
        BY <1>1, <2>2 DEF Step, HeaderRejected, HeaderAccepted, OpenFails,
             OpenOutput, OutOfMemory, LastFlush, ReadTrailer, Finish, CloseFiles
      <3> QED
        BY <3>1, <3>2 DEF Inside
    <2> QED
      BY <2>1, <2>2
  <1>2. CASE Step /\ ~Inflate
    BY <1>2, CallKeeps
  <1>3. CASE UNCHANGED vars
    BY <1>3, StutterKeeps
  <1> QED
    BY <1>1, <1>2, <1>3 DEF Next, Terminated

\* The invariant holds: the types, the symbols that index a table, the bit
\* reader, the copy, the output and its ring, and the way a call ends
\* (gzip_decode.c:323-559, 850-987).
THEOREM GzipInvariant == Spec => []GzipInv
  BY InitGzip, NextGzip, PTL DEF Spec

\* The ring holds the end of what was emitted, and that is the beginning of
\* what the stream says, for every size of the ring and of the buffer
\* (gzip_decode.c:503-559).
THEOREM RingServesCopies == Spec => []WindowHoldsTheEnd
  <1>1. GzipInv => WindowHoldsTheEnd
    <2> SUFFICES ASSUME GzipInv, Decoding PROVE
          /\ Len(Emitted) = output_size
          /\ Emitted = SubSeq(plain, 1, output_size)
          /\ pc \notin {"copy", "close"} => output_size = Len(plain)
          /\ \A k \in 1 .. OutputWindow : k <= output_size =>
               window[(output_size - k) % OutputWindow] =
                   Emitted[output_size - k + 1]
      BY DEF WindowHoldsTheEnd, Decoding
    <2>1. GzipTypes /\ SinkHoldsPrefix /\ RingHoldsTheEnd
      BY DEF GzipInv
    <2>2. /\ output_size = Len(Emitted) /\ output_size <= Len(plain)
          /\ \A i \in 1 .. output_size : Emitted[i] = plain[i]
      BY <2>1 DEF SinkHoldsPrefix
    <2>3. Emitted \in Seq(Nat) /\ plain \in Seq(Nat) /\ output_size \in Nat
      BY <2>1, EmittedIsSeq DEF GzipTypes
    <2>4. /\ SubSeq(plain, 1, output_size) \in Seq(Nat)
          /\ Len(SubSeq(plain, 1, output_size)) = output_size
          /\ \A i \in 1 .. output_size : SubSeq(plain, 1, output_size)[i] = plain[i]
      <3>1. \A i \in 1 .. output_size : plain[i] \in Nat
        BY <2>2, <2>3
      <3> QED
        BY <2>3, <3>1, SubSeqProperties
    <2>5. Emitted = SubSeq(plain, 1, output_size)
      BY <2>2, <2>3, <2>4, SeqEqual
    <2> QED
      BY <2>1, <2>2, <2>5 DEF SinkHoldsPrefix, RingHoldsTheEnd
  <1> QED
    BY <1>1, GzipInvariant, PTL

\* The bit reader never takes a byte before one of its bits is needed, and the
\* trailer starts at the next byte, whatever the widths of the fields and of
\* the extra bits (gzip_decode.c:323-355).
THEOREM ReaderNeverAhead == Spec => []ReaderStaysBehind
  <1>1. GzipInv => ReaderStaysBehind
    BY DEF GzipInv
  <1> QED
    BY <1>1, GzipInvariant, PTL

\* gzip_decompress_file does what FileCall promises: success leaves all that
\* the stream says, a failure no file, a refusal the file that was there
\* (gzip_decode.c:850-987).
THEOREM GzipImplementsFileCall == Spec => GzipAllOrNothing
  <1>1. Init => Caller!Init
    BY DEF Init, Caller!Init, Running
  <1>2. GzipInv /\ [Next]_vars => [Caller!Next]_(Caller!vars)
    <2> SUFFICES ASSUME GzipInv, [Next]_vars
                 PROVE  Caller!Next \/ UNCHANGED Caller!vars
      OBVIOUS
    <2> USE DEF Caller!Next, Caller!vars, Running
    <2>1. /\ GzipTypes /\ SymbolIndexes /\ SinkHoldsPrefix /\ Ending
          /\ pc' \in Places
      BY NextGzip DEF GzipInv, GzipTypes
    <2>2. CASE HeaderRejected \/ OpenFails
      <3>1. /\ pc \in {"header", "open"} /\ pc' = "done" /\ result' = "refused"
            /\ UNCHANGED disk
        BY <2>2 DEF HeaderRejected, OpenFails, Return, sinkVars
      <3> QED
        BY <3>1 DEF Caller!Refuse
    <2>3. CASE HeaderAccepted
      BY <2>3 DEF HeaderAccepted, Caller!Elsewhere
    <2>4. CASE OpenOutput
      <3>1. result' = "none"
        BY <2>1, <2>4 DEF OpenOutput, Ending
      <3> QED
        BY <2>4, <3>1 DEF OpenOutput, Full, Caller!Open, Caller!File
    <2>5. CASE OutOfMemory
      BY <2>5 DEF OutOfMemory, Return, Absent, Caller!Fail
    <2>6. CASE Step /\ Inflate
      <3>1. pc \in Inside /\ pc' \in Inside \cup {"flush", "close"}
        BY <2>1, <2>6, InflatePlaces
      <3>2. disk'.there
        <4>1. SinkHoldsPrefix'
          BY <2>6, SinkStep
        <4> QED
          BY <3>1, <4>1 DEF SinkHoldsPrefix, Decoding, Inside
      <3>3. result' = result
        BY <2>6, <3>1 DEF Step, Inside, HeaderRejected, HeaderAccepted, OpenFails,
             OpenOutput, OutOfMemory, LastFlush, ReadTrailer, Finish, CloseFiles
      <3> QED
        BY <3>1, <3>2, <3>3 DEF Inside, Caller!Work
    <2>7. CASE LastFlush \/ ReadTrailer \/ Finish
      <3>1. /\ pc \in {"flush", "trailer", "trailing"}
            /\ pc' \in {"trailer", "trailing", "close"}
            /\ result' = result
        BY <2>7 DEF LastFlush, output_flush, ReadTrailer, Finish, Fail
      <3>2. disk'.there
        <4>1. SinkHoldsPrefix'
          BY NextGzip DEF GzipInv
        <4> QED
          BY <3>1, <4>1 DEF SinkHoldsPrefix, Decoding
      <3> QED
        BY <3>1, <3>2 DEF Caller!Work
    <2>8. CASE CloseFiles
      <3>1. CASE success /\ result' = "ok"
        <4>1. disk.there /\ disk.items = plain
          BY <2>1, <2>8, <3>1 DEF CloseFiles, SinkHoldsPrefix, Decoding, Ending
        <4>2. disk = [there |-> TRUE, items |-> plain]
          BY <2>1, <4>1 DEF GzipTypes
        <4>3. disk' = disk /\ plain' = plain /\ pc = "close" /\ pc' = "done"
          BY <2>8, <3>1 DEF CloseFiles, Return
        <4> QED
          BY <3>1, <4>2, <4>3 DEF Caller!Succeed, Caller!File
      <3>2. CASE ~(success /\ result' = "ok")
        <4>1. disk' = Absent /\ result' = "failed" /\ pc = "close" /\ pc' = "done"
          BY <2>8, <3>2 DEF CloseFiles, Return
        <4> QED
          BY <4>1 DEF Absent, Caller!Fail
      <3> QED
        BY <3>1, <3>2
    <2>9. CASE UNCHANGED vars
      BY <2>9 DEF vars, sinkVars
    <2> QED
      BY <2>2, <2>3, <2>4, <2>5, <2>6, <2>7, <2>8, <2>9 DEF Next, Step, Terminated
  <1> QED
    BY <1>1, <1>2, GzipInvariant, PTL DEF Spec, GzipAllOrNothing, Caller!Spec

----------------------------------------------------------------------------
(* The tree of a table of lengths.                                         *)

\* lengths is a table of n symbols.
TableOf(lengths, n) == n \in Nat /\ lengths \in [0 .. n - 1 -> 0 .. MaxBits]

Unit(lengths, s) == pow2[MaxBits - lengths[s]]

Units(lengths, n) == [k \in 1 .. n |-> Unit(lengths, k - 1)]

\* Space as a sum over places.
Taken(lengths, n, S) == SumOf({k \in 1 .. n : k - 1 \in S}, Units(lengths, n), n)

Fold(lengths, S, w) ==
    [T \in SUBSET S |-> IF T = {} THEN 0
                        ELSE Unit(lengths, CHOOSE x \in T : TRUE)
                               + w[T \ {CHOOSE x \in T : TRUE}]]

LEMMA SpaceFolds ==
  ASSUME NEW lengths, NEW S
  PROVE  Space(lengths, S) = (CHOOSE w : w = Fold(lengths, S, w))[S]
  BY DEF Space, MapThenSumSet, MapThenFoldSet, Fold, Unit

LEMMA UnitsFacts ==
  ASSUME NEW lengths, NEW n, TableOf(lengths, n)
  PROVE  /\ \A s \in 0 .. n - 1 : Unit(lengths, s) \in Nat \ {0}
         /\ Units(lengths, n) \in [1 .. n -> Nat]
         /\ \A s \in 0 .. n - 1 : Units(lengths, n)[s + 1] = Unit(lengths, s)
         /\ n \in Nat
  <1> USE DEF TableOf
  <1>1. ASSUME NEW s \in 0 .. n - 1 PROVE Unit(lengths, s) \in Nat \ {0}
    <2>1. lengths[s] \in 0 .. MaxBits /\ MaxBits \in Nat
      BY TreeAssumption
    <2>2. MaxBits - lengths[s] \in Nat
      BY <2>1
    <2> QED
      BY <2>2, Pow2Positive DEF Unit
  <1>2. \A k \in 1 .. n : k - 1 \in 0 .. n - 1
    OBVIOUS
  <1>3. \A s \in 0 .. n - 1 : s + 1 \in 1 .. n /\ (s + 1) - 1 = s
    OBVIOUS
  <1> QED
    BY <1>1, <1>2, <1>3 DEF Units

LEMMA TakenNat ==
  ASSUME NEW lengths, NEW n, TableOf(lengths, n), NEW S
  PROVE  Taken(lengths, n, S) \in Nat
  <1>1. PICK v : v = Units(lengths, n)
    OBVIOUS
  <1>2. v \in [1 .. n -> Nat] /\ n \in Nat
    BY <1>1, UnitsFacts
  <1> QED
    BY <1>1, <1>2, SumOfNat DEF Taken

LEMMA TakenNone ==
  ASSUME NEW lengths, NEW n, TableOf(lengths, n)
  PROVE  Taken(lengths, n, {}) = 0
  <1>1. PICK v : v = Units(lengths, n)
    OBVIOUS
  <1>2. PICK U : U = {k \in 1 .. n : k - 1 \in {}}
    OBVIOUS
  <1>3. v \in [1 .. n -> Nat] /\ n \in Nat /\ \A k \in 1 .. n : k \notin U
    BY <1>1, <1>2, UnitsFacts
  <1>4. SumOf(U, v, n) = 0
    BY ONLY <1>3, SumOfEmpty
  <1> QED
    BY <1>1, <1>2, <1>4 DEF Taken

LEMMA TakenGrows ==
  ASSUME NEW lengths, NEW n, TableOf(lengths, n), NEW S, NEW x \in 0 .. n - 1, x \notin S,
         NEW T, T = S \cup {x}
  PROVE  /\ Taken(lengths, n, T) = Taken(lengths, n, S) + Unit(lengths, x)
         /\ Taken(lengths, n, S) \in Nat /\ Unit(lengths, x) \in Nat \ {0}
  <1>1. PICK v : v = Units(lengths, n)
    OBVIOUS
  <1>2. PICK R, V : R = {k \in 1 .. n : k - 1 \in S} /\ V = {k \in 1 .. n : k - 1 \in T}
    OBVIOUS
  <1>3. v \in [1 .. n -> Nat] /\ n \in Nat /\ v[x + 1] = Unit(lengths, x)
    BY <1>1, UnitsFacts
  <1>4. Unit(lengths, x) \in Nat \ {0}
    BY UnitsFacts
  <1>5. OneMore(n, R, v, x + 1, V)
    <2>1. x + 1 \in 1 .. n /\ (x + 1) - 1 = x
      BY <1>3
    <2>2. x + 1 \notin R
      BY <1>2, <2>1
    <2>3. V = R \cup {x + 1}
      <3>1. ASSUME NEW k \in 1 .. n PROVE k - 1 = x <=> k = x + 1
        BY <1>3
      <3> QED
        BY <1>2, <2>1, <3>1
    <2> QED
      BY <1>3, <2>1, <2>2, <2>3 DEF OneMore
  <1>6. SumOf(V, v, n) = SumOf(R, v, n) + v[x + 1] /\ SumOf(R, v, n) \in Nat
    BY ONLY <1>5, SumOfAdd
  <1> QED
    BY <1>1, <1>2, <1>3, <1>4, <1>6 DEF Taken

\* Every part of a table takes the space of one symbol and of the others.
LEMMA TakenWithout ==
  ASSUME NEW lengths, NEW n, TableOf(lengths, n), NEW T \in SUBSET (0 .. n - 1), NEW x \in T
  PROVE  Taken(lengths, n, T) = Unit(lengths, x) + Taken(lengths, n, T \ {x})
  <1>1. PICK S : S = T \ {x}
    OBVIOUS
  <1>2. x \in 0 .. n - 1 /\ x \notin S /\ T = S \cup {x}
    BY <1>1
  <1>3. /\ Taken(lengths, n, T) = Taken(lengths, n, S) + Unit(lengths, x)
        /\ Taken(lengths, n, S) \in Nat /\ Unit(lengths, x) \in Nat \ {0}
    BY ONLY <1>2, TableOf(lengths, n), TakenGrows
  <1> QED
    BY <1>1, <1>3

\* Folds over the parts of a set that satisfy the same equation agree.
LEMMA FoldsAgree ==
  ASSUME NEW lengths, NEW n, TableOf(lengths, n), NEW S \in SUBSET (0 .. n - 1),
         NEW w, w = Fold(lengths, S, w)
  PROVE  w[S] = Taken(lengths, n, S)
  <1>1. /\ n \in Nat /\ IsFiniteSet(S) /\ Cardinality(S) \in Nat
        /\ \A T \in SUBSET S : IsFiniteSet(T)
    <2>1. n \in Nat
      BY DEF TableOf
    <2>2. IsFiniteSet(0 .. n - 1)
      BY <2>1, FS_Interval
    <2>3. IsFiniteSet(S)
      BY <2>2, FS_Subset
    <2> QED
      BY <2>1, <2>3, FS_Subset, FS_CardinalityType
  <1> DEFINE A == {c \in Nat : \A T \in SUBSET S : Cardinality(T) = c => w[T] = Taken(lengths, n, T)}
  <1>2. 0 \in A
    <2> SUFFICES ASSUME NEW T \in SUBSET S, Cardinality(T) = 0
                 PROVE  w[T] = Taken(lengths, n, T)
      OBVIOUS
    <2>1. T = {}
      BY <1>1, FS_EmptySet
    <2>2. w[T] = 0
      BY <2>1 DEF Fold
    <2> QED
      BY <2>1, <2>2, TakenNone
  <1>3. ASSUME NEW c \in A PROVE c + 1 \in A
    <2> SUFFICES ASSUME NEW T \in SUBSET S, Cardinality(T) = c + 1
                 PROVE  w[T] = Taken(lengths, n, T)
      OBVIOUS
    <2>1. c \in Nat /\ \A R \in SUBSET S : Cardinality(R) = c => w[R] = Taken(lengths, n, R)
      OBVIOUS
    <2> HIDE DEF A
    <2>2. T # {}
      <3>1. PICK z : z = Cardinality(T)
        OBVIOUS
      <3>2. T = {} => z = 0
        BY <3>1, FS_EmptySet
      <3>3. z # 0
        BY <2>1, <3>1
      <3> QED
        BY <3>2, <3>3
    <2>3. PICK x : x = CHOOSE y \in T : TRUE
      OBVIOUS
    <2>4. x \in T
      BY <2>2, <2>3
    <2>5. PICK R : R = T \ {x}
      OBVIOUS
    <2>6. R \in SUBSET S
      BY <2>5
    <2>7. Cardinality(R) = c
      <3>1. Cardinality(R) = Cardinality(T) - 1
        BY <1>1, <2>4, <2>5, FS_RemoveElement
      <3> QED
        BY <2>1, <3>1
    <2>8. w[T] = Unit(lengths, x) + w[R]
      <3>1. w[T] = Fold(lengths, S, w)[T]
        OBVIOUS
      <3> QED
        BY ONLY <2>2, <2>3, <2>5, <3>1, T \in SUBSET S DEF Fold
    <2>9. Taken(lengths, n, T) = Unit(lengths, x) + Taken(lengths, n, R)
      <3>1. T \in SUBSET (0 .. n - 1)
        OBVIOUS
      <3> QED
        BY <2>4, <2>5, <3>1, TakenWithout
    <2> QED
      BY <2>1, <2>6, <2>7, <2>8, <2>9
  <1>4. A = Nat
    <2> HIDE DEF A
    <2>1. A \subseteq Nat
      BY DEF A
    <2> QED
      BY <1>2, <1>3, <2>1, NatInductionSet
  <1>5. Cardinality(S) \in A
    BY ONLY <1>1, <1>4
  <1> QED
    BY <1>5

LEMMA SpaceIsTaken ==
  ASSUME NEW lengths, NEW n, TableOf(lengths, n), NEW S \in SUBSET (0 .. n - 1)
  PROVE  Space(lengths, S) = Taken(lengths, n, S)
  <1> DEFINE w == [T \in SUBSET S |-> Taken(lengths, n, T)]
             c == CHOOSE v : v = Fold(lengths, S, v)
  <1>1. w = Fold(lengths, S, w)
    <2>1. ASSUME NEW T \in SUBSET S
          PROVE  w[T] = IF T = {} THEN 0
                        ELSE Unit(lengths, CHOOSE x \in T : TRUE)
                               + w[T \ {CHOOSE x \in T : TRUE}]
      <3>1. CASE T = {}
        BY <3>1, TakenNone
      <3>2. CASE T # {}
        <4>1. PICK x : x = CHOOSE y \in T : TRUE
          OBVIOUS
        <4>2. x \in T /\ T \in SUBSET (0 .. n - 1) /\ T \ {x} \in SUBSET S
          BY <3>2, <4>1
        <4>3. Taken(lengths, n, T) = Unit(lengths, x) + Taken(lengths, n, T \ {x})
          BY ONLY <4>2, TableOf(lengths, n), TakenWithout
        <4> QED
          BY <3>2, <4>1, <4>2, <4>3
      <3> QED
        BY <3>1, <3>2
    <2> HIDE DEF w
    <2>2. w = [T \in SUBSET S |-> w[T]]
      BY DEF w
    <2> QED
      BY ONLY <2>1, <2>2 DEF Fold
  <1>2. c = Fold(lengths, S, c)
    <2> HIDE DEF w
    <2> QED
      BY <1>1
  <1>3. Space(lengths, S) = c[S]
    BY SpaceFolds
  <1> HIDE DEF c
  <1> QED
    BY <1>2, <1>3, FoldsAgree

LEMMA TakenMonotone ==
  ASSUME NEW lengths, NEW n, TableOf(lengths, n), NEW S, NEW T, S \subseteq T
  PROVE  /\ Taken(lengths, n, S) <= Taken(lengths, n, T)
         /\ Taken(lengths, n, S) \in Nat /\ Taken(lengths, n, T) \in Nat
  <1>1. PICK v : v = Units(lengths, n)
    OBVIOUS
  <1>2. PICK R, V : R = {k \in 1 .. n : k - 1 \in S} /\ V = {k \in 1 .. n : k - 1 \in T}
    OBVIOUS
  <1>3. v \in [1 .. n -> Nat] /\ n \in Nat /\ R \subseteq V
    BY <1>1, <1>2, UnitsFacts
  <1>4. PICK f, g : f = Weighed(R, v, n) /\ g = Weighed(V, v, n)
    OBVIOUS
  <1>5. f \in [1 .. n -> Nat] /\ \A k \in 1 .. n : f[k] = IF k \in R THEN v[k] ELSE 0
    BY ONLY <1>3, <1>4, WeighedFacts
  <1>6. g \in [1 .. n -> Nat] /\ \A k \in 1 .. n : g[k] = IF k \in V THEN v[k] ELSE 0
    BY ONLY <1>3, <1>4, WeighedFacts
  <1>7. ASSUME NEW k \in 1 .. n PROVE f[k] <= g[k]
    <2>1. v[k] \in Nat
      BY <1>3
    <2> QED
      BY ONLY <1>3, <1>5, <1>6, <2>1, k \in 1 .. n
  <1>8. SumTo(f, n) \in Nat /\ SumTo(g, n) \in Nat /\ SumTo(f, n) <= SumTo(g, n)
    BY ONLY <1>3, <1>5, <1>6, <1>7, SumToMonotone
  <1> QED
    BY <1>1, <1>2, <1>4, <1>8 DEF Taken, SumOf

\* Symbols that all take the same space.
LEMMA TakenAlike ==
  ASSUME NEW lengths, NEW n, TableOf(lengths, n), NEW A \in SUBSET (0 .. n - 1),
         NEW R \in SUBSET (0 .. n - 1), A \cap R = {},
         NEW u \in Nat, \A r \in R : Unit(lengths, r) = u
  PROVE  /\ Taken(lengths, n, A \cup R) = Taken(lengths, n, A) + Cardinality(R) * u
         /\ Cardinality(R) \in Nat
  <1>1. /\ Cardinality(R) \in Nat /\ \A T \in SUBSET R : IsFiniteSet(T)
    <2>1. n \in Nat
      BY DEF TableOf
    <2>2. IsFiniteSet(0 .. n - 1)
      BY <2>1, FS_Interval
    <2>3. IsFiniteSet(R)
      BY <2>2, FS_Subset
    <2> QED
      BY <2>1, <2>3, FS_Subset, FS_CardinalityType
  <1>0. PICK a \in Nat : a = Taken(lengths, n, A)
    BY TakenNat
  <1> DEFINE I == {c \in Nat : \A T \in SUBSET R : Cardinality(T) = c =>
                       Taken(lengths, n, A \cup T) = a + c * u}
  <1>2. 0 \in I
    <2> SUFFICES ASSUME NEW T \in SUBSET R, Cardinality(T) = 0
                 PROVE  Taken(lengths, n, A \cup T) = a + 0 * u
      OBVIOUS
    <2>1. T = {}
      BY <1>1, FS_EmptySet
    <2>2. A \cup T = A
      BY <2>1
    <2> QED
      BY <1>0, <2>2
  <1>3. ASSUME NEW c \in I PROVE c + 1 \in I
    <2> SUFFICES ASSUME NEW T \in SUBSET R, Cardinality(T) = c + 1
                 PROVE  Taken(lengths, n, A \cup T) = a + (c + 1) * u
      OBVIOUS
    <2>1. c \in Nat /\ \A S \in SUBSET R : Cardinality(S) = c => Taken(lengths, n, A \cup S) = a + c * u
      OBVIOUS
    <2> HIDE DEF I
    <2>2. PICK x : x \in T
      <3>1. PICK z : z = Cardinality(T)
        OBVIOUS
      <3>2. T = {} => z = 0
        BY <3>1, FS_EmptySet
      <3>3. z # 0
        BY <2>1, <3>1
      <3> QED
        BY <3>2, <3>3
    <2>3. PICK S : S = T \ {x}
      OBVIOUS
    <2>4. S \in SUBSET R /\ Cardinality(S) = c
      <3>1. Cardinality(S) = Cardinality(T) - 1
        BY <1>1, <2>2, <2>3, FS_RemoveElement
      <3>2. Cardinality(S) = c
        BY <2>1, <3>1
      <3>3. S \in SUBSET R
        BY <2>3
      <3> QED
        BY <3>2, <3>3
    <2>5. PICK P, Q : P = A \cup S /\ Q = A \cup T
      OBVIOUS
    <2>6. x \in 0 .. n - 1 /\ x \notin P /\ Q = P \cup {x} /\ Unit(lengths, x) = u
      BY <2>2, <2>3, <2>5
    <2>7. Taken(lengths, n, Q) = Taken(lengths, n, P) + Unit(lengths, x)
      BY ONLY <2>6, TableOf(lengths, n), TakenGrows
    <2>8. Taken(lengths, n, P) = a + c * u
      BY <2>1, <2>4, <2>5
    <2>9. (c + 1) * u = c * u + u /\ c * u \in Nat
      BY <2>1
    <2> QED
      BY <2>5, <2>6, <2>7, <2>8, <2>9
  <1>4. I = Nat
    <2> HIDE DEF I
    <2>1. I \subseteq Nat
      BY DEF I
    <2> QED
      BY <1>2, <1>3, <2>1, NatInductionSet
  <1>5. Cardinality(R) \in I
    BY ONLY <1>1, <1>4
  <1> QED
    BY <1>0, <1>1, <1>5

\* The space of the codes of at most l bits.
Shorter(lengths, l) == {s \in Used(lengths) : lengths[s] <= l}

UpTo(lengths, n, l) == Taken(lengths, n, Shorter(lengths, l))

LEMMA UpToFacts ==
  ASSUME NEW lengths, NEW n, TableOf(lengths, n)
  PROVE  /\ UpTo(lengths, n, 0) = 0
         /\ UpTo(lengths, n, MaxBits) = Taken(lengths, n, Used(lengths))
         /\ \A l \in 0 .. MaxBits : /\ UpTo(lengths, n, l) \in Nat
                                    /\ UpTo(lengths, n, l) <= UpTo(lengths, n, MaxBits)
         /\ \A l \in 1 .. MaxBits : /\ Counts(lengths, l) \in Nat
                                    /\ UpTo(lengths, n, l) =
                                         UpTo(lengths, n, l - 1)
                                           + Counts(lengths, l) * pow2[MaxBits - l]
  <1>1. /\ DOMAIN lengths = 0 .. n - 1 /\ MaxBits \in Nat
        /\ \A s \in 0 .. n - 1 : lengths[s] \in 0 .. MaxBits
        /\ Used(lengths) \subseteq 0 .. n - 1
    BY TreeAssumption DEF TableOf, Used
  <1>2. UpTo(lengths, n, 0) = 0
    <2>1. Shorter(lengths, 0) = {}
      BY <1>1 DEF Shorter, Used
    <2> QED
      BY <2>1, TakenNone DEF UpTo
  <1>3. Shorter(lengths, MaxBits) = Used(lengths)
    BY <1>1 DEF Shorter, Used
  <1>4. ASSUME NEW l \in 0 .. MaxBits
        PROVE  /\ UpTo(lengths, n, l) \in Nat
               /\ UpTo(lengths, n, l) <= UpTo(lengths, n, MaxBits)
    <2>1. Shorter(lengths, l) \subseteq Shorter(lengths, MaxBits)
      BY <1>1, <1>3 DEF Shorter
    <2> QED
      BY <2>1, TakenMonotone DEF UpTo
  <1>5. ASSUME NEW l \in 1 .. MaxBits
        PROVE  /\ Counts(lengths, l) \in Nat
               /\ UpTo(lengths, n, l) =
                    UpTo(lengths, n, l - 1) + Counts(lengths, l) * pow2[MaxBits - l]
    <2>1. PICK A, R, u : /\ A = Shorter(lengths, l - 1)
                         /\ R = {s \in Used(lengths) : lengths[s] = l}
                         /\ u = pow2[MaxBits - l]
      OBVIOUS
    <2>2. u \in Nat
      <3>1. MaxBits - l \in Nat
        BY <1>1
      <3> QED
        BY <2>1, <3>1, Pow2Def
    <2>3. A \in SUBSET (0 .. n - 1) /\ R \in SUBSET (0 .. n - 1)
      BY <1>1, <2>1 DEF Shorter
    <2>4. A \cap R = {} /\ Shorter(lengths, l) = A \cup R
      <3>1. \A s \in Used(lengths) : lengths[s] <= l <=> (lengths[s] <= l - 1 \/ lengths[s] = l)
        BY <1>1
      <3>2. \A s \in Used(lengths) : ~(lengths[s] <= l - 1 /\ lengths[s] = l)
        BY <1>1
      <3> QED
        BY ONLY <2>1, <3>1, <3>2 DEF Shorter
    <2>5. \A r \in R : Unit(lengths, r) = u
      BY <2>1 DEF Unit
    <2>6. /\ Taken(lengths, n, A \cup R) = Taken(lengths, n, A) + Cardinality(R) * u
          /\ Cardinality(R) \in Nat
      BY ONLY <2>2, <2>3, <2>4, <2>5, TableOf(lengths, n), TakenAlike
    <2> QED
      BY <2>1, <2>4, <2>6 DEF UpTo, Counts
  <1> QED
    BY <1>2, <1>3, <1>4, <1>5 DEF UpTo

LEMMA CountsNat ==
  ASSUME NEW lengths, NEW n, TableOf(lengths, n)
  PROVE  \A l : Counts(lengths, l) \in Nat
  <1>1. n \in Nat /\ Used(lengths) \subseteq 0 .. n - 1
    BY DEF TableOf, Used
  <1>2. IsFiniteSet(0 .. n - 1)
    BY <1>1, FS_Interval
  <1>3. ASSUME NEW l PROVE Counts(lengths, l) \in Nat
    <2>1. {s \in Used(lengths) : lengths[s] = l} \subseteq 0 .. n - 1
      BY <1>1
    <2>2. IsFiniteSet({s \in Used(lengths) : lengths[s] = l})
      BY <1>2, <2>1, FS_Subset
    <2> QED
      BY <2>2, FS_CardinalityType DEF Counts
  <1> QED
    BY <1>3

LeftBody(lengths, f) ==
    [l \in 0 .. MaxBits |-> IF l = 0 THEN 1 ELSE 2 * f[l - 1] - Counts(lengths, l)]

LEMMA AvailableRecurs ==
  ASSUME NEW lengths, NEW n, TableOf(lengths, n)
  PROVE  Available(lengths) = LeftBody(lengths, Available(lengths))
  <1>1. MaxBits \in Nat /\ \A l : Counts(lengths, l) \in Nat
    BY TreeAssumption, CountsNat
  <1> DEFINE step == [p \in Nat \X Int |-> 2 * p[2] - Counts(lengths, p[1])]
  <1>2. step \in [Nat \X Int -> Int]
    BY <1>1
  <1>3. PICK f : Recurs(f, MaxBits, Int, 1, step)
    <2> HIDE DEF step
    <2>1. 1 \in Int /\ MaxBits \in Nat
      BY <1>1
    <2> QED
      BY ONLY <1>2, <2>1, BoundedRecursion
  <1>4. /\ f \in [0 .. MaxBits -> Int] /\ f[0] = 1
        /\ \A k \in 1 .. MaxBits : f[k] = step[<<k, f[k - 1]>>]
    <2> HIDE DEF step
    <2> QED
      BY <1>3 DEF Recurs
  <1>5. ASSUME NEW l \in 0 .. MaxBits
        PROVE  f[l] = IF l = 0 THEN 1 ELSE 2 * f[l - 1] - Counts(lengths, l)
    <2>1. CASE l = 0
      BY <1>4, <2>1
    <2>2. CASE l # 0
      <3>1. l \in 1 .. MaxBits /\ l \in Nat /\ l - 1 \in 0 .. MaxBits
        BY <1>1, <2>2
      <3>2. f[l - 1] \in Int
        BY <1>4, <3>1
      <3> QED
        BY <1>4, <2>2, <3>1, <3>2
    <2> QED
      BY <2>1, <2>2
  <1>6. f = LeftBody(lengths, f)
    <2>1. f = [l \in 0 .. MaxBits |-> f[l]]
      BY <1>4
    <2> QED
      BY ONLY <1>5, <2>1 DEF LeftBody
  <1>7. Available(lengths) = CHOOSE g : g = LeftBody(lengths, g)
    BY DEF Available, LeftBody
  <1> QED
    BY <1>6, <1>7

CodeBody(lengths, f) ==
    [l \in 1 .. MaxBits |-> IF l = 1 THEN 0 ELSE 2 * (f[l - 1] + Counts(lengths, l - 1))]

LEMMA next_codeRecurs ==
  ASSUME NEW lengths, NEW n, TableOf(lengths, n)
  PROVE  next_code(lengths) = CodeBody(lengths, next_code(lengths))
  <1>1. MaxBits \in Nat /\ \A l : Counts(lengths, l) \in Nat
    BY TreeAssumption, CountsNat
  <1> DEFINE step == [p \in Nat \X Nat |-> 2 * (p[2] + Counts(lengths, p[1]))]
  <1>2. step \in [Nat \X Nat -> Nat]
    BY <1>1
  <1>3. PICK f : Recurs(f, MaxBits, Nat, 0, step)
    <2> HIDE DEF step
    <2> QED
      BY <1>1, <1>2, BoundedRecursion
  <1>4. /\ f \in [0 .. MaxBits -> Nat] /\ f[0] = 0
        /\ \A k \in 1 .. MaxBits : f[k] = step[<<k, f[k - 1]>>]
    <2> HIDE DEF step
    <2> QED
      BY <1>3 DEF Recurs
  <1>5. PICK g : g = [l \in 1 .. MaxBits |-> f[l - 1]]
    OBVIOUS
  <1>6. ASSUME NEW l \in 1 .. MaxBits
        PROVE  g[l] = IF l = 1 THEN 0 ELSE 2 * (g[l - 1] + Counts(lengths, l - 1))
    <2>1. CASE l = 1
      BY <1>4, <1>5, <2>1
    <2>2. CASE l # 1
      <3>1. l - 1 \in 1 .. MaxBits /\ l - 1 \in Nat /\ (l - 1) - 1 \in 0 .. MaxBits
        BY <1>1, <2>2
      <3>2. f[(l - 1) - 1] \in Nat /\ g[l - 1] = f[(l - 1) - 1]
        BY <1>4, <1>5, <3>1
      <3>3. f[l - 1] = 2 * (f[(l - 1) - 1] + Counts(lengths, l - 1))
        BY <1>4, <3>1, <3>2
      <3> QED
        BY <1>5, <2>2, <3>2, <3>3
    <2> QED
      BY <2>1, <2>2
  <1>7. g = CodeBody(lengths, g)
    <2>1. g = [l \in 1 .. MaxBits |-> g[l]]
      BY <1>5
    <2> QED
      BY ONLY <1>6, <2>1 DEF CodeBody
  <1>8. next_code(lengths) = CHOOSE h : h = CodeBody(lengths, h)
    BY DEF next_code, CodeBody
  <1> QED
    BY <1>7, <1>8

LEMMA UnitHalves ==
  ASSUME NEW l \in 1 .. MaxBits
  PROVE  /\ pow2[MaxBits - (l - 1)] = 2 * pow2[MaxBits - l]
         /\ pow2[MaxBits - l] \in Nat \ {0}
  <1>1. MaxBits - l \in Nat /\ MaxBits - (l - 1) = (MaxBits - l) + 1
    BY TreeAssumption
  <1> QED
    BY <1>1, Pow2Def, Pow2Positive

\* Counted in units of the longest code, what is available after l bits is
\* what the codes of at most l bits leave.
LEMMA AvailableIs ==
  ASSUME NEW lengths, NEW n, TableOf(lengths, n)
  PROVE  \A l \in 0 .. MaxBits :
            /\ Available(lengths)[l] \in Int
            /\ Available(lengths)[l] * pow2[MaxBits - l] + UpTo(lengths, n, l) = pow2[MaxBits]
  <1>1. PICK f, K : f = Available(lengths) /\ K = [l \in 0 .. MaxBits |-> UpTo(lengths, n, l)]
    OBVIOUS
  <1>2. /\ MaxBits \in Nat /\ pow2[MaxBits] \in Nat /\ MaxBits - 0 = MaxBits
        /\ \A l : Counts(lengths, l) \in Nat
    BY TreeAssumption, CountsNat, Pow2Def
  <1>3. /\ f[0] = 1
        /\ \A l \in 1 .. MaxBits : f[l] = 2 * f[l - 1] - Counts(lengths, l)
    <2>1. f = LeftBody(lengths, f)
      BY <1>1, AvailableRecurs
    <2>2. ASSUME NEW l \in 0 .. MaxBits
          PROVE  f[l] = IF l = 0 THEN 1 ELSE 2 * f[l - 1] - Counts(lengths, l)
      <3>1. f[l] = LeftBody(lengths, f)[l]
        BY <2>1
      <3> QED
        BY <3>1 DEF LeftBody
    <2> QED
      BY <1>2, <2>2
  <1>4. /\ K[0] = 0
        /\ \A l \in 0 .. MaxBits : K[l] \in Nat
        /\ \A l \in 1 .. MaxBits : K[l] = K[l - 1] + Counts(lengths, l) * pow2[MaxBits - l]
    BY <1>1, <1>2, UpToFacts
  <1> DEFINE T == {l \in Nat : l <= MaxBits =>
                      f[l] \in Int /\ f[l] * pow2[MaxBits - l] + K[l] = pow2[MaxBits]}
  <1>5. 0 \in T
    BY <1>2, <1>3, <1>4
  <1>6. ASSUME NEW k \in T PROVE k + 1 \in T
    <2> SUFFICES ASSUME k + 1 <= MaxBits
                 PROVE  /\ f[k + 1] \in Int
                        /\ f[k + 1] * pow2[MaxBits - (k + 1)] + K[k + 1] = pow2[MaxBits]
      OBVIOUS
    <2>1. k \in Nat /\ k <= MaxBits /\ k + 1 \in 1 .. MaxBits /\ (k + 1) - 1 = k /\ k \in 0 .. MaxBits
      BY <1>2
    <2>2. f[k] \in Int /\ f[k] * pow2[MaxBits - k] + K[k] = pow2[MaxBits]
      BY <2>1
    <2> HIDE DEF T
    <2>3. PICK u, c : u = pow2[MaxBits - (k + 1)] /\ c = Counts(lengths, k + 1)
      OBVIOUS
    <2>4. pow2[MaxBits - k] = 2 * u /\ u \in Nat
      <3>1. /\ pow2[MaxBits - ((k + 1) - 1)] = 2 * pow2[MaxBits - (k + 1)]
            /\ pow2[MaxBits - (k + 1)] \in Nat \ {0}
        BY <2>1, UnitHalves
      <3> QED
        BY <2>1, <2>3, <3>1
    <2>5. f[k + 1] = 2 * f[k] - c /\ c \in Nat
      <3>1. f[k + 1] = 2 * f[(k + 1) - 1] - Counts(lengths, k + 1)
        BY <1>3, <2>1
      <3> QED
        BY <1>2, <2>1, <2>3, <3>1
    <2>6. K[k + 1] = K[k] + c * u /\ K[k] \in Nat
      <3>1. K[k + 1] = K[(k + 1) - 1] + Counts(lengths, k + 1) * pow2[MaxBits - (k + 1)]
        BY <1>4, <2>1
      <3> QED
        BY <1>4, <2>1, <2>3, <3>1
    <2>7. f[k + 1] * u + c * u = f[k] * (2 * u)
      <3>1. PICK a \in Int : a = f[k]
        BY <2>2
      <3>2. (2 * a - c) * u + c * u = a * (2 * u)
        BY <2>4, <2>5
      <3> QED
        BY <2>5, <3>1, <3>2
    <2>8. f[k + 1] \in Int
      BY <2>2, <2>5
    <2>9. f[k + 1] * u + (K[k] + c * u) = pow2[MaxBits]
      <3>1. PICK p, q \in Int : p = f[k + 1] * u /\ q = c * u
        BY <2>4, <2>5, <2>8
      <3>2. p + q + K[k] = pow2[MaxBits]
        BY <2>2, <2>4, <2>7, <3>1
      <3> QED
        BY <2>6, <3>1, <3>2
    <2> QED
      BY <2>3, <2>6, <2>8, <2>9
  <1>7. T = Nat
    <2> HIDE DEF T
    <2>1. T \subseteq Nat
      BY DEF T
    <2> QED
      BY <1>5, <1>6, <2>1, NatInductionSet
  <1>8. ASSUME NEW l \in 0 .. MaxBits
        PROVE  f[l] \in Int /\ f[l] * pow2[MaxBits - l] + K[l] = pow2[MaxBits]
    <2>1. l \in Nat /\ l <= MaxBits
      BY <1>2
    <2>2. l \in T
      BY ONLY <1>7, <2>1
    <2> QED
      BY <2>1, <2>2
  <1> QED
    BY <1>1, <1>8

\* The first code of l bits begins where the shorter codes end.
LEMMA next_codeIs ==
  ASSUME NEW lengths, NEW n, TableOf(lengths, n)
  PROVE  \A l \in 1 .. MaxBits :
            /\ next_code(lengths)[l] \in Nat
            /\ next_code(lengths)[l] * pow2[MaxBits - l] = UpTo(lengths, n, l - 1)
  <1>1. PICK f, K : f = next_code(lengths) /\ K = [l \in 0 .. MaxBits |-> UpTo(lengths, n, l)]
    OBVIOUS
  <1>2. /\ MaxBits \in Nat \ {0} /\ \A l : Counts(lengths, l) \in Nat
    BY TreeAssumption, CountsNat
  <1>3. /\ f[1] = 0
        /\ \A l \in 2 .. MaxBits : f[l] = 2 * (f[l - 1] + Counts(lengths, l - 1))
    <2>1. f = CodeBody(lengths, f)
      BY <1>1, next_codeRecurs
    <2>2. ASSUME NEW l \in 1 .. MaxBits
          PROVE  f[l] = IF l = 1 THEN 0 ELSE 2 * (f[l - 1] + Counts(lengths, l - 1))
      <3>1. f[l] = CodeBody(lengths, f)[l]
        BY <2>1
      <3> QED
        BY <3>1 DEF CodeBody
    <2> QED
      BY <1>2, <2>2
  <1>4. /\ K[0] = 0
        /\ \A l \in 0 .. MaxBits : K[l] \in Nat
        /\ \A l \in 1 .. MaxBits : K[l] = K[l - 1] + Counts(lengths, l) * pow2[MaxBits - l]
    BY <1>1, <1>2, UpToFacts
  <1> DEFINE T == {k \in Nat : k + 1 <= MaxBits =>
                      f[k + 1] \in Nat /\ f[k + 1] * pow2[MaxBits - (k + 1)] = K[k]}
  <1>5. 0 \in T
    <2>1. pow2[MaxBits - 1] \in Nat
      BY <1>2, Pow2Def
    <2>2. 0 * pow2[MaxBits - 1] = 0
      BY <2>1
    <2> QED
      BY <1>3, <1>4, <2>2
  <1>6. ASSUME NEW k \in T PROVE k + 1 \in T
    <2> SUFFICES ASSUME (k + 1) + 1 <= MaxBits
                 PROVE  /\ f[(k + 1) + 1] \in Nat
                        /\ f[(k + 1) + 1] * pow2[MaxBits - ((k + 1) + 1)] = K[k + 1]
      OBVIOUS
    <2>1. k \in Nat /\ k + 1 <= MaxBits
      BY <1>2
    <2>2. f[k + 1] \in Nat /\ f[k + 1] * pow2[MaxBits - (k + 1)] = K[k]
      BY <2>1
    <2> HIDE DEF T
    <2>3. PICK l \in 2 .. MaxBits : l = (k + 1) + 1
      BY <1>2, <2>1
    <2>4. /\ l - 1 = k + 1 /\ k + 1 \in 1 .. MaxBits /\ l \in 1 .. MaxBits /\ (k + 1) - 1 = k
          /\ k \in 0 .. MaxBits
      BY ONLY <1>2, <2>1, <2>3, (k + 1) + 1 <= MaxBits
    <2>5. PICK u, c : u = pow2[MaxBits - l] /\ c = Counts(lengths, k + 1)
      OBVIOUS
    <2>6. pow2[MaxBits - (k + 1)] = 2 * u /\ u \in Nat
      <3>1. /\ pow2[MaxBits - (l - 1)] = 2 * pow2[MaxBits - l]
            /\ pow2[MaxBits - l] \in Nat \ {0}
        BY <2>4, UnitHalves
      <3> QED
        BY <2>4, <2>5, <3>1
    <2>7. f[l] = 2 * (f[k + 1] + c) /\ c \in Nat
      BY <1>2, <1>3, <2>3, <2>4, <2>5
    <2>8. K[k + 1] = K[k] + c * (2 * u) /\ K[k] \in Nat
      <3>1. K[k + 1] = K[(k + 1) - 1] + Counts(lengths, k + 1) * pow2[MaxBits - (k + 1)]
        BY <1>4, <2>4
      <3> QED
        BY <1>4, <2>4, <2>5, <2>6, <3>1
    <2>9. PICK a \in Nat : a = f[k + 1]
      BY <2>2
    <2>10. (2 * (a + c)) * u = a * (2 * u) + c * (2 * u) /\ 2 * (a + c) \in Nat
      BY <2>6, <2>7
    <2>11. f[l] \in Nat /\ f[l] * u = K[k + 1]
      BY <2>2, <2>6, <2>7, <2>8, <2>9, <2>10
    <2> QED
      BY <2>3, <2>5, <2>11
  <1>7. T = Nat
    <2> HIDE DEF T
    <2>1. T \subseteq Nat
      BY DEF T
    <2> QED
      BY <1>5, <1>6, <2>1, NatInductionSet
  <1>8. ASSUME NEW l \in 1 .. MaxBits
        PROVE  f[l] \in Nat /\ f[l] * pow2[MaxBits - l] = K[l - 1]
    <2>1. l - 1 \in Nat /\ (l - 1) + 1 = l /\ l <= MaxBits
      BY <1>2
    <2>2. l - 1 \in T
      BY ONLY <1>7, <2>1
    <2>3. (l - 1) + 1 <= MaxBits
      BY <2>1
    <2>4. f[(l - 1) + 1] \in Nat /\ f[(l - 1) + 1] * pow2[MaxBits - ((l - 1) + 1)] = K[l - 1]
      BY <2>2, <2>3
    <2> HIDE DEF T
    <2> QED
      BY ONLY <2>1, <2>4
  <1>9. \A l \in 1 .. MaxBits : l - 1 \in 0 .. MaxBits
    BY <1>2
  <1> QED
    BY <1>1, <1>8, <1>9

LEMMA UsedFacts ==
  ASSUME NEW lengths, NEW n, TableOf(lengths, n)
  PROVE  /\ Used(lengths) \subseteq 0 .. n - 1 /\ Used(lengths) \subseteq Nat
         /\ \A s \in Used(lengths) : lengths[s] \in 1 .. MaxBits
         /\ MaxBits \in Nat \ {0}
  BY TreeAssumption DEF TableOf, Used

\* The code of a symbol begins where those before it, by length and then by
\* symbol, end.
LEMMA SymbolCodeIs ==
  ASSUME NEW lengths, NEW n, TableOf(lengths, n), NEW s \in Used(lengths)
  PROVE  /\ SymbolCode(lengths, s) \in Nat
         /\ SymbolCode(lengths, s) * Unit(lengths, s) = Taken(lengths, n, Before(lengths, s))
  <1>1. PICK l : l = lengths[s]
    OBVIOUS
  <1>2. l \in 1 .. MaxBits /\ l - 1 \in 0 .. MaxBits /\ s \in 0 .. n - 1 /\ s \in Nat
    BY <1>1, UsedFacts
  <1>3. PICK A, R, u, c : /\ A = Shorter(lengths, l - 1)
                          /\ R = {r \in Used(lengths) : r < s /\ lengths[r] = lengths[s]}
                          /\ u = Unit(lengths, s)
                          /\ c = next_code(lengths)[l]
    OBVIOUS
  <1>4. A \in SUBSET (0 .. n - 1) /\ R \in SUBSET (0 .. n - 1) /\ A \cap R = {}
    <2>1. A \in SUBSET (0 .. n - 1) /\ R \in SUBSET (0 .. n - 1)
      BY <1>3, UsedFacts DEF Shorter
    <2>2. ~(l <= l - 1)
      BY <1>2
    <2>3. A \cap R = {}
      BY <1>1, <1>3, <2>2 DEF Shorter
    <2> QED
      BY <2>1, <2>3
  <1>5. Before(lengths, s) = A \cup R
    <2>1. ASSUME NEW r \in Used(lengths) PROVE lengths[r] < l <=> lengths[r] <= l - 1
      BY <1>2, UsedFacts
    <2> QED
      BY ONLY <1>1, <1>3, <2>1 DEF Before, Shorter
  <1>6. u \in Nat /\ \A r \in R : Unit(lengths, r) = u
    <2>1. u \in Nat
      BY <1>2, <1>3, UnitsFacts
    <2> QED
      BY <1>3, <2>1 DEF Unit
  <1>7. /\ Taken(lengths, n, A \cup R) = Taken(lengths, n, A) + Cardinality(R) * u
        /\ Cardinality(R) \in Nat
    BY ONLY <1>4, <1>6, TableOf(lengths, n), TakenAlike
  <1>8. c \in Nat /\ c * u = Taken(lengths, n, A)
    <2>1. next_code(lengths)[l] * pow2[MaxBits - l] = UpTo(lengths, n, l - 1) /\ next_code(lengths)[l] \in Nat
      BY <1>2, next_codeIs
    <2>2. u = pow2[MaxBits - l]
      BY <1>1, <1>3 DEF Unit
    <2> QED
      BY <1>3, <2>1, <2>2 DEF UpTo
  <1>9. SymbolCode(lengths, s) = c + Cardinality(R)
    BY <1>1, <1>3 DEF SymbolCode
  <1>10. PICK k \in Nat : k = Cardinality(R)
    BY <1>7
  <1>11. (c + k) * u = c * u + k * u /\ c + k \in Nat
    BY <1>6, <1>8
  <1> QED
    BY <1>3, <1>5, <1>7, <1>8, <1>9, <1>10, <1>11

LEMMA ReferenceCode ==
  ASSUME NEW lengths, NEW n, TableOf(lengths, n), NEW s \in Used(lengths)
  PROVE  Space(lengths, Before(lengths, s)) \div pow2[MaxBits - lengths[s]] = SymbolCode(lengths, s)
  <1>1. PICK u, c, b : /\ u = Unit(lengths, s) /\ c = SymbolCode(lengths, s)
                       /\ b = Space(lengths, Before(lengths, s))
    OBVIOUS
  <1>2. s \in 0 .. n - 1 /\ Before(lengths, s) \in SUBSET (0 .. n - 1)
    BY UsedFacts DEF Before
  <1>3. u \in Nat \ {0}
    BY <1>1, <1>2, UnitsFacts
  <1>4. b = Taken(lengths, n, Before(lengths, s))
    BY <1>1, <1>2, SpaceIsTaken
  <1>5. c \in Nat /\ c * u = b
    BY <1>1, <1>4, SymbolCodeIs
  <1>6. b = u * c + 0 /\ 0 \in 0 .. u - 1
    <2>1. c * u = u * c + 0
      BY <1>3, <1>5
    <2> QED
      BY <1>3, <1>5, <2>1
  <1>7. (u * c + 0) \div u = c
    BY ONLY <1>3, <1>5, 0 \in 0 .. u - 1, <1>6, DivisionUnique
  <1> QED
    BY <1>1, <1>6, <1>7 DEF Unit

\* Symbols do not overlap, and none goes beyond what all take.
LEMMA SymbolsApart ==
  ASSUME NEW lengths, NEW n, TableOf(lengths, n), NEW r \in Used(lengths)
  PROVE  /\ Taken(lengths, n, Before(lengths, r)) + Unit(lengths, r)
              <= Taken(lengths, n, Used(lengths))
         /\ \A s \in Used(lengths) : r \in Before(lengths, s) =>
              Taken(lengths, n, Before(lengths, r)) + Unit(lengths, r)
                <= Taken(lengths, n, Before(lengths, s))
         /\ \A s \in Used(lengths) :
              r # s => r \in Before(lengths, s) \/ s \in Before(lengths, r)
         /\ Taken(lengths, n, Before(lengths, r)) \in Nat
         /\ Taken(lengths, n, Used(lengths)) \in Nat
         /\ Unit(lengths, r) \in Nat \ {0}
  <1>1. /\ r \in 0 .. n - 1 /\ r \in Nat /\ lengths[r] \in Nat
        /\ \A s \in Used(lengths) : s \in Nat /\ lengths[s] \in Nat
    BY UsedFacts
  <1>2. PICK B, D : B = Before(lengths, r) /\ D = B \cup {r}
    OBVIOUS
  <1>3. r \notin B
    BY <1>1, <1>2 DEF Before
  <1>4. /\ Taken(lengths, n, D) = Taken(lengths, n, B) + Unit(lengths, r)
        /\ Taken(lengths, n, B) \in Nat /\ Unit(lengths, r) \in Nat \ {0}
    BY ONLY <1>1, <1>2, <1>3, TableOf(lengths, n), TakenGrows
  <1>5. D \subseteq Used(lengths)
    BY <1>2 DEF Before
  <1>6. /\ Taken(lengths, n, D) <= Taken(lengths, n, Used(lengths))
        /\ Taken(lengths, n, Used(lengths)) \in Nat
    BY <1>5, TakenMonotone
  <1>7. ASSUME NEW s \in Used(lengths), r \in Before(lengths, s)
        PROVE  Taken(lengths, n, D) <= Taken(lengths, n, Before(lengths, s))
    <2>1. ASSUME NEW q \in B PROVE q \in Before(lengths, s)
      BY <1>1, <1>2, <1>7, <2>1 DEF Before
    <2>2. D \subseteq Before(lengths, s)
      BY <1>2, <1>7, <2>1
    <2> QED
      BY <2>2, TakenMonotone
  <1>8. ASSUME NEW s \in Used(lengths), r # s
        PROVE  r \in Before(lengths, s) \/ s \in Before(lengths, r)
    BY <1>1, <1>8 DEF Before
  <1> QED
    BY <1>2, <1>4, <1>6, <1>7, <1>8

LEMMA Halved ==
  ASSUME NEW y \in Nat, NEW j \in Nat
  PROVE  /\ y \div pow2[j] \in Nat
         /\ y \div pow2[j] = 2 * (y \div pow2[j + 1]) + ((y \div pow2[j]) % 2)
  <1>1. PICK p : p = pow2[j]
    OBVIOUS
  <1>2. p \in Nat \ {0} /\ pow2[j + 1] = 2 * p
    BY <1>1, Pow2Positive, Pow2Def
  <1>3. PICK q, r : q = y \div p /\ r = y % p
    OBVIOUS
  <1>4. q \in Int /\ r \in 0 .. p - 1 /\ y = p * q + r
    <2>1. y \in Int /\ p \in Nat \ {0}
      BY <1>2
    <2>2. y \div p \in Int /\ y % p \in 0 .. p - 1 /\ y = p * (y \div p) + (y % p)
      BY ONLY <2>1, Division
    <2> QED
      BY <1>3, <2>2
  <1>5. q \in Nat
    <2>1. y < p * (y + 1)
      <3>1. p * (y + 1) >= y + 1
        BY <1>2, ProductAtLeast
      <3> QED
        BY <1>2, <3>1
    <2> QED
      BY <1>2, <1>3, <2>1, QuotientBelow
  <1>6. PICK h, b : h = q \div 2 /\ b = q % 2
    OBVIOUS
  <1>7. h \in Int /\ b \in 0 .. 1 /\ q = 2 * h + b
    BY <1>5, <1>6, Division
  <1>8. y = (2 * p) * h + (p * b + r)
    <2>1. p * (2 * h + b) = (2 * p) * h + p * b
      BY <1>2, <1>7
    <2>2. p * b \in Int /\ (2 * p) * h \in Int
      BY <1>2, <1>7
    <2> QED
      BY <1>4, <1>7, <2>1, <2>2
  <1>9. p * b + r \in 0 .. (2 * p) - 1
    <2>1. CASE b = 0
      BY <1>2, <1>4, <2>1
    <2>2. CASE b = 1
      BY <1>2, <1>4, <2>2
    <2> QED
      BY <1>7, <2>1, <2>2
  <1>10. ((2 * p) * h + (p * b + r)) \div (2 * p) = h
    <2>1. PICK d, e : d = 2 * p /\ e = p * b + r
      OBVIOUS
    <2>2. d \in Nat \ {0} /\ e \in 0 .. d - 1
      BY <1>2, <1>9, <2>1
    <2>3. (d * h + e) \div d = h
      BY ONLY <1>7, <2>2, DivisionUnique
    <2> QED
      BY <2>1, <2>3
  <1>11. y \div pow2[j + 1] = h
    BY <1>2, <1>8, <1>10
  <1> QED
    BY <1>1, <1>3, <1>5, <1>6, <1>7, <1>11

LEMMA QuotientSmall ==
  ASSUME NEW y \in Nat, NEW d \in Nat, y < d PROVE y \div d = 0
  <1>1. (d * 0 + y) \div d = 0
    <2>1. d \in Nat \ {0} /\ y \in 0 .. d - 1
      OBVIOUS
    <2> QED
      BY ONLY <2>1, 0 \in Int, DivisionUnique
  <1> QED
    BY <1>1

\* A path that begins another is that of the first digits of its number.
LEMMA PathsTell ==
  ASSUME NEW m \in Nat, NEW k \in Nat, m <= k, NEW x \in Nat, x < pow2[m],
         NEW y \in Nat, y < pow2[k],
         \A i \in 1 .. m : Path(x, m)[i] = Path(y, k)[i]
  PROVE  y \div pow2[k - m] = x
  <1> DEFINE T == {i \in Nat : i <= m => x \div pow2[m - i] = y \div pow2[k - i]}
  <1>1. 0 \in T
    <2>1. pow2[m] \in Nat /\ pow2[k] \in Nat
      BY Pow2Def
    <2>2. x \div pow2[m] = 0 /\ y \div pow2[k] = 0
      BY <2>1, QuotientSmall
    <2>3. m - 0 = m /\ k - 0 = k
      OBVIOUS
    <2> QED
      BY <2>2, <2>3
  <1>2. ASSUME NEW i \in T PROVE i + 1 \in T
    <2> SUFFICES ASSUME i + 1 <= m
                 PROVE  x \div pow2[m - (i + 1)] = y \div pow2[k - (i + 1)]
      OBVIOUS
    <2>1. i \in Nat /\ x \div pow2[m - i] = y \div pow2[k - i]
      OBVIOUS
    <2> HIDE DEF T
    <2>2. PICK a, b \in Nat : a = m - (i + 1) /\ b = k - (i + 1)
      BY <2>1
    <2>3. a + 1 = m - i /\ b + 1 = k - i /\ i + 1 \in 1 .. m /\ i + 1 \in 1 .. k
      BY <2>1, <2>2
    <2>4. (x \div pow2[a]) % 2 = (y \div pow2[b]) % 2
      <3>1. Path(x, m)[i + 1] = Path(y, k)[i + 1]
        BY <2>3
      <3>2. Path(x, m)[i + 1] = (x \div pow2[a]) % 2
        BY <2>2, <2>3 DEF Path
      <3>3. Path(y, k)[i + 1] = (y \div pow2[b]) % 2
        BY <2>2, <2>3 DEF Path
      <3> QED
        BY <3>1, <3>2, <3>3
    <2>5. x \div pow2[a] = 2 * (x \div pow2[a + 1]) + ((x \div pow2[a]) % 2)
      BY ONLY <2>2, x \in Nat, Halved
    <2>6. y \div pow2[b] = 2 * (y \div pow2[b + 1]) + ((y \div pow2[b]) % 2)
      BY ONLY <2>2, y \in Nat, Halved
    <2> QED
      BY ONLY <2>1, <2>2, <2>3, <2>4, <2>5, <2>6
  <1>3. T = Nat
    <2> HIDE DEF T
    <2>1. T \subseteq Nat
      BY DEF T
    <2> QED
      BY <1>1, <1>2, <2>1, NatInductionSet
  <1>4. x \div pow2[m - m] = y \div pow2[k - m]
    <2>1. m \in T
      BY ONLY <1>3, m \in Nat
    <2> QED
      BY <2>1
  <1>5. pow2[m - m] = 1 /\ x \div 1 = x
    <2>1. m - m = 0
      OBVIOUS
    <2>2. (1 * x + 0) \div 1 = x
      BY DivisionUnique
    <2> QED
      BY <2>1, <2>2, Pow2Def
  <1> QED
    BY <1>4, <1>5

\* When the codes fit, no bound of huffman_build is passed.
LEMMA FittingCodes ==
  ASSUME NEW lengths, NEW n, TableOf(lengths, n),
         Taken(lengths, n, Used(lengths)) <= pow2[MaxBits]
  PROVE  /\ \A l \in 1 .. MaxBits : ~(Available(lengths)[l] < 0)
         /\ \A s \in Used(lengths) : /\ SymbolCode(lengths, s) \in Nat
                                     /\ SymbolCode(lengths, s) < pow2[lengths[s]]
  <1>1. MaxBits \in Nat \ {0} /\ pow2[MaxBits] \in Nat
    BY UsedFacts, Pow2Def
  <1>2. ASSUME NEW l \in 1 .. MaxBits PROVE ~(Available(lengths)[l] < 0)
    <2>1. PICK a, u, K : /\ a = Available(lengths)[l] /\ u = pow2[MaxBits - l]
                         /\ K = UpTo(lengths, n, l)
      OBVIOUS
    <2>2. l \in 0 .. MaxBits /\ MaxBits - l \in Nat
      BY <1>1
    <2>3. a \in Int /\ a * u + K = pow2[MaxBits]
      BY <2>1, <2>2, AvailableIs
    <2>4. K \in Nat /\ K <= pow2[MaxBits]
      <3>1. UpTo(lengths, n, MaxBits) \in Nat
        BY <1>1, UpToFacts
      <3>2. K <= UpTo(lengths, n, MaxBits) /\ K \in Nat
        BY <2>1, <2>2, UpToFacts
      <3>3. UpTo(lengths, n, MaxBits) <= pow2[MaxBits]
        BY UpToFacts
      <3> QED
        BY <1>1, <3>1, <3>2, <3>3
    <2>5. u \in Nat \ {0}
      BY <2>1, <2>2, Pow2Positive
    <2>6. ~(a < 0)
      <3> SUFFICES ASSUME -a >= 1 PROVE FALSE
        BY <2>3
      <3>1. (-a) * u >= u
        BY <2>3, <2>5, ProductAtLeast
      <3>2. (-a) * u = -(a * u) /\ a * u \in Int
        BY <2>3, <2>5
      <3> QED
        BY <1>1, <2>3, <2>4, <2>5, <3>1, <3>2
    <2> QED
      BY <2>1, <2>6
  <1>3. ASSUME NEW s \in Used(lengths)
        PROVE  /\ SymbolCode(lengths, s) \in Nat
               /\ SymbolCode(lengths, s) < pow2[lengths[s]]
    <2>1. PICK c, u, l, b, w : /\ c = SymbolCode(lengths, s) /\ u = Unit(lengths, s)
                               /\ l = lengths[s] /\ b = Taken(lengths, n, Before(lengths, s))
                               /\ w = Taken(lengths, n, Used(lengths))
      OBVIOUS
    <2>2. c \in Nat /\ c * u = b
      BY <2>1, SymbolCodeIs
    <2>3. b + u <= w /\ b \in Nat /\ w \in Nat /\ u \in Nat \ {0}
      BY <2>1, SymbolsApart
    <2>4. pow2[MaxBits] = pow2[l] * u /\ pow2[l] \in Nat
      <3>1. l \in Nat /\ MaxBits - l \in Nat /\ l + (MaxBits - l) = MaxBits
        BY <1>1, <2>1, UsedFacts
      <3>2. pow2[l + (MaxBits - l)] = pow2[l] * pow2[MaxBits - l]
        BY <3>1, Pow2Sum
      <3> QED
        BY <2>1, <3>1, <3>2, Pow2Def DEF Unit
    <2>5. w <= pow2[l] * u
      BY <2>1, <2>4
    <2>6. PICK p \in Nat : p = pow2[l]
      BY <2>4
    <2>7. c < p
      <3> SUFFICES ASSUME c >= p PROVE FALSE
        BY <2>2, <2>6
      <3>1. u * p <= u * c
        BY <2>2, <2>3, <2>6, TimesMonotone
      <3>2. u * p = p * u /\ u * c = c * u /\ p * u \in Nat
        BY <2>2, <2>3
      <3> QED
        BY <2>2, <2>3, <2>5, <2>6, <3>1, <3>2
    <2> QED
      BY <2>1, <2>2, <2>6, <2>7
  <1> QED
    BY <1>2, <1>3

LEMMA PathIsSeq ==
  ASSUME NEW z \in Nat, NEW l \in Nat
  PROVE  Path(z, l) \in Seq(Int) /\ Len(Path(z, l)) = l
  <1>1. ASSUME NEW i \in 1 .. l PROVE (z \div pow2[l - i]) % 2 \in Int
    <2>1. l - i \in Nat
      OBVIOUS
    <2>2. z \div pow2[l - i] \in Nat
      BY <2>1, Halved
    <2> QED
      BY <2>2
  <1>2. Path(z, l) \in [1 .. l -> Int]
    BY <1>1 DEF Path
  <1> QED
    BY <1>2

\* Then no path begins another.
LEMMA FittingPaths ==
  ASSUME NEW lengths, NEW n, TableOf(lengths, n),
         Taken(lengths, n, Used(lengths)) <= pow2[MaxBits],
         NEW r \in Used(lengths), NEW s \in Used(lengths), r # s
  PROVE  ~IsPrefix(Path(SymbolCode(lengths, r), lengths[r]),
                   Path(SymbolCode(lengths, s), lengths[s]))
  <1>1. PICK x, y, m, k, u, v, B, C :
           /\ x = SymbolCode(lengths, r) /\ y = SymbolCode(lengths, s)
           /\ m = lengths[r] /\ k = lengths[s]
           /\ u = Unit(lengths, r) /\ v = Unit(lengths, s)
           /\ B = Taken(lengths, n, Before(lengths, r))
           /\ C = Taken(lengths, n, Before(lengths, s))
    OBVIOUS
  <1>2. /\ m \in 1 .. MaxBits /\ k \in 1 .. MaxBits /\ m \in Nat /\ k \in Nat
        /\ MaxBits \in Nat \ {0}
    BY <1>1, UsedFacts
  <1>3. x \in Nat /\ y \in Nat /\ x < pow2[m] /\ y < pow2[k]
    BY <1>1, FittingCodes
  <1>4. x * u = B /\ y * v = C
    BY <1>1, SymbolCodeIs
  <1>5. B \in Nat /\ C \in Nat /\ u \in Nat \ {0} /\ v \in Nat \ {0}
    BY <1>1, SymbolsApart
  <1>6. B + u <= C \/ C + v <= B
    <2>1. r \in Before(lengths, s) => B + u <= C
      BY <1>1, SymbolsApart
    <2>2. s \in Before(lengths, r) => C + v <= B
      BY <1>1, SymbolsApart
    <2>3. r \in Before(lengths, s) \/ s \in Before(lengths, r)
      BY SymbolsApart
    <2> QED
      BY <2>1, <2>2, <2>3
  <1> SUFFICES ASSUME IsPrefix(Path(x, m), Path(y, k)) PROVE FALSE
    BY <1>1
  <1>7. /\ Path(x, m) \in Seq(Int) /\ Len(Path(x, m)) = m
        /\ Path(y, k) \in Seq(Int) /\ Len(Path(y, k)) = k
    BY <1>2, <1>3, PathIsSeq
  <1>8. m <= k /\ \A i \in 1 .. m : Path(x, m)[i] = Path(y, k)[i]
    <2>1. PICK p, q \in Seq(Int) : p = Path(x, m) /\ q = Path(y, k)
      BY <1>7
    <2>2. Len(p) = m /\ Len(q) = k
      BY <1>7, <2>1
    <2>3. Len(p) <= Len(q) /\ SubSeq(p, 1, Len(p)) = SubSeq(q, 1, Len(p))
      BY <2>1 DEF IsPrefix
    <2>4. ASSUME NEW i \in 1 .. m PROVE p[i] = q[i]
      <3>1. SubSeq(p, 1, m)[i] = p[i] /\ SubSeq(q, 1, m)[i] = q[i]
        BY <1>2, <2>2, <2>3
      <3> QED
        BY <2>2, <2>3, <3>1
    <2> QED
      BY <2>1, <2>2, <2>3, <2>4
  <1>9. PICK d \in Nat \ {0} : d = pow2[k - m]
    <2>1. k - m \in Nat
      BY <1>2, <1>8
    <2> QED
      BY <2>1, Pow2Positive
  <1>10. y \div d = x
    BY ONLY <1>2, <1>3, <1>8, <1>9, PathsTell
  <1>11. u = v * d
    <2>1. /\ pow2[MaxBits - m] = pow2[MaxBits - k] * pow2[k - m]
      BY <1>2, <1>8, Pow2Apart
    <2> QED
      BY <1>1, <1>9, <2>1 DEF Unit
  <1>12. PICK t \in 0 .. d - 1 : y = d * x + t
    <2>1. y \in Int /\ y % d \in 0 .. d - 1 /\ y = d * (y \div d) + (y % d)
      BY <1>3, Division
    <2> QED
      BY <1>10, <2>1
  <1>13. C = B + v * t /\ v * t < u /\ v * t \in Nat
    <2>1. (d * x + t) * v = x * (v * d) + v * t
      BY <1>3, <1>5, <1>9
    <2>2. C = B + v * t
      BY <1>4, <1>11, <1>12, <2>1
    <2>3. v * (t + 1) <= v * d /\ v * (t + 1) = v * t + v /\ v * t \in Nat
      <3>1. t \in Nat /\ t + 1 \in Nat /\ t + 1 <= d
        BY <1>9
      <3>2. v * (t + 1) <= v * d
        BY <1>5, <1>9, <3>1, TimesMonotone
      <3> QED
        BY <1>5, <3>1, <3>2
    <2> QED
      BY <1>5, <1>11, <2>2, <2>3
  <1> QED
    BY <1>5, <1>6, <1>13

LEMMA NoRoom ==
  ASSUME NEW lengths, NEW n, TableOf(lengths, n),
         ~(Taken(lengths, n, Used(lengths)) <= pow2[MaxBits])
  PROVE  \E l \in 1 .. MaxBits : Available(lengths)[l] < 0
  <1>1. /\ MaxBits \in 1 .. MaxBits /\ MaxBits \in 0 .. MaxBits /\ pow2[MaxBits] \in Nat
        /\ MaxBits - MaxBits = 0 /\ pow2[0] = 1
    BY UsedFacts, Pow2Def
  <1>2. PICK a, K : a = Available(lengths)[MaxBits] /\ K = UpTo(lengths, n, MaxBits)
    OBVIOUS
  <1>3. a \in Int /\ a * 1 + K = pow2[MaxBits]
    BY <1>1, <1>2, AvailableIs
  <1>4. K \in Nat /\ ~(K <= pow2[MaxBits])
    <2>1. K = Taken(lengths, n, Used(lengths))
      BY <1>2, UpToFacts
    <2> QED
      BY <1>1, <1>2, <2>1, UpToFacts
  <1> QED
    BY <1>1, <1>2, <1>3, <1>4

LEMMA ImageFinite ==
  ASSUME NEW S, IsFiniteSet(S), NEW f, DOMAIN f = S
  PROVE  IsFiniteSet({f[x] : x \in S})
  <1>1. PICK T, g : T = {f[x] : x \in S} /\ g = [x \in S |-> f[x]]
    OBVIOUS
  <1>2. g \in Surjection(S, T)
    BY <1>1 DEF Surjection
  <1> QED
    BY <1>1, <1>2, FS_Surjection

LEMMA NodesFinite ==
  ASSUME NEW lengths, NEW n, TableOf(lengths, n)
  PROVE  Cardinality(Nodes(PathsOf(lengths))) \in Nat
  <1>1. PICK U, P : U = Used(lengths) /\ P = PathsOf(lengths)
    OBVIOUS
  <1>2. IsFiniteSet(U) /\ DOMAIN P = U
    <2>1. n \in Nat /\ U \in SUBSET (0 .. n - 1)
      BY <1>1, UsedFacts DEF TableOf
    <2>2. IsFiniteSet(0 .. n - 1)
      BY <2>1, FS_Interval
    <2> QED
      BY <1>1, <2>1, <2>2, FS_Subset DEF PathsOf
  <1>3. ASSUME NEW s \in U PROVE IsFiniteSet({SubSeq(P[s], 1, k) : k \in 1 .. Len(P[s])})
    <2>1. PICK l \in Nat : l = Len(P[s])
      <3>1. lengths[s] \in Nat
        BY <1>1, UsedFacts
      <3>2. P[s] = Path(SymbolCode(lengths, s), lengths[s])
        BY <1>1 DEF PathsOf
      <3>3. SymbolCode(lengths, s) \in Nat
        BY <1>1, SymbolCodeIs
      <3>4. Len(P[s]) = lengths[s]
        BY <3>1, <3>2, <3>3, PathIsSeq
      <3> QED
        BY <3>1, <3>4
    <2>2. PICK f : f = [k \in 1 .. l |-> SubSeq(P[s], 1, k)]
      OBVIOUS
    <2>3. IsFiniteSet(1 .. l) /\ DOMAIN f = 1 .. l
      BY <2>1, <2>2, FS_Interval
    <2>4. IsFiniteSet({f[k] : k \in 1 .. l})
      BY ONLY <2>3, ImageFinite
    <2>5. {f[k] : k \in 1 .. l} = {SubSeq(P[s], 1, k) : k \in 1 .. l}
      BY <2>2
    <2> QED
      BY <2>1, <2>4, <2>5
  <1>4. PICK F : F = [s \in U |-> {SubSeq(P[s], 1, k) : k \in 1 .. Len(P[s])}]
    OBVIOUS
  <1>5. PICK I : I = {F[s] : s \in U}
    OBVIOUS
  <1>6. IsFiniteSet(I)
    <2>1. IsFiniteSet(U) /\ DOMAIN F = U
      BY <1>2, <1>4
    <2>2. IsFiniteSet({F[s] : s \in U})
      BY ONLY <2>1, ImageFinite
    <2> QED
      BY <1>5, <2>2
  <1>7. \A T \in I : IsFiniteSet(T)
    BY <1>3, <1>4, <1>5
  <1>8. IsFiniteSet(UNION I)
    BY <1>6, <1>7, FS_UNION
  <1>9. Nodes(P) = {<<>>} \cup UNION I
    <2>1. I = {{SubSeq(P[s], 1, k) : k \in 1 .. Len(P[s])} : s \in DOMAIN P}
      BY <1>2, <1>4, <1>5
    <2> QED
      BY <2>1 DEF Nodes
  <1>10. IsFiniteSet(Nodes(P))
    <2>1. IsFiniteSet({<<>>})
      BY FS_Singleton
    <2> QED
      BY <1>8, <1>9, <2>1, FS_Union
  <1> QED
    BY <1>1, <1>10, FS_CardinalityType

\* The only tree that huffman_build chooses from.
Built(lengths, allow, paths) ==
    IF \/ Used(lengths) = {} /\ ~allow
       \/ \E l \in 1 .. MaxBits : Available(lengths)[l] < 0
       \/ \E s \in Used(lengths) : SymbolCode(lengths, s) >= pow2[lengths[s]]
       \/ \E r, s \in Used(lengths) : r # s /\ IsPrefix(paths[r], paths[s])
       \/ Cardinality(Nodes(paths)) > MaxNodes
    THEN NoTree
    ELSE [ok |-> TRUE, paths |-> paths]

LEMMA huffman_buildIs ==
  ASSUME NEW lengths, NEW allow
  PROVE  huffman_build(lengths, allow) = Built(lengths, allow, PathsOf(lengths))
  <1>1. {Built(lengths, allow, paths) : paths \in {PathsOf(lengths)}}
          = {Built(lengths, allow, PathsOf(lengths))}
    OBVIOUS
  <1>2. huffman_build(lengths, allow) =
          CHOOSE tree \in {Built(lengths, allow, paths) : paths \in {PathsOf(lengths)}} : TRUE
    BY DEF huffman_build, Built
  <1> QED
    BY <1>1, <1>2

LEMMA TableMatches ==
  ASSUME NEW lengths, NEW n, TableOf(lengths, n), NEW allow \in BOOLEAN
  PROVE  huffman_build(lengths, allow) = Reference(lengths, allow)
  <1>1. PICK P : P = PathsOf(lengths)
    OBVIOUS
  <1>2. /\ Used(lengths) \in SUBSET (0 .. n - 1)
        /\ \A s \in Used(lengths) : lengths[s] \in Nat
    BY UsedFacts
  <1>3. P = [s \in Used(lengths) |->
               Path(Space(lengths, Before(lengths, s)) \div pow2[MaxBits - lengths[s]], lengths[s])]
    BY <1>1, ReferenceCode DEF PathsOf
  <1>4. PICK w \in Nat : w = Taken(lengths, n, Used(lengths)) /\ w = Space(lengths, Used(lengths))
    BY <1>2, TakenNat, SpaceIsTaken
  <1>5. Reference(lengths, allow) =
          IF /\ Used(lengths) # {} \/ allow
             /\ w <= pow2[MaxBits]
             /\ Cardinality(Nodes(P)) <= MaxNodes
          THEN [ok |-> TRUE, paths |-> P]
          ELSE NoTree
    BY <1>3, <1>4 DEF Reference
  <1>6. huffman_build(lengths, allow) = Built(lengths, allow, P)
    BY <1>1, huffman_buildIs
  <1>7. CASE ~(w <= pow2[MaxBits])
    <2>1. \E l \in 1 .. MaxBits : Available(lengths)[l] < 0
      BY <1>4, <1>7, NoRoom
    <2> QED
      BY <1>5, <1>6, <1>7, <2>1 DEF Built
  <1>8. CASE w <= pow2[MaxBits]
    <2>1. /\ \A l \in 1 .. MaxBits : ~(Available(lengths)[l] < 0)
          /\ \A s \in Used(lengths) : ~(SymbolCode(lengths, s) >= pow2[lengths[s]])
      <3>1. ASSUME NEW s \in Used(lengths)
            PROVE  ~(SymbolCode(lengths, s) >= pow2[lengths[s]])
        <4>1. PICK c, p : c = SymbolCode(lengths, s) /\ p = pow2[lengths[s]]
          OBVIOUS
        <4>2. c \in Nat /\ c < p
          BY <1>4, <1>8, <4>1, FittingCodes
        <4>3. p \in Nat
          BY <1>2, <4>1, Pow2Def
        <4> QED
          BY <4>1, <4>2, <4>3
      <3> QED
        BY <1>4, <1>8, <3>1, FittingCodes
    <2>2. \A r, s \in Used(lengths) : ~(r # s /\ IsPrefix(P[r], P[s]))
      <3>1. \A s \in Used(lengths) : P[s] = Path(SymbolCode(lengths, s), lengths[s])
        BY <1>1 DEF PathsOf
      <3> QED
        BY <1>4, <1>8, <3>1, FittingPaths
    <2>3. Cardinality(Nodes(P)) > MaxNodes <=> ~(Cardinality(Nodes(P)) <= MaxNodes)
      <3>1. Cardinality(Nodes(P)) \in Nat
        BY <1>1, NodesFinite
      <3> QED
        BY <3>1, TreeAssumption
    <2> QED
      BY <1>5, <1>6, <1>8, <2>1, <2>2, <2>3 DEF Built
  <1> QED
    BY <1>7, <1>8

LEMMA AllTables == AllTablesMatch
  <1> SUFFICES ASSUME NEW lengths \in Tables, NEW allow \in BOOLEAN
               PROVE  huffman_build(lengths, allow) = Reference(lengths, allow)
    BY DEF AllTablesMatch
  <1>1. PICK n \in 1 .. MaxSymbols : lengths \in [0 .. n - 1 -> 0 .. MaxBits]
    BY DEF Tables
  <1>2. TableOf(lengths, n)
    BY <1>1, TreeAssumption DEF TableOf
  <1> QED
    BY <1>2, TableMatches

\* huffman_build gives a tree to exactly the tables whose codes fit into the
\* code space and whose nodes fit into the array, and the tree is that of the
\* canonical code, in which no code begins another, however long the tables
\* and their codes are (gzip_decode.c:382-474).
THEOREM TreesOfTables == Spec => []BuildMatchesReference
  <1>1. BuildMatchesReference
    BY AllTables DEF BuildMatchesReference
  <1> QED
    BY <1>1, PTL

====
