----------------------------- MODULE Lz77Proofs -----------------------------
(***************************************************************************)
(* Every block survives lz77_compress and lz77_decompress, for every size  *)
(* of window, chain, match and hash table that Lz77Format allows.          *)
(***************************************************************************)
EXTENDS Lz77Codec, TLAPS, SequenceTheorems

LEMMA Limits ==
  /\ MinMatch \in Nat /\ MaxMatch \in Nat /\ Window \in Nat
  /\ MinMatch >= 3 /\ Window >= 1
  BY FormatAssumption

\* A 16-bit field survives its split into two bytes.
LEMMA FieldRoundTrip ==
  ASSUME NEW v \in Nat, v < Radix * Radix
  PROVE  Low(v) \in Byte /\ High(v) \in Byte /\ Value(Low(v), High(v)) = v
  <1>1. Low(v) \in Byte
    BY FormatAssumption DEF Low, Byte
  <1>2. High(v) \in Nat /\ v = Radix * High(v) + Low(v)
    BY FormatAssumption DEF Low, High
  <1>3. High(v) < Radix
    <2>1. SUFFICES ASSUME High(v) >= Radix PROVE FALSE
      BY <1>2, FormatAssumption
    <2>2. Radix * High(v) >= Radix * Radix
      BY <2>1, <1>2, FormatAssumption
    <2> QED
      BY <2>2, <1>1, <1>2, FormatAssumption DEF Byte
  <1>4. Value(Low(v), High(v)) = v
    BY <1>1, <1>2, FormatAssumption DEF Value, Byte
  <1> QED
    BY <1>1, <1>2, <1>3, <1>4, FormatAssumption DEF Byte

\* Where insert_position may look a hash up, it is an index of head.
LEMMA HashInRange ==
  ASSUME EncTypeOK, NEW p \in Nat, p + MinMatch <= Size
  PROVE  hash_bytes(p) \in 0 .. HashSize - 1
  <1> DEFINE n == Len(input)
  <1>0. n \in Nat /\ p + 2 < n /\ \A q \in 1 .. n : input[q] \in Byte
    BY FormatAssumption DEF EncTypeOK, Size
  <1>1. In(p) \in Nat /\ In(p + 1) \in Nat /\ In(p + 2) \in Nat
    <2>1. p + 1 \in 1 .. n /\ p + 1 + 1 \in 1 .. n /\ p + 2 + 1 \in 1 .. n
      BY <1>0
    <2> HIDE DEF n
    <2>2. In(p) \in Byte /\ In(p + 1) \in Byte /\ In(p + 2) \in Byte
      BY <1>0, <2>1 DEF In
    <2> QED
      BY <2>2 DEF Byte
  <1>2. ASSUME NEW x \in Nat, NEW y \in Nat, NEW z \in Nat
        PROVE  ((x * HashBase + y) * HashBase + z) \in Nat
    BY EncoderAssumption
  <1>3. (In(p) * HashBase + In(p + 1)) * HashBase + In(p + 2) \in Nat
    BY <1>1, <1>2
  <1> QED
    BY <1>3, EncoderAssumption DEF hash_bytes

EncInv == EncTypeOK /\ PositionInv /\ ChainInv /\ BestIsMatch /\ MarksInv

\* The two tokens are bytes, and a match token carries its two fields.
LEMMA TokenBytes ==
  /\ \A b \in Byte : LiteralToken(b) \in Seq(Byte) /\ Len(LiteralToken(b)) = 2
  /\ \A l, d \in Nat : l < Radix * Radix /\ d < Radix * Radix =>
        /\ MatchToken(l, d) \in Seq(Byte)
        /\ Len(MatchToken(l, d)) = 5
        /\ Value(MatchToken(l, d)[2], MatchToken(l, d)[3]) = l
        /\ Value(MatchToken(l, d)[4], MatchToken(l, d)[5]) = d
  <1>1. TOKEN_LITERAL \in Byte /\ TOKEN_MATCH \in Byte
    BY FormatAssumption DEF TOKEN_LITERAL, TOKEN_MATCH, Byte
  <1>2. \A b \in Byte : LiteralToken(b) \in Seq(Byte) /\ Len(LiteralToken(b)) = 2
    BY <1>1 DEF LiteralToken
  <1>3. ASSUME NEW l \in Nat, NEW d \in Nat, l < Radix * Radix, d < Radix * Radix
        PROVE  /\ MatchToken(l, d) \in Seq(Byte)
               /\ Len(MatchToken(l, d)) = 5
               /\ Value(MatchToken(l, d)[2], MatchToken(l, d)[3]) = l
               /\ Value(MatchToken(l, d)[4], MatchToken(l, d)[5]) = d
    <2>1. /\ Low(l) \in Byte /\ High(l) \in Byte /\ Value(Low(l), High(l)) = l
          /\ Low(d) \in Byte /\ High(d) \in Byte /\ Value(Low(d), High(d)) = d
      BY <1>3, FieldRoundTrip
    <2> QED
      BY <1>1, <2>1 DEF MatchToken
  <1> QED
    BY <1>2, <1>3

----------------------------------------------------------------------------

LEMMA EncInitInv == EncInit => EncInv
  <1> SUFFICES ASSUME EncInit PROVE EncInv
    OBVIOUS
  <1>1. input \in Seq(Byte)
    BY DEF EncInit
  <1>2. marks \in Seq([at : Nat, offset : Nat])
    BY DEF EncInit
  <1>3. EncTypeOK
    BY <1>1, <1>2, EncoderAssumption DEF EncInit, EncTypeOK
  <1>4. PositionInv /\ ChainInv /\ BestIsMatch
    BY <1>1 DEF EncInit, PositionInv, ChainInv, BestIsMatch, Reached, Indexed, Size
  <1>5. MarksInv
    BY DEF EncInit, MarksInv, Reached
  <1> QED
    BY <1>3, <1>4, <1>5 DEF EncInv

\* What Emit does with a token of these bytes for so many input bytes.
LEMMA EmitFacts ==
  ASSUME EncInv, epc = "emit",
         NEW bytes \in Seq(Byte), NEW covers \in Nat, Emit(bytes, covers),
         Len(bytes) <= 2 * covers, position + covers <= Size
  PROVE  /\ EncTypeOK' /\ PositionInv' /\ ChainInv'
         /\ encoded' \in Seq(Byte)
         /\ Len(encoded') = Len(encoded) + Len(bytes)
         /\ \A i \in 1 .. Len(encoded) : encoded'[i] = encoded[i]
         /\ \A i \in 1 .. Len(bytes) : encoded'[Len(encoded) + i] = bytes[i]
         /\ marks' \in Seq([at : Nat, offset : Nat])
         /\ Len(marks') = Len(marks) + 1
         /\ \A k \in 1 .. Len(marks) : marks'[k] = marks[k]
         /\ marks'[Len(marks) + 1] =
               [at |-> position + covers, offset |-> Len(encoded) + Len(bytes)]
         /\ Reached' = position + covers
  <1> USE DEF searchVars, tableVars
  <1>1. encoded \in Seq(Byte) /\ encoded' = encoded \o bytes
    BY DEF EncInv, EncTypeOK, Emit
  <1>2. /\ encoded' \in Seq(Byte)
        /\ Len(encoded') = Len(encoded) + Len(bytes)
        /\ \A i \in 1 .. Len(encoded) : encoded'[i] = encoded[i]
        /\ \A i \in 1 .. Len(bytes) : encoded'[Len(encoded) + i] = bytes[i]
    BY <1>1, ConcatProperties
  <1> DEFINE mark == [at |-> position + covers,
                      offset |-> Len(encoded) + Len(bytes)]
  <1>3. /\ mark \in [at : Nat, offset : Nat]
        /\ marks' = Append(marks, mark)
        /\ marks \in Seq([at : Nat, offset : Nat])
    BY <1>1, <1>2 DEF Emit, EncInv, EncTypeOK
  <1>4. /\ marks' \in Seq([at : Nat, offset : Nat])
        /\ Len(marks') = Len(marks) + 1
        /\ \A k \in 1 .. Len(marks) : marks'[k] = marks[k]
        /\ marks'[Len(marks) + 1] = mark
    <2> HIDE DEF mark
    <2> QED
      BY <1>3, AppendProperties
  <1>5. EncTypeOK'
    BY <1>2, <1>4 DEF Emit, EncInv, EncTypeOK
  <1>6. PositionInv' /\ Reached' = position + covers
    BY <1>1, <1>2 DEF Emit, EncInv, EncTypeOK, PositionInv, Reached, Size
  <1>7. ChainInv'
    BY DEF Emit, EncInv, EncTypeOK, ChainInv, Indexed
  <1> QED
    BY <1>2, <1>4, <1>5, <1>6, <1>7

\* The two uses of Emit satisfy what EmitFacts asks for.
LEMMA LiteralFits ==
  ASSUME EncInv, EmitLiteral
  PROVE  /\ epc = "emit" /\ In(position) \in Byte
         /\ LiteralToken(In(position)) \in Seq(Byte)
         /\ Emit(LiteralToken(In(position)), 1)
         /\ Len(LiteralToken(In(position))) <= 2 * 1
         /\ position + 1 <= Size
  <1>1. epc = "emit" /\ Emit(LiteralToken(In(position)), 1)
    BY DEF EmitLiteral
  <1>2. position < Size /\ position \in Nat /\ Size \in Nat
    BY <1>1 DEF EncInv, EncTypeOK, PositionInv, Size
  <1>3. In(position) \in Byte
    BY <1>2 DEF EncInv, EncTypeOK, In, Size
  <1>4. /\ LiteralToken(In(position)) \in Seq(Byte)
        /\ Len(LiteralToken(In(position))) = 2
    BY <1>3, TokenBytes
  <1> QED
    BY <1>1, <1>2, <1>3, <1>4

LEMMA FieldsSmall ==
  ASSUME EncInv, epc = "emit", bestLength >= MinMatch
  PROVE  bestLength < Radix * Radix /\ bestDistance < Radix * Radix
  <1>1. /\ bestLength \in MinMatch .. MaxMatch
        /\ bestDistance \in 1 .. Window
    BY FormatAssumption DEF EncInv, EncTypeOK, BestIsMatch
  <1> DEFINE square == Radix * Radix
  <1>2. square \in Nat /\ MaxMatch < square /\ Window < square
    BY FormatAssumption
  <1> HIDE DEF square
  <1>3. bestLength < square /\ bestDistance < square
    BY <1>1, <1>2, FormatAssumption
  <1> QED
    BY <1>3 DEF square

LEMMA MatchFits ==
  ASSUME EncInv, EmitMatch
  PROVE  /\ epc = "emit"
         /\ bestLength \in MinMatch .. MaxMatch
         /\ bestDistance \in 1 .. Window
         /\ MatchToken(bestLength, bestDistance) \in Seq(Byte)
         /\ Emit(MatchToken(bestLength, bestDistance), bestLength)
         /\ Len(MatchToken(bestLength, bestDistance)) <= 2 * bestLength
         /\ position + bestLength <= Size
  <1>1. /\ epc = "emit" /\ bestLength >= MinMatch
        /\ Emit(MatchToken(bestLength, bestDistance), bestLength)
    BY DEF EmitMatch
  <1>2. /\ bestLength \in MinMatch .. MaxMatch /\ bestLength \in Nat
        /\ bestDistance \in 1 .. Window /\ bestDistance \in Nat
        /\ position + bestLength <= Size
    BY <1>1, FormatAssumption DEF EncInv, EncTypeOK, BestIsMatch
  <1>3. bestLength < Radix * Radix /\ bestDistance < Radix * Radix
    BY <1>1, FieldsSmall
  <1>4. /\ MatchToken(bestLength, bestDistance) \in Seq(Byte)
        /\ Len(MatchToken(bestLength, bestDistance)) = 5
    BY <1>2, <1>3, TokenBytes
  <1> QED
    BY <1>1, <1>2, <1>4, FormatAssumption

\* A candidate that the search looks at was written, and is in the window.
LEMMA CandidateBehind ==
  ASSUME EncInv, epc = "search", ~SearchEnds
  PROVE  /\ candidate \in DOMAIN previous
         /\ candidate \in 0 .. position - 1
         /\ position - candidate <= Window
  <1>1. candidate \in Int /\ candidate >= 0 /\ ~(position - candidate > Window)
    BY DEF SearchEnds, EncInv, EncTypeOK
  <1>2. candidate \in DOMAIN previous
    BY <1>1 DEF EncInv, ChainInv
  <1>3. DOMAIN previous \subseteq 0 .. position - 1
    BY DEF EncInv, ChainInv, Indexed
  <1>4. Window \in Int /\ position \in Int
    BY FormatAssumption DEF EncInv, EncTypeOK
  <1>5. position - candidate <= Window
    BY <1>1, <1>4
  <1> QED
    BY <1>2, <1>3, <1>5

LEMMA EncTypeStep == EncInv /\ Encode => EncTypeOK'
  <1> SUFFICES ASSUME EncInv, Encode PROVE EncTypeOK'
    OBVIOUS
  <1> USE DEF searchVars, tableVars, outVars
  <1>1. CASE BeginToken
    BY <1>1, HashInRange, FormatAssumption, EncoderAssumption DEF BeginToken, EncInv, EncTypeOK
  <1>2. CASE EndSearch
    BY <1>2, FormatAssumption, EncoderAssumption DEF EndSearch, EncInv, EncTypeOK
  <1>3. CASE TryCandidate
    <2>1. bestLength' \in Nat /\ bestDistance' \in Nat
      <3>1. /\ candidate \in 0 .. position - 1 /\ position \in Nat
            /\ bestLength \in Nat /\ bestDistance \in Nat
        BY <1>3, CandidateBehind DEF TryCandidate, EncInv, EncTypeOK
      <3>2. Limit \in Nat
        BY <1>3, FormatAssumption
           DEF TryCandidate, Limit, EncInv, EncTypeOK, PositionInv, Size
      <3>3. PICK len \in 0 .. Limit :
               IF len > bestLength
               THEN bestLength' = len /\ bestDistance' = position - candidate
               ELSE UNCHANGED <<bestLength, bestDistance>>
        BY <1>3 DEF TryCandidate
      <3> QED
        BY <3>1, <3>2, <3>3
    <2>2. candidate' \in Int /\ searched' \in Nat
      BY <1>3 DEF TryCandidate, EncInv, EncTypeOK, Previous, Size
    <2> QED
      BY <1>3, <2>1, <2>2 DEF TryCandidate, EncInv, EncTypeOK
  <1>4. CASE EmitMatch
    <2>1. bestLength \in Nat
      BY DEF EncInv, EncTypeOK
    <2> QED
      BY <1>4, <2>1, MatchFits, EmitFacts
  <1>5. CASE EmitLiteral
    BY <1>5, LiteralFits, EmitFacts
  <1>6. CASE InsertNext
    <2>1. position + inserted \in Nat
      BY DEF EncInv, EncTypeOK
    <2>2. head' \in [0 .. HashSize - 1 -> Int]
      BY <1>6, <2>1 DEF InsertNext, insert_position, EncInv, EncTypeOK
    <2>3. \A p \in DOMAIN previous' : previous'[p] \in Int
      <3>1. CASE position + inserted + MinMatch > Size
        BY <1>6, <3>1 DEF InsertNext, insert_position, EncInv, EncTypeOK
      <3>2. CASE ~(position + inserted + MinMatch > Size)
        <4>1. hash_bytes(position + inserted) \in 0 .. HashSize - 1
          BY <2>1, <3>2, HashInRange, FormatAssumption DEF EncInv, EncTypeOK, Size
        <4> QED
          BY <1>6, <3>2, <4>1 DEF InsertNext, insert_position, EncInv, EncTypeOK
      <3> QED
        BY <3>1, <3>2
    <2> QED
      BY <1>6, <2>2, <2>3 DEF InsertNext, EncInv, EncTypeOK
  <1>7. CASE Advance
    BY <1>7, FormatAssumption, EncoderAssumption DEF Advance, EncInv, EncTypeOK
  <1>8. CASE FinishEncoding
    BY <1>8, FormatAssumption, EncoderAssumption DEF FinishEncoding, EncInv, EncTypeOK
  <1> QED
    BY <1>1, <1>2, <1>3, <1>4, <1>5, <1>6, <1>7, <1>8 DEF Encode

LEMMA PositionStep == EncInv /\ Encode => PositionInv'
  <1> SUFFICES ASSUME EncInv, Encode PROVE PositionInv'
    OBVIOUS
  <1> USE DEF searchVars, tableVars, outVars
  <1>1. CASE BeginToken
    BY <1>1, FormatAssumption DEF BeginToken, EncInv, EncTypeOK, PositionInv, Reached, Size
  <1>2. CASE EndSearch
    BY <1>2, FormatAssumption DEF EndSearch, EncInv, EncTypeOK, PositionInv, Reached, Size
  <1>3. CASE TryCandidate
    BY <1>3, FormatAssumption DEF TryCandidate, EncInv, EncTypeOK, PositionInv, Reached, Size
  <1>4. CASE EmitMatch
    <2>1. bestLength \in Nat
      BY DEF EncInv, EncTypeOK
    <2> QED
      BY <1>4, <2>1, MatchFits, EmitFacts
  <1>5. CASE EmitLiteral
    BY <1>5, LiteralFits, EmitFacts
  <1>6. CASE InsertNext
    BY <1>6, FormatAssumption DEF InsertNext, EncInv, EncTypeOK, PositionInv, Reached, Size
  <1>7. CASE Advance
    BY <1>7, FormatAssumption DEF Advance, EncInv, EncTypeOK, PositionInv, Reached, Size
  <1>8. CASE FinishEncoding
    BY <1>8, FormatAssumption DEF FinishEncoding, EncInv, EncTypeOK, PositionInv, Reached, Size
  <1> QED
    BY <1>1, <1>2, <1>3, <1>4, <1>5, <1>6, <1>7, <1>8 DEF Encode

LEMMA ChainStep == EncInv /\ Encode => ChainInv'
  <1> SUFFICES ASSUME EncInv, Encode PROVE ChainInv'
    OBVIOUS
  <1> USE DEF searchVars, tableVars, outVars
  <1>1. CASE BeginToken
    BY <1>1, HashInRange, FormatAssumption DEF BeginToken, EncInv, EncTypeOK, PositionInv, ChainInv, Indexed, Size
  <1>2. CASE EndSearch
    BY <1>2, FormatAssumption DEF EndSearch, EncInv, EncTypeOK, PositionInv, ChainInv, Indexed, Size, SearchEnds
  <1>3. CASE TryCandidate
    BY <1>3, FormatAssumption DEF TryCandidate, EncInv, EncTypeOK, PositionInv, ChainInv, Indexed, Size, Previous, SearchEnds
  <1>4. CASE EmitMatch
    BY <1>4, FormatAssumption DEF EmitMatch, EncInv, EncTypeOK, PositionInv, ChainInv, Indexed, Size, Emit
  <1>5. CASE EmitLiteral
    BY <1>5, FormatAssumption DEF EmitLiteral, EncInv, EncTypeOK, PositionInv, ChainInv, Indexed, Size, Emit
  <1>6. CASE InsertNext
    <2> DEFINE p == position + inserted
    <2>1. /\ p \in Nat /\ Indexed = p /\ Indexed' = p + 1
          /\ epc' = epc /\ epc = "insert"
      BY <1>6 DEF InsertNext, EncInv, EncTypeOK, Indexed
    <2>2. CASE p + MinMatch > Size
      <3>1. head' = head /\ previous' = previous
        BY <1>6, <2>2 DEF InsertNext, insert_position
      <3> HIDE DEF p
      <3> QED
        BY <2>1, <3>1 DEF EncInv, ChainInv
    <2>3. CASE ~(p + MinMatch > Size)
      <3> DEFINE h == hash_bytes(p)
      <3>1. h \in 0 .. HashSize - 1
        BY <2>1, <2>3, HashInRange, FormatAssumption DEF EncInv, EncTypeOK, Size
      <3>2. /\ previous' = [q \in DOMAIN previous \cup {p} |->
                               IF q = p THEN head[h] ELSE previous[q]]
            /\ head' = [head EXCEPT ![h] = p]
        BY <1>6, <2>3 DEF InsertNext, insert_position
      <3>3. /\ DOMAIN previous \subseteq 0 .. p - 1
            /\ head[h] = -1 \/ head[h] \in DOMAIN previous
        BY <2>1, <3>1 DEF EncInv, ChainInv
      <3> HIDE DEF p, h
      <3>4. DOMAIN previous' = DOMAIN previous \cup {p} /\ p \notin DOMAIN previous
        BY <2>1, <3>2, <3>3
      <3>5. DOMAIN previous' \subseteq 0 .. Indexed' - 1
        BY <2>1, <3>3, <3>4
      <3>6. \A g \in 0 .. HashSize - 1 : head'[g] = -1 \/ head'[g] \in DOMAIN previous'
        BY <3>1, <3>2, <3>4 DEF EncInv, EncTypeOK, ChainInv
      <3>7. \A q \in DOMAIN previous' :
               previous'[q] = -1 \/ (previous'[q] \in DOMAIN previous' /\ previous'[q] < q)
        BY <2>1, <3>2, <3>3, <3>4 DEF EncInv, ChainInv
      <3> QED
        BY <2>1, <3>5, <3>6, <3>7 DEF ChainInv
    <2> QED
      BY <2>2, <2>3
  <1>7. CASE Advance
    BY <1>7, FormatAssumption DEF Advance, EncInv, EncTypeOK, PositionInv, ChainInv, Indexed, Size
  <1>8. CASE FinishEncoding
    BY <1>8, FormatAssumption DEF FinishEncoding, EncInv, EncTypeOK, PositionInv, ChainInv, Indexed, Size
  <1> QED
    BY <1>1, <1>2, <1>3, <1>4, <1>5, <1>6, <1>7, <1>8 DEF Encode

LEMMA BestStep == EncInv /\ Encode => BestIsMatch'
  <1> SUFFICES ASSUME EncInv, Encode PROVE BestIsMatch'
    OBVIOUS
  <1> USE DEF searchVars, tableVars, outVars
  <1>1. CASE BeginToken
    BY <1>1, FormatAssumption DEF BeginToken, EncInv, EncTypeOK, PositionInv, ChainInv, BestIsMatch, Indexed, Agree, In, Size
  <1>2. CASE EndSearch
    BY <1>2, FormatAssumption DEF EndSearch, EncInv, EncTypeOK, PositionInv, ChainInv, BestIsMatch, Indexed, Agree, In, Size
  <1>3. CASE TryCandidate
    <2>1. /\ candidate \in DOMAIN previous /\ candidate \in 0 .. position - 1
          /\ position - candidate <= Window
      BY <1>3, CandidateBehind DEF TryCandidate
    <2>2. PICK len \in 0 .. Limit :
             /\ MatchLength(candidate, len)
             /\ IF len > bestLength
                THEN bestLength' = len /\ bestDistance' = position - candidate
                ELSE UNCHANGED <<bestLength, bestDistance>>
      BY <1>3 DEF TryCandidate
    <2>3. Limit \in Nat /\ position + Limit <= Size /\ Limit <= MaxMatch
      BY <1>3, FormatAssumption
         DEF TryCandidate, Limit, EncInv, EncTypeOK, PositionInv, Size
    <2>4. position' = position /\ input' = input /\ position \in Nat /\ epc = "search"
      BY <1>3 DEF TryCandidate, EncInv, EncTypeOK
    <2>5. CASE len > bestLength
      <3>1. bestLength' = len /\ bestDistance' = position - candidate
        BY <2>2, <2>5
      <3>2. bestDistance' \in 1 .. Window /\ bestDistance' <= position
        BY <2>1, <2>4, <3>1, FormatAssumption
      <3>3. position - bestDistance' = candidate
        BY <2>1, <2>4, <3>1
      <3>4. Agree(candidate, len)
        BY <2>2 DEF MatchLength
      <3>5. (Agree(position - bestDistance, bestLength))'
        BY <2>4, <3>1, <3>3, <3>4 DEF Agree, In
      <3> QED
        BY <2>2, <2>3, <2>4, <3>1, <3>2, <3>5, FormatAssumption DEF BestIsMatch, Size
    <2>6. CASE ~(len > bestLength)
      BY <2>2, <2>4, <2>6 DEF EncInv, BestIsMatch, Agree, In, Size
    <2> QED
      BY <2>5, <2>6
  <1>4. CASE EmitMatch
    BY <1>4, FormatAssumption DEF EmitMatch, EncInv, EncTypeOK, PositionInv, ChainInv, BestIsMatch, Indexed, Agree, In, Size, Emit
  <1>5. CASE EmitLiteral
    BY <1>5, FormatAssumption DEF EmitLiteral, EncInv, EncTypeOK, PositionInv, ChainInv, BestIsMatch, Indexed, Agree, In, Size, Emit
  <1>6. CASE InsertNext
    BY <1>6, FormatAssumption DEF InsertNext, EncInv, EncTypeOK, PositionInv, ChainInv, BestIsMatch, Indexed, Agree, In, Size
  <1>7. CASE Advance
    BY <1>7, FormatAssumption DEF Advance, EncInv, EncTypeOK, PositionInv, ChainInv, BestIsMatch, Indexed, Agree, In, Size
  <1>8. CASE FinishEncoding
    BY <1>8, FormatAssumption DEF FinishEncoding, EncInv, EncTypeOK, PositionInv, ChainInv, BestIsMatch, Indexed, Agree, In, Size
  <1> QED
    BY <1>1, <1>2, <1>3, <1>4, <1>5, <1>6, <1>7, <1>8 DEF Encode

----------------------------------------------------------------------------

\* A token written earlier stays what it was when bytes are appended.
LEMMA TokensKeep ==
  ASSUME EncInv, input' = input,
         Len(encoded') \in Nat, Len(encoded') >= Len(encoded),
         \A i \in 1 .. Len(encoded) : encoded'[i] = encoded[i],
         \A k \in 1 .. Len(marks) : marks'[k] = marks[k],
         NEW j \in 1 .. Len(marks) - 1
  PROVE  marks'[j + 1].offset <= Len(encoded') /\ (LiteralAt(j) \/ MatchAt(j))'
  <1> DEFINE o == marks[j].offset
             n == Len(encoded)
             M == [at : Nat, offset : Nat]
  <1>1. marks \in Seq(M) /\ n \in Nat
    BY DEF EncInv, EncTypeOK
  <1>2. j \in 1 .. Len(marks) /\ j + 1 \in 1 .. Len(marks) /\ Len(marks) \in Nat
    BY <1>1
  <1>3. marks[j] \in M /\ marks[j + 1] \in M
    <2> HIDE DEF M
    <2> QED
      BY <1>1, <1>2
  <1>4. marks'[j] = marks[j] /\ marks'[j + 1] = marks[j + 1]
    BY <1>2
  <1>5. o \in Nat /\ marks[j + 1].offset \in Nat
    BY <1>3
  <1>6. marks[j + 1].offset <= n /\ (LiteralAt(j) \/ MatchAt(j))
    BY DEF EncInv, MarksInv
  <1>7. marks'[j + 1].offset <= Len(encoded')
    BY <1>1, <1>4, <1>5, <1>6
  <1>8. CASE LiteralAt(j)
    <2>1. o + 2 <= n
      BY <1>5, <1>6, <1>8 DEF LiteralAt
    <2> HIDE DEF o, n
    <2>2. o + 1 \in 1 .. n /\ o + 2 \in 1 .. n
      BY <1>1, <1>5, <2>1
    <2>3. encoded'[o + 1] = encoded[o + 1] /\ encoded'[o + 2] = encoded[o + 2]
      BY <2>2 DEF n
    <2> QED
      BY <1>4, <1>7, <1>8, <2>3 DEF LiteralAt, Size, In, o
  <1>9. CASE MatchAt(j)
    <2>1. o + 5 <= n
      BY <1>5, <1>6, <1>9 DEF MatchAt
    <2> HIDE DEF o, n
    <2>2. /\ o + 1 \in 1 .. n /\ o + 2 \in 1 .. n /\ o + 3 \in 1 .. n
          /\ o + 4 \in 1 .. n /\ o + 5 \in 1 .. n
      BY <1>1, <1>5, <2>1
    <2>3. /\ encoded'[o + 1] = encoded[o + 1] /\ encoded'[o + 2] = encoded[o + 2]
          /\ encoded'[o + 3] = encoded[o + 3] /\ encoded'[o + 4] = encoded[o + 4]
          /\ encoded'[o + 5] = encoded[o + 5]
      BY <2>2 DEF n
    <2> QED
      BY <1>4, <1>7, <1>9, <2>3 DEF MatchAt, Size, In, o
  <1> QED
    BY <1>6, <1>7, <1>8, <1>9

\* Emit adds one mark: the tokens stay well formed if the new one is.
LEMMA EmitMarks ==
  ASSUME EncInv, epc = "emit",
         NEW bytes \in Seq(Byte), NEW covers \in Nat, Emit(bytes, covers),
         Len(bytes) <= 2 * covers, position + covers <= Size,
         NEW m \in Nat, m = Len(marks), (LiteralAt(m) \/ MatchAt(m))'
  PROVE  MarksInv'
  <1> DEFINE n == Len(encoded)
  <1>1. /\ Len(encoded') = n + Len(bytes)
        /\ \A i \in 1 .. n : encoded'[i] = encoded[i]
        /\ Len(marks') = m + 1
        /\ \A k \in 1 .. m : marks'[k] = marks[k]
        /\ marks'[m + 1] = [at |-> position + covers, offset |-> n + Len(bytes)]
        /\ Reached' = position + covers
    BY EmitFacts
  <1>2. input' = input /\ Len(bytes) \in Nat /\ n \in Nat
    BY DEF Emit, EncInv, EncTypeOK
  <1>3. m >= 1 /\ marks[1] = [at |-> 0, offset |-> 0]
    BY DEF EncInv, MarksInv
  <1>4. \A k \in 1 .. m - 1 :
           marks'[k + 1].offset <= Len(encoded') /\ (LiteralAt(k) \/ MatchAt(k))'
    BY <1>1, <1>2, TokensKeep
  <1>5. marks'[m + 1].offset <= Len(encoded')
    BY <1>1, <1>2
  <1>6. marks'[1] = [at |-> 0, offset |-> 0]
    BY <1>1, <1>3
  <1>7. marks'[Len(marks')] = [at |-> Reached', offset |-> Len(encoded')]
    BY <1>1
  <1>8. \A k \in 1 .. Len(marks') - 1 : k \in 1 .. m - 1 \/ k = m
    BY <1>1
  <1> HIDE DEF n
  <1>9. \A k \in 1 .. Len(marks') - 1 :
           marks'[k + 1].offset <= Len(encoded') /\ (LiteralAt(k) \/ MatchAt(k))'
    BY <1>4, <1>5, <1>8
  <1> QED
    BY <1>1, <1>3, <1>6, <1>7, <1>9 DEF MarksInv

LEMMA MarksStep == EncInv /\ Encode => MarksInv'
  <1> SUFFICES ASSUME EncInv, Encode PROVE MarksInv'
    OBVIOUS
  <1>0. PICK m \in Nat : m = Len(marks)
    BY DEF EncInv, EncTypeOK
  <1> DEFINE n == Len(encoded)
  <1>1. n \in Nat /\ m >= 1
    BY <1>0 DEF EncInv, EncTypeOK, MarksInv
  <1>2. epc = "emit" => marks[m] = [at |-> position, offset |-> n]
    BY <1>0 DEF EncInv, MarksInv, Reached
  <1>3. position \in Nat /\ Size \in Nat
    BY DEF EncInv, EncTypeOK, Size
  <1>4. CASE EmitLiteral
    <2> DEFINE bytes == LiteralToken(In(position))
    <2>1. /\ epc = "emit" /\ bytes \in Seq(Byte) /\ Emit(bytes, 1)
          /\ In(position) \in Byte /\ position + 1 <= Size
          /\ Len(bytes) <= 2 * 1
      BY <1>4, LiteralFits
    <2>2. Len(bytes) = 2 /\ bytes[1] = TOKEN_LITERAL /\ bytes[2] = In(position)
      BY <2>1, TokenBytes DEF LiteralToken
    <2> HIDE DEF bytes
    <2>10. /\ \A i \in 1 .. Len(bytes) : encoded'[Len(encoded) + i] = bytes[i]
          /\ \A k \in 1 .. Len(marks) : marks'[k] = marks[k]
          /\ marks'[Len(marks) + 1] =
                [at |-> position + 1, offset |-> Len(encoded) + Len(bytes)]
      BY <2>1, EmitFacts
    <2>11. input' = input
      BY <2>1 DEF Emit
    <2>3. /\ input' = input
          /\ marks'[m] = [at |-> position, offset |-> n]
          /\ marks'[m + 1] = [at |-> position + 1, offset |-> n + 2]
          /\ encoded'[n + 1] = bytes[1] /\ encoded'[n + 2] = bytes[2]
      BY <1>0, <1>1, <1>2, <2>1, <2>2, <2>10, <2>11
    <2>4. (LiteralAt(m))'
      BY <1>1, <1>3, <2>1, <2>2, <2>3 DEF LiteralAt, Size, In
    <2> QED
      BY <1>0, <2>1, <2>4, EmitMarks
  <1>5. CASE EmitMatch
    <2> DEFINE bytes == MatchToken(bestLength, bestDistance)
    <2>1. /\ epc = "emit" /\ bytes \in Seq(Byte) /\ Emit(bytes, bestLength)
          /\ bestLength \in MinMatch .. MaxMatch
          /\ bestDistance \in 1 .. Window
          /\ Len(bytes) <= 2 * bestLength /\ position + bestLength <= Size
      BY <1>5, MatchFits
    <2>0. bestLength \in Nat /\ bestDistance \in Nat
      BY DEF EncInv, EncTypeOK
    <2>2. bestLength < Radix * Radix /\ bestDistance < Radix * Radix
      BY <1>5, FieldsSmall DEF EmitMatch
    <2>3. /\ Len(bytes) = 5 /\ bytes[1] = TOKEN_MATCH
          /\ Value(bytes[2], bytes[3]) = bestLength
          /\ Value(bytes[4], bytes[5]) = bestDistance
      BY <2>0, <2>2, TokenBytes DEF MatchToken
    <2>4. /\ bestDistance <= position
          /\ Agree(position - bestDistance, bestLength)
      BY <2>1, FormatAssumption DEF EncInv, BestIsMatch
    <2> HIDE DEF bytes
    <2>10. /\ \A i \in 1 .. Len(bytes) : encoded'[Len(encoded) + i] = bytes[i]
          /\ \A k \in 1 .. Len(marks) : marks'[k] = marks[k]
          /\ marks'[Len(marks) + 1] =
                [at |-> position + bestLength,
                 offset |-> Len(encoded) + Len(bytes)]
      BY <2>0, <2>1, EmitFacts
    <2>11. input' = input
      BY <2>1 DEF Emit
    <2>5. /\ input' = input
          /\ marks'[m] = [at |-> position, offset |-> n]
          /\ marks'[m + 1] = [at |-> position + bestLength, offset |-> n + 5]
          /\ \A i \in 1 .. 5 : encoded'[n + i] = bytes[i]
      BY <1>0, <1>1, <1>2, <2>1, <2>3, <2>10, <2>11
    <2>6. /\ encoded'[n + 1] = bytes[1] /\ encoded'[n + 2] = bytes[2]
          /\ encoded'[n + 3] = bytes[3] /\ encoded'[n + 4] = bytes[4]
          /\ encoded'[n + 5] = bytes[5]
      BY <2>5
    <2>7. \A i \in 0 .. bestLength - 1 :
             input'[position - bestDistance + i + 1] = input'[position + i + 1]
      BY <2>4, <2>5 DEF Agree, In
    <2>8. /\ Value(encoded'[n + 2], encoded'[n + 3]) = bestLength
          /\ Value(encoded'[n + 4], encoded'[n + 5]) = bestDistance
      BY <2>3, <2>6
    <2> HIDE DEF n
    <2>12. /\ marks'[m].at = position /\ marks'[m].offset = n
          /\ marks'[m + 1].at = position + bestLength
          /\ marks'[m + 1].offset = n + 5
          /\ encoded'[n + 1] = TOKEN_MATCH
          /\ position + bestLength <= Len(input')
      BY <2>1, <2>3, <2>5, <2>6 DEF Size
    <2>9. (MatchAt(m))'
      <3> QED
        BY <1>1, <1>3, <2>0, <2>1, <2>4, <2>7, <2>8, <2>12 DEF MatchAt, Size, In
    <2> QED
      BY <1>0, <2>0, <2>1, <2>9, EmitMarks
  <1>6. CASE BeginToken \/ EndSearch \/ TryCandidate \/ InsertNext \/ Advance
             \/ FinishEncoding
    <2>1. /\ input' = input /\ encoded' = encoded /\ marks' = marks
          /\ Reached' = Reached
      BY <1>6 DEF BeginToken, EndSearch, TryCandidate, InsertNext, Advance,
                  FinishEncoding, outVars, Reached, EncInv, EncTypeOK, PositionInv
    <2> QED
      BY <2>1 DEF EncInv, MarksInv, LiteralAt, MatchAt, Size, In
  <1> QED
    BY <1>4, <1>5, <1>6 DEF Encode

\* The encoder alone keeps its invariant.
LEMMA EncodeKeeps == EncInv /\ Encode => EncInv'
  BY EncTypeStep, PositionStep, ChainStep, BestStep, MarksStep DEF EncInv

----------------------------------------------------------------------------

\* Every mark is a pair of naturals, and no mark lies behind the block.
LEMMA MarksAreNat ==
  ASSUME EncInv, NEW k \in 1 .. Len(marks)
  PROVE  marks[k].at \in Nat /\ marks[k].offset \in Nat
  <1> DEFINE M == [at : Nat, offset : Nat]
  <1>1. marks \in Seq(M)
    BY DEF EncInv, EncTypeOK
  <1>2. marks[k] \in M
    <2> HIDE DEF M
    <2> QED
      BY <1>1
  <1> QED
    BY <1>2

LEMMA TokenEnds ==
  ASSUME EncInv, NEW k \in 1 .. Len(marks) - 1
  PROVE  /\ LiteralAt(k) \/ MatchAt(k)
         /\ marks[k + 1].offset <= Len(encoded)
         /\ marks[k].offset < marks[k + 1].offset
         /\ marks[k].at < marks[k + 1].at
         /\ marks[k + 1].at <= Size
  <1>1. k \in 1 .. Len(marks) /\ k + 1 \in 1 .. Len(marks) /\ Len(marks) \in Nat
    BY DEF EncInv, EncTypeOK
  <1>2. /\ marks[k].at \in Nat /\ marks[k].offset \in Nat
        /\ marks[k + 1].at \in Nat /\ marks[k + 1].offset \in Nat
    BY <1>1, MarksAreNat
  <1>3. LiteralAt(k) \/ MatchAt(k)
    BY DEF EncInv, MarksInv
  <1>4. marks[k + 1].offset <= Len(encoded)
    BY DEF EncInv, MarksInv
  <1>5. Size \in Nat
    BY DEF EncInv, EncTypeOK, Size
  <1>6. CASE LiteralAt(k)
    <2>1. /\ marks[k + 1].at = marks[k].at + 1 /\ marks[k].at < Size
          /\ marks[k + 1].offset = marks[k].offset + 2
      BY <1>6 DEF LiteralAt
    <2> QED
      BY <1>2, <1>3, <1>4, <1>5, <2>1
  <1>7. CASE MatchAt(k)
    <2> DEFINE len == Value(encoded[marks[k].offset + 2], encoded[marks[k].offset + 3])
    <2>1. /\ len \in MinMatch .. MaxMatch
          /\ marks[k + 1].at = marks[k].at + len /\ marks[k].at + len <= Size
          /\ marks[k + 1].offset = marks[k].offset + 5
      BY <1>7 DEF MatchAt
    <2> HIDE DEF len
    <2> QED
      BY <1>2, <1>3, <1>4, <1>5, <2>1, FormatAssumption
  <1> QED
    BY <1>3, <1>6, <1>7

LEMMA MarkWithin ==
  ASSUME EncInv, NEW k \in 1 .. Len(marks)
  PROVE  marks[k].at <= Size
  <1>1. Len(marks) \in Nat /\ Size \in Nat
    BY DEF EncInv, EncTypeOK, Size
  <1>2. CASE k = 1
    BY <1>1, <1>2 DEF EncInv, MarksInv
  <1>3. CASE k # 1
    <2>1. PICK j \in 1 .. Len(marks) - 1 : j + 1 = k
      BY <1>1, <1>3
    <2> QED
      BY <2>1, TokenEnds
  <1> QED
    BY <1>2, <1>3

\* Before the last mark there is a token; at the last there is none.
LEMMA AtMark ==
  ASSUME EncInv, DecTypeOK, DecoderInv, dpc = "token"
  PROVE  /\ epc = "done" /\ stream = encoded /\ capacity = Size
         /\ token + 1 \in 1 .. Len(marks)
         /\ ipos = marks[token + 1].offset /\ Len(out) = marks[token + 1].at
         /\ ipos < Len(encoded) <=> token + 1 \in 1 .. Len(marks) - 1
         /\ ipos >= Len(encoded) => Len(out) = Size
  <1>1. /\ epc = "done" /\ stream = encoded /\ capacity = Size
        /\ token + 1 <= Len(marks) /\ token \in Nat
        /\ ipos = marks[token + 1].offset /\ Len(out) = marks[token + 1].at
    BY DEF DecoderInv, DecTypeOK
  <1>2. Len(marks) \in Nat /\ Len(encoded) \in Nat /\ position \in Nat
    BY DEF EncInv, EncTypeOK
  <1>3. token + 1 \in 1 .. Len(marks) /\ ipos \in Nat
    BY <1>1, <1>2 DEF DecTypeOK
  <1>4. CASE token + 1 = Len(marks)
    <2>1. marks[token + 1] = [at |-> Reached, offset |-> Len(encoded)]
      BY <1>4 DEF EncInv, MarksInv
    <2>2. Reached = Size
      BY <1>1 DEF EncInv, PositionInv, Reached
    <2> QED
      BY <1>1, <1>2, <1>3, <1>4, <2>1, <2>2
  <1>5. CASE token + 1 # Len(marks)
    <2>1. token + 1 \in 1 .. Len(marks) - 1
      BY <1>2, <1>3, <1>5
    <2>2. /\ marks[token + 1].offset < marks[token + 1 + 1].offset
          /\ marks[token + 1 + 1].offset <= Len(encoded)
      BY <2>1, TokenEnds
    <2>3. marks[token + 1 + 1].offset \in Nat
      BY <1>2, <2>1, MarksAreNat
    <2> QED
      BY <1>1, <1>2, <1>3, <2>1, <2>2, <2>3
  <1> QED
    BY <1>4, <1>5

LEMMA FieldAt ==
  ASSUME ipos \in Nat
  PROVE  /\ Field(ipos + 1) = Value(stream[ipos + 2], stream[ipos + 3])
         /\ Field(ipos + 3) = Value(stream[ipos + 4], stream[ipos + 5])
  <1>1. /\ ipos + 1 + 1 = ipos + 2 /\ ipos + 1 + 2 = ipos + 3
        /\ ipos + 3 + 1 = ipos + 4 /\ ipos + 3 + 2 = ipos + 5
    OBVIOUS
  <1> QED
    BY <1>1 DEF Field

\* The decoder finds nothing to reject in what the encoder wrote.
LEMMA DecoderAccepts ==
  ASSUME EncInv, DecTypeOK, DecoderInv
  PROVE  ~BadToken
  <1> SUFFICES ASSUME BadToken PROVE FALSE
    OBVIOUS
  <1>1. dpc = "token" /\ ipos < Len(stream)
    BY DEF BadToken, AtToken
  <1>2. PICK k \in 1 .. Len(marks) - 1 : k = token + 1
    BY <1>1, AtMark
  <1>3. /\ stream = encoded /\ capacity = Size
        /\ ipos = marks[k].offset /\ Len(out) = marks[k].at
    BY <1>1, <1>2, AtMark
  <1>4. /\ LiteralAt(k) \/ MatchAt(k)
        /\ marks[k + 1].offset <= Len(encoded) /\ marks[k + 1].at <= Size
        /\ marks[k].at < marks[k + 1].at
    BY TokenEnds
  <1>5. /\ ipos \in Nat /\ Len(out) \in Nat /\ Size \in Nat /\ Len(encoded) \in Nat
        /\ Len(marks) \in Nat
    BY DEF DecTypeOK, EncInv, EncTypeOK, Size
  <1>6. CASE LiteralAt(k)
    <2>1. /\ marks[k + 1].offset = ipos + 2 /\ encoded[ipos + 1] = TOKEN_LITERAL
          /\ Len(out) < Size
      BY <1>3, <1>6 DEF LiteralAt
    <2>2. LiteralOK
      BY <1>3, <1>4, <1>5, <2>1 DEF LiteralOK
    <2> QED
      BY <1>3, <2>1, <2>2 DEF BadToken, AtToken, TOKEN_LITERAL, TOKEN_MATCH
  <1>7. CASE MatchAt(k)
    <2> DEFINE len  == Value(encoded[ipos + 2], encoded[ipos + 3])
               dist == Value(encoded[ipos + 4], encoded[ipos + 5])
    <2>1. /\ marks[k + 1].offset = ipos + 5 /\ encoded[ipos + 1] = TOKEN_MATCH
          /\ len \in MinMatch .. MaxMatch /\ dist \in 1 .. Window
          /\ dist <= Len(out) /\ Len(out) + len <= Size
      BY <1>3, <1>7 DEF MatchAt
    <2>2. Field(ipos + 1) = len /\ Field(ipos + 3) = dist
      BY <1>3, <1>5, FieldAt
    <2> HIDE DEF len, dist, Field
    <2>4. /\ Len(stream) - (ipos + 1) >= 4 /\ len \in Nat /\ dist \in Nat
          /\ len <= capacity - Len(out) /\ dist # 0
          /\ len >= MinMatch /\ len <= MaxMatch /\ dist <= Window
          /\ dist <= Len(out)
      <3>1. /\ ipos + 5 <= Len(encoded) /\ Len(stream) = Len(encoded)
            /\ capacity = Size
        BY <1>3, <1>4, <2>1
      <3>2. len \in Nat /\ dist \in Nat /\ dist >= 1
        BY <2>1, Limits
      <3>3. /\ len >= MinMatch /\ len <= MaxMatch /\ dist <= Window
            /\ dist <= Len(out)
        BY <2>1, Limits
      <3>4. Len(out) + len <= capacity /\ capacity \in Nat
        BY <1>5, <2>1, <3>1
      <3> QED
        BY <1>5, <3>1, <3>2, <3>3, <3>4
    <2>3. MatchOK
      BY <2>2, <2>4 DEF MatchOK
    <2> QED
      BY <1>3, <2>1, <2>3 DEF BadToken, AtToken, TOKEN_LITERAL, TOKEN_MATCH
  <1> QED
    BY <1>4, <1>6, <1>7

\* The steps of lz77_decompress on any stream: the copy of a match stays within
\* what was written and within the capacity, because MatchOK asked for it.
LEMMA DecodeInBounds ==
  ASSUME DecTypeOK, InBounds, Decode
  PROVE  DecTypeOK' /\ InBounds' /\ dpc # "idle" /\ dpc' # "idle"
  <1>1. /\ stream \in Seq(Byte) /\ Len(stream) \in Nat /\ Len(out) \in Nat
        /\ capacity \in Nat /\ ipos \in Nat /\ token \in Nat
        /\ out \in Seq(Byte) /\ length \in Nat /\ distance \in Nat /\ copied \in Nat
    BY DEF DecTypeOK
  <1>2. Len(out) <= capacity /\ ipos <= Len(stream)
    BY DEF InBounds
  <1>3. \A b \in Byte : /\ Append(out, b) \in Seq(Byte)
                        /\ Len(Append(out, b)) = Len(out) + 1
    BY <1>1, AppendProperties
  <1>4. CASE DecodeLiteral
    <2>1. /\ dpc = "token" /\ ipos + 1 < Len(stream) /\ Len(out) < capacity
          /\ out' = Append(out, stream[ipos + 2]) /\ ipos' = ipos + 2
          /\ token' = token + 1 /\ UNCHANGED <<dpc, stream, capacity, copyVars>>
      BY <1>4 DEF DecodeLiteral, AtToken, LiteralOK
    <2>2. stream[ipos + 2] \in Byte
      <3>1. ipos + 2 \in 1 .. Len(stream)
        BY <1>1, <2>1
      <3> QED
        BY <1>1, <3>1
    <2>3. out' \in Seq(Byte) /\ Len(out') = Len(out) + 1
      BY <1>3, <2>1, <2>2
    <2> QED
      BY <1>1, <1>2, <2>1, <2>3 DEF DecTypeOK, InBounds, copyVars
  <1>5. CASE DecodeMatch
    <2> DEFINE len  == Field(ipos + 1)
               dist == Field(ipos + 3)
    <2>1. /\ dpc = "token" /\ dpc' = "copy" /\ length' = len /\ distance' = dist
          /\ copied' = 0 /\ ipos' = ipos + 5
          /\ UNCHANGED <<stream, capacity, out, token>>
      BY <1>5 DEF DecodeMatch, AtToken
    <2>2. /\ Len(stream) - (ipos + 1) >= 4
          /\ len <= capacity - Len(out) /\ dist # 0 /\ dist <= Len(out)
      BY <1>5 DEF DecodeMatch, MatchOK
    <2>3. len \in Nat /\ dist \in Nat
      <3>1. Byte \subseteq Nat
        BY FormatAssumption DEF Byte
      <3>2. ASSUME NEW p \in Nat, p + 1 < Len(stream)
            PROVE  stream[p + 1] \in Nat /\ stream[p + 2] \in Nat
        <4>1. p + 1 \in 1 .. Len(stream) /\ p + 2 \in 1 .. Len(stream)
          BY <1>1, <3>2
        <4>2. stream[p + 1] \in Byte /\ stream[p + 2] \in Byte
          BY <1>1, <4>1
        <4> QED
          BY <3>1, <4>2
      <3>3. \A x, y \in Nat : Value(x, y) \in Nat
        BY FormatAssumption DEF Value
      <3>4. ASSUME NEW p \in Nat, p + 1 < Len(stream) PROVE Field(p) \in Nat
        BY <3>2, <3>3, <3>4 DEF Field
      <3>5. /\ ipos + 1 \in Nat /\ ipos + 1 + 1 < Len(stream)
            /\ ipos + 3 \in Nat /\ ipos + 3 + 1 < Len(stream)
        BY <1>1, <2>2
      <3> QED
        BY <3>4, <3>5
    <2> HIDE DEF len, dist
    <2> QED
      BY <1>1, <1>2, <2>1, <2>2, <2>3 DEF DecTypeOK, InBounds
  <1>6. CASE CopyByte
    <2>1. /\ dpc = "copy" /\ copied < length
          /\ out' = Append(out, out[Len(out) - distance + 1])
          /\ copied' = copied + 1
          /\ UNCHANGED <<dpc, stream, capacity, ipos, length, distance, token>>
      BY <1>6 DEF CopyByte
    <2>2. /\ distance \in 1 .. Len(out)
          /\ Len(out) + (length - copied) <= capacity
      BY <2>1 DEF InBounds
    <2>3. Len(out) - distance + 1 \in 1 .. Len(out)
      BY <1>1, <2>2
    <2>4. out' \in Seq(Byte) /\ Len(out') = Len(out) + 1
      BY <1>1, <1>3, <2>1, <2>3
    <2> QED
      BY <1>1, <1>2, <2>1, <2>2, <2>4 DEF DecTypeOK, InBounds
  <1>7. CASE EndCopy
    BY <1>1, <1>2, <1>7 DEF EndCopy, DecTypeOK, InBounds, copyVars
  <1>8. CASE DecodeFails
    BY <1>1, <1>2, <1>8 DEF DecodeFails, BadToken, AtToken, DecTypeOK, InBounds, copyVars
  <1>9. CASE FinishDecoding
    BY <1>1, <1>2, <1>9 DEF FinishDecoding, DecTypeOK, InBounds, copyVars
  <1> QED
    BY <1>4, <1>5, <1>6, <1>7, <1>8, <1>9 DEF Decode

\* The encoder's invariant is about its own variables only.
LEMMA EncInvKept ==
  ASSUME EncInv, UNCHANGED encVars
  PROVE  EncInv'
  BY DEF EncInv, EncTypeOK, PositionInv, ChainInv, BestIsMatch, MarksInv, encVars,
         searchVars, tableVars, outVars, Size, In, Agree, Reached, Indexed,
         LiteralAt, MatchAt

\* The steps of lz77_decompress on what lz77_compress wrote.
LEMMA DecodeFollows ==
  ASSUME EncInv, DecTypeOK, DecoderInv, DecodeStep
  PROVE  DecTypeOK' /\ DecoderInv'
  <1>1. EncInv /\ DecTypeOK /\ DecoderInv
    OBVIOUS
  <1>2. UNCHANGED encVars
    BY DEF DecodeStep
  <1>5. /\ input' = input /\ epc' = epc /\ encoded' = encoded /\ marks' = marks
        /\ Size \in Nat /\ Len(marks) \in Nat /\ Len(encoded) \in Nat
        /\ out \in Seq(Byte) /\ ipos \in Nat /\ token \in Nat
    BY <1>1, <1>2 DEF encVars, outVars, EncInv, EncTypeOK, DecTypeOK, Size
  <1> USE DEF copyVars
  <1>6. CASE DecodeLiteral
    <2>1. dpc = "token" /\ ipos < Len(stream) /\ stream[ipos + 1] = TOKEN_LITERAL
      BY <1>6 DEF DecodeLiteral, AtToken
    <2>2. PICK k \in 1 .. Len(marks) - 1 : k = token + 1
      BY <1>1, <2>1, AtMark
    <2>3. /\ stream = encoded /\ capacity = Size /\ epc = "done"
          /\ ipos = marks[k].offset /\ Len(out) = marks[k].at
      BY <1>1, <2>1, <2>2, AtMark
    <2>4. LiteralAt(k)
      BY <1>1, <2>1, <2>2, <2>3, TokenEnds
         DEF MatchAt, TOKEN_LITERAL, TOKEN_MATCH
    <2>5. /\ marks[k + 1].at = Len(out) + 1 /\ marks[k + 1].offset = ipos + 2
          /\ encoded[ipos + 2] = input[Len(out) + 1] /\ Len(out) < Size
      BY <2>3, <2>4 DEF LiteralAt, In
    <2>6. input[Len(out) + 1] \in Byte
      BY <1>1, <1>5, <2>5 DEF EncInv, EncTypeOK, Size
    <2>7. /\ out' = Append(out, input[Len(out) + 1])
          /\ ipos' = ipos + 2 /\ token' = token + 1
          /\ UNCHANGED <<dpc, stream, capacity, copyVars>>
      BY <1>6, <2>3, <2>5 DEF DecodeLiteral
    <2>8. /\ out' \in Seq(Byte) /\ Len(out') = Len(out) + 1
          /\ \A p \in 1 .. Len(out) : out'[p] = out[p]
          /\ out'[Len(out) + 1] = input[Len(out) + 1]
      BY <1>5, <2>6, <2>7, AppendProperties
    <2>9. \A p \in 1 .. Len(out') : out'[p] = input'[p]
      BY <1>1, <1>5, <2>1, <2>8 DEF DecoderInv
    <2>10. DecTypeOK'
      BY <1>1, <1>5, <2>7, <2>8 DEF DecTypeOK
    <2>11. token' + 1 = k + 1 /\ k + 1 <= Len(marks)
      BY <1>5, <2>2, <2>7
    <2> QED
      BY <1>5, <2>1, <2>3, <2>5, <2>7, <2>8, <2>9, <2>10, <2>11
         DEF DecoderInv, Size
  <1>7. CASE DecodeMatch
    <2>1. dpc = "token" /\ ipos < Len(stream) /\ stream[ipos + 1] = TOKEN_MATCH
      BY <1>7 DEF DecodeMatch, AtToken
    <2>2. PICK k \in 1 .. Len(marks) - 1 : k = token + 1
      BY <1>1, <2>1, AtMark
    <2>3. /\ stream = encoded /\ capacity = Size /\ epc = "done"
          /\ ipos = marks[k].offset /\ Len(out) = marks[k].at
      BY <1>1, <2>1, <2>2, AtMark
    <2>4. MatchAt(k)
      BY <1>1, <2>1, <2>2, <2>3, TokenEnds
         DEF LiteralAt, TOKEN_LITERAL, TOKEN_MATCH
    <2>5. /\ length' = Field(ipos + 1) /\ distance' = Field(ipos + 3)
          /\ copied' = 0 /\ ipos' = ipos + 5 /\ dpc' = "copy"
          /\ UNCHANGED <<stream, capacity, out, token>>
      BY <1>7 DEF DecodeMatch
    <2>6. /\ Field(ipos + 1) = Value(encoded[ipos + 2], encoded[ipos + 3])
          /\ Field(ipos + 3) = Value(encoded[ipos + 4], encoded[ipos + 5])
      BY <1>5, <2>3, FieldAt
    <2>7. /\ Field(ipos + 1) \in MinMatch .. MaxMatch
          /\ Field(ipos + 3) \in 1 .. Window
          /\ marks[k + 1].at = marks[k].at + Field(ipos + 1)
          /\ marks[k + 1].offset = ipos + 5
      BY <2>3, <2>4, <2>6 DEF MatchAt
    <2>8. Field(ipos + 1) \in Nat /\ Field(ipos + 3) \in Nat
      BY <2>7, FormatAssumption
    <2>9. DecTypeOK'
      BY <1>1, <1>5, <2>5, <2>8 DEF DecTypeOK
    <2>10. token' + 2 = k + 1 /\ token' + 1 = k /\ k + 1 <= Len(marks)
      BY <1>5, <2>2, <2>5
    <2>11. marks[k].at \in Nat /\ marks[k + 1].at - marks[k].at = Field(ipos + 1)
      BY <1>1, <1>5, <2>2, <2>7, <2>8, MarksAreNat
    <2>12. (MatchAt(k))'
      BY <1>5, <2>4 DEF MatchAt, Size, In
    <2>13. (MatchAt(token + 1))'
      BY <2>10, <2>12 DEF MatchAt
    <2> HIDE DEF Field
    <2>14. \A p \in 1 .. Len(out') : out'[p] = input'[p]
      BY <1>1, <1>5, <2>1, <2>5 DEF DecoderInv
    <2>15. /\ length' = marks'[token' + 2].at - marks'[token' + 1].at
           /\ distance' = Value(encoded'[marks'[token' + 1].offset + 4],
                                encoded'[marks'[token' + 1].offset + 5])
           /\ ipos' = marks'[token' + 2].offset
           /\ Len(out') = marks'[token' + 1].at + copied'
           /\ copied' <= length'
      <3>1. /\ token' + 2 = k + 1 /\ token' + 1 = k
            /\ marks' = marks /\ encoded' = encoded
        BY <1>5, <2>10
      <3>2. /\ length' = marks[k + 1].at - marks[k].at
            /\ distance' = Value(encoded[ipos + 4], encoded[ipos + 5])
            /\ ipos' = marks[k + 1].offset
        BY <2>5, <2>6, <2>7, <2>11
      <3>3. /\ Len(out') = marks[k].at + copied' /\ copied' <= length'
        <4>1. copied' = 0 /\ Len(out') = marks[k].at /\ length' \in Nat
          BY <2>3, <2>5, <2>8
        <4>2. marks[k].at + 0 = marks[k].at
          BY <2>11
        <4> QED
          BY <4>1, <4>2
      <3>4. marks[k].offset = ipos
        BY <2>3
      <3> QED
        BY <3>1, <3>2, <3>3, <3>4
    <2> QED
      BY <1>1, <1>5, <2>3, <2>5, <2>9, <2>10, <2>13, <2>14, <2>15
         DEF DecoderInv, Size
  <1>8. CASE CopyByte
    <2>1. /\ dpc = "copy" /\ copied < length
          /\ out' = Append(out, out[Len(out) - distance + 1])
          /\ copied' = copied + 1
          /\ UNCHANGED <<dpc, stream, capacity, ipos, length, distance, token>>
      BY <1>8 DEF CopyByte
    <2>2. PICK k \in Nat : k = token + 1
      BY <1>5
    <2>3. /\ epc = "done" /\ stream = encoded /\ capacity = Size
          /\ k + 1 <= Len(marks) /\ MatchAt(k)
          /\ length = marks[k + 1].at - marks[k].at
          /\ distance = Value(encoded[marks[k].offset + 4],
                               encoded[marks[k].offset + 5])
          /\ ipos = marks[k + 1].offset
          /\ Len(out) = marks[k].at + copied
          /\ \A p \in 1 .. Len(out) : out[p] = input[p]
      BY <1>1, <1>5, <2>1, <2>2 DEF DecoderInv
    <2>4. marks[k].at \in Nat /\ marks[k + 1].at \in Nat
      <3>1. k \in 1 .. Len(marks) /\ k + 1 \in 1 .. Len(marks)
        BY <1>5, <2>2, <2>3
      <3> QED
        BY <1>1, <3>1, MarksAreNat
    <2>5. /\ distance \in 1 .. Window /\ distance <= marks[k].at
          /\ \A i \in 0 .. length - 1 :
                In(marks[k].at - distance + i) = In(marks[k].at + i)
          /\ marks[k].at + length <= Size /\ length \in Nat
      <3> DEFINE len == Value(encoded[marks[k].offset + 2],
                              encoded[marks[k].offset + 3])
      <3>1. /\ marks[k + 1].at = marks[k].at + len /\ marks[k].at + len <= Size
            /\ len \in MinMatch .. MaxMatch
            /\ distance \in 1 .. Window /\ distance <= marks[k].at
            /\ \A i \in 0 .. len - 1 :
                  In(marks[k].at - distance + i) = In(marks[k].at + i)
        BY <2>3 DEF MatchAt
      <3> HIDE DEF len
      <3>2. len \in Nat /\ length = len
        BY <2>3, <2>4, <3>1, Limits
      <3> QED
        BY <3>1, <3>2
    <2>6. copied \in Nat /\ copied \in 0 .. length - 1 /\ distance \in Nat
      BY <1>1, <2>1, <2>5, FormatAssumption DEF DecTypeOK
    <2> DEFINE q == Len(out) - distance + 1
    <2>7. q \in 1 .. Len(out) /\ Len(out) < Size
      <3> DEFINE a == marks[k].at
      <3>1. /\ a \in Nat /\ Len(out) = a + copied /\ distance <= a
            /\ distance \in Nat /\ distance >= 1 /\ copied \in Nat
            /\ length \in Nat /\ copied < length /\ a + length <= Size
            /\ Size \in Nat
        BY <1>5, <2>1, <2>3, <2>4, <2>5, <2>6
      <3> HIDE DEF a
      <3> QED
        BY <3>1
    <2>8. In(marks[k].at - distance + copied) = In(marks[k].at + copied)
      BY <2>5, <2>6
    <2>9. /\ marks[k].at - distance + copied + 1 = q
          /\ marks[k].at + copied + 1 = Len(out) + 1
      BY <2>3, <2>4, <2>6
    <2> HIDE DEF q
    <2>10. out[q] = input[Len(out) + 1] /\ out[q] \in Byte
      BY <1>5, <2>3, <2>7, <2>8, <2>9 DEF In
    <2>11. /\ out' \in Seq(Byte) /\ Len(out') = Len(out) + 1
           /\ \A p \in 1 .. Len(out) : out'[p] = out[p]
           /\ out'[Len(out) + 1] = input[Len(out) + 1]
      BY <1>5, <2>1, <2>10, AppendProperties DEF q
    <2>12. \A p \in 1 .. Len(out') : out'[p] = input'[p]
      <3> SUFFICES ASSUME NEW p \in 1 .. Len(out') PROVE out'[p] = input[p]
        BY <1>5
      <3>1. p \in 1 .. Len(out) \/ p = Len(out) + 1
        BY <1>5, <2>11
      <3> QED
        BY <2>3, <2>11, <3>1
    <2>13. DecTypeOK'
      BY <1>1, <2>1, <2>6, <2>11 DEF DecTypeOK
    <2>14. (MatchAt(k))'
      BY <1>5, <2>3 DEF MatchAt, Size, In
    <2>15. (MatchAt(token + 1))'
      BY <2>1, <2>2, <2>14 DEF MatchAt
    <2>16. Len(out') = marks'[token' + 1].at + copied' /\ copied' <= length'
      <3>1. marks'[token' + 1] = marks[k] /\ length' = length
        BY <1>5, <2>1, <2>2
      <3>2. Len(out') = marks[k].at + copied'
        <4> DEFINE a == marks[k].at
        <4>1. /\ a \in Nat /\ Len(out) = a + copied /\ copied \in Nat
              /\ copied' = copied + 1 /\ Len(out') = Len(out) + 1
          BY <2>1, <2>3, <2>4, <2>6, <2>11
        <4> HIDE DEF a
        <4>2. Len(out') = a + copied'
          BY <4>1
        <4> QED
          BY <4>2 DEF a
      <3>3. copied' <= length
        BY <2>1, <2>5, <2>6
      <3> QED
        BY <3>1, <3>2, <3>3
    <2> QED
      BY <1>1, <1>5, <2>1, <2>12, <2>13, <2>15, <2>16 DEF DecoderInv, Size
  <1>9. CASE EndCopy
    <2>1. /\ dpc = "copy" /\ copied = length /\ dpc' = "token"
          /\ token' = token + 1
          /\ UNCHANGED <<stream, capacity, ipos, out, copyVars>>
      BY <1>9 DEF EndCopy
    <2>2. DecTypeOK'
      BY <1>1, <1>5, <2>1 DEF DecTypeOK
    <2>3. /\ epc = "done" /\ stream = encoded /\ capacity = Size
          /\ token + 2 <= Len(marks)
          /\ length = marks[token + 2].at - marks[token + 1].at
          /\ ipos = marks[token + 2].offset
          /\ Len(out) = marks[token + 1].at + copied
          /\ \A p \in 1 .. Len(out) : out[p] = input[p]
      BY <1>1, <2>1 DEF DecoderInv
    <2>4. marks[token + 1].at \in Nat /\ marks[token + 2].at \in Nat
      BY <1>1, <1>5, <2>3, MarksAreNat
    <2>5. Len(out) = marks[token + 2].at
      BY <2>1, <2>3, <2>4
    <2>6. token' + 1 = token + 2
      BY <1>5, <2>1
    <2> QED
      BY <1>5, <2>1, <2>2, <2>3, <2>5, <2>6 DEF DecoderInv, Size
  <1>10. CASE DecodeFails
    BY <1>1, <1>10, DecoderAccepts DEF DecodeFails
  <1>11. CASE FinishDecoding
    <2>1. /\ dpc = "token" /\ ipos >= Len(stream) /\ dpc' = "ok"
          /\ UNCHANGED <<stream, capacity, ipos, out, copyVars, token>>
      BY <1>11 DEF FinishDecoding
    <2>2. stream = encoded /\ Len(out) = Size
      BY <1>1, <2>1, AtMark
    <2> QED
      BY <1>1, <1>5, <2>1, <2>2 DEF DecoderInv, DecTypeOK, Size
  <1> QED
    BY <1>6, <1>7, <1>8, <1>9, <1>10, <1>11 DEF DecodeStep, Decode

LEMMA DecodeKeeps == IInv /\ DecodeStep => IInv'
  <1> SUFFICES ASSUME IInv, DecodeStep PROVE IInv'
    OBVIOUS
  <1>1. EncInv /\ DecTypeOK /\ InBounds /\ (Foreign \/ DecoderInv)
    BY DEF IInv, EncInv
  <1>2. Decode /\ UNCHANGED encVars
    BY DEF DecodeStep
  <1>3. EncInv'
    BY <1>1, <1>2, EncInvKept
  <1>4. DecTypeOK' /\ InBounds' /\ dpc' # "idle"
    BY <1>1, <1>2, DecodeInBounds
  <1>5. CASE Foreign
    <2>1. Foreign'
      BY <1>2, <1>4, <1>5 DEF Foreign, encVars
    <2> QED
      BY <1>3, <1>4, <2>1 DEF IInv, EncInv
  <1>6. CASE DecoderInv
    BY <1>1, <1>3, <1>4, <1>6, DecodeFollows DEF IInv, EncInv
  <1> QED
    BY <1>1, <1>5, <1>6

----------------------------------------------------------------------------

\* The encoder only runs while the decoder has not been called.
LEMMA EncodeStepKeeps == IInv /\ EncodeStep => IInv'
  <1> SUFFICES ASSUME IInv, EncodeStep PROVE IInv'
    OBVIOUS
  <1>1. /\ EncInv /\ Encode /\ DecTypeOK /\ InBounds /\ dpc = "idle"
        /\ UNCHANGED decVars
    BY DEF IInv, EncInv, EncodeStep
  <1>2. EncInv'
    BY <1>1, EncodeKeeps
  <1>3. DecoderInv
    BY <1>1 DEF IInv, Foreign
  <1>4. token = 0 /\ ipos = 0 /\ out = <<>>
    BY <1>1, <1>3 DEF DecoderInv
  <1>5. DecTypeOK' /\ DecoderInv' /\ InBounds'
    BY <1>1, <1>4 DEF decVars, copyVars, DecTypeOK, DecoderInv, InBounds
  <1> QED
    BY <1>2, <1>5 DEF IInv, EncInv

LEMMA HandoverKeeps == IInv /\ Handover => IInv'
  <1> SUFFICES ASSUME IInv, Handover PROVE IInv'
    OBVIOUS
  <1>2. /\ UNCHANGED encVars /\ epc = "done" /\ dpc = "idle" /\ dpc' = "token"
        /\ stream' = encoded /\ capacity' = Size
        /\ UNCHANGED <<ipos, out, copyVars, token>>
    BY DEF Handover, StartDecoding
  <1>1. EncInv /\ DecTypeOK /\ DecoderInv
    BY <1>2 DEF IInv, EncInv, Foreign
  <1>3. EncInv'
    BY <1>1, <1>2, EncInvKept
  <1>4. DecTypeOK'
    BY <1>1, <1>2 DEF DecTypeOK, copyVars, EncInv, EncTypeOK, Size
  <1>5. /\ Len(marks) >= 1 /\ marks[1] = [at |-> 0, offset |-> 0]
        /\ Len(marks) \in Nat /\ Size \in Nat /\ Len(encoded) \in Nat
    BY <1>1 DEF EncInv, EncTypeOK, MarksInv, Size
  <1>6. token = 0 /\ ipos = 0 /\ out = <<>>
    BY <1>1, <1>2 DEF DecoderInv
  <1>7. /\ marks' = marks /\ encoded' = encoded /\ input' = input /\ epc' = epc
    BY <1>2 DEF encVars, outVars
  <1>8. DecoderInv'
    BY <1>2, <1>5, <1>6, <1>7 DEF DecoderInv, Size
  <1>9. InBounds'
    BY <1>2, <1>5, <1>6 DEF InBounds
  <1> QED
    BY <1>3, <1>4, <1>8, <1>9 DEF IInv, EncInv

LEMMA StutterKeeps == IInv /\ UNCHANGED vars => IInv'
  <1> SUFFICES ASSUME IInv, UNCHANGED vars PROVE IInv'
    OBVIOUS
  <1>1. EncInv'
    BY EncInvKept DEF IInv, EncInv, vars
  <1>2. DecTypeOK' /\ InBounds'
    BY DEF IInv, vars, decVars, copyVars, DecTypeOK, InBounds
  <1>3. Foreign' \/ DecoderInv'
    BY DEF IInv, vars, decVars, copyVars, encVars, outVars, DecoderInv, Foreign,
           Size, In, MatchAt
  <1> QED
    BY <1>1, <1>2, <1>3 DEF IInv, EncInv

\* The inductive invariant of the codec: at every moment the encoded bytes are
\* well-formed tokens that retell the block up to where the encoder stands, and
\* the decoder stands at the start of one of them, or inside its copy.
THEOREM CodecInvariant == Spec => []IInv
  <1>1. Init => IInv
    <2> SUFFICES ASSUME Init PROVE IInv
      OBVIOUS
    <2>1. EncInv
      BY EncInitInv DEF Init
    <2>2. CASE DecIdle
      BY <2>1, <2>2 DEF DecIdle, DecTypeOK, DecoderInv, InBounds, IInv, EncInv
    <2>3. CASE ForeignStream
      <3>1. stream \in Seq(Byte) /\ Len(stream) \in Nat /\ capacity \in Nat
        <4>1. PICK n \in 0 .. MaxStream : stream \in [1 .. n -> Byte]
          BY <2>3 DEF ForeignStream, Streams
        <4>2. n \in Nat
          BY StreamAssumption
        <4>3. stream \in Seq(Byte)
          BY <4>1, <4>2
        <4> QED
          BY <2>3, <4>3, StreamAssumption DEF ForeignStream
      <3>2. epc # "done"
        BY DEF Init, EncInit
      <3> QED
        BY <2>1, <2>3, <3>1, <3>2
           DEF ForeignStream, DecTypeOK, InBounds, Foreign, IInv, EncInv
    <2> QED
      BY <2>2, <2>3 DEF Init
  <1>2. IInv /\ [Next]_vars => IInv'
    <2>1. IInv /\ Terminated => IInv'
      BY StutterKeeps DEF Terminated
    <2> QED
      BY <2>1, EncodeStepKeeps, HandoverKeeps, DecodeKeeps, StutterKeeps DEF Next, Step
  <1> QED
    BY <1>1, <1>2, PTL DEF Spec

\* Whatever the block, lz77_decompress gives back what lz77_compress was given:
\* it never rejects a token, only ever writes bytes of the block in order, and
\* ends with all of them.
THEOREM BlockSurvives == Spec => []RoundTrip
  <1>1. IInv => RoundTrip
    <2> SUFFICES ASSUME IInv, ~Foreign PROVE RoundTrip
      BY DEF RoundTrip
    <2>1. EncInv /\ DecTypeOK /\ DecoderInv
      BY DEF IInv, EncInv
    <2>2. Size \in Nat
      BY <2>1 DEF EncInv, EncTypeOK, Size
    <2>3. dpc # "fail" /\ dpc \in {"idle", "token", "copy", "ok", "fail"}
      BY <2>1 DEF DecoderInv, DecTypeOK
    <2>4. CASE dpc = "idle"
      BY <2>1, <2>2, <2>4 DEF DecoderInv, RoundTrip
    <2>5. CASE dpc = "token"
      <3>1. PICK k \in 1 .. Len(marks) : Len(out) = marks[k].at
        BY <2>1, <2>5, AtMark
      <3>2. marks[k].at <= Size
        BY <2>1, MarkWithin
      <3> QED
        BY <2>1, <2>5, <3>1, <3>2 DEF DecoderInv, RoundTrip
    <2>6. CASE dpc = "copy"
      <3>1. PICK k \in Nat : k = token + 1
        BY <2>1 DEF DecTypeOK
      <3>2. /\ k + 1 <= Len(marks) /\ copied <= length
            /\ length = marks[k + 1].at - marks[k].at
            /\ Len(out) = marks[k].at + copied
        <4>1. token + 1 = k /\ token + 2 = k + 1
          BY <2>1, <3>1 DEF DecTypeOK
        <4> QED
          BY <2>1, <2>6, <4>1 DEF DecoderInv
      <3>3. k \in 1 .. Len(marks) /\ k + 1 \in 1 .. Len(marks)
        BY <2>1, <3>1, <3>2 DEF DecTypeOK, EncInv, EncTypeOK
      <3>4. /\ marks[k + 1].at \in Nat /\ marks[k].at \in Nat
            /\ marks[k + 1].at <= Size /\ copied \in Nat /\ length \in Nat
        BY <2>1, <3>3, MarksAreNat, MarkWithin DEF DecTypeOK
      <3>5. Len(out) <= Size
        BY <2>2, <3>2, <3>4
      <3> QED
        BY <2>1, <2>6, <3>5 DEF DecoderInv, RoundTrip
    <2>7. CASE dpc = "ok"
      BY <2>1, <2>2, <2>7 DEF DecoderInv, RoundTrip
    <2> QED
      BY <2>3, <2>4, <2>5, <2>6, <2>7
  <1> QED
    BY <1>1, CodecInvariant, PTL

\* Whatever the stream and the capacity, lz77_decompress writes within the
\* capacity, and a copy reads only bytes that were written (lz77.c:152-176).
THEOREM DecoderStaysInBounds == Spec => []InBounds
  <1>1. IInv => InBounds
    BY DEF IInv
  <1> QED
    BY <1>1, CodecInvariant, PTL

\* The encoder's buffer of twice the block (lz77.c:44) is never overrun: a
\* literal is two bytes for one, a match five bytes for at least three.
THEOREM BufferSuffices == Spec => []FitsBuffer
  <1>1. IInv => FitsBuffer
    <2> SUFFICES ASSUME IInv PROVE FitsBuffer
      OBVIOUS
    <2>1. /\ Len(encoded) \in Nat /\ position \in Nat /\ advance \in Nat /\ Size \in Nat
      BY DEF IInv, EncTypeOK, Size
    <2>2. Len(encoded) <= 2 * Reached /\ Reached <= Size /\ Reached \in Nat
      BY <2>1 DEF IInv, PositionInv, Reached
    <2> QED
      BY <2>1, <2>2 DEF FitsBuffer
  <1> QED
    BY <1>1, CodecInvariant, PTL

\* The chain search only reads entries of "previous" that were written, and
\* goes strictly backwards: malloc's garbage is never followed.
THEOREM ChainsAreInitialised == Spec => []ChainInitialised
  <1>1. IInv => ChainInitialised
    <2> SUFFICES ASSUME IInv, epc = "search", candidate >= 0
                 PROVE  /\ candidate \in DOMAIN previous /\ candidate < position
                        /\ previous[candidate] < candidate
      BY DEF ChainInitialised
    <2>1. candidate \in DOMAIN previous
      BY DEF IInv, EncTypeOK, ChainInv
    <2>2. DOMAIN previous \subseteq 0 .. position - 1 /\ position \in Nat
      BY DEF IInv, EncTypeOK, ChainInv, Indexed
    <2>3. previous[candidate] = -1 \/ previous[candidate] < candidate
      BY <2>1 DEF IInv, ChainInv
    <2> QED
      BY <2>1, <2>2, <2>3
  <1> QED
    BY <1>1, CodecInvariant, PTL

\* A match the encoder settles on is one the decoder can copy.
THEOREM MatchesAreReal == Spec => []BestIsMatch
  <1>1. IInv => BestIsMatch
    BY DEF IInv
  <1> QED
    BY <1>1, CodecInvariant, PTL

====
