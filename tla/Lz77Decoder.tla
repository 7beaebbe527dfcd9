---------------------------- MODULE Lz77Decoder ----------------------------
(***************************************************************************)
(* lz77_decompress (lz77.c): reads tokens and copies matches byte by byte, *)
(* so that a copy may read what it has just written.                       *)
(***************************************************************************)
EXTENDS Lz77Format

VARIABLES
    dpc,        \* "idle", "token", "copy", "ok" or "fail"
    stream,     \* the encoded bytes
    capacity,   \* output_capacity
    ipos,       \* input_position
    out,        \* the bytes written to the output
    length,     \* length of the match being copied
    distance,   \* distance of the match being copied
    copied,     \* the index of the copy loop
    token       \* history: tokens decoded so far

copyVars == <<length, distance, copied>>
decVars  == <<dpc, stream, capacity, ipos, out, copyVars, token>>

Field(p) == Value(stream[p + 1], stream[p + 2])

DecTypeOK ==
    /\ dpc \in {"idle", "token", "copy", "ok", "fail"}
    /\ stream \in Seq(Byte)
    /\ capacity \in Nat
    /\ ipos \in Nat
    /\ out \in Seq(Byte)
    /\ length \in Nat
    /\ distance \in Nat
    /\ copied \in Nat
    /\ token \in Nat

DecIdle ==
    /\ dpc = "idle"
    /\ stream = <<>>
    /\ capacity = 0
    /\ ipos = 0
    /\ out = <<>>
    /\ length = 0
    /\ distance = 0
    /\ copied = 0
    /\ token = 0

\* The call.
StartDecoding(bytes, cap) ==
    /\ dpc = "idle"
    /\ dpc' = "token"
    /\ stream' = bytes
    /\ capacity' = cap
    /\ UNCHANGED <<ipos, out, copyVars, token>>

\* The next byte is a literal token with its byte and room for it.
AtToken(kind) == dpc = "token" /\ ipos < Len(stream) /\ stream[ipos + 1] = kind

LiteralOK == ipos + 1 < Len(stream) /\ Len(out) < capacity

DecodeLiteral ==
    /\ AtToken(TOKEN_LITERAL)
    /\ LiteralOK
    /\ out' = Append(out, stream[ipos + 2])
    /\ ipos' = ipos + 2
    /\ token' = token + 1
    /\ UNCHANGED <<dpc, stream, capacity, copyVars>>

\* Mutant: a match may be longer than the room left.
MatchOKWithoutRoom ==
    LET len  == Field(ipos + 1)
        dist == Field(ipos + 3)
    IN /\ Len(stream) - (ipos + 1) >= 4
       /\ len >= MinMatch /\ len <= MaxMatch
       /\ dist # 0 /\ dist <= Window /\ dist <= Len(out)

MatchOK ==
    LET len  == Field(ipos + 1)
        dist == Field(ipos + 3)
    IN /\ Len(stream) - (ipos + 1) >= 4
       /\ len >= MinMatch /\ len <= MaxMatch
       /\ dist # 0 /\ dist <= Window /\ dist <= Len(out)
       /\ len <= capacity - Len(out)

\* Mutant: the copy loop goes on from where the last one ended.
DecodeMatchKeepsCopied ==
    /\ AtToken(TOKEN_MATCH)
    /\ MatchOK
    /\ length' = Field(ipos + 1)
    /\ distance' = Field(ipos + 3)
    /\ ipos' = ipos + 5
    /\ dpc' = "copy"
    /\ UNCHANGED <<stream, capacity, out, copied, token>>

DecodeMatch ==
    /\ AtToken(TOKEN_MATCH)
    /\ MatchOK
    /\ length' = Field(ipos + 1)
    /\ distance' = Field(ipos + 3)
    /\ copied' = 0
    /\ ipos' = ipos + 5
    /\ dpc' = "copy"
    /\ UNCHANGED <<stream, capacity, out, token>>

CopyByte ==
    /\ dpc = "copy"
    /\ copied < length
    /\ out' = Append(out, out[Len(out) - distance + 1])
    /\ copied' = copied + 1
    /\ UNCHANGED <<dpc, stream, capacity, ipos, length, distance, token>>

EndCopy ==
    /\ dpc = "copy"
    /\ copied = length
    /\ dpc' = "token"
    /\ token' = token + 1
    /\ UNCHANGED <<stream, capacity, ipos, out, copyVars>>

\* Every early "return 0": a truncated or impossible token, or no room.
BadToken ==
    \/ AtToken(TOKEN_LITERAL) /\ ~LiteralOK
    \/ AtToken(TOKEN_MATCH) /\ ~MatchOK
    \/ /\ dpc = "token" /\ ipos < Len(stream)
       /\ stream[ipos + 1] \notin {TOKEN_LITERAL, TOKEN_MATCH}

DecodeFails ==
    /\ BadToken
    /\ dpc' = "fail"
    /\ UNCHANGED <<stream, capacity, ipos, out, copyVars, token>>

FinishDecoding ==
    /\ dpc = "token"
    /\ ipos >= Len(stream)
    /\ dpc' = "ok"
    /\ UNCHANGED <<stream, capacity, ipos, out, copyVars, token>>

Decode ==
    \/ DecodeLiteral
    \/ DecodeMatch
    \/ CopyByte
    \/ EndCopy
    \/ DecodeFails
    \/ FinishDecoding

----------------------------------------------------------------------------

\* Whatever the stream holds, the output stays within its capacity, a pending
\* copy has room for all its bytes and reads only bytes already written, and
\* the reader stays within the stream (lz77.c:152-176).
InBounds ==
    /\ Len(out) <= capacity
    /\ ipos <= Len(stream)
    /\ dpc = "copy" =>
         /\ distance \in 1 .. Len(out)
         /\ copied <= length
         /\ Len(out) + (length - copied) <= capacity

====
