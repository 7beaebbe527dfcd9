----------------------------- MODULE Lz77Format -----------------------------
(* What lz77_compress and lz77_decompress agree on: the limits of lz77.h and *)
(* the layout of a token.  A 16-bit field is two bytes, the low one first.   *)
EXTENDS Integers, Sequences

CONSTANTS
    Radix,      \* values of a byte: 256
    MinMatch,   \* LZ77_MIN_MATCH: 3
    MaxMatch,   \* LZ77_MAX_MATCH: 258
    Window      \* LZ77_WINDOW_SIZE: 32768

ASSUME FormatAssumption ==
    /\ Radix \in Nat /\ Radix >= 2
    /\ MinMatch \in Nat /\ MinMatch >= 3
    /\ MaxMatch \in Nat /\ MinMatch <= MaxMatch /\ MaxMatch < Radix * Radix
    /\ Window \in Nat \ {0} /\ Window < Radix * Radix

Byte == 0 .. Radix - 1

TOKEN_LITERAL == 0
TOKEN_MATCH   == 1

\* Mutant: only the low byte of a field is kept.
HighLost(v) == 0

Low(v)  == v % Radix
High(v) == v \div Radix
Value(low, high) == low + high * Radix

LiteralToken(byte) == <<TOKEN_LITERAL, byte>>

MatchToken(length, distance) ==
    <<TOKEN_MATCH, Low(length), High(length), Low(distance), High(distance)>>

====
