----------------------------- MODULE MCGzipFile -----------------------------
(***************************************************************************)
(* GzipFile with bytes of two bits.  Symbols 0 to 3 are literals, 4 ends a *)
(* block, 5 is a length and 6 a symbol without a meaning; distances 0 and  *)
(* 1 stand for 1 to 4, one more than the ring holds, and 2 for none.       *)
(***************************************************************************)
EXTENDS GzipFile

MCOrder             == <<2, 5, 4, 3, 0, 6, 1>>
MCRepeatBits        == <<1, 1, 2>>
MCRepeatBase        == <<2, 2, 4>>
MCLengthBits        == <<1>>
MCLengthBases       == <<2>>
MCDistanceBits      == <<1, 1>>
MCDistanceBases     == <<1, 3>>
MCFixedLiterals     == [s \in 0 .. 6 |-> <<2, 3, 0, 0, 2, 2, 3>>[s + 1]]
MCFixedDistances    == [s \in 0 .. 3 |-> <<1, 2, 2, 0>>[s + 1]]

====
