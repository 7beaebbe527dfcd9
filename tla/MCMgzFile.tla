----------------------------- MODULE MCMgzFile -----------------------------
(* MgzFile with two byte values; a block of equal bytes gets smaller.      *)
EXTENDS MgzFile

MCShrinking == {[i \in 1 .. BlockSize |-> b] : b \in Byte}

====
