------------------------------- MODULE Powers -------------------------------
(***************************************************************************)
(* The powers of two that the C sources write as shifts of one.            *)
(***************************************************************************)
EXTENDS Integers

pow2[n \in Nat] == IF n = 0 THEN 1 ELSE 2 * pow2[n - 1]

====
