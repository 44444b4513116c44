-------------------------- MODULE MCConnectionTokens ---------------------------
(* An instance of ConnectionTokens for TLC.                                   *)
EXTENDS ConnectionTokens

CONSTANTS e1, e2, c1, c2

(* The second call is made in the executor of the first, or in another one.   *)
(* Executors differ by name only: no other choice shows anything new.         *)
SameOrAnother == [c \in {c1, c2} |-> IF c = c1 THEN {e1} ELSE {e1, e2}]
===============================================================================
