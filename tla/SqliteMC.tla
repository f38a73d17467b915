------------------------------ MODULE SqliteMC ------------------------------
(***************************************************************************)
(* Two threads for Sqlite: one nests its transactions, the other does not. *)
(***************************************************************************)
EXTENDS Sqlite

CONSTANTS a, b

NestingOfA == [c \in {a, b} |-> IF c = a THEN 3 ELSE 1]
TwoOneNone == <<2, 1, 0>>
PlainOfA == [c \in {a, b} |-> IF c = a THEN 1 ELSE 0]
=============================================================================
