------------------------------ MODULE RelayMC ------------------------------
(***************************************************************************)
(* Paths for RelayCache; requests share the fetch of one of them.          *)
(***************************************************************************)
EXTENDS RelayCache

CONSTANT p1

SharingOfP1 == [p \in Paths |-> IF p = p1 THEN 1 ELSE 0]
=============================================================================
