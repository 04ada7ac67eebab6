------------------------------ MODULE MCWsStat ------------------------------
(* Instances of WsStat for TLC: small directory trees.                     *)
EXTENDS WsStatInvariant

CONSTANTS d1, d2, d3, d4, d5, d6

\* One directory at the top, all others below it.
WideTree == [d \in Dirs |-> IF d = d1 THEN Dirs \ {d1} ELSE {}]

\* Every directory is at the top.
FlatTree == [d \in Dirs |-> {}]
=============================================================================
