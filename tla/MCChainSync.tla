---------------------------- MODULE MCChainSync ----------------------------
(* ChainSync for TLC: a chain of three blocks with a fork beside it. *)
EXTENDS ChainSync

CONSTANTS p1, p2

\* The chain 0, 1, 2, 4 and a sibling 3 of block 2, heavier than 4.
MCBlocks == 1 .. 4
MCParent == [b \in 1 .. 4 |-> IF b <= 2 THEN b - 1 ELSE b - 2]
MCNumber == [b \in 0 .. 4 |-> IF b <= 2 THEN b ELSE b - 1]
MCTotal == [b \in 0 .. 4 |-> IF b = 3 THEN 4 ELSE IF b = 4 THEN 3 ELSE b]

\* The peers start on the two branches.
MCStarts == {[p \in Peers |-> IF p = p1 THEN {0, 1, 2, 4} ELSE {0, 1, 3}]}
=============================================================================
