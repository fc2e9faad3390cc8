--------------------------- MODULE MCChainReaders ---------------------------
(* ChainReaders for TLC: every tree of up to four blocks, genesis included. *)
EXTENDS ChainReaders

\* The genesis hash lies between the others: ties are broken both ways.
MCHashes == 1 .. 4
MCGenesis == 3

\* The transaction is in block 1 and again, on another branch, in block 4.
MCCarriers == {1, 4}
=============================================================================
