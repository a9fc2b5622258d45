----------------------------- MODULE MCChainMemory ------------------------------
(* A sender and a receiver; the limit is smaller than the number of steps, so  *)
(* that a packet can be too far ahead, one step inside the limit and behind.   *)
(* Three buffers and three blocks: during a swap the other chain or another    *)
(* owner holds the third, and blocks are released and taken again.             *)
EXTENDS ChainMemory, TLC

CONSTANTS sender, receiver

MCEndpoints == {sender, receiver}
MCSymmetry == Permutations(Buffers) \cup Permutations(Cells)

=================================================================================
