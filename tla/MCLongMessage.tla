----------------------------- MODULE MCLongMessage ------------------------------
EXTENDS LongMessage

(* target_blocks left out, invalid, too small for the longer texts, just       *)
(* enough, one block of padding, and beyond MAX_BLOCKS.                        *)
MCTargets == {NoTarget, 0, 1, 3, 4}
=================================================================================
