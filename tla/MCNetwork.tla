------------------------------- MODULE MCNetwork --------------------------------
EXTENDS Network

(* A member and a child may have the same name; a clock may be wrong.          *)
MCDays == {-1, 1, 2}

MCSymmetry == Permutations(Objects)
=================================================================================
