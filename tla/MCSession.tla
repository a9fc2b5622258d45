------------------------------- MODULE MCSession --------------------------------
(* Two endpoints with a key per direction, as SecureChannel sets them up; one  *)
(* of them sends.  Two blobs of any kinds, numbers to 3, some of them spent on *)
(* refused calls, and a width of 2: a blob can come twice, late, below the     *)
(* window, and back to its sender.                                             *)
EXTENDS Session

CONSTANTS a, b

MCEndpoints == {a, b}
MCSenders == {a}
MCSendKeys == [e \in {a, b} |-> IF e = a THEN "ab" ELSE "ba"]
MCRecvKeys == [e \in {a, b} |-> IF e = a THEN "ba" ELSE "ab"]
MCKeys == {"ab", "ba"}
=================================================================================
