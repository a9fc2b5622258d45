--------------------------------- MODULE MCApp ----------------------------------
(* Two windows and a web page that share up to three keys, two ciphertexts and *)
(* numbers to 2: keys move from field to field, sessions are switched off and  *)
(* on between sending and receiving.                                           *)
EXTENDS App, TLC

Symmetry == Permutations(Windows) \cup Permutations(Keys)
=================================================================================
