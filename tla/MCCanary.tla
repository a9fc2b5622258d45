-------------------------------- MODULE MCCanary --------------------------------
(* Three members and up to three rounds, the least with which a pair has       *)
(* somebody to frame and a safe layout exists.  Flipping the variants of a     *)
(* round changes nothing, so the first member's stream is all zeros; he is the *)
(* first in sorted order and never needs a second try.  The margin brings the  *)
(* default of three members down to two rounds, so that build_safe has work.   *)
(* Its callers give steps down, none and up, and limits below, at and above    *)
(* the most the constructor allows.                                            *)
EXTENDS Canary

Bits == [1..MaxBits -> {0, 1}]
Table(s, t, u, v) == [x \in Names \X Counters |->
   CASE x[1] = 1          -> [i \in 1..MaxBits |-> 0]
     [] x = <<2, 0>>      -> s
     [] x = <<2, 1>>      -> t
     [] x = <<3, 0>>      -> u
     [] x = <<3, 1>>      -> v]
(* The second tries are read only after a collision: two choices are enough to *)
(* have one that is free and one that is taken by somebody else.               *)
Second == {<<0, 0, 1>>, <<1, 1, 0>>}
MCStreams == {Table(s, t, u, v) : s \in Bits, t \in Second, u \in Bits, v \in Second}
MCMargin == -2
MCStepsAsked == {-1, 0, 1}
=================================================================================
