-------------------------------- MODULE OnceOnly --------------------------------
(* What replay protection promises, without a window: a set of numbers that    *)
(* are closed, for good, to the messages still to come.  A number is granted   *)
(* only while it is open, granting it closes it and every number that lies     *)
(* reach or more below it, and nothing reopens except by going back to a       *)
(* checkpoint or by starting over.                                             *)
EXTENDS Integers

CONSTANTS Reaches,          \* how far below the newest number memory may reach
          Last              \* the largest number

Range == 1..Last

VARIABLES closed,           \* the numbers that will not be granted again
          reach,            \* how far below the newest number the memory goes
          checkpoint        \* what a restart may go back to

vars == <<closed, reach, checkpoint>>

Init == /\ reach \in Reaches
        /\ closed = {}
        /\ checkpoint = [closed |-> {}, reach |-> reach]

Grant(n) ==
  /\ n \notin closed
  /\ closed' = closed \cup {n} \cup {m \in Range : m + reach <= n}
  /\ UNCHANGED <<reach, checkpoint>>

Checkpoint == /\ checkpoint' = [closed |-> closed, reach |-> reach]
              /\ UNCHANGED <<closed, reach>>

GoBack == /\ closed' = checkpoint.closed
          /\ reach' = checkpoint.reach
          /\ UNCHANGED checkpoint

StartOver == /\ closed' = {}
             /\ reach' \in Reaches
             /\ UNCHANGED checkpoint

Next == \/ \E n \in Range : Grant(n)
        \/ Checkpoint
        \/ GoBack
        \/ StartOver

Spec == Init /\ [][Next]_vars

=================================================================================
