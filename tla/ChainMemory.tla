------------------------------ MODULE ChainMemory -------------------------------
(* Key chains and the secure buffers they live in, in one process: KeyChain    *)
(* composed with SecureBuffer.  A chain key is written into its buffer, moves  *)
(* to another one when the seed was shorter than a derivation, and shares the  *)
(* process with buffers of other owners and with fastpath.reload().            *)
EXTENDS Integers, Sequences

CONSTANTS Endpoints, MaxFastForward, Starts, MaxStep,     \* of KeyChain
          Buffers, Cells, NoCell,                         \* of SecureBuffer
          NoBuffer

ASSUME LimitAssumption == MaxFastForward \in Nat
ASSUME StepsAssumption == Starts \subseteq Nat /\ MaxStep \in Nat
ASSUME NothingAssumption == NoBuffer \notin Buffers /\ NoCell \notin Cells

VARIABLES step, start, bufs, full, open, handed,          \* of KeyChain
          core, cell, buf,                                \* of SecureBuffer
          obj,              \* per chain: its _chain; NoBuffer before __init__ returned
          pending,          \* per chain: the swap advance() is in: its new buffer
                            \*   and the target it goes to, or NoSwap
          others            \* the buffers that other owners made

chainVars  == <<step, start, bufs, full, open, handed>>
memoryVars == <<core, cell, buf>>
vars == <<chainVars, memoryVars, obj, pending, others>>

Chain  == INSTANCE KeyChain
Memory == INSTANCE SecureBuffer

NoSwap == [new |-> NoBuffer, target |-> 0]

Init == /\ Chain!Init /\ Memory!Init
        /\ obj = [e \in Endpoints |-> NoBuffer]
        /\ pending = [e \in Endpoints |-> NoSwap]
        /\ others = {}

(* Python runs one call at a time: nothing happens in the middle of a swap.    *)
Swapping == \E e \in Endpoints : pending[e] # NoSwap
Alive(e) == obj[e] # NoBuffer /\ ~Swapping

(* KeyChain(seed): the seed goes into a buffer of its own.                     *)
Construct(e) ==
  /\ obj[e] = NoBuffer /\ ~Swapping
  /\ \E b \in Buffers, c \in Cells, paged \in BOOLEAN, locked \in BOOLEAN :
       /\ Memory!Open(b, c, paged, locked, TRUE)
       /\ obj' = [obj EXCEPT ![e] = b]
  /\ UNCHANGED <<chainVars, pending, others>>

(* advance and fast_forward when the lengths agree: the new chain key is       *)
(* written over the old one.                                                   *)
Overwrite(e, target) ==
  /\ Alive(e) /\ full[e]
  /\ Chain!FastForward(e, target)
  /\ Memory!Write(obj[e])
  /\ UNCHANGED <<obj, pending, others>>

(* The first advance of a short seed: the new buffer is made while the old one *)
(* still holds the seed, then the object turns to it and closes the old one.   *)
SwapOpen(e, target) ==
  /\ Alive(e) /\ ~full[e] /\ open[e]
  /\ target >= step[e] /\ target - step[e] <= MaxFastForward
  /\ target < MaxStep
  /\ \E b \in Buffers, c \in Cells, paged \in BOOLEAN, locked \in BOOLEAN :
       /\ Memory!Open(b, c, paged, locked, TRUE)
       /\ pending' = [pending EXCEPT ![e] = [new |-> b, target |-> target]]
  /\ UNCHANGED <<chainVars, obj, others>>

(* Mistake, for the runs: the old buffer is dropped and not closed.            *)
SwapDrop(e) ==
  /\ pending[e] # NoSwap
  /\ Chain!FastForward(e, pending[e].target)
  /\ obj' = [obj EXCEPT ![e] = pending[e].new]
  /\ pending' = [pending EXCEPT ![e] = NoSwap]
  /\ UNCHANGED <<memoryVars, others>>

SwapClose(e) ==
  /\ pending[e] # NoSwap
  /\ Chain!FastForward(e, pending[e].target)
  /\ Memory!Close(obj[e])
  /\ obj' = [obj EXCEPT ![e] = pending[e].new]
  /\ pending' = [pending EXCEPT ![e] = NoSwap]
  /\ UNCHANGED others

CloseChain(e) == /\ Alive(e)
                 /\ Chain!Close(e) /\ Memory!Close(obj[e])
                 /\ UNCHANGED <<obj, pending, others>>

(* Whatever else in the process has buffers, and the core that is reloaded.    *)
Elsewhere ==
  /\ ~Swapping
  /\ \/ /\ \E b \in Buffers, c \in Cells, paged \in BOOLEAN, locked \in BOOLEAN :
             Memory!Open(b, c, paged, locked, FALSE) /\ others' = others \cup {b}
     \/ /\ \E c \in Cells, paged \in BOOLEAN, locked \in BOOLEAN :
             Memory!OpenRaises(c, paged, locked)
        /\ UNCHANGED others
     \/ /\ \E b \in others : Memory!Write(b) \/ Memory!Wipe(b) \/ Memory!Close(b)
        /\ UNCHANGED others
     \/ \E b \in others : Memory!Forget(b) /\ others' = others \ {b}
     \/ Memory!Reload /\ UNCHANGED others
  /\ UNCHANGED <<chainVars, obj, pending>>

Next == \/ \E e \in Endpoints :
             \/ Construct(e) \/ SwapClose(e) \/ CloseChain(e)
             \/ \E target \in 0..MaxStep : Overwrite(e, target) \/ SwapOpen(e, target)
        \/ Elsewhere

Spec == Init /\ [][Next]_vars

---------------------------------------------------------------------------------
(* Type invariant: those of both parts, and chains with a buffer each.         *)
TypeOK == /\ Chain!TypeOK /\ Memory!TypeOK
          /\ obj \in [Endpoints -> Buffers \cup {NoBuffer}]
          /\ \A e \in Endpoints : pending[e] = NoSwap \/ pending[e].new \in Buffers
          /\ others \subseteq Buffers

(* Two ends built from one seed that return a key for the same step return the *)
(* same key, however each of them got there; no end returns a step twice, nor  *)
(* one after a later one.                                                      *)
Agreement == Chain!Agreement /\ Chain!NeverBack

(* Forward secrecy, as the chain means it and as the memory keeps it: no       *)
(* buffer holds a chain key that gives a key handed out before, and the only   *)
(* open buffers of a chain are its present one, until close(), and during a    *)
(* swap the next one.                                                          *)
PastIsGone ==
  /\ Chain!PastIsGone
  /\ \A e \in Endpoints : obj[e] # NoBuffer => (Memory!IsOpen(obj[e]) <=> open[e])
  /\ \A b \in Buffers \ others : Memory!IsOpen(b) =>
       \E e \in Endpoints : b = obj[e] \/ b = pending[e].new

(* An open buffer keeps its block, and its lock if it says it has one, until   *)
(* its own close(); no two chains ever share a buffer or a block; and key      *)
(* bytes exist only in the block of an open buffer: nothing is left after      *)
(* close(), a constructor that raised, a lost core, or in memory handed on.    *)
OwnMemory == /\ Memory!OwnMemory /\ Memory!NoSecretLeft
             /\ \A e, f \in Endpoints : obj[e] = obj[f] /\ obj[e] # NoBuffer => e = f

=================================================================================
