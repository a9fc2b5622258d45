-------------------------------- MODULE KeyChain --------------------------------
(* The one way ratchet of crypto/keys.py at the endpoints that share its seed. *)
(* Derivations are symbolic: the chain key after d advances is the number d,   *)
(* one way, so that it gives the keys d, d + 1, ... and none before; a message *)
(* key is the pair of the chain key and the step label it was derived with.    *)
(* The secure buffers that held a chain key are part of the state: forward     *)
(* secrecy is about what is left in them.                                      *)
EXTENDS Integers, Sequences

CONSTANTS Endpoints,
          MaxFastForward,   \* MAX_FAST_FORWARD
          Starts,           \* the step= arguments of the constructor
          MaxStep           \* bound: no chain moves beyond this step

VARIABLES step,             \* per endpoint: _step
          start,            \* history: the step it was built with
          bufs,             \* per endpoint: every buffer _chain ever was
          full,             \* whether _chain has the length of a derivation
          open,             \* FALSE after close()
          handed            \* history: the message keys returned, in order

vars == <<step, start, bufs, full, open, handed>>

Wiped == -1                 \* a buffer zeroed and released

(* The object's current buffer is the last one it made.                        *)
Held(b) == b[Len(b)]

(* A seed may be shorter than a derivation; the endpoints share the seed.      *)
Init == /\ start \in [Endpoints -> Starts]
        /\ step = start
        /\ bufs = [e \in Endpoints |-> <<0>>]
        /\ full \in {[e \in Endpoints |-> f] : f \in BOOLEAN}
        /\ open = [e \in Endpoints |-> TRUE]
        /\ handed = [e \in Endpoints |-> <<>>]

MessageKey(d, s) == [chain |-> d, step |-> s]

(* The buffers after one advance: a derivation overwrites the chain key in     *)
(* place, unless the length changes, when it goes to a new buffer and the old  *)
(* one is closed.                                                              *)
Ratcheted(b, isFull) ==
  IF isFull THEN [b EXCEPT ![Len(b)] = Held(b) + 1]
            ELSE Append([b EXCEPT ![Len(b)] = Wiped], Held(b) + 1)

(* n advances: only the first can change the length.                           *)
RatchetedBy(b, isFull, n) ==
  [Ratcheted(b, isFull) EXCEPT ![Len(Ratcheted(b, isFull))] = Held(b) + n]

(* Mistake, for the runs: the chain moves past the skipped steps in one        *)
(* derivation.                                                                 *)
MoveByJump(e, n) ==
  /\ step[e] + n < MaxStep
  /\ handed' = [handed EXCEPT
                  ![e] = Append(@, MessageKey(Held(bufs[e]), step[e] + n))]
  /\ bufs' = [bufs EXCEPT ![e] = RatchetedBy(@, full[e], 1)]
  /\ full' = [full EXCEPT ![e] = TRUE]
  /\ step' = [step EXCEPT ![e] = @ + n + 1]
  /\ UNCHANGED <<start, open>>

(* n + 1 calls of advance, the last one's key being returned.                  *)
Move(e, n) ==
  /\ step[e] + n < MaxStep
  /\ handed' = [handed EXCEPT
                  ![e] = Append(@, MessageKey(Held(bufs[e]) + n, step[e] + n))]
  /\ bufs' = [bufs EXCEPT ![e] = RatchetedBy(@, full[e], n + 1)]
  /\ full' = [full EXCEPT ![e] = TRUE]
  /\ step' = [step EXCEPT ![e] = @ + n + 1]
  /\ UNCHANGED <<start, open>>

Advance(e) == open[e] /\ Move(e, 0)

(* fast_forward: both errors come before the first advance.                    *)
FastForward(e, target) ==
  /\ open[e]
  /\ target >= step[e]
  /\ target - step[e] <= MaxFastForward
  /\ Move(e, target - step[e])

(* close: the buffer is zeroed and released, every later call raises.          *)
Close(e) ==
  /\ open[e]
  /\ open' = [open EXCEPT ![e] = FALSE]
  /\ bufs' = [bufs EXCEPT ![e] = [@ EXCEPT ![Len(@)] = Wiped]]
  /\ UNCHANGED <<step, start, full, handed>>

(* Receivers ask for the step of the packet that reached them, so losses and   *)
(* reorderings are the targets that skip and the targets that come late.       *)
Next == \E e \in Endpoints : \/ Advance(e)
                             \/ \E target \in 0..MaxStep : FastForward(e, target)
                             \/ Close(e)

Spec == Init /\ [][Next]_vars

---------------------------------------------------------------------------------
MessageKeys == [chain : Nat, step : Nat]

(* Type invariant: the chain's position, its buffers and the keys it returned. *)
TypeOK == /\ step \in [Endpoints -> Nat]
          /\ start \in [Endpoints -> Starts]
          /\ bufs \in [Endpoints -> Seq(Nat \cup {Wiped})]
          /\ full \in [Endpoints -> BOOLEAN]
          /\ open \in [Endpoints -> BOOLEAN]
          /\ handed \in [Endpoints -> Seq(MessageKeys)]

(* Two endpoints built from one seed and one step that return a key for the    *)
(* same step return the same key, however each of them got there.              *)
Agreement ==
  \A e, f \in Endpoints : start[e] = start[f] =>
    \A i \in DOMAIN handed[e], j \in DOMAIN handed[f] :
      handed[e][i].step = handed[f][j].step => handed[e][i] = handed[f][j]

(* Forward secrecy in memory: no buffer the chain ever lived in still holds a  *)
(* chain key from which a key handed out before could be derived again, and    *)
(* after close() none holds a key at all.                                      *)
PastIsGone ==
  \A e \in Endpoints : \A i \in DOMAIN bufs[e] : bufs[e][i] # Wiped =>
    /\ open[e]
    /\ \A j \in DOMAIN handed[e] : bufs[e][i] > handed[e][j].chain

(* Every step's key leaves an endpoint at most once and never after a later    *)
(* one: a late packet's key is gone, it is not derived again.                  *)
NeverBack ==
  \A e \in Endpoints : \A i, j \in DOMAIN handed[e] :
    i < j => handed[e][i].step < handed[e][j].step

=================================================================================
