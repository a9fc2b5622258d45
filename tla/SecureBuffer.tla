------------------------------ MODULE SecureBuffer ------------------------------
(* crypto/memory.py over ccore/safe.c: buffers for key material, each on pages *)
(* of its own when the compiled core is loaded and in a bytearray when it is   *)
(* not, or when the pages are refused.  Whether the core is loaded is asked    *)
(* anew by every call, and fastpath.reload() may change the answer while       *)
(* buffers are open.                                                           *)
EXTENDS Integers

CONSTANTS Buffers,          \* SecureBuffer objects
          Cells,            \* blocks of memory: mapped pages or Python's heap
          NoCell

VARIABLES core,             \* fastpath.lib() is not None
          cell,             \* per cell: free, a mapped page or heap; lock; content
          buf               \* per buffer: life, _addr or _bytearray, _locked

vars == <<core, cell, buf>>

Free == [use |-> "free", locked |-> FALSE, secret |-> FALSE]
Unborn == [life |-> "unborn", addr |-> NoCell, array |-> NoCell, locked |-> FALSE]

Init == /\ core \in BOOLEAN
        /\ cell = [c \in Cells |-> Free]
        /\ buf = [b \in Buffers |-> Unborn]

IsOpen(b) == buf[b].life = "open"

(* Where a buffer's bytes are.                                                 *)
Block(b) == IF buf[b].addr # NoCell THEN buf[b].addr ELSE buf[b].array

(* Mistake, for the runs: small blocks share a page, as malloc gave them.      *)
FreshOrShared(c) == cell[c].use # "heap"

(* A block nobody uses: mmap gives whole pages that are nobody else's.         *)
Fresh(c) == cell[c].use = "free"

(* crypto_buffer_open succeeds: zeroed pages, locked if the system allows it.  *)
Mapped(locked) == [use |-> "page", locked |-> locked, secret |-> FALSE]
Heap           == [use |-> "heap", locked |-> FALSE, secret |-> FALSE]

(* The constructor's choice of memory, before any data is written: the core's  *)
(* pages, or a bytearray when there is no core or it returned NULL.            *)
Allocated(c, paged, locked) ==
  /\ paged => core
  /\ locked => paged
  /\ Fresh(c)

(* Mistake, for the runs: the fallback is made in any case.                    *)
BufferBoth(c, paged, locked) ==
  [life |-> "open", locked |-> locked,
   addr  |-> IF paged THEN c ELSE NoCell, array |-> c]

Buffer(c, paged, locked) ==
  [life |-> "open", locked |-> locked,
   addr  |-> IF paged THEN c ELSE NoCell, array |-> IF paged THEN NoCell ELSE c]
Memory(paged, locked) == IF paged THEN Mapped(locked) ELSE Heap

(* SecureBuffer(size), SecureBuffer(size, data=...) and random(size); a random *)
(* whose C generator fails closes the buffer again before it raises.           *)
Open(b, c, paged, locked, secret) ==
  /\ buf[b].life = "unborn"
  /\ Allocated(c, paged, locked)
  /\ buf' = [buf EXCEPT ![b] = Buffer(c, paged, locked)]
  /\ cell' = [cell EXCEPT ![c] = [Memory(paged, locked) EXCEPT !.secret = secret]]
  /\ UNCHANGED core

(* The constructor's write() raises on data of another length: the caller gets *)
(* no object, a bytearray is collected, mapped pages are nobody's.             *)
OpenRaises(c, paged, locked) ==
  /\ Allocated(c, paged, locked)
  /\ cell' = [cell EXCEPT ![c] = IF paged THEN Mapped(locked) ELSE Free]
  /\ UNCHANGED <<core, buf>>

(* write(): data of the right length lands in the block; view() writes too.    *)
Write(b) == /\ IsOpen(b)
            /\ cell' = [cell EXCEPT ![Block(b)].secret = TRUE]
            /\ UNCHANGED <<core, buf>>

(* wipe(): crypto_wipe on pages when the core is there, else through the view. *)
Wipe(b) == /\ IsOpen(b)
           /\ cell' = [cell EXCEPT ![Block(b)].secret = FALSE]
           /\ UNCHANGED <<core, buf>>

(* close() with the core and an address: wipe, unlock, unmap, in that order.   *)
CloseInC(b) ==
  /\ IsOpen(b) /\ core /\ buf[b].addr # NoCell
  /\ cell' = [cell EXCEPT ![buf[b].addr] = Free]
  /\ buf' = [buf EXCEPT ![b].addr = NoCell, ![b].life = "closed"]
  /\ UNCHANGED core

(* Mistake, for the runs: the view is dropped before it is zeroed.             *)
CloseDropsOnly(b) ==
  /\ IsOpen(b) /\ ~(core /\ buf[b].addr # NoCell)
  /\ cell' = [cell EXCEPT ![Block(b)] = IF @.use = "page" THEN @ ELSE Free]
  /\ buf' = [buf EXCEPT ![b].array = NoCell, ![b].life = "closed"]
  /\ UNCHANGED core

(* close() on the other branch: the array is zeroed and dropped.  A bytearray  *)
(* is collected; of a page only the view was dropped, _addr still names it.    *)
CloseInPython(b) ==
  /\ IsOpen(b) /\ ~(core /\ buf[b].addr # NoCell)
  /\ cell' = [cell EXCEPT ![Block(b)] = IF @.use = "page"
                                           THEN [@ EXCEPT !.secret = FALSE]
                                           ELSE Free]
  /\ buf' = [buf EXCEPT ![b].array = NoCell, ![b].life = "closed"]
  /\ UNCHANGED core

Close(b) == CloseInC(b) \/ CloseInPython(b)

(* A closed object is dropped by its owner; another may take its name.         *)
Forget(b) == /\ buf[b].life = "closed"
             /\ buf' = [buf EXCEPT ![b] = Unborn]
             /\ UNCHANGED <<core, cell>>

(* fastpath.reload(): the core is found, or is not.                            *)
Reload == /\ core' = ~core
          /\ UNCHANGED <<cell, buf>>

Next == \/ \E c \in Cells, paged \in BOOLEAN, locked \in BOOLEAN :
             \/ OpenRaises(c, paged, locked)
             \/ \E b \in Buffers, secret \in BOOLEAN : Open(b, c, paged, locked, secret)
        \/ \E b \in Buffers : Write(b) \/ Wipe(b) \/ Close(b) \/ Forget(b)
        \/ Reload

Spec == Init /\ [][Next]_vars

---------------------------------------------------------------------------------
(* Type invariant: cells, buffers, and an open buffer is in exactly one place. *)
TypeOK == /\ core \in BOOLEAN
          /\ cell \in [Cells -> [use : {"free", "page", "heap"},
                                 locked : BOOLEAN, secret : BOOLEAN]]
          /\ buf \in [Buffers -> [life : {"unborn", "open", "closed"},
                                  addr : Cells \cup {NoCell},
                                  array : Cells \cup {NoCell}, locked : BOOLEAN]]
          /\ \A b \in Buffers :
               IsOpen(b) => (buf[b].addr = NoCell) # (buf[b].array = NoCell)

(* Key bytes exist only in the block of an open buffer: nothing is left after  *)
(* close(), a constructor that raised, a lost core, or in memory handed on.    *)
NoSecretLeft ==
  \A c \in Cells : cell[c].secret => \E b \in Buffers : IsOpen(b) /\ Block(b) = c

(* An open buffer keeps its block, and its lock if it says it has one, until   *)
(* its own close(): no other buffer's wipe, close or constructor takes them    *)
(* away or shares them, also when the core is lost or found in between.        *)
OwnMemory ==
  \A b \in Buffers : IsOpen(b) =>
    /\ cell[Block(b)].use # "free"
    /\ buf[b].locked => cell[Block(b)].locked
    /\ \A d \in Buffers : IsOpen(d) /\ Block(b) = Block(d) => b = d

=================================================================================
