--------------------------- MODULE ChainMemoryProofs ----------------------------
(* Theorems about key chains and the secure buffers they live in, for every set*)
(* of endpoints, starts, buffers and blocks of memory, and every limit; and    *)
(* about the compiled core under the buffers (CoreBuild), at the end.          *)
EXTENDS ChainMemory, CoreBuild, SequenceTheorems, TLAPS

---------------------------------------------------------------------------------
(* The chain: where it is, what is left of it, and what it handed out.         *)

Wiped == Chain!Wiped

(* Buffers of which only the last can hold anything, and that is v.            *)
Sole(b, v) == /\ b \in Seq(Nat \cup {Wiped}) /\ Len(b) \in Nat \ {0}
              /\ b[Len(b)] = v
              /\ \A i \in 1..(Len(b) - 1) : b[i] = Wiped

Position(e) == IF open[e] THEN step[e] - start[e] ELSE Wiped

(* A chain key is the distance from the start, in the buffer and in every key  *)
(* that was handed out; those are behind the present step, in order.           *)
InOrder(h, s, next) ==
  /\ \A j \in 1..Len(h) : h[j].chain = h[j].step - s /\ h[j].step < next
  /\ \A i, j \in 1..Len(h) : i < j => h[i].step < h[j].step

CInv == /\ Chain!TypeOK
        /\ \A e \in Endpoints : /\ step[e] >= start[e]
                                /\ Sole(bufs[e], Position(e))
                                /\ InOrder(handed[e], start[e], step[e])

LEMMA ReplacedLast ==
  ASSUME NEW S, NEW b \in Seq(S), Len(b) \in Nat \ {0}, NEW v \in S,
         NEW x, x = [b EXCEPT ![Len(b)] = v]
  PROVE  /\ x \in Seq(S) /\ Len(x) = Len(b) /\ x[Len(b)] = v
         /\ \A i \in 1..(Len(b) - 1) : x[i] = b[i]
<1> DEFINE n == Len(b)
<1>1. n \in 1..n
  OBVIOUS
<1>2. /\ [b EXCEPT ![n] = v] \in Seq(S) /\ Len([b EXCEPT ![n] = v]) = n
      /\ \A j \in 1..n : [b EXCEPT ![n] = v][j] = IF j = n THEN v ELSE b[j]
  BY <1>1, ExceptSeq
<1>3. n \in Nat \ {0} /\ x = [b EXCEPT ![n] = v]
  OBVIOUS
<1>4. /\ x \in Seq(S) /\ Len(x) = n
      /\ \A j \in 1..n : x[j] = IF j = n THEN v ELSE b[j]
  BY <1>2, <1>3
<1> HIDE DEF n
<1>5. x[n] = v /\ \A i \in 1..(n - 1) : x[i] = b[i]
  BY <1>3, <1>4
<1> QED
  BY <1>4, <1>5 DEF n

(* Some advances leave the last chain key and nothing of those before.         *)
LEMMA RatchetedSole ==
  ASSUME NEW b, NEW v \in Nat, Sole(b, v), NEW isFull \in BOOLEAN, NEW n \in Nat \ {0}
  PROVE  Sole(Chain!RatchetedBy(b, isFull, n), v + n)
<1> DEFINE S == Nat \cup {Wiped}
           one == Chain!Ratcheted(b, isFull)
<1>1. b \in Seq(S) /\ Len(b) \in Nat \ {0} /\ b[Len(b)] = v /\ Wiped \in S
  BY DEF Sole
<1>2. Sole(one, v + 1)
  <2>1. CASE isFull
    <3>1. one = [b EXCEPT ![Len(b)] = v + 1]
      BY <1>1, <2>1 DEF Chain!Ratcheted, Chain!Held
    <3>2. v + 1 \in S
      OBVIOUS
    <3> HIDE DEF one, S
    <3>3. /\ one \in Seq(S) /\ Len(one) = Len(b) /\ one[Len(b)] = v + 1
          /\ \A i \in 1..(Len(b) - 1) : one[i] = b[i]
      BY <1>1, <3>1, <3>2, ReplacedLast
    <3> QED
      BY <1>1, <3>3 DEF Sole, S
  <2>2. CASE ~isFull
    <3> DEFINE old == [b EXCEPT ![Len(b)] = Wiped]
    <3>1. one = Append(old, v + 1)
      BY <1>1, <2>2 DEF Chain!Ratcheted, Chain!Held, Wiped
    <3>2. v + 1 \in S
      OBVIOUS
    <3> HIDE DEF one, S, old
    <3>3. /\ old \in Seq(S) /\ Len(old) = Len(b) /\ old[Len(b)] = Wiped
          /\ \A i \in 1..(Len(b) - 1) : old[i] = b[i]
      BY <1>1, ReplacedLast DEF old
    <3>4. \A i \in 1..Len(b) : old[i] = Wiped
      BY <1>1, <3>3 DEF Sole
    <3>5. /\ one \in Seq(S) /\ Len(one) = Len(b) + 1 /\ one[Len(b) + 1] = v + 1
          /\ \A i \in 1..Len(b) : one[i] = Wiped
      BY <3>1, <3>2, <3>3, <3>4, AppendProperties
    <3> QED
      BY <1>1, <3>5 DEF Sole, S
  <2> QED
    BY <2>1, <2>2
<1>3. Chain!RatchetedBy(b, isFull, n) = [one EXCEPT ![Len(one)] = v + n]
  BY <1>1 DEF Chain!RatchetedBy, Chain!Held
<1>4. v + n \in S
  OBVIOUS
<1> DEFINE all == Chain!RatchetedBy(b, isFull, n)
<1>5. one \in Seq(S) /\ Len(one) \in Nat \ {0}
  BY <1>2 DEF Sole
<1> HIDE DEF one, S, all
<1>6. /\ all \in Seq(S) /\ Len(all) = Len(one) /\ all[Len(one)] = v + n
      /\ \A i \in 1..(Len(one) - 1) : all[i] = one[i]
  BY <1>3, <1>4, <1>5, ReplacedLast DEF all
<1>7. Sole(all, v + n)
  BY <1>2, <1>5, <1>6 DEF Sole, S
<1> QED
  BY <1>7 DEF all

LEMMA MoveKeeps ==
  ASSUME CInv, NEW e \in Endpoints, NEW n \in Nat, open[e], Chain!Move(e, n)
  PROVE  CInv'
<1> DEFINE key == Chain!MessageKey(Chain!Held(bufs[e]) + n, step[e] + n)
<1>1. /\ step[e] \in Nat /\ start[e] \in Nat /\ step[e] >= start[e]
      /\ full[e] \in BOOLEAN /\ handed[e] \in Seq(Chain!MessageKeys)
  BY StepsAssumption DEF CInv, Chain!TypeOK
<1>2. Sole(bufs[e], step[e] - start[e])
  BY DEF CInv, Position
<1>3. key = [chain |-> step[e] - start[e] + n, step |-> step[e] + n]
  BY <1>2 DEF Sole, Chain!Held, Chain!MessageKey
<1>4. key \in Chain!MessageKeys /\ key.chain = key.step - start[e]
      /\ key.step = step[e] + n
  BY <1>1, <1>3 DEF Chain!MessageKeys
<1> HIDE DEF key
<1>5. /\ step' = [step EXCEPT ![e] = step[e] + n + 1] /\ start' = start /\ open' = open
      /\ full' = [full EXCEPT ![e] = TRUE]
      /\ bufs' = [bufs EXCEPT ![e] = Chain!RatchetedBy(bufs[e], full[e], n + 1)]
      /\ handed' = [handed EXCEPT ![e] = Append(handed[e], key)]
  BY DEF Chain!Move, key
<1>6. Sole(Chain!RatchetedBy(bufs[e], full[e], n + 1), step[e] - start[e] + (n + 1))
  <2>1. step[e] - start[e] \in Nat /\ n + 1 \in Nat \ {0}
    BY <1>1
  <2> QED
    BY <1>1, <1>2, <2>1, RatchetedSole
<1>7. /\ step'[e] = step[e] + n + 1 /\ handed'[e] = Append(handed[e], key)
      /\ bufs'[e] = Chain!RatchetedBy(bufs[e], full[e], n + 1)
      /\ \A f \in Endpoints \ {e} : /\ step'[f] = step[f] /\ handed'[f] = handed[f]
                                    /\ bufs'[f] = bufs[f]
  BY <1>5 DEF CInv, Chain!TypeOK
<1>8. /\ Append(handed[e], key) \in Seq(Chain!MessageKeys)
      /\ Len(Append(handed[e], key)) = Len(handed[e]) + 1 /\ Len(handed[e]) \in Nat
      /\ \A j \in 1..Len(handed[e]) : Append(handed[e], key)[j] = handed[e][j]
      /\ Append(handed[e], key)[Len(handed[e]) + 1] = key
  BY <1>1, <1>4, AppendProperties, LenProperties
<1>9. Chain!TypeOK'
  <2>1. Chain!RatchetedBy(bufs[e], full[e], n + 1) \in Seq(Nat \cup {Chain!Wiped})
    BY <1>6 DEF Sole, Wiped
  <2>2. step[e] + n + 1 \in Nat
    BY <1>1
  <2> QED
    BY <1>5, <1>8, <2>1, <2>2 DEF CInv, Chain!TypeOK
<1>10. InOrder(handed[e], start[e], step[e])
  BY DEF CInv
<1>11. \A j \in 1..Len(handed[e]) : handed[e][j].step \in Nat
  <2>1. \A j \in 1..Len(handed[e]) : handed[e][j] \in Chain!MessageKeys
    BY <1>1, ElementOfSeq
  <2> QED
    BY <2>1 DEF Chain!MessageKeys
<1>12. InOrder(handed'[e], start'[e], step'[e])
  <2> DEFINE h == handed[e]
             g == Append(handed[e], key)
             l == Len(handed[e])
  <2>1. /\ l \in Nat /\ Len(g) = l + 1 /\ g[l + 1] = key /\ \A j \in 1..l : g[j] = h[j]
        /\ \A j \in 1..l : h[j].step \in Nat
        /\ \A j \in 1..l : h[j].chain = h[j].step - start[e] /\ h[j].step < step[e]
        /\ \A i, j \in 1..l : i < j => h[i].step < h[j].step
    BY <1>8, <1>10, <1>11 DEF InOrder
  <2> HIDE DEF h, g, l
  <2>2. \A j \in 1..Len(g) : /\ g[j].chain = g[j].step - start[e]
                              /\ g[j].step < step[e] + n + 1
    <3> TAKE j \in 1..Len(g)
    <3>1. CASE j = l + 1
      <4>1. g[j] = key
        BY <2>1, <3>1
      <4> QED
        BY <1>1, <1>4, <4>1
    <3>2. CASE j \in 1..l
      <4>1. g[j] = h[j] /\ h[j].step \in Nat /\ h[j].chain = h[j].step - start[e]
            /\ h[j].step < step[e]
        BY <2>1, <3>2
      <4> QED
        BY <1>1, <4>1
    <3> QED
      BY <2>1, <3>1, <3>2
  <2>3. ASSUME NEW i \in 1..Len(g), NEW j \in 1..Len(g), i < j
        PROVE  g[i].step < g[j].step
    <3>1. i \in 1..l /\ (j = l + 1 \/ j \in 1..l)
      BY <2>1, <2>3
    <3>2. CASE j = l + 1
      <4>1. g[i] = h[i] /\ h[i].step \in Nat /\ h[i].step < step[e] /\ g[j] = key
        BY <2>1, <3>1, <3>2
      <4> QED
        BY <1>1, <1>4, <4>1
    <3>3. CASE j \in 1..l
      BY <2>1, <2>3, <3>1, <3>3
    <3> QED
      BY <3>1, <3>2, <3>3
  <2> QED
    BY <1>5, <1>7, <2>2, <2>3 DEF InOrder, g
<1>13. Sole(bufs'[e], Position(e)')
  <2>1. Position(e)' = step'[e] - start'[e]
    BY <1>5 DEF Position
  <2>2. step'[e] = step[e] + n + 1
    BY <1>7
  <2>3. start'[e] = start[e]
    BY <1>5
  <2>4. Position(e)' = step[e] - start[e] + (n + 1)
    BY <1>1, <2>1, <2>2, <2>3
  <2> QED
    BY <1>6, <1>7, <2>4
<1>14. \A f \in Endpoints \ {e} : Position(f)' = Position(f)
  BY <1>5, <1>7 DEF Position
<1> QED
  BY <1>1, <1>5, <1>7, <1>9, <1>12, <1>13, <1>14 DEF CInv

LEMMA FastForwardKeeps ==
  ASSUME CInv, NEW e \in Endpoints, NEW target \in Nat, Chain!FastForward(e, target)
  PROVE  CInv'
<1>1. target - step[e] \in Nat
  BY DEF CInv, Chain!TypeOK, Chain!FastForward
<1> QED
  BY <1>1, MoveKeeps DEF Chain!FastForward

LEMMA ChainCloseKeeps ==
  ASSUME CInv, NEW e \in Endpoints, Chain!Close(e)
  PROVE  CInv'
<1> DEFINE S == Nat \cup {Wiped}
           b == bufs[e]
           x == [b EXCEPT ![Len(b)] = Wiped]
<1>1. b \in Seq(S) /\ Len(b) \in Nat \ {0} /\ \A i \in 1..(Len(b) - 1) : b[i] = Wiped
  BY DEF CInv, Sole
<1>2. /\ bufs' = [bufs EXCEPT ![e] = x] /\ open' = [open EXCEPT ![e] = FALSE]
      /\ UNCHANGED <<step, start, full, handed>>
  BY DEF Chain!Close, Wiped
<1>3. x \in Seq(S) /\ Len(x) = Len(b) /\ x[Len(b)] = Wiped
      /\ \A i \in 1..(Len(b) - 1) : x[i] = b[i]
  <2>1. Wiped \in S
    OBVIOUS
  <2> HIDE DEF S, b
  <2> QED
    BY <1>1, <2>1, ReplacedLast
<1> HIDE DEF x, b
<1>4. Sole(x, Wiped)
  BY <1>1, <1>3 DEF Sole
<1>5. /\ bufs'[e] = x /\ open'[e] = FALSE
      /\ \A f \in Endpoints \ {e} : bufs'[f] = bufs[f] /\ open'[f] = open[f]
  BY <1>2 DEF CInv, Chain!TypeOK
<1>6. Position(e)' = Wiped /\ \A f \in Endpoints \ {e} : Position(f)' = Position(f)
  BY <1>2, <1>5 DEF Position
<1>7. Chain!TypeOK'
  BY <1>2, <1>3 DEF CInv, Chain!TypeOK, Wiped
<1> QED
  BY <1>2, <1>4, <1>5, <1>6, <1>7 DEF CInv

LEMMA ChainStays == CInv /\ UNCHANGED chainVars => CInv'
BY DEF CInv, chainVars, Chain!TypeOK, Position

---------------------------------------------------------------------------------
(* The memory.                                                                 *)

MInv == Memory!TypeOK /\ Memory!OwnMemory /\ Memory!NoSecretLeft

CellType == [use : {"free", "page", "heap"}, locked : BOOLEAN, secret : BOOLEAN]
BufType  == [life : {"unborn", "open", "closed"}, addr : Cells \cup {NoCell},
             array : Cells \cup {NoCell}, locked : BOOLEAN]

(* An open buffer is in one block, used, locked if it says so, and its own.    *)
LEMMA BlockIs ==
  ASSUME MInv, NEW b \in Buffers, buf[b].life = "open"
  PROVE  /\ Memory!Block(b) \in Cells
         /\ cell[Memory!Block(b)].use # "free"
         /\ buf[b].locked => cell[Memory!Block(b)].locked
         /\ \A d \in Buffers :
              buf[d].life = "open" /\ Memory!Block(d) = Memory!Block(b) => d = b
<1>1. buf[b] \in BufType /\ (buf[b].addr = NoCell) # (buf[b].array = NoCell)
  BY DEF MInv, Memory!TypeOK, Memory!IsOpen, BufType
<1>2. Memory!Block(b) \in Cells
  BY <1>1 DEF Memory!Block, BufType
<1> QED
  BY <1>2 DEF MInv, Memory!OwnMemory, Memory!IsOpen

LEMMA OpenKeeps ==
  ASSUME MInv, NEW b \in Buffers, NEW x \in Cells, NEW paged \in BOOLEAN,
         NEW locked \in BOOLEAN, NEW secret \in BOOLEAN,
         Memory!Open(b, x, paged, locked, secret)
  PROVE  /\ MInv' /\ buf[b].life = "unborn" /\ buf'[b].life = "open"
         /\ \A d \in Buffers \ {b} : buf'[d].life = buf[d].life
<1>1. /\ cell[x].use = "free" /\ (locked => paged)
      /\ buf' = [buf EXCEPT ![b] = Memory!Buffer(x, paged, locked)]
      /\ cell' = [cell EXCEPT
                    ![x] = [Memory!Memory(paged, locked) EXCEPT !.secret = secret]]
      /\ core' = core /\ buf[b].life = "unborn"
  BY DEF Memory!Open, Memory!Allocated, Memory!Fresh
<1>2. /\ cell \in [Cells -> CellType] /\ buf \in [Buffers -> BufType]
      /\ core \in BOOLEAN
  BY DEF MInv, Memory!TypeOK, CellType, BufType
<1> DEFINE new == [Memory!Memory(paged, locked) EXCEPT !.secret = secret]
           made == Memory!Buffer(x, paged, locked)
<1>3. /\ new \in CellType /\ new.use # "free"
      /\ new.locked = locked /\ new.secret = secret
  BY <1>1 DEF Memory!Memory, Memory!Mapped, Memory!Heap, CellType
<1>4. /\ made \in BufType /\ made.life = "open" /\ made.locked = locked
      /\ (made.addr = NoCell) # (made.array = NoCell)
      /\ (IF made.addr # NoCell THEN made.addr ELSE made.array) = x
  BY NothingAssumption DEF Memory!Buffer, BufType
<1> HIDE DEF new, made
<1>5. /\ buf'[b] = made /\ \A d \in Buffers \ {b} : buf'[d] = buf[d]
      /\ cell'[x] = new /\ \A y \in Cells \ {x} : cell'[y] = cell[y]
      /\ cell' \in [Cells -> CellType] /\ buf' \in [Buffers -> BufType]
  BY <1>1, <1>2, <1>3, <1>4 DEF new, made
<1>6. /\ buf'[b].life = "open" /\ \A d \in Buffers \ {b} : buf'[d].life = buf[d].life
  BY <1>4, <1>5
<1>7. /\ Memory!Block(b)' = x
      /\ \A d \in Buffers \ {b} : Memory!Block(d)' = Memory!Block(d)
  BY <1>4, <1>5 DEF Memory!Block
<1>8. \A d \in Buffers \ {b} : buf[d].life = "open" =>
        Memory!Block(d) \in Cells /\ Memory!Block(d) # x
  BY <1>1, BlockIs
<1>9. Memory!TypeOK'
  BY <1>1, <1>2, <1>4, <1>5 DEF MInv, Memory!TypeOK, Memory!IsOpen, CellType, BufType
<1>10. Memory!OwnMemory'
  BY <1>3, <1>4, <1>5, <1>6, <1>7, <1>8, BlockIs DEF Memory!OwnMemory, Memory!IsOpen
<1>11. Memory!NoSecretLeft'
  <2>1. ASSUME NEW y \in Cells, cell'[y].secret
        PROVE  \E d \in Buffers : buf'[d].life = "open" /\ Memory!Block(d)' = y
    <3>1. CASE y = x
      BY <1>6, <1>7, <3>1
    <3>2. CASE y # x
      <4>1. PICK d \in Buffers : buf[d].life = "open" /\ Memory!Block(d) = y
        BY <1>5, <2>1, <3>2 DEF MInv, Memory!NoSecretLeft, Memory!IsOpen
      <4>2. d # b
        BY <1>1, <4>1
      <4> QED
        BY <1>6, <1>7, <4>1, <4>2
    <3> QED
      BY <3>1, <3>2
  <2> QED
    BY <2>1 DEF Memory!NoSecretLeft, Memory!IsOpen
<1> QED
  BY <1>1, <1>6, <1>9, <1>10, <1>11 DEF MInv

(* A block that no open buffer has may change, as long as it holds no secret.  *)
LEMMA ElsewhereKeeps ==
  ASSUME MInv, NEW x \in Cells, NEW new \in CellType, ~new.secret,
         \A d \in Buffers : buf[d].life = "open" => Memory!Block(d) # x,
         cell' = [cell EXCEPT ![x] = new], core' \in BOOLEAN, buf' = buf
  PROVE  MInv'
<1>1. /\ cell'[x] = new /\ \A y \in Cells \ {x} : cell'[y] = cell[y]
      /\ cell' \in [Cells -> CellType]
  BY DEF MInv, Memory!TypeOK, CellType
<1>2. \A d \in Buffers : /\ Memory!Block(d)' = Memory!Block(d)
                         /\ buf'[d].life = buf[d].life
  BY DEF Memory!Block
<1>3. Memory!TypeOK'
  BY <1>1 DEF MInv, Memory!TypeOK, Memory!IsOpen, CellType
<1>4. Memory!OwnMemory'
  BY <1>1, <1>2, BlockIs DEF Memory!OwnMemory, Memory!IsOpen
<1>5. Memory!NoSecretLeft'
  BY <1>1, <1>2 DEF MInv, Memory!NoSecretLeft, Memory!IsOpen
<1> QED
  BY <1>3, <1>4, <1>5 DEF MInv

LEMMA OpenRaisesKeeps ==
  ASSUME MInv, NEW x \in Cells, NEW paged \in BOOLEAN, NEW locked \in BOOLEAN,
         Memory!OpenRaises(x, paged, locked)
  PROVE  MInv' /\ buf' = buf
<1>1. /\ cell[x].use = "free" /\ buf' = buf /\ core' = core
      /\ cell' = [cell EXCEPT
                    ![x] = IF paged THEN Memory!Mapped(locked) ELSE Memory!Free]
  BY DEF Memory!OpenRaises, Memory!Allocated, Memory!Fresh
<1> DEFINE new == IF paged THEN Memory!Mapped(locked) ELSE Memory!Free
<1>2. new \in CellType /\ ~new.secret
  BY DEF CellType, Memory!Mapped, Memory!Free
<1>3. \A d \in Buffers : buf[d].life = "open" => Memory!Block(d) # x
  BY <1>1, BlockIs
<1>4. core' \in BOOLEAN
  BY <1>1 DEF MInv, Memory!TypeOK
<1> HIDE DEF new
<1> QED
  BY <1>1, <1>2, <1>3, <1>4, ElsewhereKeeps DEF new

(* write and wipe: only the content of the buffer's own block.                 *)
LEMMA ContentKeeps ==
  ASSUME MInv, NEW b \in Buffers, Memory!Write(b) \/ Memory!Wipe(b)
  PROVE  MInv' /\ buf' = buf
<1>1. buf[b].life = "open" /\ buf' = buf /\ core' = core
  BY DEF Memory!Write, Memory!Wipe, Memory!IsOpen
<1> DEFINE x == Memory!Block(b)
<1>2. x \in Cells
  BY <1>1, BlockIs
<1>3. PICK secret \in BOOLEAN : cell' = [cell EXCEPT ![x].secret = secret]
  BY DEF Memory!Write, Memory!Wipe
<1>4. cell \in [Cells -> CellType]
  BY DEF MInv, Memory!TypeOK, CellType
<1> HIDE DEF x
<1>5. /\ cell' \in [Cells -> CellType]
      /\ cell'[x].use = cell[x].use /\ cell'[x].locked = cell[x].locked
      /\ \A y \in Cells \ {x} : cell'[y] = cell[y]
  BY <1>2, <1>3, <1>4 DEF CellType
<1>6. \A d \in Buffers : /\ Memory!Block(d)' = Memory!Block(d)
                         /\ buf'[d].life = buf[d].life
  BY <1>1 DEF Memory!Block
<1>7. Memory!TypeOK'
  BY <1>1, <1>5 DEF MInv, Memory!TypeOK, Memory!IsOpen, CellType
<1>8. Memory!OwnMemory'
  <2>1. \A y \in Cells : cell'[y].use = cell[y].use /\ cell'[y].locked = cell[y].locked
    BY <1>5
  <2> QED
    BY <1>1, <1>6, <2>1, BlockIs DEF Memory!OwnMemory, Memory!IsOpen
<1>9. Memory!NoSecretLeft'
  <2>1. ASSUME NEW y \in Cells, cell'[y].secret
        PROVE  \E d \in Buffers : buf'[d].life = "open" /\ Memory!Block(d)' = y
    <3>1. CASE y = x
      BY <1>1, <1>6, <3>1 DEF x
    <3>2. CASE y # x
      BY <1>5, <1>6, <2>1, <3>2 DEF MInv, Memory!NoSecretLeft, Memory!IsOpen
    <3> QED
      BY <3>1, <3>2
  <2> QED
    BY <2>1 DEF Memory!NoSecretLeft, Memory!IsOpen
<1> QED
  BY <1>1, <1>7, <1>8, <1>9 DEF MInv

(* close, with the core or without: the block is zeroed, and released if it can*)
(* be.                                                                         *)
LEMMA CloseKeeps ==
  ASSUME MInv, NEW b \in Buffers, Memory!Close(b)
  PROVE  /\ MInv' /\ buf[b].life = "open" /\ buf'[b].life = "closed"
         /\ \A d \in Buffers \ {b} : buf'[d].life = buf[d].life
<1> DEFINE x == Memory!Block(b)
<1>1. buf[b].life = "open" /\ core' = core
  BY DEF Memory!Close, Memory!CloseInC, Memory!CloseInPython, Memory!IsOpen
<1>2. /\ x \in Cells
      /\ \A d \in Buffers \ {b} : buf[d].life = "open" => Memory!Block(d) # x
  BY <1>1, BlockIs
<1>3. /\ cell \in [Cells -> CellType] /\ buf \in [Buffers -> BufType]
      /\ core \in BOOLEAN
  BY DEF MInv, Memory!TypeOK, CellType, BufType
<1>4. PICK new \in CellType : ~new.secret /\ cell' = [cell EXCEPT ![x] = new]
  <2>1. CASE Memory!CloseInC(b)
    <3>1. cell' = [cell EXCEPT ![x] = Memory!Free]
      BY <2>1 DEF Memory!CloseInC, Memory!Block
    <3>2. Memory!Free \in CellType /\ ~Memory!Free.secret
      BY DEF Memory!Free, CellType
    <3> QED
      BY <3>1, <3>2
  <2>2. CASE Memory!CloseInPython(b)
    <3> DEFINE new == IF cell[x].use = "page" THEN [cell[x] EXCEPT !.secret = FALSE]
                                              ELSE Memory!Free
    <3>1. cell' = [cell EXCEPT ![x] = new]
      BY <2>2 DEF Memory!CloseInPython
    <3>2. new \in CellType /\ ~new.secret
      <4>1. cell[x] \in CellType
        BY <1>2, <1>3
      <4> HIDE DEF x
      <4> QED
        BY <4>1 DEF Memory!Free, CellType
    <3> HIDE DEF new
    <3> QED
      BY <3>1, <3>2
  <2> QED
    BY <2>1, <2>2 DEF Memory!Close
<1>5. /\ buf' \in [Buffers -> BufType] /\ buf'[b].life = "closed"
      /\ \A d \in Buffers \ {b} : buf'[d] = buf[d]
  <2>1. CASE Memory!CloseInC(b)
    <3>1. buf' = [buf EXCEPT ![b].addr = NoCell, ![b].life = "closed"]
      BY <2>1 DEF Memory!CloseInC
    <3> QED
      BY <1>3, <3>1 DEF BufType
  <2>2. CASE Memory!CloseInPython(b)
    <3>1. buf' = [buf EXCEPT ![b].array = NoCell, ![b].life = "closed"]
      BY <2>2 DEF Memory!CloseInPython
    <3> QED
      BY <1>3, <3>1 DEF BufType
  <2> QED
    BY <2>1, <2>2 DEF Memory!Close
<1> HIDE DEF x
<1>6. /\ cell'[x] = new /\ \A y \in Cells \ {x} : cell'[y] = cell[y]
      /\ cell' \in [Cells -> CellType]
  BY <1>2, <1>3, <1>4
<1>7. /\ buf'[b].life = "closed" /\ \A d \in Buffers \ {b} : buf'[d].life = buf[d].life
      /\ \A d \in Buffers \ {b} : Memory!Block(d)' = Memory!Block(d)
  BY <1>5 DEF Memory!Block
<1>8. Memory!TypeOK'
  BY <1>1, <1>3, <1>5, <1>6 DEF MInv, Memory!TypeOK, Memory!IsOpen, CellType, BufType
<1>9. Memory!OwnMemory'
  <2>1. ASSUME NEW d \in Buffers, buf'[d].life = "open"
        PROVE  /\ d # b /\ buf[d].life = "open" /\ Memory!Block(d) \in Cells \ {x}
               /\ cell'[Memory!Block(d)] = cell[Memory!Block(d)]
               /\ buf'[d] = buf[d] /\ Memory!Block(d)' = Memory!Block(d)
    BY <1>2, <1>5, <1>6, <1>7, <2>1, BlockIs
  <2> QED
    BY <2>1, BlockIs DEF Memory!OwnMemory, Memory!IsOpen
<1>10. Memory!NoSecretLeft'
  <2>1. ASSUME NEW y \in Cells, cell'[y].secret
        PROVE  \E d \in Buffers : buf'[d].life = "open" /\ Memory!Block(d)' = y
    <3>1. y # x
      BY <1>4, <1>6, <2>1
    <3>2. PICK d \in Buffers : buf[d].life = "open" /\ Memory!Block(d) = y
      BY <1>6, <2>1, <3>1 DEF MInv, Memory!NoSecretLeft, Memory!IsOpen
    <3>3. d # b
      BY <3>1, <3>2 DEF x
    <3> QED
      BY <1>7, <3>2, <3>3
  <2> QED
    BY <2>1 DEF Memory!NoSecretLeft, Memory!IsOpen
<1> QED
  BY <1>1, <1>7, <1>8, <1>9, <1>10 DEF MInv

LEMMA ForgetKeeps ==
  ASSUME MInv, NEW b \in Buffers, Memory!Forget(b)
  PROVE  /\ MInv' /\ buf[b].life = "closed" /\ buf'[b].life = "unborn"
         /\ \A d \in Buffers \ {b} : buf'[d].life = buf[d].life
<1>1. /\ buf[b].life = "closed" /\ core' = core /\ cell' = cell
      /\ buf' = [buf EXCEPT ![b] = Memory!Unborn]
  BY DEF Memory!Forget
<1>2. Memory!Unborn \in BufType /\ Memory!Unborn.life = "unborn"
  BY DEF Memory!Unborn, BufType
<1>3. buf \in [Buffers -> BufType]
  BY DEF MInv, Memory!TypeOK, BufType
<1>4. /\ buf' \in [Buffers -> BufType] /\ buf'[b] = Memory!Unborn
      /\ \A d \in Buffers \ {b} : buf'[d] = buf[d]
  BY <1>1, <1>2, <1>3
<1>5. /\ buf'[b].life = "unborn" /\ \A d \in Buffers \ {b} : buf'[d].life = buf[d].life
      /\ \A d \in Buffers \ {b} : Memory!Block(d)' = Memory!Block(d)
  BY <1>2, <1>4 DEF Memory!Block
<1>6. Memory!TypeOK'
  BY <1>1, <1>2, <1>4 DEF MInv, Memory!TypeOK, Memory!IsOpen, BufType
<1>7. Memory!OwnMemory'
  BY <1>1, <1>4, <1>5, BlockIs DEF Memory!OwnMemory, Memory!IsOpen
<1>8. Memory!NoSecretLeft'
  BY <1>1, <1>5 DEF MInv, Memory!NoSecretLeft, Memory!IsOpen
<1> QED
  BY <1>1, <1>5, <1>6, <1>7, <1>8 DEF MInv

LEMMA MemoryStays == MInv /\ core' \in BOOLEAN /\ cell' = cell /\ buf' = buf => MInv'
BY DEF MInv, Memory!TypeOK, Memory!OwnMemory, Memory!NoSecretLeft, Memory!IsOpen,
       Memory!Block

---------------------------------------------------------------------------------
(* Who has which buffer.  A chain has its own, open as long as the chain is,   *)
(* and during a swap the next one; every other open buffer has another owner.  *)

Swaps(e) == pending[e] # NoSwap

Ties == /\ obj \in [Endpoints -> Buffers \cup {NoBuffer}]
        /\ pending \in [Endpoints -> [new : Buffers \cup {NoBuffer}, target : Nat]]
        /\ others \subseteq Buffers

Owns(e) ==
  /\ obj[e] = NoBuffer => open[e] /\ ~Swaps(e)
  /\ obj[e] # NoBuffer => /\ obj[e] \notin others
                          /\ buf[obj[e]].life = IF open[e] THEN "open" ELSE "closed"
  /\ Swaps(e) => /\ open[e] /\ pending[e].new \in Buffers \ others
                 /\ buf[pending[e].new].life = "open"

Apart == /\ \A e, f \in Endpoints : obj[e] = obj[f] /\ obj[e] # NoBuffer => e = f
         /\ \A e, f \in Endpoints : Swaps(e) => obj[f] # pending[e].new
         /\ \A e, f \in Endpoints : Swaps(e) /\ Swaps(f) => e = f

Accounted == /\ \A b \in others : buf[b].life # "unborn"
             /\ \A b \in Buffers \ others : buf[b].life = "open" =>
                  \E e \in Endpoints : b = obj[e] \/ b = pending[e].new

GInv == Ties /\ (\A e \in Endpoints : Owns(e)) /\ Apart /\ Accounted

IInv == CInv /\ MInv /\ GInv

LEMMA InitInvariant == Init => IInv
<1> SUFFICES ASSUME Init PROVE IInv
  OBVIOUS
<1>1. CInv
  <2>1. /\ step = start /\ start \in [Endpoints -> Starts]
        /\ bufs = [e \in Endpoints |-> <<0>>] /\ handed = [e \in Endpoints |-> << >>]
    BY DEF Init, Chain!Init
  <2>2. full \in [Endpoints -> BOOLEAN] /\ open = [e \in Endpoints |-> TRUE]
    BY Zenon DEF Init, Chain!Init
  <2>3. <<0>> \in Seq(Nat \cup {Wiped}) /\ Len(<<0>>) = 1 /\ <<0>>[1] = 0
    OBVIOUS
  <2>4. Chain!TypeOK
    <3>1. step \in [Endpoints -> Nat] /\ start \in [Endpoints -> Starts]
      BY <2>1, StepsAssumption
    <3>2. bufs \in [Endpoints -> Seq(Nat \cup {Chain!Wiped})]
      BY <2>1, <2>3 DEF Wiped
    <3>3. handed \in [Endpoints -> Seq(Chain!MessageKeys)]
      BY <2>1
    <3>4. full \in [Endpoints -> BOOLEAN] /\ open \in [Endpoints -> BOOLEAN]
      BY <2>2
    <3> QED
      BY <3>1, <3>2, <3>3, <3>4 DEF Chain!TypeOK
  <2>5. ASSUME NEW e \in Endpoints
        PROVE  /\ step[e] >= start[e] /\ Sole(bufs[e], Position(e))
               /\ InOrder(handed[e], start[e], step[e])
    <3>1. start[e] \in Nat /\ step[e] = start[e]
      BY <2>1, StepsAssumption
    <3>2. open[e]
      BY <2>2
    <3>3. Position(e) = step[e] - start[e]
      BY <3>2 DEF Position
    <3>4. bufs[e] = <<0>> /\ handed[e] = << >>
      BY <2>1
    <3> QED
      BY <2>3, <3>1, <3>3, <3>4 DEF Sole, InOrder
  <2> QED
    BY <2>4, <2>5 DEF CInv
<1>2. MInv
  <2>1. /\ core \in BOOLEAN /\ cell = [x \in Cells |-> Memory!Free]
        /\ buf = [b \in Buffers |-> Memory!Unborn]
    BY DEF Init, Memory!Init
  <2> QED
    BY <2>1 DEF MInv, Memory!TypeOK, Memory!OwnMemory, Memory!NoSecretLeft,
                Memory!IsOpen, Memory!Free, Memory!Unborn
<1>3. GInv
  <2>1. /\ buf = [b \in Buffers |-> Memory!Unborn]
        /\ obj = [e \in Endpoints |-> NoBuffer]
        /\ pending = [e \in Endpoints |-> NoSwap] /\ others = {}
    BY DEF Init, Memory!Init
  <2>2. \A e \in Endpoints : open[e]
    BY DEF Init, Chain!Init
  <2>3. \A b \in Buffers : buf[b].life = "unborn"
    BY <2>1 DEF Memory!Unborn
  <2>4. NoSwap \in [new : Buffers \cup {NoBuffer}, target : Nat]
    BY DEF NoSwap
  <2> QED
    BY <2>1, <2>2, <2>3, <2>4 DEF GInv, Ties, Owns, Apart, Accounted, Swaps
<1> QED
  BY <1>1, <1>2, <1>3 DEF IInv

(* A buffer that is new to the process is nobody's.                            *)
LEMMA NobodyHas ==
  ASSUME GInv, NEW b \in Buffers, buf[b].life = "unborn"
  PROVE  b \notin others /\ b # NoBuffer /\ \A f \in Endpoints : obj[f] # b
BY NothingAssumption DEF GInv, Owns, Accounted

LEMMA ConstructKeeps ==
  ASSUME IInv, NEW e \in Endpoints, Construct(e)
  PROVE  IInv'
<1>1. PICK b \in Buffers, x \in Cells, paged \in BOOLEAN, locked \in BOOLEAN :
        Memory!Open(b, x, paged, locked, TRUE) /\ obj' = [obj EXCEPT ![e] = b]
  BY DEF Construct
<1>2. /\ MInv' /\ buf[b].life = "unborn" /\ buf'[b].life = "open"
      /\ \A d \in Buffers \ {b} : buf'[d].life = buf[d].life
  BY <1>1, OpenKeeps DEF IInv
<1>3. /\ obj[e] = NoBuffer /\ \A f \in Endpoints : ~Swaps(f)
      /\ UNCHANGED <<chainVars, pending, others>>
  BY DEF Construct, Swapping, Swaps
<1>4. CInv' /\ open' = open
  BY <1>3, ChainStays DEF IInv, chainVars
<1>5. b \notin others /\ b # NoBuffer /\ \A f \in Endpoints : obj[f] # b
  BY <1>2, NobodyHas DEF IInv
<1>6. /\ obj'[e] = b /\ \A f \in Endpoints \ {e} : obj'[f] = obj[f]
      /\ obj' \in [Endpoints -> Buffers \cup {NoBuffer}]
  BY <1>1 DEF IInv, GInv, Ties
<1>7. Ties' /\ \A f \in Endpoints : ~Swaps(f)'
  BY <1>3, <1>6 DEF IInv, GInv, Ties, Swaps
<1>8. ASSUME NEW f \in Endpoints PROVE Owns(f)'
  <2>1. CASE f = e
    <3>1. open[e]
      BY <1>3 DEF IInv, GInv, Owns
    <3>2. buf'[obj'[e]].life = "open"
      BY <1>2, <1>6
    <3> QED
      BY <1>3, <1>4, <1>5, <1>6, <1>7, <2>1, <3>1, <3>2 DEF Owns
  <2>2. CASE f # e /\ obj[f] # NoBuffer
    <3>1. obj[f] \in Buffers \ {b}
      BY <1>5, <2>2 DEF IInv, GInv, Ties
    <3>2. buf'[obj[f]].life = buf[obj[f]].life
      BY <1>2, <3>1
    <3>3. Owns(f) /\ obj'[f] = obj[f] /\ open'[f] = open[f] /\ others' = others
      BY <1>3, <1>4, <1>6, <2>2 DEF IInv, GInv
    <3> QED
      BY <1>7, <2>2, <3>2, <3>3 DEF Owns
  <2>3. CASE f # e /\ obj[f] = NoBuffer
    <3>1. Owns(f) /\ obj'[f] = obj[f] /\ open'[f] = open[f]
      BY <1>4, <1>6, <2>3 DEF IInv, GInv
    <3> QED
      BY <1>7, <2>3, <3>1 DEF Owns
  <2> QED
    BY <2>1, <2>2, <2>3
<1>9. Apart'
  <2>1. \A f, g \in Endpoints : obj[f] = obj[g] /\ obj[f] # NoBuffer => f = g
    BY DEF IInv, GInv, Apart
  <2> QED
    BY <1>5, <1>6, <1>7, <2>1 DEF Apart
<1>10. Accounted'
  <2>1. ASSUME NEW d \in others PROVE buf'[d].life # "unborn"
    BY <1>2, <1>5, <2>1 DEF IInv, GInv, Ties, Accounted
  <2>2. ASSUME NEW d \in Buffers \ others, buf'[d].life = "open"
        PROVE  \E f \in Endpoints : d = obj'[f] \/ d = pending'[f].new
    <3>1. CASE d = b
      BY <1>6, <3>1
    <3>2. CASE d # b
      <4>1. PICK f \in Endpoints : d = obj[f] \/ d = pending[f].new
        BY <1>2, <2>2, <3>2 DEF IInv, GInv, Accounted
      <4>2. pending[f].new = NoBuffer
        BY <1>3 DEF Swaps, NoSwap
      <4>3. d = obj[f] /\ f # e
        BY <1>3, <4>1, <4>2, NothingAssumption
      <4> QED
        BY <1>6, <4>3
    <3> QED
      BY <3>1, <3>2
  <2> QED
    BY <1>3, <2>1, <2>2 DEF Accounted
<1> QED
  BY <1>2, <1>4, <1>7, <1>8, <1>9, <1>10 DEF IInv, GInv

LEMMA OwnersStay ==
  ASSUME GInv, UNCHANGED <<obj, pending, others, open>>,
         \A b \in Buffers : buf'[b].life = buf[b].life
  PROVE  GInv'
<1>1. Ties' /\ \A e \in Endpoints : Swaps(e)' = Swaps(e)
  BY DEF GInv, Ties, Swaps
<1>2. \A e \in Endpoints : /\ obj[e] # NoBuffer => obj[e] \in Buffers
                           /\ Swaps(e) => pending[e].new \in Buffers
  BY DEF GInv, Ties, Owns
<1>3. \A e \in Endpoints : Owns(e)'
  BY <1>1, <1>2 DEF GInv, Owns
<1>4. Apart'
  BY <1>1 DEF GInv, Apart
<1>5. Accounted'
  BY DEF GInv, Ties, Accounted
<1> QED
  BY <1>1, <1>3, <1>4, <1>5 DEF GInv

LEMMA OverwriteKeeps ==
  ASSUME IInv, NEW e \in Endpoints, NEW target \in Nat, Overwrite(e, target)
  PROVE  IInv'
<1>1. /\ obj[e] # NoBuffer /\ Chain!FastForward(e, target) /\ Memory!Write(obj[e])
      /\ UNCHANGED <<obj, pending, others>>
  BY DEF Overwrite, Alive
<1>2. obj[e] \in Buffers
  BY <1>1 DEF IInv, GInv, Ties
<1>3. MInv' /\ buf' = buf
  BY <1>1, <1>2, ContentKeeps DEF IInv
<1>4. CInv'
  BY <1>1, FastForwardKeeps DEF IInv
<1>5. open' = open
  BY <1>1 DEF Chain!FastForward, Chain!Move
<1>6. \A b \in Buffers : buf'[b].life = buf[b].life
  BY <1>3
<1> QED
  BY <1>1, <1>3, <1>4, <1>5, <1>6, OwnersStay DEF IInv

LEMMA SwapOpenKeeps ==
  ASSUME IInv, NEW e \in Endpoints, NEW target \in Nat, SwapOpen(e, target)
  PROVE  IInv'
<1>1. PICK b \in Buffers, x \in Cells, paged \in BOOLEAN, locked \in BOOLEAN :
        /\ Memory!Open(b, x, paged, locked, TRUE)
        /\ pending' = [pending EXCEPT ![e] = [new |-> b, target |-> target]]
  BY DEF SwapOpen
<1>2. /\ MInv' /\ buf[b].life = "unborn" /\ buf'[b].life = "open"
      /\ \A d \in Buffers \ {b} : buf'[d].life = buf[d].life
  BY <1>1, OpenKeeps DEF IInv
<1>3. /\ obj[e] # NoBuffer /\ open[e] /\ \A f \in Endpoints : ~Swaps(f)
      /\ UNCHANGED <<chainVars, obj, others>>
  BY DEF SwapOpen, Alive, Swapping, Swaps
<1>4. CInv' /\ open' = open
  BY <1>3, ChainStays DEF IInv, chainVars
<1>5. b \notin others /\ b # NoBuffer /\ \A f \in Endpoints : obj[f] # b
  BY <1>2, NobodyHas DEF IInv
<1> DEFINE swap == [new |-> b, target |-> target]
<1>6. /\ swap.new = b /\ swap # NoSwap
      /\ swap \in [new : Buffers \cup {NoBuffer}, target : Nat]
  <2>1. swap.new = b /\ NoSwap.new = NoBuffer
    BY DEF NoSwap
  <2> QED
    BY <1>5, <2>1
<1> HIDE DEF swap
<1>7. /\ pending'[e] = swap /\ \A f \in Endpoints \ {e} : pending'[f] = pending[f]
      /\ pending' \in [Endpoints -> [new : Buffers \cup {NoBuffer}, target : Nat]]
  BY <1>1, <1>6 DEF IInv, GInv, Ties, swap
<1>8. /\ Ties' /\ Swaps(e)' /\ pending'[e].new = b
      /\ \A f \in Endpoints \ {e} : ~Swaps(f)'
  BY <1>3, <1>6, <1>7 DEF IInv, GInv, Ties, Swaps
<1>9. ASSUME NEW f \in Endpoints PROVE Owns(f)'
  <2>1. Owns(f) /\ obj'[f] = obj[f] /\ open'[f] = open[f] /\ others' = others
    BY <1>3, <1>4 DEF IInv, GInv
  <2>2. obj[f] # NoBuffer => buf'[obj[f]].life = buf[obj[f]].life
    BY <1>2, <1>5 DEF IInv, GInv, Ties
  <2>3. obj[f] # NoBuffer => buf'[obj'[f]].life = buf[obj[f]].life
    BY <2>1, <2>2
  <2>4. Swaps(f)' => f = e
    BY <1>8
  <2>5. buf'[pending'[e].new].life = "open"
    BY <1>2, <1>8
  <2>6. Swaps(f)' => /\ open'[f] /\ pending'[f].new \in Buffers \ others'
                     /\ buf'[pending'[f].new].life = "open"
    BY <1>3, <1>5, <1>8, <2>1, <2>4, <2>5
  <2>7. obj[f] = NoBuffer => ~Swaps(f)' /\ open[f]
    BY <1>3, <2>1, <2>4 DEF Owns
  <2>8. obj'[f] # NoBuffer => /\ obj'[f] \notin others'
                              /\ buf'[obj'[f]].life =
                                   IF open'[f] THEN "open" ELSE "closed"
    BY <2>1, <2>3 DEF Owns
  <2> QED
    BY <2>1, <2>6, <2>7, <2>8 DEF Owns
<1>10. Apart'
  <2>1. \A f, g \in Endpoints : obj[f] = obj[g] /\ obj[f] # NoBuffer => f = g
    BY DEF IInv, GInv, Apart
  <2>2. \A f \in Endpoints : Swaps(f)' => f = e
    BY <1>8
  <2> QED
    BY <1>3, <1>5, <1>8, <2>1, <2>2 DEF Apart
<1>11. Accounted'
  <2>1. ASSUME NEW d \in others PROVE buf'[d].life # "unborn"
    BY <1>2, <1>5, <2>1 DEF IInv, GInv, Ties, Accounted
  <2>2. ASSUME NEW d \in Buffers \ others, buf'[d].life = "open"
        PROVE  \E f \in Endpoints : d = obj'[f] \/ d = pending'[f].new
    <3>1. CASE d = b
      BY <1>8, <3>1
    <3>2. CASE d # b
      <4>1. PICK f \in Endpoints : d = obj[f] \/ d = pending[f].new
        BY <1>2, <2>2, <3>2 DEF IInv, GInv, Accounted
      <4>2. pending[f].new = NoBuffer
        BY <1>3 DEF Swaps, NoSwap
      <4> QED
        BY <1>3, <4>1, <4>2, NothingAssumption
    <3> QED
      BY <3>1, <3>2
  <2> QED
    BY <1>3, <2>1, <2>2 DEF Accounted
<1> QED
  BY <1>2, <1>4, <1>8, <1>9, <1>10, <1>11 DEF IInv, GInv

LEMMA SwapCloseKeeps ==
  ASSUME IInv, NEW e \in Endpoints, SwapClose(e)
  PROVE  IInv'
<1>1. /\ Swaps(e) /\ Chain!FastForward(e, pending[e].target) /\ Memory!Close(obj[e])
      /\ obj' = [obj EXCEPT ![e] = pending[e].new]
      /\ pending' = [pending EXCEPT ![e] = NoSwap] /\ others' = others
  BY DEF SwapClose, Swaps
<1> DEFINE b == obj[e]
           new == pending[e].new
<1>2. /\ b \in Buffers /\ open[e] /\ new \in Buffers \ others /\ buf[new].life = "open"
      /\ b # new /\ pending[e].target \in Nat
  <2>1. Owns(e) /\ Ties /\ Apart
    BY DEF IInv, GInv
  <2>2. obj[e] # NoBuffer
    BY <1>1, <2>1 DEF Owns
  <2> QED
    BY <1>1, <2>1, <2>2 DEF Owns, Ties, Apart
<1>3. /\ MInv' /\ buf'[b].life = "closed"
      /\ \A d \in Buffers \ {b} : buf'[d].life = buf[d].life
  BY <1>1, <1>2, CloseKeeps DEF IInv
<1>4. CInv' /\ open' = open
  <2>1. CInv'
    BY <1>1, <1>2, FastForwardKeeps DEF IInv
  <2>2. open' = open
    BY <1>1 DEF Chain!FastForward, Chain!Move
  <2> QED
    BY <2>1, <2>2
<1>5. NoSwap \in [new : Buffers \cup {NoBuffer}, target : Nat] /\ NoSwap.new = NoBuffer
  BY DEF NoSwap
<1>6. /\ obj'[e] = new /\ \A f \in Endpoints \ {e} : obj'[f] = obj[f]
      /\ pending'[e] = NoSwap /\ \A f \in Endpoints \ {e} : pending'[f] = pending[f]
      /\ Ties'
  BY <1>1, <1>2, <1>5 DEF IInv, GInv, Ties
<1>7. /\ \A f \in Endpoints \ {e} : ~Swaps(f) /\ ~Swaps(f)'
      /\ ~Swaps(e)'
  BY <1>1, <1>6 DEF IInv, GInv, Apart, Swaps
<1>8. /\ \A f \in Endpoints : obj[f] # new
      /\ \A f \in Endpoints \ {e} : obj[f] # b
  <2>1. Apart /\ Ties
    BY DEF IInv, GInv
  <2>2. b # NoBuffer
    BY <1>2, NothingAssumption
  <2> QED
    BY <1>1, <2>1, <2>2 DEF Apart
<1> HIDE DEF b, new
<1>9. ASSUME NEW f \in Endpoints PROVE Owns(f)'
  <2>1. CASE f = e
    <3>1. buf'[obj'[e]].life = "open"
      BY <1>2, <1>3, <1>6
    <3> QED
      BY <1>1, <1>2, <1>4, <1>6, <1>7, <2>1, <3>1, NothingAssumption DEF Owns
  <2>2. CASE f # e /\ obj[f] # NoBuffer
    <3>1. obj[f] \in Buffers \ {b}
      BY <1>8, <2>2 DEF IInv, GInv, Ties
    <3>2. buf'[obj[f]].life = buf[obj[f]].life
      BY <1>3, <3>1
    <3>3. Owns(f) /\ obj'[f] = obj[f] /\ open'[f] = open[f] /\ others' = others
      BY <1>1, <1>4, <1>6, <2>2 DEF IInv, GInv
    <3> QED
      BY <1>7, <2>2, <3>2, <3>3 DEF Owns
  <2>3. CASE f # e /\ obj[f] = NoBuffer
    <3>1. Owns(f) /\ obj'[f] = obj[f] /\ open'[f] = open[f]
      BY <1>4, <1>6, <2>3 DEF IInv, GInv
    <3> QED
      BY <1>7, <2>3, <3>1 DEF Owns
  <2> QED
    BY <2>1, <2>2, <2>3
<1>10. Apart'
  <2>1. \A f, g \in Endpoints : obj[f] = obj[g] /\ obj[f] # NoBuffer => f = g
    BY DEF IInv, GInv, Apart
  <2> QED
    BY <1>6, <1>7, <1>8, <2>1 DEF Apart
<1>11. Accounted'
  <2>1. ASSUME NEW d \in others PROVE buf'[d].life # "unborn"
    BY <1>3, <2>1 DEF IInv, GInv, Ties, Accounted
  <2>2. ASSUME NEW d \in Buffers \ others, buf'[d].life = "open"
        PROVE  \E f \in Endpoints : d = obj'[f] \/ d = pending'[f].new
    <3>1. d # b
      BY <1>3, <2>2
    <3>2. PICK f \in Endpoints : d = obj[f] \/ d = pending[f].new
      BY <1>3, <2>2, <3>1 DEF IInv, GInv, Accounted
    <3>3. CASE f = e
      BY <1>6, <3>1, <3>2, <3>3 DEF b, new
    <3>4. CASE f # e
      BY <1>6, <3>2, <3>4
    <3> QED
      BY <3>3, <3>4
  <2> QED
    BY <1>1, <2>1, <2>2 DEF Accounted
<1> QED
  BY <1>3, <1>4, <1>6, <1>9, <1>10, <1>11 DEF IInv, GInv

LEMMA CloseChainKeeps ==
  ASSUME IInv, NEW e \in Endpoints, CloseChain(e)
  PROVE  IInv'
<1>1. /\ obj[e] # NoBuffer /\ Chain!Close(e) /\ Memory!Close(obj[e])
      /\ UNCHANGED <<obj, pending, others>> /\ \A f \in Endpoints : ~Swaps(f)
  BY DEF CloseChain, Alive, Swapping, Swaps
<1> DEFINE b == obj[e]
<1>2. b \in Buffers
  BY <1>1 DEF IInv, GInv, Ties
<1>3. /\ MInv' /\ buf'[b].life = "closed"
      /\ \A d \in Buffers \ {b} : buf'[d].life = buf[d].life
  BY <1>1, <1>2, CloseKeeps DEF IInv
<1>4. CInv'
  BY <1>1, ChainCloseKeeps DEF IInv
<1>5. ~open'[e] /\ \A f \in Endpoints \ {e} : open'[f] = open[f]
  BY <1>1 DEF IInv, CInv, Chain!TypeOK, Chain!Close
<1>6. \A f \in Endpoints \ {e} : obj[f] # b
  BY <1>1 DEF IInv, GInv, Apart
<1>7. Ties' /\ \A f \in Endpoints : ~Swaps(f)'
  BY <1>1 DEF IInv, GInv, Ties, Swaps
<1>8. ASSUME NEW f \in Endpoints PROVE Owns(f)'
  <2>1. Owns(f) /\ obj'[f] = obj[f] /\ others' = others /\ ~Swaps(f)'
    BY <1>1, <1>7 DEF IInv, GInv
  <2>2. CASE f = e
    <3>1. buf'[obj'[f]].life = "closed"
      BY <1>3, <2>1, <2>2
    <3> QED
      BY <1>1, <1>5, <2>1, <2>2, <3>1 DEF Owns
  <2>3. CASE f # e /\ obj[f] # NoBuffer
    <3>1. obj[f] \in Buffers \ {b}
      BY <1>6, <2>3 DEF IInv, GInv, Ties
    <3>2. buf'[obj[f]].life = buf[obj[f]].life
      BY <1>3, <3>1
    <3>3. open'[f] = open[f]
      BY <1>5, <2>3
    <3> QED
      BY <2>1, <2>3, <3>2, <3>3 DEF Owns
  <2>4. CASE f # e /\ obj[f] = NoBuffer
    <3>1. open'[f] = open[f]
      BY <1>5, <2>4
    <3> QED
      BY <2>1, <2>4, <3>1 DEF Owns
  <2> QED
    BY <2>2, <2>3, <2>4
<1>9. Apart'
  BY <1>1, <1>7 DEF IInv, GInv, Apart
<1>10. Accounted'
  <2>1. ASSUME NEW d \in others PROVE buf'[d].life # "unborn"
    BY <1>3, <2>1 DEF IInv, GInv, Ties, Accounted
  <2>2. ASSUME NEW d \in Buffers \ others, buf'[d].life = "open"
        PROVE  \E f \in Endpoints : d = obj'[f] \/ d = pending'[f].new
    <3>1. d # b
      BY <1>3, <2>2
    <3> QED
      BY <1>1, <1>3, <2>2, <3>1 DEF IInv, GInv, Accounted
  <2> QED
    BY <1>1, <2>1, <2>2 DEF Accounted
<1> QED
  BY <1>3, <1>4, <1>7, <1>8, <1>9, <1>10 DEF IInv, GInv

(* A step of other owners: what they have is no chain's, before and after.     *)
LEMMA OthersMove ==
  ASSUME GInv, NEW b \in Buffers, UNCHANGED <<obj, pending, open>>,
         \A f \in Endpoints : ~Swaps(f) /\ obj[f] # b,
         \A d \in Buffers \ {b} :
            buf'[d].life = buf[d].life /\ (d \in others' <=> d \in others),
         others' \subseteq Buffers,
         b \in others' <=> buf'[b].life # "unborn"
  PROVE  GInv'
<1>1. Ties' /\ \A f \in Endpoints : ~Swaps(f)'
  BY DEF GInv, Ties, Swaps
<1>2. ASSUME NEW f \in Endpoints PROVE Owns(f)'
  <2>1. Owns(f) /\ ~Swaps(f)'
    BY <1>1 DEF GInv
  <2>2. CASE obj[f] # NoBuffer
    <3>1. obj[f] \in Buffers \ {b}
      BY <2>2 DEF GInv, Ties
    <3>2. /\ buf'[obj[f]].life = buf[obj[f]].life
          /\ (obj[f] \in others' <=> obj[f] \in others)
      BY <3>1
    <3>3. obj'[f] = obj[f] /\ open'[f] = open[f]
      OBVIOUS
    <3> QED
      BY <2>1, <2>2, <3>2, <3>3 DEF Owns
  <2>3. CASE obj[f] = NoBuffer
    BY <2>1, <2>3 DEF Owns
  <2> QED
    BY <2>2, <2>3
<1>3. Apart'
  BY <1>1 DEF GInv, Apart
<1>4. Accounted'
  <2>1. ASSUME NEW d \in others' PROVE buf'[d].life # "unborn"
    BY <2>1 DEF GInv, Accounted
  <2>2. ASSUME NEW d \in Buffers \ others', buf'[d].life = "open"
        PROVE  \E f \in Endpoints : d = obj[f] \/ d = pending[f].new
    <3>1. d # b
      BY <2>2
    <3> QED
      BY <2>2, <3>1 DEF GInv, Accounted
  <2> QED
    BY <2>1, <2>2 DEF Accounted
<1> QED
  BY <1>1, <1>2, <1>3, <1>4 DEF GInv

LEMMA ElsewhereStepKeeps ==
  ASSUME IInv, Elsewhere
  PROVE  IInv'
<1>1. /\ \A f \in Endpoints : ~Swaps(f)
      /\ UNCHANGED <<chainVars, obj, pending>>
  BY DEF Elsewhere, Swapping, Swaps
<1>2. CInv' /\ open' = open
  BY <1>1, ChainStays DEF IInv, chainVars
<1>3. others \subseteq Buffers /\ \A b \in others : \A f \in Endpoints : obj[f] # b
  BY NothingAssumption DEF IInv, GInv, Ties, Owns
<1>4. ASSUME NEW b \in Buffers, NEW x \in Cells, NEW paged \in BOOLEAN,
             NEW locked \in BOOLEAN, Memory!Open(b, x, paged, locked, FALSE),
             others' = others \cup {b}
      PROVE  IInv'
  <2>1. /\ MInv' /\ buf[b].life = "unborn" /\ buf'[b].life = "open"
        /\ \A d \in Buffers \ {b} : buf'[d].life = buf[d].life
    BY <1>4, OpenKeeps DEF IInv
  <2>2. \A f \in Endpoints : obj[f] # b
    BY <2>1, NobodyHas DEF IInv
  <2> QED
    BY <1>1, <1>2, <1>3, <1>4, <2>1, <2>2, OthersMove DEF IInv
<1>5. ASSUME NEW x \in Cells, NEW paged \in BOOLEAN, NEW locked \in BOOLEAN,
             Memory!OpenRaises(x, paged, locked), others' = others
      PROVE  IInv'
  <2>1. MInv' /\ \A b \in Buffers : buf'[b].life = buf[b].life
    BY <1>5, OpenRaisesKeeps DEF IInv
  <2> QED
    BY <1>1, <1>2, <1>5, <2>1, OwnersStay DEF IInv
<1>6. ASSUME NEW b \in others, Memory!Write(b) \/ Memory!Wipe(b), others' = others
      PROVE  IInv'
  <2>1. MInv' /\ \A d \in Buffers : buf'[d].life = buf[d].life
    BY <1>3, <1>6, ContentKeeps DEF IInv
  <2> QED
    BY <1>1, <1>2, <1>6, <2>1, OwnersStay DEF IInv
<1>7. ASSUME NEW b \in others, Memory!Close(b), others' = others
      PROVE  IInv'
  <2>1. /\ MInv' /\ buf'[b].life = "closed"
        /\ \A d \in Buffers \ {b} : buf'[d].life = buf[d].life
    BY <1>3, <1>7, CloseKeeps DEF IInv
  <2> QED
    BY <1>1, <1>2, <1>3, <1>7, <2>1, OthersMove DEF IInv
<1>8. ASSUME NEW b \in others, Memory!Forget(b), others' = others \ {b}
      PROVE  IInv'
  <2>1. /\ MInv' /\ buf'[b].life = "unborn"
        /\ \A d \in Buffers \ {b} : buf'[d].life = buf[d].life
    BY <1>3, <1>8, ForgetKeeps DEF IInv
  <2> QED
    BY <1>1, <1>2, <1>3, <1>8, <2>1, OthersMove DEF IInv
<1>9. ASSUME Memory!Reload, others' = others
      PROVE  IInv'
  <2>1. core' \in BOOLEAN /\ cell' = cell /\ buf' = buf
    BY <1>9 DEF Memory!Reload, IInv, MInv, Memory!TypeOK
  <2>2. MInv' /\ \A b \in Buffers : buf'[b].life = buf[b].life
    BY <2>1, MemoryStays DEF IInv
  <2> QED
    BY <1>1, <1>2, <1>9, <2>2, OwnersStay DEF IInv
<1> QED
  BY <1>4, <1>5, <1>6, <1>7, <1>8, <1>9 DEF Elsewhere

LEMMA NextInvariant == IInv /\ [Next]_vars => IInv'
<1> SUFFICES ASSUME IInv, [Next]_vars PROVE IInv'
  OBVIOUS
<1>1. CASE UNCHANGED vars
  <2>1. CInv' /\ open' = open
    BY <1>1, ChainStays DEF IInv, vars, chainVars
  <2>2. MInv' /\ buf' = buf
    BY <1>1, MemoryStays DEF IInv, vars, memoryVars, MInv, Memory!TypeOK
  <2>3. \A b \in Buffers : buf'[b].life = buf[b].life
    BY <2>2
  <2> QED
    BY <1>1, <2>1, <2>2, <2>3, OwnersStay DEF IInv, vars
<1>2. 0..MaxStep \subseteq Nat
  BY StepsAssumption
<1> QED
  BY <1>1, <1>2, ConstructKeeps, OverwriteKeeps, SwapOpenKeeps, SwapCloseKeeps,
     CloseChainKeeps, ElsewhereStepKeeps DEF Next

LEMMA AlwaysIInv == Spec => []IInv
<1> QED
  BY InitInvariant, NextInvariant, PTL DEF Spec

---------------------------------------------------------------------------------
(* The properties.                                                             *)

(* Chains, buffers and blocks have their shape, for every set of them.         *)
THEOREM TypeCorrect == Spec => []TypeOK
<1>1. IInv => TypeOK
  BY DEF IInv, CInv, MInv, GInv, Ties, Owns, Swaps, TypeOK
<1> QED
  BY <1>1, AlwaysIInv, PTL

(* Ends built from one seed agree on every step's key, and none goes back, for *)
(* every limit of fast_forward and every start.                                *)
THEOREM EndsAgree == Spec => []Agreement
<1> SUFFICES ASSUME IInv PROVE Agreement
  BY AlwaysIInv, PTL
<1>1. ASSUME NEW e \in Endpoints
      PROVE  /\ DOMAIN handed[e] = 1..Len(handed[e]) /\ start[e] \in Nat
             /\ InOrder(handed[e], start[e], step[e])
             /\ \A i \in 1..Len(handed[e]) : handed[e][i] \in Chain!MessageKeys
  <2>1. handed[e] \in Seq(Chain!MessageKeys) /\ start[e] \in Nat
    BY StepsAssumption DEF IInv, CInv, Chain!TypeOK
  <2>2. InOrder(handed[e], start[e], step[e])
    BY DEF IInv, CInv
  <2> QED
    BY <2>1, <2>2, LenProperties, ElementOfSeq
<1>2. Chain!Agreement
  <2>1. ASSUME NEW e \in Endpoints, NEW f \in Endpoints, start[e] = start[f],
               NEW i \in 1..Len(handed[e]), NEW j \in 1..Len(handed[f]),
               handed[e][i].step = handed[f][j].step
        PROVE  handed[e][i] = handed[f][j]
    <3>1. handed[e][i].chain = handed[f][j].chain
      BY <1>1, <2>1 DEF InOrder
    <3>2. handed[e][i] \in Chain!MessageKeys /\ handed[f][j] \in Chain!MessageKeys
      BY <1>1
    <3> QED
      BY <2>1, <3>1, <3>2 DEF Chain!MessageKeys
  <2> QED
    BY <1>1, <2>1 DEF Chain!Agreement
<1>3. Chain!NeverBack
  BY <1>1 DEF Chain!NeverBack, InOrder
<1> QED
  BY <1>2, <1>3 DEF Agreement

(* No memory a chain ever had gives a key that was handed out, and a chain has *)
(* no open buffer but its own.                                                 *)
THEOREM ForwardSecrecy == Spec => []PastIsGone
<1> SUFFICES ASSUME IInv PROVE PastIsGone
  BY AlwaysIInv, PTL
<1>1. Chain!PastIsGone
  <2>1. ASSUME NEW e \in Endpoints, NEW i \in DOMAIN bufs[e], bufs[e][i] # Wiped
        PROVE  open[e] /\ \A j \in DOMAIN handed[e] : bufs[e][i] > handed[e][j].chain
    <3>1. Sole(bufs[e], Position(e)) /\ InOrder(handed[e], start[e], step[e])
      BY DEF IInv, CInv
    <3>2. DOMAIN bufs[e] = 1..Len(bufs[e]) /\ Len(bufs[e]) \in Nat
      BY <3>1, LenProperties DEF Sole
    <3>3. i = Len(bufs[e])
      BY <2>1, <3>1, <3>2 DEF Sole
    <3>4. bufs[e][i] = Position(e)
      BY <3>1, <3>3 DEF Sole
    <3>5. open[e]
      BY <2>1, <3>4 DEF Position
    <3>6. bufs[e][i] = step[e] - start[e]
      BY <3>4, <3>5 DEF Position
    <3>7. step[e] \in Nat /\ start[e] \in Nat /\ handed[e] \in Seq(Chain!MessageKeys)
      BY StepsAssumption DEF IInv, CInv, Chain!TypeOK
    <3>8. ASSUME NEW j \in DOMAIN handed[e] PROVE bufs[e][i] > handed[e][j].chain
      <4>1. j \in 1..Len(handed[e])
        BY <3>7, LenProperties
      <4>2. handed[e][j] \in Chain!MessageKeys
        BY <3>7, <4>1, ElementOfSeq
      <4>3. handed[e][j].step \in Nat
        BY <4>2 DEF Chain!MessageKeys
      <4>4. /\ handed[e][j].chain = handed[e][j].step - start[e]
            /\ handed[e][j].step < step[e]
        BY <3>1, <4>1 DEF InOrder
      <4> QED
        BY <3>6, <3>7, <4>3, <4>4
    <3> QED
      BY <3>5, <3>8
  <2> QED
    BY <2>1 DEF Chain!PastIsGone, Wiped
<1>2. ASSUME NEW e \in Endpoints, obj[e] # NoBuffer
      PROVE  Memory!IsOpen(obj[e]) <=> open[e]
  <2>1. buf[obj[e]].life = IF open[e] THEN "open" ELSE "closed"
    BY <1>2 DEF IInv, GInv, Owns
  <2> QED
    BY <2>1 DEF Memory!IsOpen
<1>3. \A b \in Buffers \ others : Memory!IsOpen(b) =>
        \E e \in Endpoints : b = obj[e] \/ b = pending[e].new
  BY DEF IInv, GInv, Accounted, Memory!IsOpen
<1> QED
  BY <1>1, <1>2, <1>3 DEF PastIsGone

(* Every open buffer has its own block, and nothing is left in any other,      *)
(* whatever owners there are and whenever the core comes and goes.             *)
THEOREM MemoryIsOwn == Spec => []OwnMemory
<1>1. IInv => OwnMemory
  BY DEF IInv, MInv, GInv, Apart, OwnMemory
<1> QED
  BY <1>1, AlwaysIInv, PTL

---------------------------------------------------------------------------------
(* The compiled core that a process runs its buffers with: CoreBuild.          *)

(* The inductive invariant.  Of a build that was alone with the files so far:  *)
(* the sources are those it compiled, and its library lies where it put it.    *)
AloneSoFar == \A b \in Running \ disturbed :
                /\ source = built[b].src
                /\ pc[b] # "link" => lib["crypto"] = built[b]

(* If its probe took that library as well, that is what passed and is noted.   *)
OwnProbed == \A b \in Running \ (disturbed \cup astray) :
               /\ pc[b] \in {"digest", "write"} => built[b] \in probed
               /\ pc[b] = "write" => noted[b] = [library |-> built[b], src |-> built[b].src]

(* A manifest without doubt names a library that was probed, and its sources.  *)
Vouched(m) == m.library \in probed /\ m.library.src = m.src
Trusted == \A p \in Places : manifest[p] # None /\ ~doubtful[p] => Vouched(manifest[p])

BInv == /\ BuildTypeOK /\ AloneSoFar /\ OwnProbed /\ Trusted
        /\ \A x \in probed : x.selftest

LEMMA FirstIs ==
  ASSUME NEW S \in SUBSET Places, S # {}
  PROVE  First(S) \in S /\ \A q \in S : Rank[First(S)] <= Rank[q]
<1> DEFINE Least(p) == \A q \in S : Rank[p] <= Rank[q]
<1>1. \A p \in S : p \in {"manual", "crypto", "ccore"}
  BY PlacesAssumption DEF AllPlaces
<1>2. Rank["manual"] = 1 /\ Rank["crypto"] = 2 /\ Rank["ccore"] = 3
  BY DEF Rank
<1>3. \E p \in S : Least(p)
  <2>1. CASE "manual" \in S
    BY <1>1, <1>2, <2>1
  <2>2. CASE "manual" \notin S /\ "crypto" \in S
    BY <1>1, <1>2, <2>2
  <2>3. CASE "manual" \notin S /\ "crypto" \notin S
    BY <1>1, <1>2, <2>3
  <2> QED
    BY <2>1, <2>2, <2>3
<1>4. First(S) = CHOOSE p \in S : Least(p)
  BY DEF First
<1> QED
  BY <1>3, <1>4

(* What a loader finds has passed the manifest check and its self tests.       *)
LEMMA LoadedIs ==
  ASSUME BuildTypeOK, NEW e
  PROVE  /\ Loaded(e) \in [lib : Binaries \cup {None}, path : Places \cup {None}]
         /\ Loaded(e).lib # None =>
              LET p == Loaded(e).path IN
                /\ p \in Places /\ Loaded(e).lib = lib[p] /\ Usable(p, e)
<1>1. CASE e.pure \/ Found(e) = {}
  BY <1>1 DEF Loaded, NoCore
<1>2. CASE ~(e.pure \/ Found(e) = {})
  <2> DEFINE p == First(Found(e))
  <2>1. Found(e) \in SUBSET Places
    BY DEF Found, Candidates
  <2>2. p \in Found(e)
    BY <1>2, <2>1, FirstIs
  <2>3. p \in Places /\ lib[p] # None /\ Usable(p, e)
    BY <2>2 DEF Found, Candidates
  <2>4. Loaded(e) = [lib |-> lib[p], path |-> p]
    BY <1>2 DEF Loaded
  <2> HIDE DEF p
  <2>5. lib[p] \in Binaries \cup {None}
    BY <2>3 DEF BuildTypeOK
  <2> QED
    BY <2>3, <2>4, <2>5
<1> QED
  BY <1>1, <1>2

LEMMA BuildStarts == BuildInit => BInv
<1> SUFFICES ASSUME BuildInit PROVE BInv
  OBVIOUS
<1>1. Running = {}
  BY DEF BuildInit, Running
<1>2. Plain \in Envs
  BY DEF Plain, Envs
<1>3. BuildTypeOK
  BY <1>1, <1>2, TreesAssumption DEF BuildInit, BuildTypeOK, Whole, NoCore, Codes
<1> QED
  BY <1>1, <1>3 DEF BuildInit, BInv, AloneSoFar, OwnProbed, Trusted

(* Whoever changes the files leaves no other build under way undisturbed.      *)
LEMMA Alone ==
  ASSUME NEW but, Disturb(but), NEW b \in Running, b \notin disturbed'
  PROVE  b \in but
BY DEF Disturb

LEMMA BuildKeeps == BInv /\ [BuildNext]_buildVars => BInv'
<1> SUFFICES ASSUME BInv, [BuildNext]_buildVars PROVE BInv'
  OBVIOUS
<1> USE DEF BInv, AloneSoFar, OwnProbed, Trusted, Vouched
<1>0. "crypto" \in Places /\ BuildEnvs \subseteq Envs /\ Running \subseteq Builds
  BY PlacesAssumption DEF Running
<1>a. /\ None \notin Binaries /\ \A x \in Binaries : x.src \in Whole
      /\ Whole \subseteq Trees
  BY BinariesAssumption DEF Whole
<1>1. ASSUME NEW b \in Builds, NEW e \in BuildEnvs, NEW x \in Binaries, Start(b, e, x)
      PROVE  BInv'
  <2> USE DEF Start, Goes, fileVars
  <2>1. Running' = Running \cup {b} /\ b \notin Running /\ built'[b] = x /\ pc'[b] = "link"
    BY <1>1 DEF Running, BuildTypeOK
  <2>2. \A c \in Running : pc'[c] = pc[c] /\ built'[c] = built[c]
    BY <1>1, <2>1 DEF BuildTypeOK
  <2>3. BuildTypeOK'
    BY <1>0, <1>a, <1>1, <2>1, <2>2 DEF BuildTypeOK
  <2> QED
    BY <1>1, <2>1, <2>2, <2>3
<1>2. ASSUME NEW b \in Builds, Link(b) PROVE BInv'
  <2> USE DEF Link, Goes
  <2>1. Running' = Running /\ b \in Running /\ pc'[b] = "probe"
    BY <1>2 DEF Running, BuildTypeOK
  <2>2. \A c \in Running' : c = b \/ c \in disturbed'
    BY <1>2, <2>1, Alone
  <2>3. lib'["crypto"] = built[b] /\ built[b] \in Binaries
    BY <1>0, <1>2, <2>1 DEF BuildTypeOK
  <2>4. BuildTypeOK'
    BY <1>0, <1>2, <2>1, <2>3 DEF BuildTypeOK, Disturb
  <2> QED
    BY <1>2, <2>1, <2>2, <2>3, <2>4 DEF Disturb
<1>3. ASSUME NEW b \in Builds, Probe(b) PROVE BInv'
  <2> USE DEF Probe, Goes, fileVars
  <2>1. Running' = Running /\ b \in Running
    BY <1>3 DEF Running, BuildTypeOK
  <2>2. \A c \in Running : c # b => pc'[c] = pc[c]
    <3>1. \/ pc' = [pc EXCEPT ![b] = "digest"]
          \/ pc' = [pc EXCEPT ![b] = "delete"]
      <4>1. CASE ProbePasses(env[b])
        BY <1>3, <4>1
      <4>2. CASE ~ProbePasses(env[b])
        BY <1>3, <4>2
      <4> QED
        BY <4>1, <4>2
    <3> QED
      BY <1>0, <3>1 DEF BuildTypeOK
  <2>3. CASE ProbePasses(env[b])
    <3> DEFINE got == Loaded(env[b])
    <3>1. /\ got \in [lib : Binaries \cup {None}, path : Places \cup {None}]
          /\ got.lib # None
          /\ got.path \in Places /\ got.lib = lib[got.path] /\ Usable(got.path, env[b])
      BY <2>3, LoadedIs DEF ProbePasses
    <3>2. /\ pc' = [pc EXCEPT ![b] = "digest"] /\ probed' = probed \cup {got.lib}
          /\ b \notin astray' => got.path = "crypto"
          /\ astray \subseteq astray' /\ astray' \subseteq astray \cup {b}
      <4>1. got.path # None /\ {got.lib} \ {None} = {got.lib}
        BY <3>1, BinariesAssumption, PlacesAssumption
      <4>2. /\ pc' = [pc EXCEPT ![b] = "digest"]
            /\ probed' = probed \cup ({got.lib} \ {None})
            /\ astray' = IF got.path \in {"crypto", None} THEN astray ELSE astray \cup {b}
        BY <1>3, <2>3
      <4> HIDE DEF got
      <4> QED
        BY <4>1, <4>2
    <3> HIDE DEF got
    <3>3. got.lib \in Binaries /\ got.lib.selftest
      BY <3>1 DEF Usable
    <3>4. BuildTypeOK'
      BY <1>3, <2>1, <2>2, <3>2, <3>3 DEF BuildTypeOK
    <3>5. b \notin disturbed' \cup astray' => built'[b] \in probed'
      BY <1>3, <2>1, <3>1, <3>2
    <3>6. OwnProbed'
      BY <1>3, <2>1, <2>2, <3>2, <3>5 DEF BuildTypeOK
    <3>7. AloneSoFar' /\ Trusted'
      BY <1>3, <2>1, <2>2, <3>2
    <3> QED
      BY <3>2, <3>3, <3>4, <3>6, <3>7
  <2>4. CASE ~ProbePasses(env[b])
    <3>1. pc' = [pc EXCEPT ![b] = "delete"] /\ UNCHANGED <<probed, astray>>
      BY <1>3, <2>4
    <3>2. BuildTypeOK'
      BY <1>3, <2>1, <2>2, <3>1 DEF BuildTypeOK
    <3> QED
      BY <1>3, <2>1, <2>2, <3>1, <3>2 DEF BuildTypeOK
  <2> QED
    BY <2>3, <2>4
<1>4. ASSUME NEW b \in Builds, NEW code \in Codes, Ends(b, code),
             UNCHANGED <<fileVars, env, built, noted, probed, loaded, outside, disturbed, astray>>
      PROVE  BInv'
  <2> USE DEF Ends, fileVars
  <2>1. Running' = Running \ {b} /\ \A c \in Running' : pc'[c] = pc[c]
    BY <1>4 DEF Running, BuildTypeOK
  <2>2. BuildTypeOK'
    BY <1>4, <2>1 DEF BuildTypeOK
  <2> QED
    BY <1>4, <2>1, <2>2
<1>5. ASSUME NEW b \in Builds, Delete(b) PROVE BInv'
  <2> USE DEF Delete, Ends
  <2>1. Running' = Running \ {b} /\ \A c \in Running' : pc'[c] = pc[c]
    BY <1>5 DEF Running, BuildTypeOK
  <2>2. \A c \in Running' : c \in disturbed'
    BY <1>5, <2>1, Alone
  <2>3. BuildTypeOK'
    BY <1>0, <1>5, <2>1 DEF BuildTypeOK, Disturb, Codes
  <2> QED
    BY <1>5, <2>1, <2>2, <2>3
<1>6. ASSUME NEW b \in Builds, TakeDigests(b) PROVE BInv'
  <2> USE DEF TakeDigests, Goes, fileVars
  <2> DEFINE m == [library |-> lib["crypto"], src |-> source]
  <2>1. Running' = Running /\ b \in Running /\ pc'[b] = "write" /\ noted'[b] = m
    BY <1>6 DEF Running, BuildTypeOK
  <2>2. \A c \in Running : c # b => pc'[c] = pc[c] /\ noted'[c] = noted[c]
    BY <1>6 DEF BuildTypeOK
  <2>3. m \in Manifests
    BY <1>0, <1>6 DEF BuildTypeOK, Manifests, Whole
  <2>4. m # None
    BY <2>3, BinariesAssumption DEF Manifests
  <2> HIDE DEF m
  <2>5. BuildTypeOK'
    BY <1>6, <2>1, <2>2, <2>3, <2>4 DEF BuildTypeOK
  <2>6. b \notin disturbed => m = [library |-> built[b], src |-> built[b].src]
    BY <1>6, <2>1 DEF m
  <2> QED
    BY <1>6, <2>1, <2>2, <2>5, <2>6
<1>7. ASSUME NEW b \in Builds, WriteManifest(b) PROVE BInv'
  <2> USE DEF WriteManifest, Ends
  <2>1. /\ Running' = Running \ {b} /\ \A c \in Running' : pc'[c] = pc[c]
        /\ b \in Running /\ pc[b] = "write"
    BY <1>7 DEF Running, BuildTypeOK
  <2>2. \A c \in Running' : c \in disturbed'
    BY <1>7, <2>1, Alone
  <2>3. /\ noted[b] \in Manifests /\ manifest'["crypto"] = noted[b]
        /\ doubtful'["crypto"] = (b \in disturbed \cup astray)
    BY <1>0, <1>7, <2>1 DEF BuildTypeOK
  <2>4. \A p \in Places : p # "crypto" =>
          manifest'[p] = manifest[p] /\ doubtful'[p] = doubtful[p]
    BY <1>7 DEF BuildTypeOK
  <2>5. BuildTypeOK'
    BY <1>0, <1>7, <2>1, <2>3 DEF BuildTypeOK, Disturb, Codes
  <2>6. ~doubtful'["crypto"] => noted[b].library \in probed'
                                  /\ noted[b].library.src = noted[b].src
    <3>1. ~doubtful'["crypto"] => b \notin disturbed \cup astray
      BY <2>3, Zenon
    <3>2. ASSUME b \notin disturbed \cup astray
          PROVE  built[b] \in probed /\ noted[b] = [library |-> built[b], src |-> built[b].src]
      BY <2>1, <3>2
    <3> QED
      BY <1>7, <3>1, <3>2
  <2>7. Trusted'
    BY <1>7, <2>3, <2>4, <2>6
  <2> QED
    BY <1>7, <2>1, <2>2, <2>5, <2>7
<1>8. ASSUME NEW t \in Trees, EditSource(t) PROVE BInv'
  <2> USE DEF EditSource, ownVars
  <2>1. Running' = Running
    BY <1>8 DEF Running
  <2>2. \A c \in Running' : c \in disturbed'
    BY <1>8, <2>1, Alone
  <2>3. BuildTypeOK'
    BY <1>0, <1>8, <2>1, TreesAssumption DEF BuildTypeOK, Disturb, Outside
  <2> QED
    BY <1>8, <2>1, <2>2, <2>3
<1>9. ASSUME NEW p \in Places, DisturbAt(p), UNCHANGED <<source, ownVars, probed, loaded>>,
             Outside, NEW x \in Binaries \cup {None}, lib' = [lib EXCEPT ![p] = x],
             manifest' \in [Places -> Manifests \cup {None}], doubtful' \in [Places -> BOOLEAN],
             Trusted'
      PROVE  BInv'
  <2> USE DEF ownVars
  <2>1. Running' = Running
    BY <1>9 DEF Running
  <2>2. BuildTypeOK'
    BY <1>0, <1>9, <2>1, TreesAssumption DEF BuildTypeOK, Disturb, DisturbAt, Outside
  <2>3. CASE p = "crypto"
    <3>1. \A c \in Running' : c \in disturbed'
      BY <1>9, <2>1, <2>3, Alone DEF DisturbAt
    <3> QED
      BY <1>9, <2>1, <2>2, <3>1
  <2>4. CASE p # "crypto"
    BY <1>0, <1>9, <2>1, <2>2, <2>4 DEF DisturbAt, BuildTypeOK
  <2> QED
    BY <2>3, <2>4
<1>10. ASSUME NEW p \in Places, NEW x \in Binaries \cup {None}, CopyLibrary(p, x) PROVE BInv'
  <2>1. Trusted'
    BY <1>10 DEF CopyLibrary
  <2> QED
    BY <1>9, <1>10, <2>1 DEF CopyLibrary, BuildTypeOK
<1>11. ASSUME NEW p \in Places, NEW q \in Places, CopyInstalled(p, q) PROVE BInv'
  <2>1. /\ manifest' \in [Places -> Manifests \cup {None}] /\ doubtful' \in [Places -> BOOLEAN]
        /\ lib[p] \in Binaries \cup {None}
    BY <1>11 DEF CopyInstalled, BuildTypeOK
  <2>2. Trusted'
    BY <1>11 DEF CopyInstalled, BuildTypeOK
  <2> QED
    BY <1>9, <1>11, <2>1, <2>2 DEF CopyInstalled
<1>12. ASSUME NEW x \in Binaries, CoverageLibrary(x) PROVE BInv'
  <2>1. [library |-> x, src |-> source] \in Manifests /\ "manual" \in Places
    BY <1>a, <1>12 DEF CoverageLibrary, Manifests
  <2>2. /\ manifest' \in [Places -> Manifests \cup {None}] /\ doubtful' \in [Places -> BOOLEAN]
    BY <1>12, <2>1 DEF CoverageLibrary, BuildTypeOK
  <2>3. Trusted'
    BY <1>12, <2>1 DEF CoverageLibrary, BuildTypeOK
  <2>4. DisturbAt("manual")
    BY <1>12 DEF CoverageLibrary, DisturbAt
  <2> QED
    BY <1>9, <1>12, <2>1, <2>2, <2>3, <2>4 DEF CoverageLibrary
<1>13. ASSUME NEW manual \in BOOLEAN, StartProcess(manual) PROVE BInv'
  <2> USE DEF StartProcess, fileVars, ownVars
  <2>1. loaded' \in [lib : Binaries \cup {None}, path : Places \cup {None}]
    BY <1>13, LoadedIs
  <2>2. Running' = Running
    BY <1>13 DEF Running
  <2>3. BuildTypeOK'
    BY <1>13, <2>1, <2>2 DEF BuildTypeOK
  <2> QED
    BY <1>13, <2>2, <2>3
<1>14. CASE UNCHANGED buildVars
  <2> USE DEF buildVars, fileVars, ownVars
  <2>1. Running' = Running
    BY <1>14 DEF Running
  <2>2. BuildTypeOK'
    BY <1>14, <2>1 DEF BuildTypeOK
  <2> QED
    BY <1>14, <2>1, <2>2
<1>15. ASSUME NEW b \in Builds, BuildStep(b) PROVE BInv'
  <2>1. CASE SourceMissing(b) \/ CannotCompile(b) \/ Interrupted(b)
    BY <1>4, <2>1 DEF SourceMissing, CannotCompile, Interrupted, Codes
  <2> QED
    BY <1>1, <1>2, <1>3, <1>5, <1>6, <1>7, <1>15, <2>1 DEF BuildStep
<1> QED
  BY <1>8, <1>10, <1>11, <1>12, <1>13, <1>14, <1>15 DEF BuildNext

LEMMA AlwaysBInv == BuildSpec => []BInv
<1> QED
  BY BuildStarts, BuildKeeps, PTL DEF BuildSpec

(* Types, for every set of builds, binaries, source trees, places and          *)
(* environments and however much happens from outside.                         *)
THEOREM BuildTyped == BuildSpec => []BuildTypeOK
<1>1. BInv => BuildTypeOK
  BY DEF BInv
<1> QED
  BY <1>1, AlwaysBInv, PTL

(* Whatever builds ran beside each other or were interrupted, in whatever      *)
(* environments, and whatever was done to the files meanwhile: a process loads *)
(* only a core that a build probed, made of the sources that are there, unless *)
(* the manifest beside it is one of those LoadedCoreIsSound names.             *)
THEOREM LoadedIsSound == BuildSpec => LoadedCoreIsSound
<1> DEFINE Sound == \/ doubtful[loaded'.path]
                    \/ loaded'.lib \in probed /\ Matches(loaded'.lib.src)
<1>1. BInv /\ [BuildNext]_buildVars =>
        [loaded' # loaded /\ loaded'.lib # None => Sound]_buildVars
  <2> SUFFICES ASSUME BInv, BuildNext, loaded' # loaded, loaded'.lib # None PROVE Sound
    OBVIOUS
  <2>1. PICK manual \in BOOLEAN : StartProcess(manual)
    BY DEF BuildNext, BuildStep, Start, SourceMissing, Link, CannotCompile, Probe, Delete,
           TakeDigests, WriteManifest, Interrupted, EditSource, CopyLibrary,
           CopyInstalled, CoverageLibrary
  <2> DEFINE e == [Plain EXCEPT !.manual = manual]
             p == loaded'.path
  <2>2. p \in Places /\ loaded'.lib = lib[p] /\ Usable(p, e)
    BY <2>1, LoadedIs DEF StartProcess, BInv
  <2>3. ~e.unverified
    BY DEF Plain
  <2> HIDE DEF e, p
  <2>4. manifest[p] # None /\ manifest[p].library = lib[p] /\ Matches(manifest[p].src)
    BY <2>2, <2>3 DEF Usable, Provenance
  <2>5. ~doubtful[p] => lib[p] \in probed /\ lib[p].src = manifest[p].src
    BY <2>2, <2>4 DEF BInv, Trusted, Vouched
  <2> QED
    BY <2>2, <2>4, <2>5 DEF p
<1> QED
  BY <1>1, AlwaysBInv, PTL DEF LoadedCoreIsSound, BuildSpec

(* What a build leaves that was alone with the files and probed its own        *)
(* library: the next process loads that one, whatever lies in other places.    *)
THEOREM BuildsEndClean == BuildSpec => BuildEndsClean
<1> DEFINE Clean(b) ==
       /\ rc'[b] = 3 => lib'["crypto"] = None
       /\ rc'[b] = 0 /\ b \notin disturbed \cup astray =>
            /\ built[b] \in probed
            /\ Loaded(Plain)' = [lib |-> built[b], path |-> "crypto"]
<1>1. BInv /\ [BuildNext]_buildVars =>
        [\A b \in Builds : pc[b] # "done" /\ pc'[b] = "done" => Clean(b)]_buildVars
  <2> SUFFICES ASSUME BInv, BuildNext, NEW b \in Builds, pc[b] # "done", pc'[b] = "done"
               PROVE  Clean(b)
    OBVIOUS
  <2>1. "crypto" \in Places /\ pc \in [Builds -> {"ready", "link", "probe", "delete", "digest", "write", "done"}]
        /\ rc \in [Builds -> Codes]
        /\ None \notin Binaries /\ lib \in [Places -> Binaries \cup {None}]
        /\ manifest \in [Places -> Manifests \cup {None}]
    BY PlacesAssumption, BinariesAssumption DEF BInv, BuildTypeOK
  <2>2. PICK c \in Builds : BuildStep(c)
    BY DEF BuildNext, EditSource, CopyLibrary, CopyInstalled, CoverageLibrary,
           StartProcess, ownVars
  <2>3. c = b /\ \/ SourceMissing(b) \/ CannotCompile(b) \/ Interrupted(b)
                 \/ Delete(b) \/ WriteManifest(b)
    BY <2>1, <2>2 DEF BuildStep, Start, SourceMissing, Link, CannotCompile, Probe, Delete,
           TakeDigests, WriteManifest, Interrupted, Goes, Ends
  <2>4. CASE SourceMissing(b) \/ CannotCompile(b) \/ Interrupted(b)
    <3>1. rc'[b] \in {1, 2, None}
      BY <2>1, <2>4 DEF SourceMissing, CannotCompile, Interrupted, Ends
    <3> QED
      BY <3>1, BinariesAssumption
  <2>5. CASE Delete(b)
    BY <2>1, <2>5 DEF Delete, Ends
  <2>6. CASE WriteManifest(b)
    <3> SUFFICES ASSUME b \notin disturbed \cup astray
                 PROVE  /\ built[b] \in probed
                        /\ Loaded(Plain)' = [lib |-> built[b], path |-> "crypto"]
      BY <2>1, <2>6 DEF WriteManifest, Ends
    <3>1. b \in Running /\ pc[b] = "write"
      BY <2>6 DEF WriteManifest, Running
    <3>2. /\ built[b] \in probed /\ lib["crypto"] = built[b] /\ source = built[b].src
          /\ noted[b] = [library |-> built[b], src |-> built[b].src]
          /\ built[b] # None /\ built[b].selftest
      BY <3>1 DEF BInv, AloneSoFar, OwnProbed, BuildTypeOK
    <3>3. /\ lib' = lib /\ source' = source /\ manifest'["crypto"] = noted[b]
          /\ noted[b] # None
      BY <2>1, <2>6, <3>1 DEF WriteManifest, BInv, BuildTypeOK, Running
    <3>4. Usable("crypto", Plain)'
      BY <3>2, <3>3 DEF Usable, Provenance, Matches
    <3> DEFINE found == Found(Plain)'
    <3>5. found \in SUBSET Places /\ "crypto" \in found /\ "manual" \notin found
      BY <2>1, <3>2, <3>3, <3>4 DEF Found, Candidates, Plain
    <3>6. First(found) = "crypto"
      <4> HIDE DEF found
      <4>1. First(found) \in found /\ Rank[First(found)] <= Rank["crypto"]
        BY <3>5, FirstIs
      <4>2. First(found) \in {"crypto", "ccore"}
        BY <3>5, <4>1, PlacesAssumption DEF AllPlaces
      <4> QED
        BY <4>1, <4>2 DEF Rank
    <3>7. Loaded(Plain)' = [lib |-> lib'["crypto"], path |-> "crypto"]
      BY <3>5, <3>6 DEF Loaded, Plain
    <3> QED
      BY <3>2, <3>3, <3>7
  <2> QED
    BY <2>3, <2>4, <2>5, <2>6
<1> QED
  BY <1>1, AlwaysBInv, PTL DEF BuildEndsClean, BuildSpec

=================================================================================
