----------------------------- MODULE MessageProofs ------------------------------
(* Theorems about messages.  The first part is about messages of several       *)
(* blocks, for every size and number of blocks and every order, loss and       *)
(* repetition of them.  The second is about single ciphertexts, for every      *)
(* corpus, width of a cell and length of a body: what is written of a value,   *)
(* of a formula, of a chain of them and of a text among decoys is read as      *)
(* that, and the invariants of the engine follow.                              *)
EXTENDS LongMessage, Message, LayoutProofs

---------------------------------------------------------------------------------
(* The blocks of a message.                                                    *)

(* A block holds its share of the padded text.                                 *)
ShareOf(b, text, total) ==
  \A j \in 1..BlockBody : b.body[j] = Padded(text, total)[b.index * BlockBody + j]
WellMade(b, T, text, id, total) ==
  /\ b.slug = "ham-metin" /\ b.header = TRUE /\ b.id = id
  /\ b.index \in 0..(total - 1) /\ b.total = total /\ b.length = Len(text)
  /\ b.body \in Seq(T \cup {ZERO}) /\ Len(b.body) = BlockBody
  /\ ShareOf(b, text, total)

LEMMA BlocksWellMade ==
  ASSUME NEW T, NEW text \in Seq(T), NEW id, NEW total \in Nat \ {0},
         NEW b \in Blocks(id, text, total)
  PROVE  WellMade(b, T, text, id, total)
<1>1. PICK i \in 0..(total - 1) :
        b = [slug |-> "ham-metin", header |-> TRUE, id |-> id, index |-> i,
             total |-> total, length |-> Len(text),
             body |-> SubSeq(Padded(text, total),
                             i * BlockBody + 1, (i + 1) * BlockBody)]
  BY DEF Blocks
<1> DEFINE from == i * BlockBody + 1
           upto == (i + 1) * BlockBody
           all  == total * BlockBody
<1>2. /\ from \in Int /\ upto \in Int /\ all \in Nat
      /\ upto - from + 1 = BlockBody /\ 1 <= from /\ from <= upto /\ upto <= all
  <2>1. i \in Int /\ 0 <= i /\ i + 1 <= total
    OBVIOUS
  <2>2. BlockBody \in Int /\ BlockBody >= 1
    BY BlockBodyAssumption
  <2>3. (i + 1) * BlockBody = i * BlockBody + BlockBody
    BY <2>1, <2>2, SMT
  <2>4. i * BlockBody \in Int /\ i * BlockBody >= 0
    BY <2>1, <2>2, SMT
  <2>5. (i + 1) * BlockBody <= total * BlockBody /\ total * BlockBody \in Int
    BY <2>1, <2>2, SMT
  <2> QED
    BY <2>2, <2>3, <2>4, <2>5
<1>3. \A p \in 1..all : Padded(text, total)[p] \in T \cup {ZERO}
  <2> TAKE p \in 1..all
  <2>1. Padded(text, total)[p] = IF p <= Len(text) THEN text[p] ELSE ZERO
    BY DEF Padded
  <2>2. p <= Len(text) => text[p] \in T
    <3>1. Len(text) \in Nat
      BY LenProperties
    <3>2. p <= Len(text) => p \in 1..Len(text)
      BY <1>2, <3>1
    <3> QED
      BY <3>2, ElementOfSeq
  <2> QED
    BY <2>1, <2>2, Zenon
<1> HIDE DEF from, upto, all
<1>4. \A p \in from..upto : Padded(text, total)[p] \in T \cup {ZERO}
  BY <1>2, <1>3
<1> DEFINE body == SubSeq(Padded(text, total), from, upto)
<1>5. /\ body \in Seq(T \cup {ZERO})
      /\ Len(body) = IF from <= upto THEN upto - from + 1 ELSE 0
      /\ \A j \in 1..(upto - from + 1) :
           body[j] = Padded(text, total)[from + j - 1]
  BY <1>2, <1>4, SubSeqProperties
<1>6. b.body = body /\ b.index = i
  BY <1>1 DEF from, upto
<1> HIDE DEF body
<1>7. \A j \in 1..BlockBody : from + j - 1 = i * BlockBody + j
  BY <1>2, BlockBodyAssumption DEF from
<1>8. ShareOf(b, text, total)
  BY <1>2, <1>5, <1>6, <1>7 DEF ShareOf
<1> QED
  BY <1>1, <1>2, <1>5, <1>6, <1>8 DEF WellMade

(* A message has one block for each index.                                     *)
LEMMA BlockAt ==
  ASSUME NEW text, NEW id, NEW total \in Nat \ {0}
  PROVE  /\ \A k \in 0..(total - 1) : \E b \in Blocks(id, text, total) : b.index = k
         /\ \A b, c \in Blocks(id, text, total) : b.index = c.index => b = c
<1> DEFINE Made(i) == [slug |-> "ham-metin", header |-> TRUE, id |-> id, index |-> i,
                       total |-> total, length |-> Len(text),
                       body |-> SubSeq(Padded(text, total),
                                       i * BlockBody + 1, (i + 1) * BlockBody)]
<1>1. Blocks(id, text, total) = {Made(i) : i \in 0..(total - 1)}
  BY DEF Blocks
<1>2. \A i : Made(i).index = i
  OBVIOUS
<1> HIDE DEF Made
<1> QED
  BY <1>1, <1>2

(* A list with one block of each index joins to the text.                      *)
LEMMA JoinedIs ==
  ASSUME NEW T, NEW text \in Seq(T), NEW id, NEW total \in Nat \ {0},
         Len(text) <= total * BlockBody,
         NEW l \in Seq(Blocks(id, text, total)), l # <<>>,
         Indexes(l) = 0..(total - 1)
  PROVE  /\ Len(Joined(l)) \in Nat /\ Len(text) <= Len(Joined(l))
         /\ SubSeq(Joined(l), 1, Len(text)) = text
<1> DEFINE U == T \cup {ZERO}
           s == [k \in 1..total |-> Piece(l, k - 1)]
<1>1. /\ BlockBody \in Nat \ {0} /\ Len(text) \in Nat
      /\ DOMAIN l = 1..Len(l) /\ 1 \in DOMAIN l
  BY BlockBodyAssumption, LenProperties, EmptySeq
<1>2. \A i \in DOMAIN l : l[i] \in Blocks(id, text, total)
  BY <1>1, ElementOfSeq
<1>b. ASSUME NEW b \in Blocks(id, text, total)
      PROVE  /\ b.total = total
             /\ b.body \in Seq(U) /\ Len(b.body) = BlockBody
             /\ ShareOf(b, text, total)
  <2>1. WellMade(b, T, text, id, total)
    BY BlocksWellMade
  <2> QED
    BY <2>1 DEF WellMade
<1>3. l[1].total = total
  BY <1>1, <1>2, <1>b
<1>4. Joined(l) = FlattenSeq(s)
  BY <1>3 DEF Joined
<1>5. ASSUME NEW k \in 1..total
      PROVE  /\ s[k] \in Seq(U) /\ Len(s[k]) = BlockBody
             /\ \A j \in 1..BlockBody :
                  s[k][j] = Padded(text, total)[(k - 1) * BlockBody + j]
  <2>1. \E i \in DOMAIN l : l[i].index = k - 1
    <3>1. k - 1 \in Indexes(l)
      OBVIOUS
    <3> QED
      BY <3>1 DEF Indexes
  <2>2. PICK i \in DOMAIN l : l[i].index = k - 1 /\ Piece(l, k - 1) = l[i].body
    BY <2>1 DEF Piece
  <2>3. s[k] = l[i].body
    BY <2>2
  <2>4. /\ l[i].body \in Seq(U) /\ Len(l[i].body) = BlockBody
        /\ ShareOf(l[i], text, total)
    BY <1>2, <1>b, Zenon
  <2> HIDE DEF s, U
  <2> QED
    BY <2>2, <2>3, <2>4, Zenon DEF ShareOf
<1>6. s \in [1..total -> Seq(U)] /\ \A k \in 1..total : Len(s[k]) = BlockBody
  BY <1>5
<1> HIDE DEF s, U
<1>7. FlattenSeq(s) \in Seq(U) /\ InRows(FlattenSeq(s), s, total, BlockBody)
  BY <1>1, <1>6, FlattenUniform
<1>8. \A p \in 1..(total * BlockBody) : FlattenSeq(s)[p] = Padded(text, total)[p]
  <2> TAKE p \in 1..(total * BlockBody)
  <2>1. PICK k \in 1..total, j \in 1..BlockBody : p = (k - 1) * BlockBody + j
    BY <1>1, PieceOf
  <2> QED
    BY <2>1, <1>5, <1>7, Zenon DEF InRows
<1> DEFINE raw == FlattenSeq(s)
           all == total * BlockBody
           cut == SubSeq(raw, 1, Len(text))
<1>9. all \in Nat /\ Len(text) <= all
  BY <1>1, SMT
<1>10. \A p \in 1..Len(text) : raw[p] = text[p] /\ text[p] \in T
  <2> HIDE DEF all, raw
  <2> TAKE p \in 1..Len(text)
  <2>1. p \in 1..all /\ p <= Len(text)
    BY <1>1, <1>9
  <2>2. raw[p] = Padded(text, total)[p]
    BY <2>1, <1>8 DEF all, raw
  <2>3. Padded(text, total)[p] = text[p]
    BY <2>1 DEF Padded, all
  <2> QED
    BY <2>2, <2>3, ElementOfSeq
<1> HIDE DEF raw, all
<1>11. /\ cut \in Seq(T) /\ Len(cut) = IF 1 <= Len(text) THEN Len(text) ELSE 0
       /\ \A p \in 1..Len(text) : cut[p] = raw[p]
  <2>1. \A p \in 1..Len(text) : raw[p] \in T
    BY <1>10
  <2>2. /\ cut \in Seq(T)
        /\ Len(cut) = IF 1 <= Len(text) THEN Len(text) - 1 + 1 ELSE 0
        /\ \A p \in 1..(Len(text) - 1 + 1) : cut[p] = raw[1 + p - 1]
    BY <1>1, <2>1, SubSeqProperties
  <2> HIDE DEF cut
  <2>3. Len(text) - 1 + 1 = Len(text) /\ \A p \in 1..Len(text) : 1 + p - 1 = p
    BY <1>1
  <2> QED
    BY <2>2, <2>3
<1>12. cut = text
  <2> HIDE DEF cut
  <2>1. Len(cut) = Len(text)
    BY <1>1, <1>11
  <2> QED
    BY <2>1, <1>10, <1>11, SeqEqual
<1> QED
  BY <1>4, <1>7, <1>9, <1>12, LenProperties DEF raw, all, InRows

---------------------------------------------------------------------------------
(* The checks of decrypt_long.                                                 *)

(* What a list without a fault is: blocks of one message with as many in       *)
(* total, no index twice and none out of range.                                *)
LEMMA Faultless ==
  ASSUME NEW S, NEW l \in Seq(S), l # <<>>
  PROVE  Faulty(l) = {} <=>
           \A i \in 1..Len(l) :
             /\ l[i].slug = "ham-metin" /\ l[i].header
             /\ l[i].id = l[1].id /\ l[i].total = l[1].total
             /\ l[i].length = l[1].length
             /\ \A j \in 1..(i - 1) : l[j].index # l[i].index
             /\ l[i].index \in 0..(l[i].total - 1)
<1>1. DOMAIN l = 1..Len(l)
  BY LenProperties
<1>2. ASSUME NEW i \in 1..Len(l)
      PROVE  Fault(l, i) = "none" <=>
             /\ l[i].slug = "ham-metin" /\ l[i].header
             /\ l[i].id = l[1].id /\ l[i].total = l[1].total
             /\ l[i].length = l[1].length
             /\ \A j \in 1..(i - 1) : l[j].index # l[i].index
             /\ l[i].index \in 0..(l[i].total - 1)
  BY DEF Fault, SameMessage, InRange
<1>3. Faulty(l) = {} <=> \A i \in 1..Len(l) : Fault(l, i) = "none"
  BY <1>1 DEF Faulty
<1> QED
  BY <1>2, <1>3

---------------------------------------------------------------------------------
(* The invariant.                                                              *)

Bytes == (Nat \X Nat)

(* A message's blocks are those of its text in some total that holds it, and   *)
(* whatever else is in the transport's hands carries no message's id; what was *)
(* answered is what decrypt_long answers to the list as it is.                 *)
TextsAre == texts \in Seq(Seq(Bytes))
SentWhole ==
  \A id \in DOMAIN texts : \E total \in 1..MAX_BLOCKS :
    /\ Len(texts[id]) <= total * BlockBody
    /\ Whole(id) = Blocks(id, texts[id], total)
OthersPlain == \A b \in blocks : b.id \in DOMAIN texts \/ b.id = PLAIN_ID
ListIs == list \in Seq(blocks)
OutcomeIs == outcome = NoOutcome \/ outcome = Decrypted(list)

LongInv == TextsAre /\ SentWhole /\ OthersPlain /\ ListIs /\ OutcomeIs

(* A text and the blocks it gets, which are enough for it.                     *)
LEMMA Enough ==
  ASSUME NEW length \in Lengths, NEW target \in BlockTargets, ~Refused(length, target)
  PROVE  /\ TotalBlocks(length, target) \in 1..MAX_BLOCKS
         /\ length <= TotalBlocks(length, target) * BlockBody
<1> DEFINE need == Needed(length)
           total == TotalBlocks(length, target)
<1>1. /\ length \in Nat /\ length >= 1
      /\ BlockBody \in Nat /\ BlockBody >= 1 /\ MAX_BLOCKS \in Nat
  BY LengthsAssumption, BlockBodyAssumption, MaxBlocksAssumption DEF Refused
<1>2. /\ need \in Nat
      /\ length + BlockBody - 1 < BlockBody * need + BlockBody
  <2>1. length + BlockBody - 1 \in Nat /\ BlockBody \in Nat \ {0}
    BY <1>1
  <2> QED
    BY <2>1, Quotient DEF Needed
<1>3. target # NoTarget => target \in Int /\ target >= need
  BY TargetsAssumption, <1>2 DEF Refused
<1>4. total \in Int /\ total >= need /\ total <= MAX_BLOCKS
  BY <1>1, <1>2, <1>3 DEF TotalBlocks, Refused
<1> HIDE DEF need, total
<1>5. length <= BlockBody * need
  <2> DEFINE m == BlockBody * need
  <2>1. m \in Int
    BY <1>1, <1>2, SMT
  <2> HIDE DEF m
  <2>2. length + BlockBody - 1 < m + BlockBody
    BY <1>2 DEF m
  <2>3. length <= m
    BY <1>1, <2>1, <2>2
  <2> QED
    BY <2>3 DEF m
<1>6. BlockBody * need <= total * BlockBody
  BY <1>1, <1>2, <1>4, SMT
<1>7. need # 0
  BY <1>1, <1>5, SMT
<1>8. length <= total * BlockBody
  BY <1>1, <1>2, <1>4, <1>5, <1>6, SMT
<1> QED
  BY <1>2, <1>4, <1>7, <1>8 DEF total

LEMMA LongInvInit == LongInit => LongInv
<1> SUFFICES ASSUME LongInit PROVE LongInv
  OBVIOUS
<1>1. texts = <<>> /\ list = <<>> /\ blocks = {} /\ outcome = NoOutcome
  BY DEF LongInit
<1>2. DOMAIN texts = {} /\ texts \in Seq(Seq(Bytes)) /\ list \in Seq(blocks)
  BY <1>1
<1> QED
  BY <1>1, <1>2 DEF LongInv, TextsAre, SentWhole, OthersPlain, ListIs, OutcomeIs

(* A new message takes an id nobody has, so the others' blocks stay whole.     *)
LEMMA EncryptKeeps ==
  ASSUME LongInv, NEW length \in Lengths, NEW target \in BlockTargets,
         EncryptLong(length, target)
  PROVE  LongInv'
<1> DEFINE id    == Len(texts) + 1
           text  == Text(id, length)
           total == TotalBlocks(length, target)
           new   == Blocks(id, text, total)
<1>1. /\ ~Refused(length, target)
      /\ texts' = Append(texts, text) /\ blocks' = blocks \cup new
      /\ list' = list /\ outcome' = outcome
  BY DEF EncryptLong
<1>2. texts \in Seq(Seq(Bytes)) /\ Len(texts) \in Nat /\ DOMAIN texts = 1..Len(texts)
  BY LenProperties DEF LongInv, TextsAre
<1>3. length \in Nat
  BY LengthsAssumption
<1>4. text \in Seq(Bytes) /\ Len(text) = length
  <2>1. text \in [1..length -> Bytes]
    BY <1>2 DEF Text, Bytes
  <2>2. text \in Seq(Bytes)
    BY <1>3, <2>1, SeqDef
  <2>3. DOMAIN text = 1..length /\ Len(text) \in Nat /\ DOMAIN text = 1..Len(text)
    BY <2>1, <2>2, LenProperties
  <2> HIDE DEF text
  <2> QED
    BY <1>3, <2>2, <2>3
<1>5. total \in 1..MAX_BLOCKS /\ length <= total * BlockBody
  BY <1>1, Enough
<1>6. \A b \in new : b.id = id
  BY DEF Blocks
<1>7. /\ texts' \in Seq(Seq(Bytes)) /\ Len(texts') = Len(texts) + 1
      /\ DOMAIN texts' = 1..(Len(texts) + 1)
      /\ \A i \in 1..Len(texts) : texts'[i] = texts[i]
      /\ texts'[id] = text
  <2> HIDE DEF text
  <2>1. /\ texts' \in Seq(Seq(Bytes)) /\ Len(texts') = Len(texts) + 1
        /\ \A i \in 1..Len(texts) : texts'[i] = texts[i]
        /\ texts'[Len(texts) + 1] = text
    BY <1>1, <1>2, <1>4, AppendProperties
  <2> QED
    BY <2>1, LenProperties
<1> HIDE DEF text, total, new
<1>8. SentWhole'
  <2> SUFFICES ASSUME NEW i \in DOMAIN texts'
               PROVE  \E n \in 1..MAX_BLOCKS :
                        /\ Len(texts'[i]) <= n * BlockBody
                        /\ {b \in blocks' : b.id = i} = Blocks(i, texts'[i], n)
    BY DEF SentWhole, Whole
  <2>1. CASE i = id
    <3>1. id \notin DOMAIN texts /\ id # PLAIN_ID
      BY <1>2 DEF PLAIN_ID
    <3>2. \A b \in blocks : b.id # id
      BY <3>1 DEF LongInv, OthersPlain
    <3>3. {b \in blocks' : b.id = i} = new
      <4> HIDE DEF id
      <4> QED
        BY <1>1, <1>6, <2>1, <3>2
    <3>4. new = Blocks(i, texts'[i], total) /\ Len(texts'[i]) <= total * BlockBody
      BY <1>4, <1>5, <1>7, <2>1 DEF new
    <3> QED
      BY <1>5, <3>3, <3>4
  <2>2. CASE i # id
    <3>1. i \in DOMAIN texts /\ texts'[i] = texts[i]
      BY <1>2, <1>7, <2>2
    <3>2. PICK n \in 1..MAX_BLOCKS :
            /\ Len(texts[i]) <= n * BlockBody
            /\ {b \in blocks : b.id = i} = Blocks(i, texts[i], n)
      BY <3>1 DEF LongInv, SentWhole, Whole
    <3>3. {b \in blocks' : b.id = i} = {b \in blocks : b.id = i}
      <4> HIDE DEF id
      <4> QED
        BY <1>1, <1>6, <2>2
    <3> QED
      BY <3>1, <3>2, <3>3
  <2> QED
    BY <2>1, <2>2
<1>9. OthersPlain'
  <2> SUFFICES ASSUME NEW b \in blocks'
               PROVE  b.id \in DOMAIN texts' \/ b.id = PLAIN_ID
    BY DEF OthersPlain
  <2>1. CASE b \in new
    BY <2>1, <1>2, <1>6, <1>7
  <2>2. CASE b \in blocks
    BY <2>2, <1>2, <1>7 DEF LongInv, OthersPlain
  <2> QED
    BY <1>1, <2>1, <2>2
<1>10. ListIs'
  BY <1>1, SeqMonotonic DEF LongInv, ListIs
<1> QED
  BY <1>1, <1>7, <1>8, <1>9, <1>10 DEF LongInv, TextsAre, OutcomeIs

LEMMA OtherKeeps ==
  ASSUME LongInv, NEW c, c.id = PLAIN_ID, EncryptOther(c)
  PROVE  LongInv'
<1>1. /\ blocks' = blocks \cup {c} /\ texts' = texts
      /\ list' = list /\ outcome' = outcome
  BY DEF EncryptOther
<1>2. PLAIN_ID \notin DOMAIN texts
  BY LenProperties DEF LongInv, TextsAre, PLAIN_ID
<1>3. \A i \in DOMAIN texts : {b \in blocks' : b.id = i} = {b \in blocks : b.id = i}
  BY <1>1, <1>2
<1>4. SentWhole'
  BY <1>1, <1>3, Zenon DEF LongInv, SentWhole, Whole
<1>5. OthersPlain'
  BY <1>1 DEF LongInv, OthersPlain
<1>6. ListIs'
  BY <1>1, SeqMonotonic DEF LongInv, ListIs
<1> QED
  BY <1>1, <1>4, <1>5, <1>6 DEF LongInv, TextsAre, OutcomeIs

LEMMA LongInvNext == LongInv /\ [LongNext]_longVars => LongInv'
<1> SUFFICES ASSUME LongInv, [LongNext]_longVars PROVE LongInv'
  OBVIOUS
<1>1. ASSUME NEW length \in Lengths, NEW target \in BlockTargets,
             EncryptLong(length, target)
      PROVE  LongInv'
  BY <1>1, EncryptKeeps
<1>2. ASSUME UNCHANGED longVars PROVE LongInv'
  BY <1>2 DEF longVars, LongInv, TextsAre, SentWhole, Whole, OthersPlain, ListIs, OutcomeIs
<1>3. ASSUME NEW slug, NEW header, NEW index, NEW total,
             EncryptOther(Other(slug, header, index, total))
      PROVE  LongInv'
  <2>1. Other(slug, header, index, total).id = PLAIN_ID
    BY DEF Other
  <2> QED
    BY <1>3, <2>1, OtherKeeps
<1>4. ASSUME UNCHANGED <<texts, blocks>>, list' \in Seq(blocks), OutcomeIs'
      PROVE  LongInv'
  <2>1. SentWhole'
    BY <1>4, Zenon DEF LongInv, SentWhole, Whole
  <2> QED
    BY <1>4, <2>1 DEF LongInv, TextsAre, OthersPlain, ListIs
<1>5. ASSUME NEW b \in blocks, Collect(b) PROVE LongInv'
  <2>1. list' \in Seq(blocks)
    BY <1>5, AppendProperties DEF Collect, LongInv, ListIs
  <2> QED
    BY <1>4, <1>5, <2>1 DEF Collect, OutcomeIs
<1>6. ASSUME StartAgain PROVE LongInv'
  <2>1. list' \in Seq(blocks)
    BY <1>6, EmptySeq DEF StartAgain
  <2> QED
    BY <1>4, <1>6, <2>1 DEF StartAgain, OutcomeIs
<1>7. ASSUME DecryptLong PROVE LongInv'
  <2>1. list' \in Seq(blocks) /\ outcome' = Decrypted(list')
    BY <1>7, Zenon DEF DecryptLong, LongInv, ListIs
  <2> QED
    BY <1>4, <1>7, <2>1 DEF DecryptLong, OutcomeIs
<1> QED
  BY <1>1, <1>2, <1>3, <1>5, <1>6, <1>7 DEF LongNext, EncryptRefused

LEMMA AlwaysLongInv == LongSpec => []LongInv
BY LongInvInit, LongInvNext, PTL DEF LongSpec

---------------------------------------------------------------------------------
(* What the invariant says of an answer.                                       *)

(* An answer is a known one, and a text is one only from a list that passed    *)
(* every check.                                                                *)
LEMMA FaultIs ==
  ASSUME NEW l, NEW i
  PROVE  Fault(l, i) \in Verdicts \ {"ok"}
BY DEF Fault, Verdicts

LEMMA VerdictIs ==
  ASSUME NEW l
  PROVE  /\ Decrypted(l).verdict \in Verdicts
         /\ Decrypted(l).verdict = "ok" <=>
              /\ l # <<>> /\ ~(Len(l) > MAX_BLOCKS) /\ Faulty(l) = {}
              /\ Cardinality(Indexes(l)) = l[1].total
              /\ ~(l[1].length > Len(Joined(l)))
<1> DEFINE first == Fault(l, Min(Faulty(l)))
<1>1. first \in Verdicts /\ first # "ok"
  BY FaultIs
<1>2. {"no blocks or too many", "incomplete", "length exceeds", "ok"} \subseteq Verdicts
  BY DEF Verdicts
<1> HIDE DEF first
<1>3. Decrypted(l).verdict =
        IF l = <<>> \/ Len(l) > MAX_BLOCKS THEN "no blocks or too many"
        ELSE IF Faulty(l) # {} THEN first
        ELSE IF Cardinality(Indexes(l)) # l[1].total THEN "incomplete"
        ELSE IF l[1].length > Len(Joined(l)) THEN "length exceeds"
        ELSE "ok"
  BY DEF Decrypted, Ended, first
<1> QED
  BY <1>1, <1>2, <1>3

(* The blocks of a message that was sent.                                      *)
LEMMA WholeIs ==
  ASSUME LongInv, NEW id \in DOMAIN texts
  PROVE  \E total \in 1..MAX_BLOCKS :
           /\ texts[id] \in Seq(Bytes)
           /\ Len(texts[id]) <= total * BlockBody
           /\ Whole(id) = Blocks(id, texts[id], total)
           /\ \A b \in Whole(id) : WellMade(b, Bytes, texts[id], id, total)
<1>1. PICK total \in 1..MAX_BLOCKS :
        /\ Len(texts[id]) <= total * BlockBody
        /\ Whole(id) = Blocks(id, texts[id], total)
  BY DEF LongInv, SentWhole
<1>2. texts[id] \in Seq(Bytes)
  BY LenProperties, ElementOfSeq DEF LongInv, TextsAre
<1>3. total \in Nat \ {0}
  BY MaxBlocksAssumption
<1>4. ASSUME NEW b \in Whole(id) PROVE WellMade(b, Bytes, texts[id], id, total)
  BY <1>1, <1>2, <1>3, BlocksWellMade
<1> QED
  BY <1>1, <1>2, <1>4

LEMMA AnswersTyped == LongInv => LongTypeOK
<1> SUFFICES ASSUME LongInv PROVE LongTypeOK
  OBVIOUS
<1>1. ASSUME NEW b \in blocks, b.id # PLAIN_ID
      PROVE  /\ b.id \in DOMAIN texts /\ b.length = Len(texts[b.id])
             /\ b.total \in 1..MAX_BLOCKS /\ b.index \in 0..(b.total - 1)
             /\ Len(b.body) = BlockBody
  <2>1. b.id \in DOMAIN texts /\ b \in Whole(b.id)
    BY <1>1 DEF LongInv, OthersPlain, Whole
  <2>2. PICK total \in 1..MAX_BLOCKS : WellMade(b, Bytes, texts[b.id], b.id, total)
    BY <2>1, WholeIs, Zenon
  <2> QED
    BY <2>1, <2>2 DEF WellMade
<1>2. outcome.verdict \in Verdicts
  <2>1. CASE outcome = NoOutcome
    BY <2>1 DEF NoOutcome, Verdicts
  <2>2. CASE outcome = Decrypted(list)
    BY <2>2, VerdictIs
  <2> QED
    BY <2>1, <2>2 DEF LongInv, OutcomeIs
<1> QED
  BY <1>1, <1>2, Zenon DEF LongTypeOK, LongInv, ListIs

(* Once says that no block is at two places.                                   *)
LEMMA OnceIs ==
  ASSUME LongInv
  PROVE  /\ Len(list) \in Nat /\ DOMAIN list = 1..Len(list)
         /\ Collected = {list[i] : i \in 1..Len(list)}
         /\ Once <=> \A i, j \in 1..Len(list) : list[i] = list[j] => i = j
<1>1. Len(list) \in Nat /\ DOMAIN list = 1..Len(list)
  BY LenProperties DEF LongInv, ListIs
<1>2. Collected = {list[i] : i \in 1..Len(list)}
  BY <1>1 DEF Collected, ToSet
<1>3. Once <=> \A i, j \in 1..Len(list) : list[i] = list[j] => i = j
  BY <1>1, <1>2, RangeSize DEF Once
<1> QED
  BY <1>1, <1>2, <1>3

(* A list that passed the checks and has a block in it is the blocks of that   *)
(* block's message, each of them once.                                         *)
LEMMA PassedIsWhole ==
  ASSUME LongInv, WithBlock, Decrypted(list).verdict = "ok"
  PROVE  \E id \in DOMAIN texts :
           /\ Collected = Whole(id) /\ Once
           /\ Decrypted(list).text = texts[id]
<1> DEFINE first == list[1]
           id    == first.id
<1>1. /\ list # <<>> /\ Faulty(list) = {} /\ ~(Len(list) > MAX_BLOCKS)
      /\ Cardinality(Indexes(list)) = first.total
      /\ ~(first.length > Len(Joined(list)))
  BY VerdictIs
<1>2. /\ Len(list) \in Nat /\ DOMAIN list = 1..Len(list)
      /\ Collected = {list[i] : i \in 1..Len(list)}
      /\ list \in Seq(blocks)
  BY OnceIs DEF LongInv, ListIs
<1>3. 1 \in 1..Len(list)
  BY <1>1, <1>2, EmptySeq
<1>4. \A i \in 1..Len(list) :
        /\ list[i].id = id /\ list[i].total = first.total
        /\ \A j \in 1..(i - 1) : list[j].index # list[i].index
        /\ list[i].index \in 0..(list[i].total - 1)
  BY <1>1, <1>2, Faultless
<1>5. \A i \in 1..Len(list) : list[i] \in blocks
  BY <1>2, ElementOfSeq
<1>6. id \in DOMAIN texts
  <2>1. PICK i \in 1..Len(list) : list[i].id # PLAIN_ID
    BY <1>2 DEF WithBlock
  <2>2. list[i].id = id
    BY <1>4
  <2> QED
    BY <1>5, <2>1, <2>2 DEF LongInv, OthersPlain
<1>7. PICK total \in 1..MAX_BLOCKS :
        /\ texts[id] \in Seq(Bytes)
        /\ Len(texts[id]) <= total * BlockBody
        /\ Whole(id) = Blocks(id, texts[id], total)
        /\ \A b \in Whole(id) : WellMade(b, Bytes, texts[id], id, total)
  BY <1>6, WholeIs, Zenon
<1>8. total \in Nat \ {0}
  BY MaxBlocksAssumption
<1>9. \A i \in 1..Len(list) : list[i] \in Whole(id)
  BY <1>4, <1>5 DEF Whole
<1>10. first.total = total /\ first.length = Len(texts[id])
  BY <1>3, <1>7, <1>9 DEF WellMade
<1> HIDE DEF first, id
<1>11. Indexes(list) = 0..(total - 1)
  <2>1. Indexes(list) \in SUBSET (0..(total - 1))
    BY <1>2, <1>4, <1>10 DEF Indexes
  <2>2. IsFiniteSet(0..(total - 1)) /\ Cardinality(0..(total - 1)) = total
    BY <1>8, FS_Interval
  <2>3. Cardinality(0..(total - 1)) = Cardinality(Indexes(list))
    BY <1>1, <1>10, <2>2
  <2> QED
    BY <2>1, <2>2, <2>3, FS_Subset
<1>12. list \in Seq(Whole(id))
  <2>1. list \in [1..Len(list) -> Whole(id)]
    BY <1>2, <1>9, LenProperties
  <2> QED
    BY <1>2, <2>1, SeqDef
<1>13. Collected = Whole(id)
  <2>1. ASSUME NEW b \in Whole(id) PROVE b \in Collected
    <3>1. b.index \in 0..(total - 1)
      BY <1>7 DEF WellMade
    <3>2. PICK i \in 1..Len(list) : list[i].index = b.index
      BY <1>2, <1>11, <3>1 DEF Indexes
    <3>3. list[i] = b
      BY <1>7, <1>8, <1>9, <3>2, BlockAt
    <3> QED
      BY <1>2, <3>3
  <2> QED
    BY <1>2, <1>9, <2>1
<1>14. Once
  <2>1. ASSUME NEW i \in 1..Len(list), NEW j \in 1..Len(list), list[i] = list[j], i < j
        PROVE  FALSE
    <3>1. i \in 1..(j - 1) /\ list[i].index = list[j].index
      BY <2>1
    <3> QED
      BY <1>4, <3>1
  <2>2. \A i, j \in 1..Len(list) : list[i] = list[j] => i = j
    <3> TAKE i, j \in 1..Len(list)
    <3>1. i < j \/ j < i \/ i = j
      BY <1>2
    <3> QED
      BY <2>1, <3>1
  <2> QED
    BY <2>2, OnceIs
<1>15. SubSeq(Joined(list), 1, Len(texts[id])) = texts[id]
  <2> DEFINE text == texts[id]
  <2>1. list \in Seq(Blocks(id, text, total)) /\ text \in Seq(Bytes)
    BY <1>7, <1>12
  <2>2. Len(text) <= total * BlockBody
    BY <1>7
  <2> HIDE DEF text
  <2>3. SubSeq(Joined(list), 1, Len(text)) = text
    BY <1>1, <1>8, <1>11, <2>1, <2>2, JoinedIs
  <2> QED
    BY <2>3 DEF text
<1>16. Decrypted(list).text = SubSeq(Joined(list), 1, first.length)
  BY <1>1 DEF Decrypted, Ended, first
<1> QED
  BY <1>6, <1>10, <1>13, <1>14, <1>15, <1>16, Zenon

(* A list of the blocks of one message, each once and in whatever order,       *)
(* passes the checks.                                                          *)
LEMMA WholePasses ==
  ASSUME LongInv, NEW id \in DOMAIN texts, Collected = Whole(id), Once,
         Len(list) <= MAX_BLOCKS
  PROVE  Decrypted(list).verdict = "ok"
<1>1. PICK total \in 1..MAX_BLOCKS :
        /\ texts[id] \in Seq(Bytes)
        /\ Len(texts[id]) <= total * BlockBody
        /\ Whole(id) = Blocks(id, texts[id], total)
        /\ \A b \in Whole(id) : WellMade(b, Bytes, texts[id], id, total)
  BY WholeIs, Zenon
<1>2. total \in Nat \ {0}
  BY MaxBlocksAssumption
<1>3. /\ Len(list) \in Nat /\ DOMAIN list = 1..Len(list)
      /\ Collected = {list[i] : i \in 1..Len(list)}
      /\ list \in Seq(blocks)
      /\ \A i, j \in 1..Len(list) : list[i] = list[j] => i = j
  BY OnceIs DEF LongInv, ListIs
<1>4. \A i \in 1..Len(list) : list[i] \in Whole(id)
  BY <1>3
<1>5. \A i \in 1..Len(list) : WellMade(list[i], Bytes, texts[id], id, total)
  BY <1>1, <1>4, Zenon
<1>6. Indexes(list) = 0..(total - 1)
  <2>1. ASSUME NEW k \in 0..(total - 1) PROVE k \in Indexes(list)
    <3>1. PICK b \in Whole(id) : b.index = k
      BY <1>1, <1>2, BlockAt
    <3>2. PICK i \in 1..Len(list) : list[i] = b
      BY <1>3
    <3> QED
      BY <1>3, <3>1, <3>2 DEF Indexes
  <2>2. \A i \in 1..Len(list) : list[i].index \in 0..(total - 1)
    BY <1>5 DEF WellMade
  <2> QED
    BY <1>3, <2>1, <2>2 DEF Indexes
<1>7. list # <<>> /\ 1 \in 1..Len(list)
  <2>1. 0 \in Indexes(list)
    BY <1>2, <1>6
  <2>2. PICK i \in 1..Len(list) : list[i].index = 0
    BY <1>3, <2>1 DEF Indexes
  <2>3. 1 \in 1..Len(list)
    BY <1>3, <2>2
  <2> QED
    BY <1>3, <2>3, EmptySeq
<1>8. Faulty(list) = {}
  <2>1. ASSUME NEW i \in 1..Len(list), NEW j \in 1..(i - 1)
        PROVE  list[j].index # list[i].index
    <3>1. j \in 1..Len(list) /\ i # j
      BY <1>3
    <3>2. list[j] # list[i]
      BY <1>3, <3>1
    <3> QED
      BY <1>1, <1>2, <1>4, <3>1, <3>2, BlockAt
  <2>2. ASSUME NEW i \in 1..Len(list)
        PROVE  /\ list[i].slug = "ham-metin" /\ list[i].header = TRUE
               /\ list[i].id = list[1].id /\ list[i].total = list[1].total
               /\ list[i].length = list[1].length
               /\ list[i].index \in 0..(list[i].total - 1)
    BY <1>5, <1>7, Zenon DEF WellMade
  <2>3. \A i \in 1..Len(list) :
          /\ list[i].slug = "ham-metin" /\ list[i].header
          /\ list[i].id = list[1].id /\ list[i].total = list[1].total
          /\ list[i].length = list[1].length
          /\ \A j \in 1..(i - 1) : list[j].index # list[i].index
          /\ list[i].index \in 0..(list[i].total - 1)
    BY <2>1, <2>2, Zenon
  <2> QED
    BY <1>3, <1>7, <2>3, Faultless, Zenon
<1>9. list[1].total = total /\ list[1].length = Len(texts[id])
  BY <1>5, <1>7 DEF WellMade
<1>10. Cardinality(Indexes(list)) = total
  BY <1>2, <1>6, FS_Interval
<1>11. Len(Joined(list)) \in Nat /\ Len(texts[id]) <= Len(Joined(list))
  <2> DEFINE text == texts[id]
  <2>1. list \in [1..Len(list) -> Blocks(id, text, total)]
    BY <1>1, <1>3, <1>4
  <2>2. list \in Seq(Blocks(id, text, total)) /\ text \in Seq(Bytes)
    BY <1>1, <1>3, <2>1, SeqDef
  <2>3. Len(text) <= total * BlockBody
    BY <1>1
  <2> HIDE DEF text
  <2>4. Len(Joined(list)) \in Nat /\ Len(text) <= Len(Joined(list))
    BY <1>2, <1>6, <1>7, <2>2, <2>3, JoinedIs
  <2> QED
    BY <2>4 DEF text
<1>12. ~(Len(list) > MAX_BLOCKS) /\ ~(list[1].length > Len(Joined(list)))
  <2>1. Len(texts[id]) \in Nat
    BY <1>1, LenProperties
  <2> QED
    BY <1>3, <1>9, <1>11, <2>1, MaxBlocksAssumption
<1> QED
  BY <1>7, <1>8, <1>9, <1>10, <1>12, VerdictIs

LEMMA AnswersRight == LongInv => WholeOrNothing
<1> SUFFICES ASSUME LongInv PROVE OnlyWhole /\ AnyOrder
  BY DEF WholeOrNothing
<1>1. OnlyWhole
  <2> SUFFICES ASSUME outcome.verdict = "ok", WithBlock
               PROVE  \E id \in DOMAIN texts :
                        Collected = Whole(id) /\ Once /\ outcome.text = texts[id]
    BY DEF OnlyWhole
  <2>1. outcome = Decrypted(list)
    BY DEF LongInv, OutcomeIs, NoOutcome
  <2> QED
    BY <2>1, PassedIsWhole, Zenon
<1>2. AnyOrder
  <2> SUFFICES ASSUME NEW id \in DOMAIN texts,
                      Collected = Whole(id), Once, Len(list) <= MAX_BLOCKS
               PROVE  outcome.verdict \in {"none", "ok"}
    BY DEF AnyOrder
  <2>1. Decrypted(list).verdict = "ok"
    BY WholePasses
  <2> QED
    BY <2>1 DEF LongInv, OutcomeIs, NoOutcome
<1> QED
  BY <1>1, <1>2

(* The type invariant of the run long_message, for every size and number of    *)
(* blocks.                                                                     *)
THEOREM LongTyped == LongSpec => []LongTypeOK
BY AlwaysLongInv, AnswersTyped, PTL

(* A text comes back exactly when the blocks of its message are all there      *)
(* once, in whatever order, and nothing comes back in its place: for every     *)
(* number of messages, every size and number of blocks and every list.         *)
THEOREM LongWholeOrNothing == LongSpec => []WholeOrNothing
BY AlwaysLongInv, AnswersRight, PTL

---------------------------------------------------------------------------------
(* Ciphertexts of one formula or a chain.                                      *)

(* The powers of the base, and what is written of a number.                    *)
LEMMA PowerIs ==
  /\ Power[0] = 1
  /\ \A n \in Nat : /\ Power[n] \in Nat \ {0}
                    /\ Power[n + 1] = Base * Power[n]
BY WidthAssumption, PowersAre DEF Power

LEMMA DigitsAre ==
  ASSUME NEW v \in Nat, NEW size \in Nat
  PROVE  /\ Digits(v, size) \in Seq(Cells)
         /\ Len(Digits(v, size)) = size
         /\ v < Power[size] => Number(Digits(v, size)) = v
<1>1. Base \in Nat \ {0}
  BY WidthAssumption
<1> QED
  BY <1>1, DigitsToAre, Zenon DEF Power, Digits, Number, Cells

---------------------------------------------------------------------------------
(* Parameters as cells.                                                        *)

SoundParameter(p) ==
  /\ p \in Parameters
  /\ p.type = "enum" => p.count <= Power[p.size]
  /\ p.type = "point" => p.size > 0
TypedValue(p, v) == v \in IF p.type = "bytes" THEN Seq(Cells) ELSE Int

(* What is written of a value that can be written has the parameter's width    *)
(* and is read as the value.                                                   *)
ReadBack(p, v) ==
  /\ Written(p, v) \in Seq(Cells)
  /\ Len(Written(p, v)) = p.size
  /\ CanRead(p, Written(p, v))
  /\ Read(p, Written(p, v)) = v

LEMMA UintReadBack ==
  ASSUME NEW p, SoundParameter(p), p.type = "uint",
         NEW v, TypedValue(p, v), CanWrite(p, v)
  PROVE  ReadBack(p, v)
<1>1. p.size \in Nat
  BY DEF SoundParameter, Parameters
<1>2. v \in 0..(Power[p.size] - 1)
  BY DEF CanWrite
<1>3. Power[p.size] \in Nat \ {0}
  BY <1>1, PowerIs
<1>4. v \in Nat /\ v < Power[p.size]
  BY <1>2, <1>3
<1>5. /\ Written(p, v) = Digits(v, p.size)
      /\ CanRead(p, Written(p, v))
      /\ Read(p, Written(p, v)) = Number(Written(p, v))
  BY DEF Written, CanRead, Read
<1> QED
  BY <1>1, <1>4, <1>5, DigitsAre DEF ReadBack

LEMMA BytesReadBack ==
  ASSUME NEW p, SoundParameter(p), p.type = "bytes",
         NEW v, TypedValue(p, v), CanWrite(p, v)
  PROVE  ReadBack(p, v)
BY DEF ReadBack, Written, CanRead, Read, CanWrite, TypedValue

LEMMA EnumReadBack ==
  ASSUME NEW p, SoundParameter(p), p.type = "enum",
         NEW v, TypedValue(p, v), CanWrite(p, v)
  PROVE  ReadBack(p, v)
<1>1. p.size \in Nat /\ p.count \in Nat /\ p.count <= Power[p.size]
  BY DEF SoundParameter, Parameters
<1>2. v \in 1..p.count
  BY DEF CanWrite
<1>3. Power[p.size] \in Nat \ {0}
  BY <1>1, PowerIs
<1>4. v - 1 \in Nat /\ v - 1 < Power[p.size] /\ v - 1 < p.count /\ (v - 1) + 1 = v
  BY <1>1, <1>2, <1>3
<1>5. /\ Written(p, v) = Digits(v - 1, p.size)
      /\ CanRead(p, Written(p, v)) <=> Number(Written(p, v)) < p.count
      /\ Read(p, Written(p, v)) = Number(Written(p, v)) + 1
  BY DEF Written, CanRead, Read
<1>6. /\ Digits(v - 1, p.size) \in Seq(Cells)
      /\ Len(Digits(v - 1, p.size)) = p.size
      /\ Number(Digits(v - 1, p.size)) = v - 1
  BY <1>1, <1>4, DigitsAre
<1> QED
  BY <1>4, <1>5, <1>6 DEF ReadBack

LEMMA PointReadBack ==
  ASSUME NEW p, SoundParameter(p), p.type = "point",
         NEW v, TypedValue(p, v), CanWrite(p, v)
  PROVE  ReadBack(p, v)
<1>1. p.size \in Nat \ {0}
  BY DEF SoundParameter, Parameters
<1>2. PICK n \in Nat : n = p.size - 1
  BY <1>1
<1>3. v \in 0..(2 * Power[n] - 1)
  BY <1>2 DEF CanWrite
<1>4. PICK w \in Nat \ {0} : w = Power[n]
  BY PowerIs
<1> DEFINE x == v \div 2
           parity == v % 2
           d == Digits(x, n)
           head == <<2 + parity>>
<1>5. v \in Nat /\ v < 2 * w
  BY <1>3, <1>4
<1>6. x \in Nat /\ x < w /\ parity \in 0..1 /\ v = 2 * x + parity
  BY <1>5
<1> HIDE DEF x, parity
<1>7. 2 + parity \in Cells
  BY <1>6, WidthAssumption DEF Cells
<1>8. d \in Seq(Cells) /\ Len(d) = n /\ Number(d) = x
  BY <1>4, <1>6, DigitsAre
<1> HIDE DEF d
<1>9. head \in Seq(Cells) /\ Len(head) = 1 /\ head[1] = 2 + parity
  BY <1>7
<1>10. Written(p, v) = head \o d
  BY <1>2 DEF Written, d, x, parity
<1> DEFINE c == head \o d
<1> HIDE DEF head
<1>11. /\ c \in Seq(Cells) /\ Len(c) = 1 + n
       /\ c[1] = 2 + parity
       /\ \A k \in 1..n : c[k + 1] = d[k]
  <2>1. /\ c \in Seq(Cells) /\ Len(c) = Len(head) + Len(d)
        /\ \A k \in 1..Len(head) : k \in 1..Len(c) /\ c[k] = head[k]
        /\ \A k \in 1..Len(d) : /\ Len(head) + k \in 1..Len(c)
                                /\ c[Len(head) + k] = d[k]
    <3>1. head \in Seq(Cells) /\ d \in Seq(Cells)
      BY <1>8, <1>9
    <3> QED
      BY <3>1, ConcatAt
  <2> HIDE DEF c
  <2>2. \A k \in 1..n : 1 + k = k + 1
    OBVIOUS
  <2> QED
    BY <1>8, <1>9, <2>1, <2>2
<1> HIDE DEF c
<1>12. Tail(c) = d
  <2>1. c # <<>>
    BY <1>2, <1>11, EmptySeq
  <2>2. /\ Tail(c) \in Seq(Cells) /\ Len(Tail(c)) = Len(c) - 1
        /\ \A i \in 1..Len(Tail(c)) : Tail(c)[i] = c[i + 1]
    BY <1>11, <2>1, HeadTailProperties
  <2>3. Len(Tail(c)) = n
    BY <1>2, <1>11, <2>2
  <2> QED
    BY <1>8, <1>11, <2>2, <2>3, SeqEqual
<1>13. CanRead(p, c) <=> c[1] \in {2, 3}
  BY DEF CanRead
<1>14. Read(p, c) = 2 * Number(Tail(c)) + c[1] - 2
  BY DEF Read
<1>15. Read(p, c) = v
  <2>1. Number(Tail(c)) = x /\ c[1] = 2 + parity
    BY <1>8, <1>11, <1>12
  <2>2. Read(p, c) = 2 * x + (2 + parity) - 2
    BY <1>14, <2>1
  <2> QED
    BY <1>6, <2>2
<1>16. CanRead(p, c)
  BY <1>6, <1>11, <1>13
<1>17. Len(c) = p.size
  BY <1>1, <1>2, <1>11
<1> QED
  BY <1>10, <1>11, <1>15, <1>16, <1>17 DEF ReadBack, c

LEMMA ReadsBack ==
  ASSUME NEW p, SoundParameter(p), NEW v, TypedValue(p, v), CanWrite(p, v)
  PROVE  ReadBack(p, v)
<1>1. p.type \in {"uint", "bytes", "enum", "point"}
  BY DEF SoundParameter, Parameters
<1> QED
  BY <1>1, UintReadBack, BytesReadBack, EnumReadBack, PointReadBack

---------------------------------------------------------------------------------
(* Entries as cells.                                                           *)

Fits(e, values) ==
  /\ values = [i \in DOMAIN e.params |-> values[i]]
  /\ \A i \in DOMAIN e.params : /\ TypedValue(e.params[i], values[i])
                               /\ CanWrite(e.params[i], values[i])

LEMMA EntryIs ==
  ASSUME NEW e \in Corpus
  PROVE  /\ Len(e.params) \in Nat /\ DOMAIN e.params = 1..Len(e.params)
         /\ Sizes(e) \in Seq(Nat) /\ Len(Sizes(e)) = Len(e.params)
         /\ \A i \in 1..Len(e.params) : /\ SoundParameter(e.params[i])
                                        /\ Sizes(e)[i] = e.params[i].size
         /\ Payload(e) \in Nat
<1>1. e.params \in Seq(Parameters)
  BY ParametersAssumption
<1>2. Len(e.params) \in Nat /\ DOMAIN e.params = 1..Len(e.params)
  BY <1>1, LenProperties
<1>3. \A i \in 1..Len(e.params) : e.params[i] \in Parameters
  BY <1>1, ElementOfSeq
<1>4. \A i \in 1..Len(e.params) : SoundParameter(e.params[i])
  BY <1>2, <1>3, ParametersAssumption DEF SoundParameter
<1>5. \A i \in 1..Len(e.params) : e.params[i].size \in Nat
  BY <1>3 DEF Parameters
<1>6. Sizes(e) = [i \in 1..Len(e.params) |-> e.params[i].size]
  BY <1>2 DEF Sizes
<1>7. Sizes(e) \in [1..Len(e.params) -> Nat]
  BY <1>5, <1>6
<1>8. Sizes(e) \in Seq(Nat)
  BY <1>2, <1>7, SeqDef
<1>9. Len(Sizes(e)) = Len(e.params)
  <2>1. DOMAIN Sizes(e) = 1..Len(Sizes(e)) /\ Len(Sizes(e)) \in Nat
    BY <1>8, LenProperties
  <2>2. DOMAIN Sizes(e) = 1..Len(e.params)
    BY <1>7
  <2> QED
    BY <1>2, <2>1, <2>2
<1>10. Payload(e) \in Nat
  BY <1>8, TotalIs DEF Payload
<1> QED
  BY <1>2, <1>4, <1>6, <1>8, <1>9, <1>10

(* The cells of each value lie behind those of the values before.              *)
ValueCells(e, values, i) == Written(e.params[i], values[i])
Laid(e, values, s) ==
  /\ s \in Seq(Cells)
  /\ Len(s) = Payload(e)
  /\ \A i \in 1..Len(e.params) : \A j \in 1..e.params[i].size :
       s[Offset(e, i) + j] = ValueCells(e, values, i)[j]

LEMMA SerializeIs ==
  ASSUME NEW e \in Corpus, NEW values, Fits(e, values)
  PROVE  Laid(e, values, Serialize(e, values))
<1> DEFINE N == Len(e.params)
           w == [i \in DOMAIN e.params |-> Written(e.params[i], values[i])]
           s == Serialize(e, values)
<1>1. /\ N \in Nat /\ DOMAIN e.params = 1..N
      /\ Sizes(e) \in Seq(Nat) /\ Len(Sizes(e)) = N
      /\ \A i \in 1..N : /\ SoundParameter(e.params[i])
                         /\ Sizes(e)[i] = e.params[i].size
  BY EntryIs
<1>2. \A i \in 1..N : /\ ValueCells(e, values, i) \in Seq(Cells)
                      /\ Len(ValueCells(e, values, i)) = e.params[i].size
  <2> TAKE i \in 1..N
  <2>1. ReadBack(e.params[i], values[i])
    BY <1>1, ReadsBack DEF Fits
  <2> QED
    BY <2>1 DEF ReadBack, ValueCells
<1>3. w = [i \in 1..N |-> ValueCells(e, values, i)]
  BY <1>1 DEF ValueCells
<1>4. w \in [1..N -> Seq(Cells)]
  BY <1>2, <1>3
<1>5. \A i \in 1..N : /\ w[i] = ValueCells(e, values, i)
                      /\ Len(w[i]) = Sizes(e)[i]
                      /\ Sizes(e)[i] = e.params[i].size
  BY <1>1, <1>2, <1>3
<1>6. s = FlattenSeq(w)
  BY DEF Serialize
<1> HIDE DEF N, w
<1>7. LaidOut(Cells, FlattenSeq(w), w, Sizes(e))
  BY <1>1, <1>4, <1>5, PiecesLie
<1> HIDE DEF s
<1>8. s \in Seq(Cells) /\ Len(s) = Payload(e)
  BY <1>6, <1>7 DEF LaidOut, Payload
<1>9. \A i \in 1..N : \A j \in 1..e.params[i].size :
        s[Offset(e, i) + j] = ValueCells(e, values, i)[j]
  <2> TAKE i \in 1..N
  <2>1. /\ w[i] = ValueCells(e, values, i) /\ Sizes(e)[i] = e.params[i].size
        /\ i \in 1..Len(Sizes(e))
    BY <1>1, <1>5
  <2>2. \A j \in 1..Sizes(e)[i] : s[Ends(Sizes(e))[i - 1] + j] = w[i][j]
    BY <1>6, <1>7, <2>1 DEF LaidOut
  <2> QED
    BY <2>1, <2>2 DEF Offset
<1> QED
  BY <1>8, <1>9 DEF Laid, N, s

(* Cells that lie in a body from some place on.                                *)
LiesAt(cells, body, pos) ==
  /\ pos + Len(cells) - 1 <= Len(body)
  /\ \A j \in 1..Len(cells) : body[pos + j - 1] = cells[j]

(* Where the cells of values that can be written lie, these values are read.   *)
LEMMA DeserializeIs ==
  ASSUME NEW e \in Corpus, NEW values, Fits(e, values),
         NEW body \in Seq(Cells), NEW pos \in Nat \ {0},
         LiesAt(Serialize(e, values), body, pos)
  PROVE  Readable(e, body, pos) /\ Deserialize(e, body, pos) = values
<1> DEFINE N == Len(e.params)
           s == Serialize(e, values)
<1>1. /\ N \in Nat /\ DOMAIN e.params = 1..N
      /\ Sizes(e) \in Seq(Nat) /\ Len(Sizes(e)) = N
      /\ \A i \in 1..N : /\ SoundParameter(e.params[i])
                         /\ Sizes(e)[i] = e.params[i].size
                         /\ e.params[i].size \in Nat
      /\ Payload(e) \in Nat
  BY EntryIs DEF SoundParameter, Parameters
<1>2. Laid(e, values, s)
  BY SerializeIs
<1> HIDE DEF s
<1>3. Len(s) = Payload(e) /\ Len(body) \in Nat
  BY <1>2, LenProperties DEF Laid
<1>4. /\ pos + Payload(e) - 1 <= Len(body)
      /\ \A j \in 1..Payload(e) : body[pos + j - 1] = s[j]
  BY <1>3 DEF LiesAt, s
<1>5. \A i \in 1..N : /\ Offset(e, i) \in Nat
                      /\ Offset(e, i) + e.params[i].size <= Payload(e)
  <2> DEFINE ends == Ends(Sizes(e))
  <2>1. \A i \in 1..N : /\ ends[i - 1] \in Nat /\ ends[i] \in Nat
                        /\ ends[i] <= Payload(e)
    BY <1>1, TotalIs DEF Payload
  <2>2. \A i \in 1..N : ends[i] = ends[i - 1] + Sizes(e)[i]
    BY <1>1, EndsAre DEF Sums
  <2> QED
    BY <1>1, <2>1, <2>2 DEF Offset
<1> HIDE DEF N
<1>6. ASSUME NEW i \in 1..N
      PROVE  /\ Field(e, i, body, pos) = ValueCells(e, values, i)
             /\ CanRead(e.params[i], Field(e, i, body, pos))
             /\ Read(e.params[i], Field(e, i, body, pos)) = values[i]
  <2> DEFINE f == Field(e, i, body, pos)
             c == ValueCells(e, values, i)
  <2>1. PICK off \in Nat, size \in Nat :
          off = Offset(e, i) /\ size = e.params[i].size /\ off + size <= Payload(e)
    BY <1>1, <1>5
  <2>2. ReadBack(e.params[i], values[i])
    BY <1>1, ReadsBack DEF Fits
  <2>3. c \in Seq(Cells) /\ Len(c) = size
    BY <2>1, <2>2 DEF ReadBack, ValueCells
  <2>4. \A j \in 1..size : s[off + j] = c[j]
    BY <1>2, <2>1 DEF Laid, N
  <2> DEFINE m == pos + off
             n == pos + off + size - 1
  <2>5. f = SubSeq(body, m, n)
    BY <2>1 DEF Field
  <2> HIDE DEF c, f
  <2>6. /\ m \in Int /\ n \in Int /\ n - m + 1 = size
        /\ (IF m <= n THEN n - m + 1 ELSE 0) = size
        /\ 1 <= m /\ n <= Len(body)
    <3>1. PICK p \in Nat, length \in Nat :
            /\ p = Payload(e) /\ length = Len(body)
            /\ off + size <= p /\ pos + p - 1 <= length
      BY <1>1, <1>3, <1>4, <2>1
    <3>2. m \in Int /\ n \in Int /\ n - m + 1 = size
      OBVIOUS
    <3>3. (m <= n) <=> (size # 0)
      OBVIOUS
    <3>4. 1 <= m /\ n <= length
      BY <3>1
    <3> QED
      BY <3>1, <3>2, <3>3, <3>4
  <2>7. \A j \in 1..size : m + j - 1 = pos + (off + j) - 1
                           /\ off + j \in 1..Payload(e)
    <3>1. PICK p \in Nat : p = Payload(e) /\ off + size <= p
      BY <1>1, <2>1
    <3>2. \A j \in 1..size : off + j \in 1..p /\ m + j - 1 = pos + (off + j) - 1
      BY <3>1
    <3> QED
      BY <3>1, <3>2
  <2>8. \A j \in 1..size : body[m + j - 1] = c[j]
    <3> TAKE j \in 1..size
    <3>1. PICK k \in 1..Payload(e) : k = off + j /\ m + j - 1 = pos + k - 1
      BY <2>7
    <3>2. body[pos + k - 1] = s[k] /\ s[k] = c[j]
      BY <1>4, <2>4, <3>1
    <3> QED
      BY <3>1, <3>2
  <2> HIDE DEF m, n
  <2>9. /\ f \in Seq(Cells) /\ Len(f) = size
        /\ \A j \in 1..size : f[j] = body[m + j - 1]
    <3>1. \A k \in m..n : body[k] \in Cells
      <4>1. \A k \in m..n : k \in 1..Len(body)
        BY <1>3, <2>6
      <4> QED
        BY <4>1, ElementOfSeq
    <3>2. /\ SubSeq(body, m, n) \in Seq(Cells)
          /\ Len(SubSeq(body, m, n)) = IF m <= n THEN n - m + 1 ELSE 0
          /\ \A j \in 1..(n - m + 1) : SubSeq(body, m, n)[j] = body[m + j - 1]
      BY <2>6, <3>1, SubSeqProperties
    <3> QED
      BY <2>5, <2>6, <3>2
  <2>10. f = c
    BY <2>3, <2>8, <2>9, SeqEqual
  <2> QED
    BY <2>2, <2>10 DEF ReadBack, ValueCells, f, c
<1>7. Readable(e, body, pos)
  BY <1>1, <1>4, <1>6 DEF Readable, N
<1>8. Deserialize(e, body, pos) = values
  <2>1. Deserialize(e, body, pos) = [i \in 1..N |-> values[i]]
    BY <1>1, <1>6 DEF Deserialize, N
  <2> QED
    BY <1>1, <2>1 DEF Fits, N
<1> QED
  BY <1>7, <1>8

---------------------------------------------------------------------------------
(* Refusals.                                                                   *)

(* A refusal is one of those there are.                                        *)
OneOf(error, errors, n) ==
  /\ error = "none" <=> \A i \in 1..n : errors[i] = "none"
  /\ error # "none" => \E i \in 1..n : error = errors[i]

LEMMA FirstErrorIs ==
  ASSUME NEW n \in Nat, NEW errors, DOMAIN errors = 1..n
  PROVE  OneOf(FirstError(errors), errors, n)
<1> DEFINE raised == {i \in DOMAIN errors : errors[i] # "none"}
<1>1. FirstError(errors) = IF raised = {} THEN "none" ELSE errors[Min(raised)]
  BY DEF FirstError
<1>2. raised # {} => Min(raised) \in raised
  <2>1. raised \subseteq Nat
    OBVIOUS
  <2> HIDE DEF raised
  <2> QED
    BY <2>1, LeastIs
<1> QED
  BY <1>1, <1>2 DEF OneOf

LEMMA FirstOfTwo ==
  ASSUME NEW a, NEW b
  PROVE  /\ FirstError(<<a, b>>) = "none" <=> a = "none" /\ b = "none"
         /\ FirstError(<<a, b>>) \in {"none", a, b}
<1> DEFINE s == <<a, b>>
<1>1. DOMAIN s = 1..2 /\ s[1] = a /\ s[2] = b
  OBVIOUS
<1> HIDE DEF s
<1>2. OneOf(FirstError(s), s, 2)
  BY <1>1, FirstErrorIs
<1>3. \A i \in 1..2 : i = 1 \/ i = 2
  OBVIOUS
<1>4. 1 \in 1..2 /\ 2 \in 1..2
  OBVIOUS
<1>5. /\ FirstError(s) = "none" <=> a = "none" /\ b = "none"
      /\ FirstError(s) \in {"none", a, b}
  BY <1>1, <1>2, <1>3, <1>4, Zenon DEF OneOf
<1> QED
  BY <1>5 DEF s

LEMMA FirstOfFour ==
  ASSUME NEW a, NEW b, NEW c, NEW d
  PROVE  /\ FirstError(<<a, b, c, d>>) = "none" <=>
              a = "none" /\ b = "none" /\ c = "none" /\ d = "none"
         /\ FirstError(<<a, b, c, d>>) \in {"none", a, b, c, d}
<1> DEFINE s == <<a, b, c, d>>
<1>1. DOMAIN s = 1..4 /\ s[1] = a /\ s[2] = b /\ s[3] = c /\ s[4] = d
  OBVIOUS
<1> HIDE DEF s
<1>2. OneOf(FirstError(s), s, 4)
  BY <1>1, FirstErrorIs
<1>3. \A i \in 1..4 : i = 1 \/ i = 2 \/ i = 3 \/ i = 4
  OBVIOUS
<1>4. 1 \in 1..4 /\ 2 \in 1..4 /\ 3 \in 1..4 /\ 4 \in 1..4
  OBVIOUS
<1>5. /\ FirstError(s) = "none" <=>
           a = "none" /\ b = "none" /\ c = "none" /\ d = "none"
      /\ FirstError(s) \in {"none", a, b, c, d}
  BY <1>1, <1>2, <1>3, <1>4, Zenon DEF OneOf
<1> QED
  BY <1>5 DEF s

---------------------------------------------------------------------------------
(* Records.                                                                    *)

LEMMA KnownIs ==
  ASSUME NEW id, Known(id)
  PROVE  /\ Entry(id) \in Corpus /\ Entry(id).id = id
         /\ id \in Cells \ {0, CHAIN_ID}
<1>1. \E e \in Corpus : e.id = id
  BY DEF Known
<1>2. Entry(id) \in Corpus /\ Entry(id).id = id
  BY <1>1 DEF Entry
<1> QED
  BY <1>2, CorpusAssumption

LEMMA EntryOf ==
  ASSUME NEW e \in Corpus
  PROVE  Known(e.id) /\ Entry(e.id) = e
<1>1. Known(e.id)
  BY DEF Known
<1>2. Entry(e.id) \in Corpus /\ Entry(e.id).id = e.id
  BY <1>1, KnownIs
<1> QED
  BY <1>1, <1>2, CorpusAssumption

(* A record that can be written, and one that the constraints allow.           *)
Writable(r) == /\ r = [id |-> r.id, values |-> r.values]
               /\ Known(r.id) /\ Fits(Entry(r.id), r.values)
Allowed(r, check) == CheckAll(Entry(r.id), r.values, check) = "none"
RecordCells(r) == Serialize(Entry(r.id), r.values)
RecordSize(r) == Payload(Entry(r.id))

LEMMA CheckAllIs ==
  ASSUME NEW e, NEW values, NEW check \in BOOLEAN
  PROVE  /\ CheckAll(e, values, check) \in {"none", "ConstraintViolation"}
         /\ CheckAll(e, values, TRUE) = "none" => CheckAll(e, values, check) = "none"
         /\ CheckAll(e, values, FALSE) = "none"
BY DEF CheckAll, Raise

LEMMA FailIs ==
  ASSUME NEW error
  PROVE  /\ Fail(error).error = error /\ Fail(error).records = <<>>
         /\ Fail(error).text = <<>> /\ Fail(error).chain = FALSE
BY DEF Fail, Answer

LEMMA AnswerIs ==
  ASSUME NEW records
  PROVE  /\ Answer(records).error = "none" /\ Answer(records).records = records
         /\ Answer(records).text = <<>> /\ Answer(records).chain = FALSE
BY DEF Answer

(* Where a record lies it is read, unless the constraints refuse it.           *)
LEMMA RecordRead ==
  ASSUME NEW r, Writable(r), NEW body \in Seq(Cells), NEW pos \in Nat \ {0},
         LiesAt(RecordCells(r), body, pos), NEW check \in BOOLEAN
  PROVE  DecodeRecord(r.id, body, pos, check) =
           IF Allowed(r, check) THEN Answer(<<r>>) ELSE Fail("ConstraintViolation")
<1>1. Entry(r.id) \in Corpus /\ Fits(Entry(r.id), r.values) /\ Known(r.id)
  BY KnownIs DEF Writable
<1>2. /\ Readable(Entry(r.id), body, pos)
      /\ Deserialize(Entry(r.id), body, pos) = r.values
  BY <1>1, DeserializeIs DEF RecordCells
<1>3. [id |-> r.id, values |-> r.values] = r
  BY Zenon DEF Writable
<1> QED
  BY <1>1, <1>2, <1>3, Zenon DEF DecodeRecord, Allowed

LEMMA RecordCellsAre ==
  ASSUME NEW r, Writable(r)
  PROVE  /\ RecordCells(r) \in Seq(Cells) /\ Len(RecordCells(r)) = RecordSize(r)
         /\ RecordSize(r) \in Nat /\ r.id \in Cells \ {0, CHAIN_ID}
<1>1. Entry(r.id) \in Corpus /\ r.id \in Cells \ {0, CHAIN_ID}
  BY KnownIs DEF Writable
<1> QED
  BY <1>1, SerializeIs, EntryIs DEF Writable, Laid, RecordCells, RecordSize

---------------------------------------------------------------------------------
(* Chains as cells.                                                            *)

RecordsAre(records) == /\ Len(records) \in Nat
                       /\ DOMAIN records = 1..Len(records)

ChainSizes(records) == [i \in DOMAIN records |-> 1 + RecordSize(records[i])]
RecordPiece(r) == <<r.id>> \o RecordCells(r)

LEMMA RecordPieceIs ==
  ASSUME NEW r, Writable(r)
  PROVE  /\ RecordPiece(r) \in Seq(Cells)
         /\ Len(RecordPiece(r)) = 1 + RecordSize(r)
         /\ RecordPiece(r)[1] = r.id
         /\ \A j \in 1..RecordSize(r) : RecordPiece(r)[1 + j] = RecordCells(r)[j]
<1> DEFINE c == RecordCells(r)
           h == <<r.id>>
           p == h \o c
<1>1. /\ c \in Seq(Cells) /\ Len(c) = RecordSize(r)
      /\ RecordSize(r) \in Nat /\ r.id \in Cells
  BY RecordCellsAre
<1> HIDE DEF c
<1>2. h \in Seq(Cells) /\ Len(h) = 1 /\ h[1] = r.id
  BY <1>1
<1> HIDE DEF h
<1>3. c \in Seq(Cells) /\ h \in Seq(Cells)
  BY <1>1, <1>2
<1>4. /\ p \in Seq(Cells) /\ Len(p) = Len(h) + Len(c)
      /\ \A k \in 1..Len(h) : k \in 1..Len(p) /\ p[k] = h[k]
      /\ \A k \in 1..Len(c) : Len(h) + k \in 1..Len(p) /\ p[Len(h) + k] = c[k]
  BY <1>3, ConcatAt
<1>5. RecordPiece(r) = p
  BY DEF RecordPiece, c, h
<1> HIDE DEF p
<1>6. p[1] = r.id /\ \A k \in 1..RecordSize(r) : p[1 + k] = c[k]
  BY <1>1, <1>2, <1>4
<1> QED
  BY <1>1, <1>2, <1>4, <1>5, <1>6 DEF c

LEMMA ChainSizesAre ==
  ASSUME NEW records, RecordsAre(records),
         \A i \in 1..Len(records) : Known(records[i].id)
  PROVE  /\ ChainSizes(records) \in Seq(Nat)
         /\ Len(ChainSizes(records)) = Len(records)
         /\ \A i \in 1..Len(records) :
              ChainSizes(records)[i] = 1 + RecordSize(records[i])
         /\ ChainCost(Entries(records)) = 1 + Total(ChainSizes(records))
<1> DEFINE N == Len(records)
           sizes == ChainSizes(records)
<1>1. N \in Nat /\ DOMAIN records = 1..N
  BY DEF RecordsAre
<1>2. \A i \in 1..N : RecordSize(records[i]) \in Nat
  BY KnownIs, EntryIs DEF RecordSize
<1>3. sizes = [i \in 1..N |-> 1 + RecordSize(records[i])]
  BY <1>1 DEF ChainSizes
<1>4. sizes \in [1..N -> Nat]
  BY <1>2, <1>3
<1>5. sizes \in Seq(Nat)
  BY <1>1, <1>4, SeqDef
<1>6. Len(sizes) = N
  <2>1. DOMAIN sizes = 1..Len(sizes) /\ Len(sizes) \in Nat
    BY <1>5, LenProperties
  <2>2. DOMAIN sizes = 1..N
    BY <1>4
  <2> HIDE DEF sizes, N
  <2>3. \A a, b \in Nat : 1..a = 1..b => a = b
    OBVIOUS
  <2> QED
    BY <1>1, <2>1, <2>2, <2>3, Zenon
<1>7. [i \in DOMAIN Entries(records) |-> 1 + Payload(Entries(records)[i])] = sizes
  BY <1>1, <1>3 DEF Entries, RecordSize
<1>8. ChainCost(Entries(records)) = 1 + Total(sizes)
  <2> HIDE DEF sizes
  <2> QED
    BY <1>7 DEF ChainCost
<1> QED
  BY <1>3, <1>5, <1>6, <1>8

(* A chain is its number of records and then the records, each behind the      *)
(* cells of those before it.                                                   *)
Start(records, i) == 2 + Ends(ChainSizes(records))[i - 1]
RecordLaid(records, cells, i) ==
  /\ Start(records, i) \in Nat \ {0}
  /\ Start(records, i) + RecordSize(records[i]) <= Len(cells)
  /\ cells[Start(records, i)] = records[i].id
  /\ \A j \in 1..RecordSize(records[i]) :
       cells[Start(records, i) + j] = RecordCells(records[i])[j]
ChainLaid(records, cells) ==
  /\ cells \in Seq(Cells)
  /\ Len(cells) = ChainCost(Entries(records))
  /\ Len(cells) \in Nat \ {0}
  /\ cells[1] = Len(records)
  /\ \A i \in 1..Len(records) : RecordLaid(records, cells, i)

LEMMA ChainCellsAre ==
  ASSUME NEW records, RecordsAre(records), Len(records) \in 1..MAX_RECORDS,
         \A i \in 1..Len(records) : Writable(records[i])
  PROVE  ChainLaid(records, ChainCells(records))
<1> DEFINE N == Len(records)
           sizes == ChainSizes(records)
           ends == Ends(sizes)
           w == [i \in DOMAIN records |->
                   <<records[i].id>> \o
                     Serialize(Entry(records[i].id), records[i].values)]
           f == FlattenSeq(w)
           h == <<N>>
           c == h \o f
<1>1. N \in Nat /\ DOMAIN records = 1..N
  BY DEF RecordsAre
<1>2. \A i \in 1..N : Known(records[i].id)
  BY DEF Writable
<1>3. /\ sizes \in Seq(Nat) /\ Len(sizes) = N
      /\ \A i \in 1..N : sizes[i] = 1 + RecordSize(records[i])
      /\ ChainCost(Entries(records)) = 1 + Total(sizes)
  BY <1>2, ChainSizesAre
<1>4. \A i \in 1..N : /\ RecordPiece(records[i]) \in Seq(Cells)
                      /\ Len(RecordPiece(records[i])) = 1 + RecordSize(records[i])
                      /\ RecordSize(records[i]) \in Nat
  BY RecordPieceIs, RecordCellsAre
<1>5. w = [i \in 1..N |-> RecordPiece(records[i])]
  BY <1>1 DEF RecordPiece, RecordCells
<1>6. w \in [1..N -> Seq(Cells)]
  BY <1>4, <1>5
<1>7. \A i \in 1..N : w[i] = RecordPiece(records[i]) /\ Len(w[i]) = sizes[i]
  BY <1>3, <1>4, <1>5
<1> HIDE DEF sizes, w, N
<1>8. LaidOut(Cells, f, w, sizes)
  BY <1>3, <1>6, <1>7, PiecesLie
<1>9. /\ f \in Seq(Cells) /\ Len(f) = Total(sizes)
      /\ \A i \in 1..N : \A j \in 1..sizes[i] : f[ends[i - 1] + j] = w[i][j]
  BY <1>3, <1>8 DEF LaidOut
<1>10. h \in Seq(Cells) /\ Len(h) = 1 /\ h[1] = N
  <2>1. N \in Cells
    BY WidthAssumption DEF Cells, MAX_RECORDS, N
  <2> QED
    BY <2>1
<1> HIDE DEF f, h
<1>11. h \in Seq(Cells) /\ f \in Seq(Cells)
  BY <1>9, <1>10
<1>12. /\ c \in Seq(Cells) /\ Len(c) = Len(h) + Len(f)
       /\ \A k \in 1..Len(h) : k \in 1..Len(c) /\ c[k] = h[k]
       /\ \A k \in 1..Len(f) : Len(h) + k \in 1..Len(c) /\ c[Len(h) + k] = f[k]
  BY <1>11, ConcatAt
<1>13. ChainCells(records) = c
  BY DEF ChainCells, h, f, w, N
<1> HIDE DEF c
<1>14. Len(f) \in Nat /\ Total(sizes) \in Nat
  BY <1>3, <1>11, LenProperties, TotalIs
<1>15. Len(c) = 1 + Total(sizes) /\ c[1] = N
  BY <1>9, <1>10, <1>12, <1>14
<1>16. \A i \in 1..N : /\ ends[i - 1] \in Nat
                       /\ ends[i] <= Total(sizes) /\ ends[i] \in Nat
                       /\ ends[i] = ends[i - 1] + sizes[i]
  BY <1>3, EndsAre, TotalIs DEF Sums
<1> HIDE DEF ends
<1>17. ASSUME NEW i \in 1..N PROVE RecordLaid(records, c, i)
  <2>1. PICK e \in Nat, z \in Nat, t \in Nat :
          /\ e = ends[i - 1] /\ z = RecordSize(records[i]) /\ t = Total(sizes)
          /\ sizes[i] = 1 + z /\ e + (1 + z) <= t
    BY <1>3, <1>4, <1>14, <1>16
  <2>2. Start(records, i) = 2 + e
    BY <2>1 DEF Start, ends, sizes
  <2>3. \A k \in 1..(1 + z) : c[1 + (e + k)] = w[i][k]
    <3> TAKE k \in 1..(1 + z)
    <3>1. e + k \in 1..Len(f)
      BY <1>9, <2>1
    <3>2. f[e + k] = w[i][k]
      BY <1>9, <2>1
    <3> QED
      BY <1>10, <1>12, <3>1, <3>2
  <2>4. /\ w[i][1] = records[i].id
        /\ \A j \in 1..z : w[i][1 + j] = RecordCells(records[i])[j]
    <3>1. Writable(records[i]) /\ w[i] = RecordPiece(records[i])
      BY <1>7 DEF N
    <3> QED
      BY <3>1, <2>1, RecordPieceIs
  <2>5. c[2 + e] = records[i].id
    <3>1. 1 \in 1..(1 + z) /\ 1 + (e + 1) = 2 + e
      OBVIOUS
    <3> QED
      BY <3>1, <2>3, <2>4, Zenon
  <2>6. \A j \in 1..z : c[(2 + e) + j] = RecordCells(records[i])[j]
    <3> TAKE j \in 1..z
    <3>1. PICK k \in 1..(1 + z) : k = 1 + j /\ 1 + (e + k) = (2 + e) + j
      OBVIOUS
    <3> QED
      BY <3>1, <2>3, <2>4, Zenon
  <2>7. (2 + e) + z <= Len(c) /\ 2 + e \in Nat \ {0}
    <3>1. Len(c) = 1 + t /\ e + (1 + z) <= t
      BY <1>15, <2>1
    <3> QED
      BY <3>1
  <2> QED
    BY <2>1, <2>2, <2>5, <2>6, <2>7, Zenon DEF RecordLaid
<1>18. ChainLaid(records, c)
  BY <1>3, <1>12, <1>14, <1>15, <1>17 DEF ChainLaid, N
<1> QED
  BY <1>13, <1>18

---------------------------------------------------------------------------------
(* Reading chains.                                                             *)

(* What can be read from a body, and how it can be refused.                    *)
RecordsIn(body) ==
  {[id |-> e.id, values |-> Deserialize(e, body, pos)] : e \in Corpus, pos \in Nat}
Refusals == {"DecodeError", "CorpusError", "ConstraintViolation"}
AnswersFrom(body) ==
  {Answer(records) : records \in Seq(RecordsIn(body))} \cup {Fail(x) : x \in Refusals}

LEMMA AnswersFromAre ==
  ASSUME NEW body, NEW a \in AnswersFrom(body)
  PROVE  /\ a.error \in {"none"} \cup Refusals
         /\ a.error = "none" => /\ a.records \in Seq(RecordsIn(body))
                                /\ a = Answer(a.records)
<1>1. CASE \E records \in Seq(RecordsIn(body)) : a = Answer(records)
  BY <1>1, AnswerIs
<1>2. CASE \E x \in Refusals : a = Fail(x)
  <2>1. PICK x \in Refusals : a = Fail(x)
    BY <1>2
  <2>2. a.error = x
    BY <2>1, FailIs
  <2> QED
    BY <2>2 DEF Refusals
<1> QED
  BY <1>1, <1>2 DEF AnswersFrom

LEMMA DecodeRecordTyped ==
  ASSUME NEW body, NEW id, NEW pos \in Nat, NEW check
  PROVE  DecodeRecord(id, body, pos, check) \in AnswersFrom(body)
<1> DEFINE a == DecodeRecord(id, body, pos, check)
           e == Entry(id)
           values == Deserialize(e, body, pos)
           r == [id |-> id, values |-> values]
<1>1. CASE ~Known(id)
  <2>1. a = Fail("CorpusError")
    BY <1>1 DEF DecodeRecord
  <2> QED
    BY <2>1 DEF AnswersFrom, Refusals
<1>2. CASE Known(id) /\ ~Readable(e, body, pos)
  <2>1. a = Fail("DecodeError")
    BY <1>2 DEF DecodeRecord
  <2> QED
    BY <2>1 DEF AnswersFrom, Refusals
<1>3. CASE /\ Known(id) /\ Readable(e, body, pos)
           /\ CheckAll(e, values, check) # "none"
  <2>1. a = Fail("ConstraintViolation")
    BY <1>3 DEF DecodeRecord
  <2> QED
    BY <2>1 DEF AnswersFrom, Refusals
<1>4. CASE /\ Known(id) /\ Readable(e, body, pos)
           /\ CheckAll(e, values, check) = "none"
  <2>1. a = Answer(<<r>>)
    BY <1>4 DEF DecodeRecord
  <2>2. e \in Corpus /\ e.id = id
    BY <1>4, KnownIs
  <2>3. r \in RecordsIn(body)
    BY <2>2 DEF RecordsIn
  <2> HIDE DEF r
  <2>4. <<r>> \in Seq(RecordsIn(body))
    BY <2>3
  <2> QED
    BY <2>1, <2>4 DEF AnswersFrom
<1> QED
  BY <1>1, <1>2, <1>3, <1>4

States(body) == [pos : Nat \ {0}, answer : AnswersFrom(body)]

LEMMA DecodeNextTyped ==
  ASSUME NEW body \in Seq(Cells), Len(body) = BODY, NEW check,
         NEW s \in States(body)
  PROVE  DecodeNext(s, body, check) \in States(body)
<1> DEFINE id == body[s.pos]
           a == DecodeRecord(id, body, s.pos + 1, check)
           t == DecodeNext(s, body, check)
<1>1. s.pos \in Nat \ {0} /\ s.answer \in AnswersFrom(body)
  BY DEF States
<1>2. CASE s.answer.error # "none"
  BY <1>2 DEF DecodeNext
<1>3. CASE s.answer.error = "none" /\ (s.pos > BODY \/ ~Known(id))
  <2>1. t = [s EXCEPT !.answer = Fail("DecodeError")]
    BY <1>3 DEF DecodeNext
  <2>2. Fail("DecodeError") \in AnswersFrom(body)
    BY DEF AnswersFrom, Refusals
  <2> QED
    BY <2>1, <2>2 DEF States
<1>4. CASE s.answer.error = "none" /\ ~ (s.pos > BODY) /\ Known(id)
  <2>1. t = [pos    |-> s.pos + 1 + Payload(Entry(id)),
             answer |-> IF a.error # "none" THEN a
                        ELSE Answer(s.answer.records \o a.records)]
    BY <1>4 DEF DecodeNext
  <2>2. Payload(Entry(id)) \in Nat
    BY <1>4, KnownIs, EntryIs
  <2>3. s.pos + 1 + Payload(Entry(id)) \in Nat \ {0}
    <3>1. PICK p \in Nat : p = Payload(Entry(id))
      BY <2>2
    <3>2. PICK q \in Nat \ {0} : q = s.pos
      BY <1>1
    <3>3. q + 1 + p \in Nat \ {0}
      OBVIOUS
    <3> QED
      BY <3>1, <3>2, <3>3
  <2>4. a \in AnswersFrom(body)
    BY <1>1, DecodeRecordTyped
  <2> HIDE DEF a, t
  <2>5. ASSUME a.error = "none"
        PROVE  Answer(s.answer.records \o a.records) \in AnswersFrom(body)
    <3>1. /\ a.records \in Seq(RecordsIn(body))
          /\ s.answer.records \in Seq(RecordsIn(body))
      BY <1>1, <1>4, <2>4, <2>5, AnswersFromAre
    <3>2. s.answer.records \o a.records \in Seq(RecordsIn(body))
      BY <3>1, ConcatProperties
    <3> QED
      BY <3>2 DEF AnswersFrom
  <2> QED
    BY <2>1, <2>3, <2>4, <2>5 DEF States, t
<1> QED
  BY <1>2, <1>3, <1>4

Beginning == [pos |-> 2, answer |-> Answer(<<>>)]

(* The states decode_chain goes through.                                       *)
Run(body, check, f) ==
  /\ f \in [0..body[1] -> States(body)]
  /\ f[0] = Beginning
  /\ \A i \in 1..body[1] : f[i] = DecodeNext(f[i - 1], body, check)

LEMMA RunExists ==
  ASSUME NEW body \in Seq(Cells), Len(body) = BODY, body[1] # 0, NEW check
  PROVE  /\ body[1] \in Nat \ {0}
         /\ \E f : /\ Run(body, check, f)
                   /\ DecodeChain(CHAIN_ID, body, check) = f[body[1]].answer
<1> DEFINE N == body[1]
           R(h) == h = [i \in 0..N |-> IF i = 0 THEN Beginning
                                      ELSE DecodeNext(h[i - 1], body, check)]
           F == CHOOSE h : R(h)
           D == States(body)
           step == [s \in D |-> DecodeNext(s, body, check)]
           g == [i \in 1..N |-> step]
<1>1. N \in Nat \ {0}
  <2>1. 1 \in 1..Len(body)
    BY WidthAssumption
  <2>2. N \in Cells
    BY <2>1, ElementOfSeq
  <2> QED
    BY <2>2, WidthAssumption DEF Cells
<1>2. DecodeChain(CHAIN_ID, body, check) = F[N].answer
  BY DEF DecodeChain, Beginning
<1>3. Beginning \in D
  <2>1. <<>> \in Seq(RecordsIn(body))
    BY EmptySeq
  <2>2. Answer(<<>>) \in AnswersFrom(body)
    BY <2>1 DEF AnswersFrom
  <2> QED
    BY <2>2 DEF States, Beginning
<1>4. \A s \in D : DecodeNext(s, body, check) \in D
  BY DecodeNextTyped
<1> HIDE DEF N, D
<1>5. \A i \in 1..N : \A s \in D :
        g[i][s] = DecodeNext(s, body, check) /\ g[i][s] \in D
  BY <1>4
<1> HIDE DEF g
<1>6. PICK f \in [0..N -> D] : Stepwise(f, N, Beginning, g)
  <2>1. \A i \in 1..N : \A s \in D : g[i][s] \in D
    BY <1>5
  <2> QED
    BY <1>1, <1>3, <2>1, StepwiseExists
<1>7. Follows(f, N, Beginning, g)
  BY <1>1, <1>6, StepwiseIs
<1>8. \A i \in 1..N : f[i] = DecodeNext(f[i - 1], body, check)
  <2> TAKE i \in 1..N
  <2>1. f[i - 1] \in D
    BY <1>1, <1>6
  <2>2. f[i] = g[i][f[i - 1]]
    BY <1>7 DEF Follows
  <2> QED
    BY <2>1, <2>2, <1>5
<1>9. R(f)
  <2>1. ASSUME NEW i \in 0..N
        PROVE  f[i] = IF i = 0 THEN Beginning
                      ELSE DecodeNext(f[i - 1], body, check)
    <3>1. CASE i = 0
      BY <3>1, <1>7 DEF Follows
    <3>2. CASE i # 0
      <4>1. i \in 1..N
        BY <1>1, <3>2
      <4> QED
        BY <3>2, <4>1, <1>8, Zenon
    <3> QED
      BY <3>1, <3>2
  <2> QED
    BY <1>6, <2>1
<1>10. R(F)
  BY <1>9
<1> HIDE DEF F
<1>11. /\ \A i \in 0..N : F[i] = IF i = 0 THEN Beginning
                                 ELSE DecodeNext(F[i - 1], body, check)
       /\ DOMAIN F = 0..N /\ F = [i \in 0..N |-> F[i]]
  BY <1>10, Zenon
<1>12. F[0] = Beginning /\ \A i \in 1..N : F[i] = DecodeNext(F[i - 1], body, check)
  <2>1. 0 \in 0..N /\ \A i \in 1..N : i \in 0..N /\ i # 0
    BY <1>1
  <2> QED
    BY <2>1, <1>11, Zenon
<1> DEFINE S == {i \in 0..N : F[i] \in D}
<1>13. 0 \in S
  BY <1>1, <1>3, <1>12
<1>14. ASSUME NEW i \in 1..N, i - 1 \in S PROVE i \in S
  <2>1. i \in 0..N /\ F[i] = DecodeNext(F[i - 1], body, check)
    BY <1>1, <1>12
  <2> QED
    BY <2>1, <1>4, <1>14
<1>15. \A i \in 0..N : i \in S
  <2> HIDE DEF S
  <2> QED
    BY <1>1, <1>13, <1>14, RangeInduction
<1>16. F \in [0..N -> D]
  BY <1>11, <1>15
<1>17. Run(body, check, F)
  BY <1>12, <1>16 DEF Run, N, D
<1> QED
  BY <1>1, <1>2, <1>17 DEF N

(* The records a chain begins with.                                            *)
Prefix(records, n) == [i \in 1..n |-> records[i]]

LEMMA PrefixIs ==
  ASSUME NEW T, NEW records \in Seq(T)
  PROVE  /\ Prefix(records, 0) = <<>>
         /\ Prefix(records, Len(records)) = records
         /\ \A n \in 1..Len(records) :
              /\ <<records[n]>> \in Seq(T)
              /\ Prefix(records, n - 1) \in Seq(T)
              /\ Prefix(records, n - 1) \o <<records[n]>> = Prefix(records, n)
<1> DEFINE N == Len(records)
<1>1. /\ N \in Nat /\ records \in [1..N -> T]
      /\ \A i \in 1..N : records[i] \in T
  BY LenProperties, ElementOfSeq
<1> HIDE DEF N
<1>2. ASSUME NEW n \in 0..N
      PROVE  Prefix(records, n) \in Seq(T) /\ Len(Prefix(records, n)) = n
  <2> DEFINE p == Prefix(records, n)
  <2>1. n \in Nat /\ \A i \in 1..n : i \in 1..N
    BY <1>1
  <2>2. p \in [1..n -> T]
    BY <1>1, <2>1 DEF Prefix
  <2> HIDE DEF p
  <2>3. p \in Seq(T)
    BY <2>1, <2>2, SeqDef
  <2>4. DOMAIN p = 1..Len(p) /\ Len(p) \in Nat /\ DOMAIN p = 1..n
    BY <2>2, <2>3, LenProperties
  <2>5. \A a, b \in Nat : 1..a = 1..b => a = b
    OBVIOUS
  <2>6. Len(p) = n
    BY <2>1, <2>4, <2>5, Zenon
  <2> QED
    BY <2>3, <2>6 DEF p
<1>3. Prefix(records, 0) = <<>>
  <2>1. 0 \in 0..N
    BY <1>1
  <2>2. Prefix(records, 0) \in Seq(T) /\ Len(Prefix(records, 0)) = 0
    BY <1>2, <2>1
  <2>3. ~ (Len(Prefix(records, 0)) \in Nat \ {0})
    BY <2>2
  <2> QED
    BY <2>2, <2>3, EmptySeq
<1>4. Prefix(records, N) = records
  BY <1>1 DEF Prefix
<1>5. ASSUME NEW n \in 1..N
      PROVE  /\ <<records[n]>> \in Seq(T)
             /\ Prefix(records, n - 1) \in Seq(T)
             /\ Prefix(records, n - 1) \o <<records[n]>> = Prefix(records, n)
  <2> DEFINE a == Prefix(records, n - 1)
             b == <<records[n]>>
             c == Prefix(records, n)
             d == a \o b
  <2>1. n - 1 \in 0..N /\ n \in 0..N
    BY <1>1
  <2>2. a \in Seq(T) /\ Len(a) = n - 1 /\ c \in Seq(T) /\ Len(c) = n
    BY <1>2, <2>1
  <2>3. b \in Seq(T) /\ Len(b) = 1 /\ b[1] = records[n]
    BY <1>1
  <2>4. \A i \in 1..n : c[i] = records[i]
    BY DEF Prefix
  <2>5. \A i \in 1..(n - 1) : a[i] = records[i]
    BY DEF Prefix
  <2> HIDE DEF a, b, c
  <2>6. a \in Seq(T) /\ b \in Seq(T)
    BY <2>2, <2>3
  <2>7. /\ d \in Seq(T) /\ Len(d) = Len(a) + Len(b)
        /\ \A k \in 1..Len(a) : k \in 1..Len(d) /\ d[k] = a[k]
        /\ \A k \in 1..Len(b) : Len(a) + k \in 1..Len(d) /\ d[Len(a) + k] = b[k]
    BY <2>6, ConcatAt
  <2> HIDE DEF d
  <2>8. Len(d) = n
    BY <1>1, <2>2, <2>3, <2>7
  <2>9. ASSUME NEW i \in 1..n PROVE d[i] = c[i]
    <3>1. CASE i = n
      <4>1. d[Len(a) + 1] = b[1] /\ Len(a) + 1 = n
        BY <1>1, <2>2, <2>3, <2>7
      <4> QED
        BY <3>1, <4>1, <2>3, <2>4
    <3>2. CASE i # n
      <4>1. i \in 1..(n - 1)
        BY <1>1, <3>2
      <4> QED
        BY <4>1, <2>2, <2>4, <2>5, <2>7
    <3> QED
      BY <3>1, <3>2
  <2>10. d = c
    BY <2>2, <2>7, <2>8, <2>9, SeqEqual
  <2> QED
    BY <2>2, <2>3, <2>10 DEF a, b, c, d
<1> QED
  BY <1>3, <1>4, <1>5 DEF N

(* decode_chain of what encode_chain wrote: a body that begins with the cells  *)
(* of a chain is read as that chain, whatever follows it, unless the           *)
(* constraints refuse one of its records.                                      *)
THEOREM ChainRead ==
  ASSUME NEW T, NEW records \in Seq(T), Len(records) \in 1..MAX_RECORDS,
         \A i \in 1..Len(records) : Writable(records[i]),
         NEW body \in Seq(Cells), Len(body) = BODY,
         LiesAt(ChainCells(records), body, 1), NEW check \in BOOLEAN
  PROVE  DecodeChain(CHAIN_ID, body, check) =
           IF \A i \in 1..Len(records) : Allowed(records[i], check)
           THEN Answer(records) ELSE Fail("ConstraintViolation")
<1> DEFINE N == Len(records)
           cells == ChainCells(records)
           P(i) == \A k \in 1..i : Allowed(records[k], check)
<1>1. N \in Nat \ {0} /\ DOMAIN records = 1..N /\ RecordsAre(records)
  BY LenProperties DEF RecordsAre
<1>2. ChainLaid(records, cells)
  BY <1>1, ChainCellsAre
<1> HIDE DEF cells
<1>3. /\ cells \in Seq(Cells) /\ Len(cells) \in Nat \ {0} /\ cells[1] = N
      /\ \A i \in 1..N : RecordLaid(records, cells, i)
  BY <1>2 DEF ChainLaid
<1>4. /\ Len(cells) <= BODY
      /\ \A j \in 1..Len(cells) : body[j] = cells[j]
  <2>1. 1 + Len(cells) - 1 <= BODY
    BY DEF LiesAt, cells
  <2>2. \A j \in 1..Len(cells) : body[1 + j - 1] = cells[j]
    BY DEF LiesAt, cells
  <2>3. \A j \in 1..Len(cells) : 1 + j - 1 = j
    OBVIOUS
  <2> QED
    BY <1>3, <2>1, <2>2, <2>3, WidthAssumption
<1>5. body[1] = N
  BY <1>3, <1>4
<1>6. PICK f : /\ Run(body, check, f)
               /\ DecodeChain(CHAIN_ID, body, check) = f[N].answer
  BY <1>1, <1>5, RunExists
<1>7. f[0] = Beginning /\ \A i \in 1..N : f[i] = DecodeNext(f[i - 1], body, check)
  BY <1>5, <1>6 DEF Run
<1>8. /\ Prefix(records, 0) = <<>> /\ Prefix(records, N) = records
      /\ \A n \in 1..N :
           Prefix(records, n - 1) \o <<records[n]>> = Prefix(records, n)
  BY PrefixIs
<1> DEFINE sizes == ChainSizes(records)
           ends == Ends(sizes)
<1>9. /\ sizes \in Seq(Nat) /\ Len(sizes) = N
      /\ \A i \in 1..N : sizes[i] = 1 + RecordSize(records[i])
  BY <1>1, ChainSizesAre DEF Writable
<1>10. ends[0] = 0 /\ \A i \in 1..N : /\ ends[i] = ends[i - 1] + sizes[i]
                                      /\ ends[i - 1] \in Nat
  BY <1>9, EndsAre, TotalIs DEF Sums
<1>11. \A i \in 1..N : Start(records, i) = 2 + ends[i - 1]
  BY DEF Start
<1>12. \A i \in 1..N : Writable(records[i])
  OBVIOUS
<1> HIDE DEF N, sizes, ends
<1> DEFINE Good(i) == f[i] = [pos |-> 2 + ends[i], answer |-> Answer(Prefix(records, i))]
           S == {i \in 0..N : IF P(i) THEN Good(i)
                              ELSE f[i].answer = Fail("ConstraintViolation")}
<1>13. 0 \in S
  <2>1. P(0) /\ 0 \in 0..N
    BY <1>1
  <2>2. Good(0)
    BY <1>7, <1>8, <1>10 DEF Beginning
  <2> QED
    BY <2>1, <2>2
<1>14. ASSUME NEW i \in 1..N, i - 1 \in S PROVE i \in S
  <2>0. i \in 0..N
    BY <1>1
  <2>1. f[i] = DecodeNext(f[i - 1], body, check)
    BY <1>7
  <2>2. P(i) <=> P(i - 1) /\ Allowed(records[i], check)
    <3>1. \A k \in 1..i : k = i \/ k \in 1..(i - 1)
      BY <1>1
    <3>2. i \in 1..i /\ \A k \in 1..(i - 1) : k \in 1..i
      BY <1>1
    <3> QED
      BY <3>1, <3>2, Zenon
  <2>3. CASE ~P(i - 1)
    <3>1. f[i - 1].answer = Fail("ConstraintViolation")
      BY <1>14, <2>3
    <3>2. f[i - 1].answer.error # "none"
      <4>1. Fail("ConstraintViolation").error = "ConstraintViolation"
        BY FailIs
      <4>2. f[i - 1].answer.error = "ConstraintViolation"
        BY <3>1, <4>1, Zenon
      <4> QED
        BY <4>2
    <3>3. f[i] = f[i - 1]
      BY <2>1, <3>2 DEF DecodeNext
    <3> QED
      BY <2>0, <2>2, <2>3, <3>1, <3>3
  <2>4. CASE P(i - 1)
    <3> DEFINE s == f[i - 1]
               r == records[i]
               p == Start(records, i)
               a == DecodeRecord(r.id, body, p + 1, check)
    <3>1. s = [pos |-> 2 + ends[i - 1], answer |-> Answer(Prefix(records, i - 1))]
      BY <1>14, <2>4
    <3>2. s.pos = p /\ s.answer = Answer(Prefix(records, i - 1))
      BY <1>11, <3>1
    <3>3. s.answer.error = "none" /\ s.answer.records = Prefix(records, i - 1)
      BY <3>2, AnswerIs
    <3>4. RecordLaid(records, cells, i) /\ Writable(r)
      BY <1>3, <1>12
    <3>5. /\ RecordCells(r) \in Seq(Cells) /\ Len(RecordCells(r)) = RecordSize(r)
          /\ RecordSize(r) \in Nat /\ r.id \in Cells \ {0, CHAIN_ID}
      BY <3>4, RecordCellsAre
    <3> HIDE DEF s, r, p
    <3>6. /\ p \in Nat \ {0} /\ p + RecordSize(r) <= Len(cells)
          /\ cells[p] = r.id
          /\ \A j \in 1..RecordSize(r) : cells[p + j] = RecordCells(r)[j]
      BY <3>4 DEF RecordLaid, p, r
    <3>7. PICK z \in Nat, length \in Nat \ {0} :
            /\ z = RecordSize(r) /\ length = Len(cells) /\ p + z <= length
      BY <1>3, <3>5, <3>6
    <3>8. ~ (p > BODY) /\ body[p] = r.id
      <4>1. p \in 1..length /\ length <= BODY
        BY <1>4, <3>6, <3>7
      <4> QED
        BY <4>1, <1>4, <3>6, <3>7, WidthAssumption
    <3>9. LiesAt(RecordCells(r), body, p + 1)
      <4>1. (p + 1) + z - 1 <= BODY
        BY <1>4, <3>6, <3>7, WidthAssumption
      <4>2. ASSUME NEW j \in 1..z PROVE body[(p + 1) + j - 1] = RecordCells(r)[j]
        <5>1. p + j \in 1..length /\ (p + 1) + j - 1 = p + j
          BY <3>6, <3>7
        <5>2. body[p + j] = cells[p + j] /\ cells[p + j] = RecordCells(r)[j]
          BY <5>1, <1>4, <3>6, <3>7
        <5> QED
          BY <5>1, <5>2
      <4> QED
        BY <4>1, <4>2, <3>5, <3>7 DEF LiesAt
    <3>10. a = IF Allowed(r, check) THEN Answer(<<r>>) ELSE Fail("ConstraintViolation")
      <4>1. p + 1 \in Nat \ {0}
        BY <3>6
      <4>2. Writable(r)
        BY <3>4 DEF r
      <4> QED
        BY <4>1, <4>2, <3>9, RecordRead
    <3>11. Known(r.id) /\ Payload(Entry(r.id)) = RecordSize(r)
      BY <3>4 DEF Writable, RecordSize, r
    <3>12. f[i] = [pos    |-> p + 1 + RecordSize(r),
                   answer |-> IF a.error # "none" THEN a
                              ELSE Answer(Prefix(records, i - 1) \o a.records)]
      <4> HIDE DEF a
      <4>1. f[i] = DecodeNext(s, body, check)
        BY <2>1 DEF s
      <4>2. a = DecodeRecord(body[s.pos], body, s.pos + 1, check)
        BY <3>2, <3>8 DEF a
      <4>3. body[s.pos] = r.id /\ ~ (s.pos > BODY)
        BY <3>2, <3>8
      <4> QED
        BY <4>1, <4>2, <4>3, <3>2, <3>3, <3>11 DEF DecodeNext
    <3> HIDE DEF a
    <3>13. CASE Allowed(r, check)
      <4>1. a.error = "none" /\ a.records = <<r>>
        BY <3>10, <3>13, AnswerIs
      <4>2. Prefix(records, i - 1) \o <<r>> = Prefix(records, i)
        BY <1>8 DEF r
      <4>3. p + 1 + RecordSize(r) = 2 + ends[i]
        <5>1. PICK q \in Nat : q = ends[i - 1]
          BY <1>10
        <5>2. p = 2 + q
          BY <1>11, <5>1 DEF p
        <5>3. ends[i] = q + sizes[i] /\ sizes[i] = 1 + RecordSize(r)
          BY <1>9, <1>10, <5>1 DEF r
        <5>4. ends[i] = q + (1 + z)
          BY <3>7, <5>3
        <5>5. (2 + q) + 1 + z = 2 + (q + (1 + z))
          OBVIOUS
        <5> QED
          BY <5>2, <5>4, <5>5, <3>7
      <4>4. Good(i)
        BY <3>12, <4>1, <4>2, <4>3
      <4>5. P(i)
        BY <2>2, <2>4, <3>13 DEF r
      <4> QED
        BY <2>0, <4>4, <4>5
    <3>14. CASE ~Allowed(r, check)
      <4>1. a = Fail("ConstraintViolation") /\ a.error = "ConstraintViolation"
        BY <3>10, <3>14, FailIs
      <4>2. f[i].answer = Fail("ConstraintViolation")
        BY <3>12, <4>1
      <4>3. ~P(i)
        BY <2>2, <3>14 DEF r
      <4> QED
        BY <2>0, <4>2, <4>3
    <3> QED
      BY <3>13, <3>14
  <2> QED
    BY <2>3, <2>4
<1>15. \A i \in 0..N : i \in S
  <2> HIDE DEF S
  <2> QED
    BY <1>1, <1>13, <1>14, RangeInduction
<1>16. IF P(N) THEN Good(N) ELSE f[N].answer = Fail("ConstraintViolation")
  <2>1. N \in S
    BY <1>1, <1>15
  <2> QED
    BY <2>1
<1>17. f[N].answer = IF P(N) THEN Answer(records) ELSE Fail("ConstraintViolation")
  BY <1>8, <1>16
<1> QED
  BY <1>6, <1>17 DEF N

---------------------------------------------------------------------------------
(* What is refused, and what is not.                                           *)

LEMMA WriteParamsIs ==
  ASSUME NEW e, NEW values
  PROVE  /\ WriteParams(e, values) \in {"none", "EncodingError"}
         /\ WriteParams(e, values) = "none" <=>
              \A i \in DOMAIN e.params : CanWrite(e.params[i], values[i])
BY DEF WriteParams, Raise

LEMMA RetiredIs ==
  ASSUME NEW e
  PROVE  /\ Retired(e) \in {"none", "EncodingError"}
         /\ Retired(e) = "none" <=> e.status # "retired"
BY DEF Retired, Raise

EncodeErrors == {"none", "EncodingError", "ConstraintViolation"}

LEMMA EncodeErrorIs ==
  ASSUME NEW e \in Corpus, NEW values, NEW check \in BOOLEAN
  PROVE  /\ EncodeError(e, values, check) \in EncodeErrors
         /\ EncodeError(e, values, check) = "none" =>
              /\ Payload(e) <= BODY
              /\ CheckAll(e, values, check) = "none"
              /\ WriteParams(e, values) = "none"
<1> DEFINE large == Raise("EncodingError", Payload(e) > BODY)
           a == Retired(e)
           c == CheckAll(e, values, check)
           d == WriteParams(e, values)
<1>1. /\ large \in {"none", "EncodingError"}
      /\ large = "none" => Payload(e) <= BODY
  BY EntryIs, WidthAssumption DEF Raise
<1>2. /\ a \in {"none", "EncodingError"} /\ d \in {"none", "EncodingError"}
      /\ c \in {"none", "ConstraintViolation"}
  BY RetiredIs, CheckAllIs, WriteParamsIs
<1>3. EncodeError(e, values, check) = FirstError(<<a, large, c, d>>)
  BY DEF EncodeError
<1> HIDE DEF large, a, c, d
<1>4. /\ FirstError(<<a, large, c, d>>) = "none" <=>
           a = "none" /\ large = "none" /\ c = "none" /\ d = "none"
      /\ FirstError(<<a, large, c, d>>) \in {"none", a, large, c, d}
  BY FirstOfFour
<1>5. FirstError(<<a, large, c, d>>) \in EncodeErrors
  BY <1>1, <1>2, <1>4 DEF EncodeErrors
<1> QED
  BY <1>1, <1>3, <1>4, <1>5 DEF c, d

ChainErrors == EncodeErrors \cup {"CorpusError"}

(* What the records of a chain must be like, and the chain.                    *)
Acceptable(r, check) ==
  /\ Known(r.id) /\ Entry(r.id).status # "retired"
  /\ CheckAll(Entry(r.id), r.values, check) = "none"
  /\ WriteParams(Entry(r.id), r.values) = "none"
ChainAcceptable(records, check) ==
  /\ Len(records) \in 1..MAX_RECORDS
  /\ \A i \in 1..Len(records) : Acceptable(records[i], check)
  /\ ~ (ChainCost(Entries(records)) > BODY)

LEMMA ChainErrorIs ==
  ASSUME NEW records, RecordsAre(records), NEW check \in BOOLEAN
  PROVE  /\ ChainError(records, check) \in ChainErrors
         /\ ChainError(records, check) = "none" <=> ChainAcceptable(records, check)
<1> DEFINE N == Len(records)
           resolving == [i \in DOMAIN records |->
                           IF Known(records[i].id) THEN Retired(Entry(records[i].id))
                           ELSE "CorpusError"]
           pair(i) == <<CheckAll(Entry(records[i].id), records[i].values, check),
                        WriteParams(Entry(records[i].id), records[i].values)>>
           writing == [i \in DOMAIN records |-> FirstError(pair(i))]
           A == FirstError(resolving)
           B == FirstError(writing)
<1>1. N \in Nat /\ DOMAIN records = 1..N
  BY DEF RecordsAre
<1>2. ChainError(records, check) =
        IF N \notin 1..MAX_RECORDS THEN "EncodingError"
        ELSE IF A # "none" THEN A
        ELSE IF ChainCost(Entries(records)) > BODY THEN "EncodingError"
        ELSE B
  BY Zenon DEF ChainError
<1>3. \A i \in 1..N :
        /\ resolving[i] \in {"none", "EncodingError", "CorpusError"}
        /\ resolving[i] = "none" <=>
             Known(records[i].id) /\ Entry(records[i].id).status # "retired"
  BY <1>1, RetiredIs
<1>4. OneOf(A, resolving, N)
  <2>1. DOMAIN resolving = 1..N
    BY <1>1
  <2> HIDE DEF resolving
  <2> QED
    BY <1>1, <2>1, FirstErrorIs
<1>5. /\ A \in {"none", "EncodingError", "CorpusError"}
      /\ A = "none" <=> \A i \in 1..N : /\ Known(records[i].id)
                                        /\ Entry(records[i].id).status # "retired"
  <2> HIDE DEF A, resolving, N
  <2> QED
    BY <1>3, <1>4 DEF OneOf
<1>6. \A i \in 1..N :
        /\ writing[i] \in EncodeErrors
        /\ writing[i] = "none" <=>
             /\ CheckAll(Entry(records[i].id), records[i].values, check) = "none"
             /\ WriteParams(Entry(records[i].id), records[i].values) = "none"
  <2> TAKE i \in 1..N
  <2> DEFINE c == CheckAll(Entry(records[i].id), records[i].values, check)
             d == WriteParams(Entry(records[i].id), records[i].values)
  <2>1. c \in {"none", "ConstraintViolation"} /\ d \in {"none", "EncodingError"}
    BY CheckAllIs, WriteParamsIs
  <2>2. writing[i] = FirstError(<<c, d>>)
    BY <1>1
  <2> HIDE DEF c, d
  <2>3. /\ FirstError(<<c, d>>) = "none" <=> c = "none" /\ d = "none"
        /\ FirstError(<<c, d>>) \in {"none", c, d}
    BY FirstOfTwo
  <2> HIDE DEF writing
  <2>4. /\ writing[i] \in EncodeErrors
        /\ writing[i] = "none" <=> c = "none" /\ d = "none"
    BY <2>1, <2>2, <2>3 DEF EncodeErrors
  <2> QED
    BY <2>4 DEF c, d
<1>7. OneOf(B, writing, N)
  <2>1. DOMAIN writing = 1..N
    BY <1>1
  <2> HIDE DEF writing
  <2> QED
    BY <1>1, <2>1, FirstErrorIs
<1>8. /\ B \in EncodeErrors
      /\ B = "none" <=>
           \A i \in 1..N :
             /\ CheckAll(Entry(records[i].id), records[i].values, check) = "none"
             /\ WriteParams(Entry(records[i].id), records[i].values) = "none"
  <2>1. "none" \in EncodeErrors
    BY DEF EncodeErrors
  <2> HIDE DEF B, writing, N
  <2> QED
    BY <1>6, <1>7, <2>1 DEF OneOf
<1> HIDE DEF A, B, N
<1>9. ChainError(records, check) \in ChainErrors
  BY <1>2, <1>5, <1>8 DEF ChainErrors, EncodeErrors
<1>10. ChainError(records, check) = "none" <=>
         /\ N \in 1..MAX_RECORDS /\ A = "none"
         /\ ~ (ChainCost(Entries(records)) > BODY) /\ B = "none"
  BY <1>2
<1>11. ChainError(records, check) = "none" <=> ChainAcceptable(records, check)
  BY <1>5, <1>8, <1>10, Zenon DEF ChainAcceptable, Acceptable, N
<1> QED
  BY <1>9, <1>11

(* A record that callers give can be written when its parameters can.          *)
LEMMA GivenIsWritable ==
  ASSUME NEW r \in Records, Known(r.id), WriteParams(Entry(r.id), r.values) = "none"
  PROVE  Writable(r)
<1> DEFINE e == Entry(r.id)
<1>1. /\ r = [id |-> r.id, values |-> r.values]
      /\ r.values = [i \in DOMAIN e.params |-> r.values[i]]
      /\ \A i \in DOMAIN r.values : TypedValue(e.params[i], r.values[i])
  BY CallersAssumption DEF TypedValue
<1>2. DOMAIN r.values = DOMAIN e.params
  <2> DEFINE v == r.values
  <2>1. v = [i \in DOMAIN e.params |-> v[i]]
    BY <1>1
  <2> HIDE DEF v, e
  <2>2. DOMAIN v = DOMAIN e.params
    BY <2>1, Zenon
  <2> QED
    BY <2>2 DEF v
<1>3. \A i \in DOMAIN e.params : CanWrite(e.params[i], r.values[i])
  BY WriteParamsIs
<1> QED
  BY <1>1, <1>2, <1>3 DEF Writable, Fits

---------------------------------------------------------------------------------
(* Bodies.                                                                     *)

LEMMA TupleIs ==
  ASSUME NEW T, NEW n \in Nat, NEW f \in [1..n -> T]
  PROVE  f \in Seq(T) /\ Len(f) = n
<1>1. f \in Seq(T)
  BY SeqDef
<1>2. DOMAIN f = 1..Len(f) /\ Len(f) \in Nat /\ DOMAIN f = 1..n
  BY <1>1, LenProperties
<1>3. \A a, b \in Nat : 1..a = 1..b => a = b
  OBVIOUS
<1>4. Len(f) = n
  BY <1>2, <1>3, Zenon
<1> QED
  BY <1>1, <1>4

(* A body is whole and begins with the cells that are to lie in it.            *)
BodyWith(body, cells) ==
  /\ body \in Seq(Cells)
  /\ Len(body) = BODY
  /\ LiesAt(cells, body, 1)

LEMMA PaddedBody ==
  ASSUME NEW c \in Seq(Cells), NEW z \in Seq(Cells), Len(c) + Len(z) = BODY
  PROVE  BodyWith(c \o z, c)
<1> DEFINE b == c \o z
<1>1. /\ b \in Seq(Cells) /\ Len(b) = Len(c) + Len(z)
      /\ \A k \in 1..Len(c) : k \in 1..Len(b) /\ b[k] = c[k]
  BY ConcatAt
<1>2. Len(c) \in Nat /\ Len(z) \in Nat
  BY LenProperties
<1> HIDE DEF b
<1>3. 1 + Len(c) - 1 <= Len(b)
  BY <1>1, <1>2
<1>4. \A j \in 1..Len(c) : 1 + j - 1 = j
  OBVIOUS
<1>5. \A j \in 1..Len(c) : b[1 + j - 1] = c[j]
  BY <1>1, <1>4
<1>6. BodyWith(b, c)
  BY <1>1, <1>3, <1>5 DEF BodyWith, LiesAt
<1> QED
  BY <1>6 DEF b

LEMMA ZerosAre ==
  ASSUME NEW c \in Seq(Cells), Len(c) <= BODY
  PROVE  BodyWith(c \o Zeros(c), c)
<1>1. BODY - Len(c) \in Nat /\ Len(c) \in Nat
  BY LenProperties, WidthAssumption
<1>2. 0 \in Cells
  BY WidthAssumption DEF Cells
<1>3. Zeros(c) \in [1..(BODY - Len(c)) -> Cells]
  BY <1>2 DEF Zeros
<1>4. Zeros(c) \in Seq(Cells) /\ Len(Zeros(c)) = BODY - Len(c)
  BY <1>1, <1>3, TupleIs
<1>5. Len(c) + Len(Zeros(c)) = BODY
  BY <1>1, <1>4, WidthAssumption
<1>6. Zeros(c) \in Seq(Cells)
  BY <1>4
<1> QED
  BY <1>5, <1>6, PaddedBody

LEMMA BodyIs ==
  ASSUME NEW r, Writable(r), RecordSize(r) <= BODY
  PROVE  BodyWith(Body(Entry(r.id), r.values), RecordCells(r))
<1>1. RecordCells(r) \in Seq(Cells) /\ Len(RecordCells(r)) <= BODY
  BY RecordCellsAre
<1>2. BodyWith(RecordCells(r) \o Zeros(RecordCells(r)), RecordCells(r))
  BY <1>1, ZerosAre
<1> QED
  BY <1>2 DEF Body, RecordCells

(* A chain that is accepted has a place in a body.                             *)
LEMMA AcceptedCells ==
  ASSUME NEW records, RecordsAre(records), NEW check \in BOOLEAN,
         \A i \in 1..Len(records) : Writable(records[i]),
         ChainAcceptable(records, check)
  PROVE  /\ ChainCells(records) \in Seq(Cells)
         /\ Len(ChainCells(records)) <= BODY
<1>1. ChainLaid(records, ChainCells(records))
  BY ChainCellsAre DEF ChainAcceptable
<1>2. /\ ChainCells(records) \in Seq(Cells)
      /\ Len(ChainCells(records)) \in Nat
      /\ Len(ChainCells(records)) = ChainCost(Entries(records))
  BY <1>1 DEF ChainLaid
<1>3. ~ (ChainCost(Entries(records)) > BODY)
  BY DEF ChainAcceptable
<1> QED
  BY <1>2, <1>3, WidthAssumption

---------------------------------------------------------------------------------
(* Texts.                                                                      *)

LEMMA TextEntryIs ==
  /\ TextEntry \in Corpus /\ Known(TEXT) /\ Entry(TEXT) = TextEntry
  /\ TEXT \in Cells \ {0, CHAIN_ID}
  /\ DOMAIN TextEntry.params = 1..2
  /\ Capacity \in Nat
  /\ TextEntry.params[2].type = "bytes" /\ TextEntry.params[1].type = "uint"
  /\ 2 + Payload(TextEntry) <= BODY /\ Payload(TextEntry) \in Nat
  /\ \A e \in Corpus : e.id = TEXT => e.slug = TEXT_SLUG
<1>1. TextEntry \in Corpus
  BY TextAssumption
<1>2. Known(TEXT) /\ Entry(TEXT) = TextEntry
  BY <1>1, EntryOf DEF TEXT
<1>3. TEXT \in Cells \ {0, CHAIN_ID}
  BY <1>2, KnownIs
<1>4. /\ DOMAIN TextEntry.params = 1..Len(TextEntry.params)
      /\ \A i \in 1..Len(TextEntry.params) : SoundParameter(TextEntry.params[i])
      /\ Payload(TextEntry) \in Nat
  BY <1>1, EntryIs
<1>5. Len(TextEntry.params) = 2
  BY TextAssumption
<1>6. SoundParameter(TextEntry.params[2])
  BY <1>4, <1>5
<1>7. Capacity \in Nat
  BY <1>6 DEF SoundParameter, Parameters, Capacity
<1>8. \A e \in Corpus : e.id = TEXT => e.slug = TEXT_SLUG
  BY <1>1, CorpusAssumption, TextAssumption DEF TEXT
<1> QED
  BY <1>1, <1>2, <1>3, <1>4, <1>5, <1>7, <1>8, TextAssumption

(* A record of a text and the cells behind it.                                 *)
TextIn(r, text) == /\ Writable(r) /\ r.id = TEXT /\ TextOf(r.values) = text
                   /\ WriteParams(Entry(r.id), r.values) = "none"

LEMMA TextRecordIs ==
  ASSUME NEW text \in Seq(Cells), Len(text) \in 1..Capacity,
         NEW tail \in Seq(Cells), Len(tail) = Capacity - Len(text)
  PROVE  TextIn(TextRecord(text, tail), text)
<1> DEFINE c == text \o tail
           r == TextRecord(text, tail)
           params == TextEntry.params
<1>1. /\ c \in Seq(Cells) /\ Len(c) = Len(text) + Len(tail)
      /\ \A k \in 1..Len(text) : k \in 1..Len(c) /\ c[k] = text[k]
  BY ConcatAt
<1>2. Len(text) \in Nat \ {0} /\ Len(tail) \in Nat /\ Capacity \in Nat
  BY LenProperties, TextEntryIs
<1> HIDE DEF c
<1>3. Len(c) = Capacity
  BY <1>1, <1>2
<1>4. /\ r = [id |-> r.id, values |-> r.values] /\ r.id = TEXT
      /\ r.values = <<Len(text), c>>
  BY DEF TextRecord, c
<1>5. r.values[1] = Len(text) /\ r.values[2] = c /\ DOMAIN r.values = 1..2
  BY <1>4
<1> HIDE DEF r
<1>6. DOMAIN params = 1..2 /\ params[1].type = "uint" /\ params[2].type = "bytes"
  BY TextEntryIs
<1>7. Capacity < Power[params[1].size] /\ Capacity = params[2].size
  BY TextAssumption DEF Capacity
<1>8. Power[params[1].size] \in Nat
  <2>1. params[1].size \in Nat
    <3>1. SoundParameter(TextEntry.params[1])
      <4>1. TextEntry \in Corpus /\ Len(TextEntry.params) = 2
        BY TextAssumption
      <4> QED
        BY <4>1, EntryIs
    <3> QED
      BY <3>1 DEF SoundParameter, Parameters
  <2> QED
    BY <2>1, PowerIs
<1> HIDE DEF params
<1>9. TypedValue(params[1], Len(text)) /\ CanWrite(params[1], Len(text))
  <2>1. Len(text) \in 0..(Power[params[1].size] - 1)
    <3> DEFINE w == Power[params[1].size]
    <3>1. w \in Nat /\ Capacity < w
      BY <1>7, <1>8
    <3> HIDE DEF w
    <3>2. Len(text) <= Capacity
      BY <1>2
    <3>3. Len(text) \in 0..(w - 1)
      BY <1>2, <3>1, <3>2
    <3> QED
      BY <3>3 DEF w
  <2>2. TypedValue(params[1], Len(text))
    BY <1>2, <1>6 DEF TypedValue
  <2> QED
    BY <1>6, <2>1, <2>2 DEF CanWrite
<1>10. TypedValue(params[2], c) /\ CanWrite(params[2], c)
  BY <1>1, <1>3, <1>6, <1>7 DEF TypedValue, CanWrite
<1>11. \A i \in 1..2 : i = 1 \/ i = 2
  OBVIOUS
<1>12. \A i \in 1..2 : /\ TypedValue(params[i], r.values[i])
                       /\ CanWrite(params[i], r.values[i])
  BY <1>5, <1>9, <1>10, <1>11
<1>13. r.values = [i \in 1..2 |-> r.values[i]]
  BY <1>4
<1>14. Known(TEXT) /\ Entry(TEXT).params = params
  BY TextEntryIs DEF params
<1>15. Fits(Entry(r.id), r.values)
  BY <1>4, <1>6, <1>12, <1>13, <1>14 DEF Fits
<1>16. Writable(r)
  BY <1>4, <1>14, <1>15, Zenon DEF Writable
<1>17. WriteParams(Entry(r.id), r.values) = "none"
  BY <1>15, WriteParamsIs DEF Fits
<1>18. TextOf(r.values) = text
  <2> DEFINE t == SubSeq(c, 1, Len(text))
  <2>1. TextOf(r.values) = t
    BY <1>5 DEF TextOf
  <2>2. /\ t \in Seq(Cells)
        /\ Len(t) = IF 1 <= Len(text) THEN Len(text) - 1 + 1 ELSE 0
        /\ \A j \in 1..(Len(text) - 1 + 1) : t[j] = c[1 + j - 1]
    <3>1. \A j \in 1..Len(text) : j \in 1..Len(c)
      BY <1>1
    <3>2. \A j \in 1..Len(text) : c[j] \in Cells
      BY <1>1, <3>1, ElementOfSeq
    <3> QED
      BY <1>1, <1>2, <3>2, SubSeqProperties
  <2> HIDE DEF t
  <2>3. Len(t) = Len(text) /\ \A j \in 1..Len(text) : t[j] = text[j]
    <3>1. Len(text) - 1 + 1 = Len(text) /\ \A j \in 1..Len(text) : 1 + j - 1 = j
      BY <1>2
    <3> QED
      BY <1>1, <1>2, <2>2, <3>1
  <2>4. t = text
    BY <2>2, <2>3, SeqEqual
  <2> QED
    BY <2>1, <2>4
<1> QED
  BY <1>4, <1>16, <1>17, <1>18 DEF TextIn, r

---------------------------------------------------------------------------------
(* Decoys.                                                                     *)

LEMMA CandidatesAre ==
  /\ IsFiniteSet(Candidates)
  /\ Cardinality(Candidates) \in Nat
  /\ Cardinality(Candidates) + 1 <= MAX_RECORDS
<1> DEFINE I == {e.id : e \in Candidates}
           g == [id \in I |-> Entry(id)]
<1>1. Base - 2 \in Nat \ {0}
  BY WidthAssumption
<1>2. I \subseteq 1..(Base - 2)
  <2> SUFFICES ASSUME NEW e \in Candidates PROVE e.id \in 1..(Base - 2)
    OBVIOUS
  <2>1. e.id \in Cells \ {0, CHAIN_ID}
    BY CorpusAssumption DEF Candidates
  <2> QED
    BY <2>1, WidthAssumption DEF Cells, CHAIN_ID
<1>3. IsFiniteSet(1..(Base - 2)) /\ Cardinality(1..(Base - 2)) = Base - 2
  BY <1>1, FS_Interval
<1>4. IsFiniteSet(I) /\ Cardinality(I) <= Base - 2
  <2>1. I \in SUBSET (1..(Base - 2))
    BY <1>2
  <2> HIDE DEF I
  <2>2. IsFiniteSet(I) /\ Cardinality(I) <= Cardinality(1..(Base - 2))
    BY <1>3, <2>1, FS_Subset
  <2> QED
    BY <1>3, <2>2
<1>5. g \in Surjection(I, Candidates)
  <2>1. \A e \in Candidates : Entry(e.id) = e
    BY EntryOf DEF Candidates
  <2>2. g \in [I -> Candidates]
    BY <2>1
  <2>3. \A e \in Candidates : \E id \in I : g[id] = e
    BY <2>1
  <2> QED
    BY <2>2, <2>3 DEF Surjection
<1> HIDE DEF I, g
<1>6. IsFiniteSet(Candidates) /\ Cardinality(Candidates) <= Cardinality(I)
  BY <1>4, <1>5, FS_Surjection
<1>7. Cardinality(Candidates) \in Nat /\ Cardinality(I) \in Nat
  BY <1>4, <1>6, FS_CardinalityType
<1>8. MAX_RECORDS = (Base - 2) + 1
  BY WidthAssumption DEF MAX_RECORDS
<1> QED
  BY <1>1, <1>4, <1>6, <1>7, <1>8

CostsOf(chosen) == [i \in DOMAIN chosen |-> 1 + Payload(chosen[i])]
Picked(left) ==
  {s \in [chosen : Seq(Candidates), left : Nat] :
     /\ CostsOf(s.chosen) \in Seq(Nat)
     /\ Total(CostsOf(s.chosen)) + s.left = left}

LEMMA PickNextIs ==
  ASSUME NEW left \in Nat, NEW s \in Picked(left), NEW e \in Candidates, NEW target
  PROVE  /\ PickNext(s, e, target) \in Picked(left)
         /\ Len(s.chosen) \in Nat
         /\ Len(PickNext(s, e, target).chosen) <= Len(s.chosen) + 1
<1> DEFINE t == PickNext(s, e, target)
           c == Append(s.chosen, e)
           x == DecoyCost(e)
<1>1. /\ s.chosen \in Seq(Candidates) /\ s.left \in Nat
      /\ CostsOf(s.chosen) \in Seq(Nat)
      /\ Total(CostsOf(s.chosen)) + s.left = left
  BY DEF Picked
<1>2. Len(s.chosen) \in Nat /\ DOMAIN s.chosen = 1..Len(s.chosen)
  BY <1>1, LenProperties
<1>3. CASE t = s
  BY <1>2, <1>3
<1>4. CASE x <= s.left /\ t = [chosen |-> c, left |-> s.left - x]
  <2>1. x \in Nat /\ x = 1 + Payload(e)
    <3>1. Payload(e) \in Nat
      BY EntryIs DEF Candidates
    <3> QED
      BY <3>1 DEF DecoyCost
  <2> HIDE DEF x
  <2>2. /\ c \in Seq(Candidates) /\ Len(c) = Len(s.chosen) + 1
        /\ \A i \in 1..Len(s.chosen) : c[i] = s.chosen[i]
        /\ c[Len(s.chosen) + 1] = e
    BY <1>1, AppendProperties
  <2>3. DOMAIN c = 1..Len(c)
    BY <2>2, LenProperties
  <2> HIDE DEF c
  <2> DEFINE a == CostsOf(s.chosen)
             b == Append(a, x)
             d == CostsOf(c)
  <2>4. Len(a) = Len(s.chosen)
    <3>1. DOMAIN a = 1..Len(s.chosen)
      BY <1>2 DEF CostsOf
    <3> HIDE DEF a
    <3>2. DOMAIN a = 1..Len(a) /\ Len(a) \in Nat
      BY <1>1, LenProperties DEF a
    <3>3. \A m, n \in Nat : 1..m = 1..n => m = n
      OBVIOUS
    <3> QED
      BY <1>2, <3>1, <3>2, <3>3, Zenon
  <2>5. \A i \in 1..Len(s.chosen) : a[i] = 1 + Payload(s.chosen[i])
    BY <1>2 DEF CostsOf
  <2>6. d = [i \in 1..(Len(s.chosen) + 1) |-> 1 + Payload(c[i])]
    BY <2>2, <2>3 DEF CostsOf
  <2>7. a \in Seq(Nat)
    BY <1>1
  <2> HIDE DEF a, d
  <2>8. /\ b \in Seq(Nat) /\ Len(b) = Len(a) + 1
        /\ \A i \in 1..Len(a) : b[i] = a[i]
        /\ b[Len(a) + 1] = x
    BY <2>1, <2>7, AppendProperties
  <2> HIDE DEF b
  <2>9. \A i \in 1..(Len(s.chosen) + 1) : d[i] \in Nat /\ d[i] = b[i]
    <3> TAKE i \in 1..(Len(s.chosen) + 1)
    <3>1. d[i] = 1 + Payload(c[i])
      BY <2>6
    <3>2. CASE i = Len(s.chosen) + 1
      BY <2>1, <2>2, <2>4, <2>8, <3>1, <3>2
    <3>3. CASE i # Len(s.chosen) + 1
      <4>1. i \in 1..Len(s.chosen)
        BY <1>2, <3>3
      <4>2. d[i] = a[i] /\ b[i] = a[i] /\ a[i] \in Nat
        BY <2>2, <2>4, <2>5, <2>7, <2>8, <3>1, <4>1, ElementOfSeq
      <4> QED
        BY <4>2
    <3> QED
      BY <3>2, <3>3
  <2>10. d \in Seq(Nat) /\ Len(d) = Len(s.chosen) + 1
    <3>1. d \in [1..(Len(s.chosen) + 1) -> Nat]
      BY <2>6, <2>9
    <3>2. Len(s.chosen) + 1 \in Nat
      BY <1>2
    <3> QED
      BY <3>1, <3>2, TupleIs
  <2>11. d = b
    BY <2>4, <2>8, <2>9, <2>10, SeqEqual
  <2>12. Total(d) = Total(a) + x /\ Total(a) \in Nat
    BY <2>1, <2>7, <2>11, TotalAppend, TotalIs DEF b
  <2>13. Total(d) + (s.left - x) = left /\ s.left - x \in Nat
    BY <1>1, <1>4, <2>1, <2>12 DEF a
  <2>14. [chosen |-> c, left |-> s.left - x] \in Picked(left)
    BY <2>2, <2>10, <2>13 DEF Picked, d
  <2>15. t.chosen = c
    BY <1>4 DEF c, x
  <2> HIDE DEF t
  <2> QED
    BY <1>2, <1>4, <2>2, <2>14, <2>15 DEF c, x, t
<1>5. t = s \/ (x <= s.left /\ t = [chosen |-> c, left |-> s.left - x])
  BY DEF PickNext
<1> QED
  BY <1>3, <1>4, <1>5

(* Decoys are distinct candidates' records that fit into the room there is.    *)
DecoysFit(decoys, left) ==
  /\ decoys \in Seq(Candidates)
  /\ Len(decoys) <= Cardinality(Candidates)
  /\ CostsOf(decoys) \in Seq(Nat)
  /\ Total(CostsOf(decoys)) <= left

LEMMA PickDecoysFit ==
  ASSUME NEW order \in SetToSeqs(Candidates), NEW left \in Nat, NEW target
  PROVE  DecoysFit(PickDecoys(order, left, target), left)
<1> DEFINE N == Cardinality(Candidates)
           z == [chosen |-> <<>>, left |-> left]
           R(h) == h = [i \in 0..Len(order) |->
                          IF i = 0 THEN z ELSE PickNext(h[i - 1], order[i], target)]
           F == CHOOSE h : R(h)
           D == Picked(left)
           g == [i \in 1..N |-> [s \in D |-> PickNext(s, order[i], target)]]
<1>1. N \in Nat
  BY CandidatesAre
<1>2. order \in [1..N -> Candidates]
  BY DEF SetToSeqs
<1> HIDE DEF N
<1>3. Len(order) = N
  BY <1>1, <1>2, TupleIs
<1>4. PickDecoys(order, left, target) = F[N].chosen
  BY <1>3 DEF PickDecoys
<1>5. z \in D
  <2>1. <<>> \in Seq(Candidates) /\ CostsOf(<<>>) = <<>> /\ <<>> \in Seq(Nat)
    BY EmptySeq DEF CostsOf
  <2>2. Total(<<>>) = 0
    <3>1. Len(<<>>) = 0 /\ Ends(<<>>)[0] = 0
      <4>1. Sums(Ends(<<>>), <<>>)
        BY <2>1, EndsAre
      <4> QED
        BY <4>1 DEF Sums
    <3> QED
      BY <3>1 DEF Total
  <2>3. z.chosen = <<>> /\ z.left = left /\ z \in [chosen : Seq(Candidates), left : Nat]
    BY <2>1
  <2>4. CostsOf(z.chosen) \in Seq(Nat) /\ Total(CostsOf(z.chosen)) = 0
    BY <2>1, <2>2, <2>3
  <2>5. Total(CostsOf(z.chosen)) + z.left = left
    BY <2>3, <2>4
  <2> HIDE DEF z
  <2> QED
    BY <2>3, <2>4, <2>5 DEF Picked
<1>6. \A i \in 1..N : \A s \in D :
        /\ g[i][s] = PickNext(s, order[i], target)
        /\ g[i][s] \in D
        /\ Len(s.chosen) \in Nat
        /\ Len(g[i][s].chosen) <= Len(s.chosen) + 1
  <2> TAKE i \in 1..N
  <2> TAKE s \in D
  <2>1. order[i] \in Candidates
    BY <1>2
  <2>2. g[i][s] = PickNext(s, order[i], target)
    OBVIOUS
  <2> HIDE DEF g
  <2> QED
    BY <2>1, <2>2, PickNextIs
<1> HIDE DEF D, g, z
<1>7. PICK f \in [0..N -> D] : Stepwise(f, N, z, g)
  <2>1. \A i \in 1..N : \A s \in D : g[i][s] \in D
    BY <1>6
  <2> QED
    BY <1>1, <1>5, <2>1, StepwiseExists
<1>8. Follows(f, N, z, g)
  BY <1>1, <1>7, StepwiseIs
<1>9. \A i \in 1..N : f[i] = PickNext(f[i - 1], order[i], target)
  <2> TAKE i \in 1..N
  <2>1. i - 1 \in 0..N /\ f[i - 1] \in D
    BY <1>1, <1>7
  <2>2. f[i] = g[i][f[i - 1]]
    BY <1>8 DEF Follows
  <2> QED
    BY <2>1, <2>2, <1>6
<1>10. R(f)
  <2>1. ASSUME NEW i \in 0..N
        PROVE  f[i] = IF i = 0 THEN z ELSE PickNext(f[i - 1], order[i], target)
    <3>1. CASE i = 0
      BY <3>1, <1>8 DEF Follows
    <3>2. CASE i # 0
      <4>1. i \in 1..N
        BY <1>1, <3>2
      <4> QED
        BY <3>2, <4>1, <1>9, Zenon
    <3> QED
      BY <3>1, <3>2
  <2> QED
    BY <1>3, <1>7, <2>1
<1>11. R(F)
  BY <1>10
<1> HIDE DEF F
<1>12. /\ \A i \in 0..N : F[i] = IF i = 0 THEN z
                                 ELSE PickNext(F[i - 1], order[i], target)
       /\ DOMAIN F = 0..N
  BY <1>3, <1>11, Zenon
<1>13. F[0] = z /\ \A i \in 1..N : F[i] = PickNext(F[i - 1], order[i], target)
  <2>1. 0 \in 0..N /\ \A i \in 1..N : i \in 0..N /\ i # 0
    BY <1>1
  <2> QED
    BY <2>1, <1>12, Zenon
<1> DEFINE S == {i \in 0..N : F[i] \in D /\ Len(F[i].chosen) <= i}
<1>14. 0 \in S
  <2>1. z.chosen = <<>> /\ 0 \in 0..N
    BY <1>1 DEF z
  <2> QED
    BY <1>5, <1>13, <2>1
<1>15. ASSUME NEW i \in 1..N, i - 1 \in S PROVE i \in S
  <2>1. i \in 0..N /\ F[i] = PickNext(F[i - 1], order[i], target)
    BY <1>1, <1>13
  <2>2. F[i - 1] \in D /\ Len(F[i - 1].chosen) <= i - 1
    BY <1>15
  <2>3. g[i][F[i - 1]] = F[i]
    BY <1>6, <2>1, <2>2
  <2>4. /\ F[i] \in D /\ Len(F[i - 1].chosen) \in Nat
        /\ Len(F[i].chosen) <= Len(F[i - 1].chosen) + 1
    BY <1>6, <2>2, <2>3
  <2>5. Len(F[i].chosen) \in Nat
    BY <2>4, LenProperties DEF D, Picked
  <2>6. Len(F[i].chosen) <= i
    BY <2>2, <2>4, <2>5
  <2> QED
    BY <2>1, <2>4, <2>6
<1>16. \A i \in 0..N : i \in S
  <2> HIDE DEF S
  <2> QED
    BY <1>1, <1>14, <1>15, RangeInduction
<1>17. F[N] \in D /\ Len(F[N].chosen) <= N
  <2>1. N \in S
    BY <1>1, <1>16
  <2> QED
    BY <2>1
<1>18. /\ F[N].chosen \in Seq(Candidates) /\ F[N].left \in Nat
       /\ CostsOf(F[N].chosen) \in Seq(Nat)
       /\ Total(CostsOf(F[N].chosen)) + F[N].left = left
  BY <1>17 DEF D, Picked
<1>19. Total(CostsOf(F[N].chosen)) <= left
  <2>1. Total(CostsOf(F[N].chosen)) \in Nat
    BY <1>18, TotalIs
  <2> QED
    BY <1>18, <2>1
<1> QED
  BY <1>4, <1>17, <1>18, <1>19 DEF DecoysFit, N

---------------------------------------------------------------------------------
(* The text among the decoys.                                                  *)

(* A sequence in two parts.                                                    *)
InTwo(T, s, i, a, b) ==
  /\ a \in Seq(T) /\ Len(a) = i - 1
  /\ \A k \in 1..(i - 1) : a[k] = s[k]
  /\ b \in Seq(T) /\ Len(b) = Len(s) - i + 1
  /\ \A k \in 1..(Len(s) - i + 1) : b[k] = s[i + k - 1]

LEMMA CutInTwo ==
  ASSUME NEW T, NEW s \in Seq(T), NEW i \in 1..(Len(s) + 1)
  PROVE  InTwo(T, s, i, SubSeq(s, 1, i - 1), SubSeq(s, i, Len(s)))
<1> DEFINE N == Len(s)
           a == SubSeq(s, 1, i - 1)
           b == SubSeq(s, i, N)
<1>1. N \in Nat /\ i \in Nat \ {0} /\ i <= N + 1
  BY LenProperties
<1>2. \A k \in 1..N : s[k] \in T
  BY ElementOfSeq
<1> HIDE DEF N
<1>3. /\ a \in Seq(T) /\ Len(a) = i - 1
      /\ \A k \in 1..(i - 1) : a[k] = s[k]
  <2>1. \A k \in 1..(i - 1) : s[k] \in T
    BY <1>1, <1>2
  <2>2. 1 \in Int /\ i - 1 \in Int
    BY <1>1
  <2>3. /\ a \in Seq(T)
        /\ Len(a) = IF 1 <= i - 1 THEN i - 1 - 1 + 1 ELSE 0
        /\ \A k \in 1..(i - 1 - 1 + 1) : a[k] = s[1 + k - 1]
    BY <2>1, <2>2, SubSeqProperties
  <2>4. i - 1 - 1 + 1 = i - 1 /\ \A k \in 1..(i - 1) : 1 + k - 1 = k
    BY <1>1
  <2> HIDE DEF a
  <2> QED
    BY <1>1, <2>3, <2>4
<1>4. /\ b \in Seq(T) /\ Len(b) = N - i + 1
      /\ \A k \in 1..(N - i + 1) : b[k] = s[i + k - 1]
  <2>1. \A k \in i..N : s[k] \in T
    BY <1>1, <1>2
  <2>2. N \in Int /\ i \in Int
    BY <1>1
  <2>3. /\ b \in Seq(T)
        /\ Len(b) = IF i <= N THEN N - i + 1 ELSE 0
        /\ \A k \in 1..(N - i + 1) : b[k] = s[i + k - 1]
    BY <2>1, <2>2, SubSeqProperties
  <2> HIDE DEF b
  <2> QED
    BY <1>1, <2>3
<1> QED
  BY <1>3, <1>4 DEF InTwo, N

Inserted(s, i, x, r) ==
  /\ Len(r) = Len(s) + 1
  /\ r[i] = x
  /\ \A k \in 1..(i - 1) : r[k] = s[k]
  /\ \A k \in i..Len(s) : r[k + 1] = s[k]

LEMMA InsertedAt ==
  ASSUME NEW T, NEW s \in Seq(T), NEW x \in T, NEW i \in 1..(Len(s) + 1)
  PROVE  /\ InsertAt(s, i, x) \in Seq(T)
         /\ Inserted(s, i, x, InsertAt(s, i, x))
<1> DEFINE N == Len(s)
           a == SubSeq(s, 1, i - 1)
           b == SubSeq(s, i, N)
           o == <<x>>
           d == a \o o
           r == d \o b
<1>1. N \in Nat /\ i \in Nat \ {0} /\ i <= N + 1
  BY LenProperties
<1> HIDE DEF N
<1>2. InTwo(T, s, i, a, b)
  BY CutInTwo DEF N
<1> HIDE DEF a, b
<1>3. /\ a \in Seq(T) /\ Len(a) = i - 1
      /\ \A k \in 1..(i - 1) : a[k] = s[k]
  BY <1>2 DEF InTwo
<1>4. /\ b \in Seq(T) /\ Len(b) = N - i + 1
      /\ \A k \in 1..(N - i + 1) : b[k] = s[i + k - 1]
  BY <1>2 DEF InTwo, N
<1>5. o \in Seq(T) /\ Len(o) = 1 /\ o[1] = x
  OBVIOUS
<1> HIDE DEF o
<1>6. a \in Seq(T) /\ b \in Seq(T) /\ o \in Seq(T)
  BY <1>3, <1>4, <1>5
<1>7. /\ d \in Seq(T) /\ Len(d) = Len(a) + Len(o)
      /\ \A k \in 1..Len(a) : k \in 1..Len(d) /\ d[k] = a[k]
      /\ \A k \in 1..Len(o) : Len(a) + k \in 1..Len(d) /\ d[Len(a) + k] = o[k]
  <2>1. a \in Seq(T) /\ o \in Seq(T)
    BY <1>6
  <2> QED
    BY <2>1, ConcatAt
<1> HIDE DEF d
<1>8. Len(d) = i /\ d[i] = x /\ \A k \in 1..(i - 1) : d[k] = s[k]
  <2>1. Len(d) = i
    BY <1>1, <1>3, <1>5, <1>7
  <2>2. Len(a) + 1 = i /\ 1 \in 1..Len(o)
    BY <1>1, <1>3, <1>5
  <2>3. d[Len(a) + 1] = o[1]
    BY <1>7, <2>2
  <2> QED
    BY <1>3, <1>5, <1>7, <2>1, <2>2, <2>3
<1>9. /\ r \in Seq(T) /\ Len(r) = Len(d) + Len(b)
      /\ \A k \in 1..Len(d) : k \in 1..Len(r) /\ r[k] = d[k]
      /\ \A k \in 1..Len(b) : Len(d) + k \in 1..Len(r) /\ r[Len(d) + k] = b[k]
  <2>1. d \in Seq(T) /\ b \in Seq(T)
    BY <1>4, <1>7
  <2> QED
    BY <2>1, ConcatAt
<1>10. InsertAt(s, i, x) = r
  BY DEF InsertAt, a, b, o, d, N
<1> HIDE DEF r
<1>11. Len(r) = N + 1
  BY <1>1, <1>4, <1>8, <1>9
<1>12. r[i] = x /\ \A k \in 1..(i - 1) : r[k] = s[k]
  BY <1>1, <1>8, <1>9
<1>13. ASSUME NEW k \in i..N PROVE r[k + 1] = s[k]
  <2>1. k - i + 1 \in 1..(N - i + 1) /\ i + (k - i + 1) - 1 = k /\ i + (k - i + 1) = k + 1
    BY <1>1
  <2>2. r[i + (k - i + 1)] = b[k - i + 1] /\ b[k - i + 1] = s[i + (k - i + 1) - 1]
    BY <1>4, <1>8, <1>9, <2>1
  <2> QED
    BY <2>1, <2>2
<1> QED
  BY <1>9, <1>10, <1>11, <1>12, <1>13 DEF Inserted, N

LEMMA TotalInsert ==
  ASSUME NEW s \in Seq(Nat), NEW i \in 1..(Len(s) + 1), NEW x \in Nat
  PROVE  Total(InsertAt(s, i, x)) = Total(s) + x
<1> DEFINE N == Len(s)
           a == SubSeq(s, 1, i - 1)
           b == SubSeq(s, i, N)
           o == <<x>>
<1>1. N \in Nat /\ i \in Nat \ {0} /\ i <= N + 1
  BY LenProperties
<1> HIDE DEF N
<1>2. InTwo(Nat, s, i, a, b)
  BY CutInTwo DEF N
<1> HIDE DEF a, b
<1>3. /\ a \in Seq(Nat) /\ Len(a) = i - 1
      /\ \A k \in 1..(i - 1) : a[k] = s[k]
  BY <1>2 DEF InTwo
<1>4. /\ b \in Seq(Nat) /\ Len(b) = N - i + 1
      /\ \A k \in 1..(N - i + 1) : b[k] = s[i + k - 1]
  BY <1>2 DEF InTwo, N
<1>5. o \in Seq(Nat) /\ Total(o) = x
  BY TotalOne
<1>6. InsertAt(s, i, x) = (a \o o) \o b
  BY DEF InsertAt, a, b, o, N
<1> HIDE DEF o
<1> DEFINE c == a \o b
           d == a \o o
<1>7. c = s
  <2>1. /\ c \in Seq(Nat) /\ Len(c) = Len(a) + Len(b)
        /\ \A k \in 1..Len(a) : k \in 1..Len(c) /\ c[k] = a[k]
        /\ \A k \in 1..Len(b) : Len(a) + k \in 1..Len(c) /\ c[Len(a) + k] = b[k]
    <3>1. a \in Seq(Nat) /\ b \in Seq(Nat)
      BY <1>3, <1>4
    <3> QED
      BY <3>1, ConcatAt
  <2> HIDE DEF c
  <2>2. Len(c) = N
    BY <1>1, <1>3, <1>4, <2>1
  <2>3. ASSUME NEW k \in 1..N PROVE c[k] = s[k]
    <3>1. CASE k < i
      BY <1>1, <1>3, <2>1, <3>1
    <3>2. CASE k >= i
      <4>1. /\ k - i + 1 \in 1..(N - i + 1) /\ i + (k - i + 1) - 1 = k
            /\ (i - 1) + (k - i + 1) = k
        BY <1>1, <3>2
      <4>2. /\ c[(i - 1) + (k - i + 1)] = b[k - i + 1]
            /\ b[k - i + 1] = s[i + (k - i + 1) - 1]
        BY <1>3, <1>4, <2>1, <4>1
      <4> QED
        BY <4>1, <4>2
    <3> QED
      BY <1>1, <3>1, <3>2
  <2> QED
    BY <2>1, <2>2, <2>3, SeqEqual DEF N
<1>8. d \in Seq(Nat)
  BY <1>3, <1>5, ConcatProperties
<1>9. Total(c) = Total(a) + Total(b)
  BY <1>3, <1>4, TotalConcat
<1>10. Total(d) = Total(a) + Total(o)
  BY <1>3, <1>5, TotalConcat
<1>11. Total(d \o b) = Total(d) + Total(b)
  BY <1>4, <1>8, TotalConcat
<1>12. Total(a) \in Nat /\ Total(b) \in Nat
  BY <1>3, <1>4, TotalIs
<1>13. Total(d \o b) = Total(s) + x
  BY <1>5, <1>7, <1>9, <1>10, <1>11, <1>12
<1> QED
  BY <1>6, <1>13

(* What a list is made of can be told from it.                                 *)
Listed(s) == s \in Seq({s[i] : i \in DOMAIN s})

LEMMA ListedIs ==
  ASSUME NEW T, NEW s \in Seq(T)
  PROVE  Listed(s) /\ RecordsAre(s)
<1>1. Len(s) \in Nat /\ DOMAIN s = 1..Len(s) /\ s = [i \in 1..Len(s) |-> s[i]]
  BY LenProperties
<1> DEFINE R == {s[i] : i \in DOMAIN s}
<1>2. \A i \in 1..Len(s) : s[i] \in R
  BY <1>1
<1> HIDE DEF R
<1>3. s \in [1..Len(s) -> R]
  BY <1>1, <1>2
<1>4. s \in Seq(R)
  BY <1>1, <1>3, SeqDef
<1> QED
  BY <1>1, <1>4 DEF Listed, RecordsAre, R

Fakes(decoys, chosen) ==
  [i \in DOMAIN decoys |-> [id |-> decoys[i].id, values |-> chosen[i]]]

(* A decoy is a record of the corpus that can be written and is no text.       *)
LEMMA FakesAre ==
  ASSUME NEW left, NEW decoys, DecoysFit(decoys, left), NEW chosen,
         \A i \in DOMAIN decoys : chosen[i] \in DecoyValues(decoys[i])
  PROVE  /\ Len(decoys) \in Nat /\ DOMAIN decoys = 1..Len(decoys)
         /\ RecordsAre(Fakes(decoys, chosen))
         /\ Len(Fakes(decoys, chosen)) = Len(decoys)
         /\ \A i \in 1..Len(decoys) :
              /\ Writable(Fakes(decoys, chosen)[i])
              /\ Acceptable(Fakes(decoys, chosen)[i], FALSE)
              /\ Fakes(decoys, chosen)[i].id # TEXT
              /\ RecordSize(Fakes(decoys, chosen)[i]) = Payload(decoys[i])
<1> DEFINE N == Len(decoys)
           f == Fakes(decoys, chosen)
<1>1. N \in Nat /\ DOMAIN decoys = 1..N /\ \A i \in 1..N : decoys[i] \in Candidates
  <2>1. decoys \in Seq(Candidates)
    BY DEF DecoysFit
  <2> QED
    BY <2>1, LenProperties, ElementOfSeq
<1> HIDE DEF N
<1>2. f = [i \in 1..N |-> [id |-> decoys[i].id, values |-> chosen[i]]]
  BY <1>1 DEF Fakes
<1> HIDE DEF f
<1>3. ASSUME NEW i \in 1..N
      PROVE  /\ Writable(f[i]) /\ Acceptable(f[i], FALSE) /\ f[i].id # TEXT
             /\ RecordSize(f[i]) = Payload(decoys[i])
  <2> DEFINE e == decoys[i]
  <2>1. e \in Corpus /\ e.status = "active" /\ e.slug # TEXT_SLUG
    BY <1>1 DEF Candidates
  <2>2. Known(e.id) /\ Entry(e.id) = e
    BY <2>1, EntryOf
  <2>3. chosen[i] \in DecoyValues(e)
    BY <1>1
  <2> HIDE DEF e
  <2>4. PICK r \in Records : /\ r.id = e.id /\ WriteParams(e, r.values) = "none"
                             /\ r.values = chosen[i]
    BY <2>3 DEF DecoyValues
  <2>5. f[i] = r
    <3>1. f[i] = [id |-> e.id, values |-> chosen[i]]
      BY <1>2 DEF e
    <3>2. r = [id |-> r.id, values |-> r.values]
      BY CallersAssumption
    <3> QED
      BY <2>4, <3>1, <3>2, Zenon
  <2>6. Writable(r)
    BY <2>2, <2>4, GivenIsWritable
  <2>7. Acceptable(r, FALSE)
    <3>1. CheckAll(e, r.values, FALSE) = "none"
      BY CheckAllIs
    <3> QED
      BY <2>1, <2>2, <2>4, <3>1 DEF Acceptable
  <2>8. r.id # TEXT
    BY <2>1, <2>4, TextEntryIs
  <2>9. RecordSize(r) = Payload(e)
    BY <2>2, <2>4 DEF RecordSize
  <2> QED
    BY <2>5, <2>6, <2>7, <2>8, <2>9 DEF e
<1>4. RecordsAre(f) /\ Len(f) = N
  <2> DEFINE R == {f[i] : i \in 1..N}
  <2>1. f \in [1..N -> R]
    BY <1>2
  <2> HIDE DEF R
  <2>2. f \in Seq(R) /\ Len(f) = N
    BY <1>1, <2>1, TupleIs
  <2> QED
    BY <2>2, ListedIs
<1> QED
  BY <1>1, <1>3, <1>4 DEF N, f

(* What encrypt_hidden writes is a chain that can be written, with one text.   *)
OneText(records, text) ==
  \E i \in DOMAIN records :
    TextsIn(records) = {i} /\ TextOf(records[i].values) = text
WrittenChain(records, check) ==
  /\ Listed(records) /\ RecordsAre(records)
  /\ \A i \in 1..Len(records) : Writable(records[i])
  /\ ChainAcceptable(records, check)

LEMMA HiddenFits ==
  ASSUME NEW decoys, DecoysFit(decoys, BODY - (2 + Payload(TextEntry))), NEW chosen,
         \A i \in DOMAIN decoys : chosen[i] \in DecoyValues(decoys[i]),
         NEW text, NEW t, TextIn(t, text), NEW place \in 1..(Len(decoys) + 1)
  PROVE  /\ WrittenChain(InsertAt(Fakes(decoys, chosen), place, t), FALSE)
         /\ OneText(InsertAt(Fakes(decoys, chosen), place, t), text)
<1> DEFINE N == Len(decoys)
           left == BODY - (2 + Payload(TextEntry))
           f == Fakes(decoys, chosen)
           r == InsertAt(f, place, t)
           T == {f[i] : i \in 1..N} \cup {t}
<1>1. /\ N \in Nat /\ DOMAIN decoys = 1..N
      /\ RecordsAre(f) /\ Len(f) = N
      /\ \A i \in 1..N : /\ Writable(f[i]) /\ Acceptable(f[i], FALSE)
                         /\ f[i].id # TEXT /\ RecordSize(f[i]) = Payload(decoys[i])
  BY FakesAre
<1>2. /\ Writable(t) /\ t.id = TEXT /\ TextOf(t.values) = text
      /\ Acceptable(t, FALSE) /\ RecordSize(t) = Payload(TextEntry)
  <2>1. Entry(TEXT) = TextEntry /\ Known(TEXT) /\ TextEntry.status = "active"
    BY TextEntryIs, TextAssumption
  <2>2. CheckAll(Entry(t.id), t.values, FALSE) = "none"
    BY CheckAllIs
  <2> QED
    BY <2>1, <2>2 DEF TextIn, Acceptable, RecordSize
<1> HIDE DEF f, N
<1>3. place \in 1..(N + 1) /\ place \in Nat \ {0} /\ place <= N + 1
  BY <1>1 DEF N
<1>4. f \in Seq(T) /\ t \in T
  <2>1. \A i \in 1..N : f[i] \in T
    OBVIOUS
  <2>2. DOMAIN f = 1..N /\ f = [i \in 1..N |-> f[i]]
    <3>1. f = [i \in DOMAIN f |-> f[i]]
      BY DEF f, Fakes
    <3> QED
      BY <1>1, <3>1 DEF RecordsAre
  <2>3. t \in T
    OBVIOUS
  <2> HIDE DEF T
  <2>4. f \in [1..N -> T]
    BY <2>1, <2>2
  <2> QED
    BY <1>1, <2>3, <2>4, SeqDef
<1> HIDE DEF T
<1>5. r \in Seq(T) /\ Inserted(f, place, t, r)
  BY <1>1, <1>3, <1>4, InsertedAt
<1> HIDE DEF r
<1>6. /\ Len(r) = N + 1 /\ r[place] = t
      /\ \A k \in 1..(place - 1) : r[k] = f[k]
      /\ \A k \in place..N : r[k + 1] = f[k]
  BY <1>1, <1>5 DEF Inserted
<1>7. Listed(r) /\ RecordsAre(r)
  BY <1>5, ListedIs
<1>8. ASSUME NEW k \in 1..(N + 1), k # place
      PROVE  \E i \in 1..N : r[k] = f[i]
  <2>1. CASE k < place
    <3>1. k \in 1..(place - 1) /\ k \in 1..N
      BY <1>1, <1>3, <2>1
    <3> QED
      BY <1>6, <3>1
  <2>2. CASE k > place
    <3>1. k - 1 \in place..N /\ k - 1 \in 1..N /\ (k - 1) + 1 = k
      BY <1>1, <1>3, <2>2
    <3> QED
      BY <1>6, <3>1
  <2> QED
    BY <1>3, <1>8, <2>1, <2>2
<1>9. \A k \in 1..(N + 1) : /\ Writable(r[k]) /\ Acceptable(r[k], FALSE)
                            /\ r[k].id = TEXT <=> k = place
  <2> TAKE k \in 1..(N + 1)
  <2>1. CASE k = place
    BY <1>2, <1>6, <2>1
  <2>2. CASE k # place
    <3>1. PICK i \in 1..N : r[k] = f[i]
      BY <1>8, <2>2
    <3> QED
      BY <1>1, <2>2, <3>1
  <2> QED
    BY <2>1, <2>2
<1>10. OneText(r, text)
  <2>1. DOMAIN r = 1..(N + 1)
    BY <1>6, <1>7 DEF RecordsAre
  <2>2. TextsIn(r) = {place}
    <3>1. TextsIn(r) = {k \in 1..(N + 1) : r[k].id = TEXT}
      BY <2>1 DEF TextsIn
    <3>2. \A k \in 1..(N + 1) : r[k].id = TEXT <=> k = place
      BY <1>9
    <3>3. place \in 1..(N + 1)
      BY <1>3
    <3> QED
      BY <3>1, <3>2, <3>3, Zenon
  <2> QED
    BY <1>2, <1>3, <1>6, <2>1, <2>2 DEF OneText
<1>11. Len(r) \in 1..MAX_RECORDS
  <2>1. N <= Cardinality(Candidates)
    BY DEF DecoysFit, N
  <2>2. /\ Cardinality(Candidates) \in Nat
        /\ Cardinality(Candidates) + 1 <= MAX_RECORDS
    BY CandidatesAre
  <2>3. MAX_RECORDS \in Nat
    BY WidthAssumption DEF MAX_RECORDS
  <2> QED
    BY <1>1, <1>6, <2>1, <2>2, <2>3
<1>12. \A i \in 1..Len(r) : Known(r[i].id)
  BY <1>6, <1>9 DEF Writable
<1> DEFINE a == ChainSizes(f)
           b == ChainSizes(r)
           x == 1 + RecordSize(t)
           c == InsertAt(a, place, x)
<1>13. /\ a \in Seq(Nat) /\ Len(a) = N
       /\ \A i \in 1..N : a[i] = 1 + RecordSize(f[i])
  BY <1>1, ChainSizesAre DEF Writable
<1>14. /\ b \in Seq(Nat) /\ Len(b) = N + 1
       /\ \A i \in 1..(N + 1) : b[i] = 1 + RecordSize(r[i])
       /\ ChainCost(Entries(r)) = 1 + Total(b)
  BY <1>6, <1>7, <1>12, ChainSizesAre
<1>15. x \in Nat /\ RecordSize(t) \in Nat
  BY <1>2, RecordCellsAre
<1>16. c \in Seq(Nat) /\ Inserted(a, place, x, c)
  <2> HIDE DEF a, x
  <2> QED
    BY <1>3, <1>13, <1>15, InsertedAt
<1>17. Total(c) = Total(a) + x
  <2> HIDE DEF a, x
  <2> QED
    BY <1>3, <1>13, <1>15, TotalInsert
<1> HIDE DEF a, b, c
<1>18. b = c
  <2>1. /\ Len(c) = N + 1 /\ c[place] = x
        /\ \A k \in 1..(place - 1) : c[k] = a[k]
        /\ \A k \in place..N : c[k + 1] = a[k]
    BY <1>13, <1>16 DEF Inserted
  <2>2. ASSUME NEW k \in 1..(N + 1) PROVE b[k] = c[k]
    <3>1. CASE k = place
      BY <1>6, <1>14, <2>1, <3>1
    <3>2. CASE k < place
      <4>1. k \in 1..(place - 1) /\ k \in 1..N
        BY <1>1, <1>3, <3>2
      <4> QED
        BY <1>6, <1>13, <1>14, <2>1, <4>1
    <3>3. CASE k > place
      <4>1. PICK m : m = k - 1
        OBVIOUS
      <4>2. m \in place..N /\ m \in 1..N /\ m + 1 = k
        BY <1>1, <1>3, <3>3, <4>1
      <4>3. r[k] = f[m] /\ c[k] = a[m]
        BY <1>6, <2>1, <4>2
      <4> QED
        BY <1>13, <1>14, <4>2, <4>3
    <3> QED
      BY <1>3, <3>1, <3>2, <3>3
  <2> QED
    BY <1>14, <1>16, <2>1, <2>2, SeqEqual
<1>19. Total(a) <= left /\ Total(a) \in Nat
  <2>1. a = CostsOf(decoys)
    <3>1. DOMAIN f = 1..N
      BY <1>1 DEF RecordsAre
    <3> QED
      BY <1>1, <3>1 DEF CostsOf, ChainSizes, a
  <2> QED
    BY <1>13, <2>1, TotalIs DEF DecoysFit
<1>20. ~ (ChainCost(Entries(r)) > BODY)
  <2>1. PICK y \in Nat, p \in Nat : y = Total(a) /\ p = Payload(TextEntry)
    BY <1>19, TextEntryIs
  <2>2. y <= BODY - (2 + p) /\ x = 1 + p
    BY <1>2, <1>19, <2>1
  <2>3. ChainCost(Entries(r)) = 1 + (y + x)
    BY <1>14, <1>17, <1>18, <2>1
  <2> HIDE DEF x
  <2>4. 1 + (y + (1 + p)) <= BODY
    BY <2>2, WidthAssumption
  <2> QED
    BY <2>2, <2>3, <2>4, WidthAssumption
<1>21. ChainAcceptable(r, FALSE)
  BY <1>6, <1>9, <1>11, <1>20 DEF ChainAcceptable
<1>22. WrittenChain(r, FALSE)
  BY <1>6, <1>7, <1>9, <1>21 DEF WrittenChain
<1> QED
  BY <1>10, <1>22 DEF r, f

---------------------------------------------------------------------------------
(* What a ciphertext carries, and the inductive invariant.                     *)

(* One formula, or many, as they were asked for.                               *)
CarriesOne(s, b) ==
  /\ s.how \in {"formula", "text"}
  /\ \E r : /\ s.records = <<r>>
            /\ Writable(r) /\ Allowed(r, s.check)
            /\ b.id = r.id /\ BodyWith(b.body, RecordCells(r))
            /\ s.how = "text" => TextIn(r, s.text) /\ s.check = TRUE
CarriesMany(s, b) ==
  /\ s.how \in {"chain", "hidden"}
  /\ WrittenChain(s.records, s.check)
  /\ b.id = CHAIN_ID /\ BodyWith(b.body, ChainCells(s.records))
  /\ s.how = "hidden" => OneText(s.records, s.text)

(* Who wrote it: the text modes leave the pre-key out.                         *)
WriterOf(s) == IF s.how \in {"formula", "chain"} THEN s.by ELSE TextEngine(s.by)
Carries(s, b) == /\ b.key = s.by.key /\ b.mask = SelectorMask(WriterOf(s))
                 /\ CarriesOne(s, b) \/ CarriesMany(s, b)

Hows == {"nothing", "formula", "text", "chain", "hidden"}
Asked(s) ==
  /\ s.how \in Hows /\ s.by \in Engines /\ s.check \in BOOLEAN
  /\ s.error \in {"none", "EncodingError", "CorpusError", "ConstraintViolation",
                  "PrekeyError"}
  /\ s.how \in {"text", "hidden"} => s.text \in Texts
  /\ s.how = "hidden" /\ Len(s.text) \in 1..Capacity => s.error = "none"

(* What a reader gets who takes the id for this one.                           *)
Result(b, refusal, how, engine, check, id) ==
  IF refusal # "none" THEN Fail("PrekeyError")
  ELSE IF engine.key # b.key THEN Fail("VerificationError")
  ELSE Opened(how, id, b.body, check)
ReadBy(how, engine, check, id) ==
  Reading(how, engine, check,
          Result(blob, ClosedError(ReadingEngine(how, engine)), how, engine, check, id))
ReadOnce ==
  \/ answer = Unread
  \/ /\ blob # NoBlob
     /\ \E how \in Methods, engine \in Engines, check \in BOOLEAN :
          /\ how = "app" => engine.prekey = NoPrekey
          /\ \E id \in Ids(blob, ReadingMask(how, engine)) :
               answer = ReadBy(how, engine, check, id)

IInv ==
  /\ closed \subseteq Prekeys
  /\ Asked(sent)
  /\ blob # NoBlob => Carries(sent, blob) /\ sent.error = "none"
  /\ ReadOnce

---------------------------------------------------------------------------------
(* Readings of a body.                                                         *)

LEMMA TextAnswerIs ==
  ASSUME NEW values
  PROVE  /\ TextAnswer(values).error \in {"none", "DecodeError"}
         /\ Utf8(TextOf(values)) => TextAnswer(values).error = "none"
         /\ TextAnswer(values).error = "none" => TextAnswer(values).text = TextOf(values)
<1> DEFINE good == [Answer(<<>>) EXCEPT !.text = TextOf(values)]
<1>1. good.error = "none" /\ good.text = TextOf(values)
  BY DEF Answer
<1>2. Fail("DecodeError").error = "DecodeError"
  BY FailIs
<1>3. TextAnswer(values) = IF Utf8(TextOf(values)) THEN good ELSE Fail("DecodeError")
  BY DEF TextAnswer
<1> HIDE DEF good
<1> QED
  BY <1>1, <1>2, <1>3

AnyErrors == {"none", "DecodeError", "CorpusError", "ConstraintViolation"}

LEMMA DecodeTyped ==
  ASSUME NEW id, NEW body \in Seq(Cells), Len(body) = BODY, NEW check \in BOOLEAN
  PROVE  /\ Decode(id, body, check).error \in AnyErrors
         /\ DecodeChain(id, body, check).error \in AnyErrors
<1>1. Fail("DecodeError").error = "DecodeError"
  BY FailIs
<1>2. \A a \in AnswersFrom(body) : a.error \in AnyErrors
  BY AnswersFromAre DEF Refusals, AnyErrors
<1>3. Decode(id, body, check).error \in AnyErrors
  <2>1. DecodeRecord(id, body, 1, check) \in AnswersFrom(body)
    BY DecodeRecordTyped
  <2>2. CASE id = CHAIN_ID
    BY <1>1, <2>2 DEF Decode, AnyErrors
  <2>3. CASE id # CHAIN_ID
    BY <1>2, <2>1, <2>3 DEF Decode
  <2> QED
    BY <2>2, <2>3
<1>4. DecodeChain(id, body, check).error \in AnyErrors
  <2>1. CASE id # CHAIN_ID \/ body[1] = 0
    <3>1. DecodeChain(id, body, check) = Fail("DecodeError")
      BY <2>1, Zenon DEF DecodeChain
    <3> QED
      BY <1>1, <3>1 DEF AnyErrors
  <2>2. CASE id = CHAIN_ID /\ body[1] # 0
    <3>1. /\ body[1] \in Nat \ {0}
          /\ \E f : /\ Run(body, check, f)
                    /\ DecodeChain(CHAIN_ID, body, check) = f[body[1]].answer
      BY <2>2, RunExists
    <3>2. PICK f : /\ Run(body, check, f)
                   /\ DecodeChain(CHAIN_ID, body, check) = f[body[1]].answer
      BY <3>1
    <3>3. f[body[1]] \in States(body)
      BY <3>1, <3>2 DEF Run
    <3>4. f[body[1]].answer \in AnswersFrom(body)
      BY <3>3 DEF States
    <3> QED
      BY <1>2, <2>2, <3>2, <3>4
  <2> QED
    BY <2>1, <2>2
<1> QED
  BY <1>3, <1>4

LEMMA OpenedTyped ==
  ASSUME NEW id, NEW body \in Seq(Cells), Len(body) = BODY, NEW check \in BOOLEAN,
         NEW how \in Methods
  PROVE  Opened(how, id, body, check).error \in AnyErrors
<1>1. /\ Decode(id, body, check).error \in AnyErrors
      /\ Decode(id, body, TRUE).error \in AnyErrors
      /\ DecodeChain(id, body, check).error \in AnyErrors
      /\ DecodeChain(id, body, FALSE).error \in AnyErrors
  BY DecodeTyped
<1>2. Fail("DecodeError").error \in AnyErrors
  BY FailIs DEF AnyErrors
<1>3. \A values : TextAnswer(values).error \in AnyErrors
  BY TextAnswerIs DEF AnyErrors
<1>4. IsChain(id, body).error \in AnyErrors
  BY DEF IsChain, Answer, AnyErrors
<1>5. DecryptText(id, body).error \in AnyErrors
  BY <1>1, <1>2, <1>3 DEF DecryptText
<1>6. DecryptHidden(id, body).error \in AnyErrors
  BY <1>1, <1>2, <1>3 DEF DecryptHidden
<1>7. AppDecrypt(id, body).error \in AnyErrors
  BY <1>5, <1>6 DEF AppDecrypt
<1>8. \/ how = "decode" \/ how = "decode_chain" \/ how = "is_chain"
      \/ how = "decrypt_text" \/ how = "decrypt_hidden" \/ how = "app"
  BY DEF Methods
<1> QED
  BY <1>1, <1>4, <1>5, <1>6, <1>7, <1>8 DEF Opened

(* One formula, read by every method.                                          *)
OneIsRead(r, body) ==
  /\ \A check \in BOOLEAN :
       Decode(r.id, body, check) =
         IF Allowed(r, check) THEN Answer(<<r>>) ELSE Fail("ConstraintViolation")
  /\ \A check \in BOOLEAN : DecodeChain(r.id, body, check).error = "DecodeError"
  /\ IsChain(r.id, body).chain = FALSE
  /\ DecryptHidden(r.id, body).error = "DecodeError"
  /\ DecryptText(r.id, body) =
       IF ~Allowed(r, TRUE) THEN Fail("ConstraintViolation")
       ELSE IF r.id = TEXT THEN TextAnswer(r.values) ELSE Fail("DecodeError")
  /\ AppDecrypt(r.id, body) = DecryptText(r.id, body)

LEMMA OneRead ==
  ASSUME NEW r, Writable(r), NEW body, BodyWith(body, RecordCells(r))
  PROVE  OneIsRead(r, body)
<1>1. body \in Seq(Cells) /\ LiesAt(RecordCells(r), body, 1)
  BY DEF BodyWith
<1>2. r.id # CHAIN_ID
  BY RecordCellsAre
<1>3. \A check \in BOOLEAN :
        Decode(r.id, body, check) =
          IF Allowed(r, check) THEN Answer(<<r>>) ELSE Fail("ConstraintViolation")
  BY <1>1, <1>2, RecordRead DEF Decode
<1>4. /\ Fail("DecodeError").error = "DecodeError"
      /\ Fail("ConstraintViolation").error = "ConstraintViolation"
      /\ Answer(<<r>>).error = "none" /\ Answer(<<r>>).records = <<r>>
  BY FailIs, AnswerIs
<1>5. \A check : DecodeChain(r.id, body, check) = Fail("DecodeError")
  BY <1>2, Zenon DEF DecodeChain
<1>6. IsChain(r.id, body).chain = FALSE
  <2>1. DecodeChain(r.id, body, FALSE).error = "DecodeError"
    BY <1>4, <1>5
  <2> QED
    BY <2>1 DEF IsChain, Answer
<1>7. DecryptHidden(r.id, body).error = "DecodeError"
  <2>1. DecodeChain(r.id, body, FALSE).error = "DecodeError"
    BY <1>4, <1>5
  <2> QED
    BY <2>1 DEF DecryptHidden
<1>8. DecryptText(r.id, body) =
        IF ~Allowed(r, TRUE) THEN Fail("ConstraintViolation")
        ELSE IF r.id = TEXT THEN TextAnswer(r.values) ELSE Fail("DecodeError")
  <2> DEFINE a == Decode(r.id, body, TRUE)
  <2>1. a = IF Allowed(r, TRUE) THEN Answer(<<r>>) ELSE Fail("ConstraintViolation")
    BY <1>3
  <2>2. DecryptText(r.id, body) =
          IF a.error # "none" THEN a
          ELSE IF a.records[1].id # TEXT THEN Fail("DecodeError")
          ELSE TextAnswer(a.records[1].values)
    BY DEF DecryptText
  <2> HIDE DEF a
  <2>3. CASE Allowed(r, TRUE)
    <3>1. a.error = "none" /\ a.records[1] = r
      BY <1>4, <2>1, <2>3
    <3> QED
      BY <2>2, <2>3, <3>1
  <2>4. CASE ~Allowed(r, TRUE)
    <3>1. a.error # "none" /\ a = Fail("ConstraintViolation")
      BY <1>4, <2>1, <2>4
    <3> QED
      BY <2>2, <2>4, <3>1
  <2> QED
    BY <2>3, <2>4
<1>9. AppDecrypt(r.id, body) = DecryptText(r.id, body)
  BY <1>7 DEF AppDecrypt, DecodeErrors
<1> QED
  BY <1>3, <1>4, <1>5, <1>6, <1>7, <1>8, <1>9 DEF OneIsRead

(* A chain, read by every method.                                              *)
AllAllowed(records, check) == \A i \in 1..Len(records) : Allowed(records[i], check)
Least(records) == records[Min(TextsIn(records))]
ManyAreRead(records, body) ==
  /\ \A check \in BOOLEAN :
       DecodeChain(CHAIN_ID, body, check) =
         IF AllAllowed(records, check) THEN Answer(records)
         ELSE Fail("ConstraintViolation")
  /\ \A check \in BOOLEAN : Decode(CHAIN_ID, body, check).error = "DecodeError"
  /\ IsChain(CHAIN_ID, body).chain = TRUE
  /\ DecryptText(CHAIN_ID, body).error = "DecodeError"
  /\ DecryptHidden(CHAIN_ID, body) =
       IF TextsIn(records) = {} THEN Fail("DecodeError")
       ELSE TextAnswer(Least(records).values)
  /\ \/ AppDecrypt(CHAIN_ID, body) = DecryptHidden(CHAIN_ID, body)
     \/ /\ AppDecrypt(CHAIN_ID, body) = DecryptText(CHAIN_ID, body)
        /\ DecryptHidden(CHAIN_ID, body).error # "none"

LEMMA ManyRead ==
  ASSUME NEW records, NEW check \in BOOLEAN, WrittenChain(records, check),
         NEW body, BodyWith(body, ChainCells(records))
  PROVE  ManyAreRead(records, body)
<1> DEFINE T == {records[i] : i \in DOMAIN records}
<1>1. /\ body \in Seq(Cells) /\ Len(body) = BODY
      /\ LiesAt(ChainCells(records), body, 1)
  BY DEF BodyWith
<1>2. /\ records \in Seq(T) /\ Len(records) \in 1..MAX_RECORDS
      /\ \A i \in 1..Len(records) : Writable(records[i])
  BY DEF WrittenChain, Listed, ChainAcceptable
<1> HIDE DEF T
<1>3. \A c \in BOOLEAN :
        DecodeChain(CHAIN_ID, body, c) =
          IF AllAllowed(records, c) THEN Answer(records)
          ELSE Fail("ConstraintViolation")
  BY <1>1, <1>2, ChainRead DEF AllAllowed
<1>4. DecodeChain(CHAIN_ID, body, FALSE) = Answer(records)
  <2>1. AllAllowed(records, FALSE)
    BY CheckAllIs DEF AllAllowed, Allowed
  <2> QED
    BY <1>3, <2>1
<1>5. /\ Fail("DecodeError").error = "DecodeError"
      /\ Answer(records).error = "none" /\ Answer(records).records = records
  BY FailIs, AnswerIs
<1>6. \A c \in BOOLEAN : Decode(CHAIN_ID, body, c).error = "DecodeError"
  BY <1>5 DEF Decode
<1>7. IsChain(CHAIN_ID, body).chain = TRUE
  BY <1>4, <1>5 DEF IsChain, Answer
<1>8. DecryptText(CHAIN_ID, body).error = "DecodeError"
  <2>1. Decode(CHAIN_ID, body, TRUE).error = "DecodeError"
    BY <1>6
  <2> QED
    BY <2>1 DEF DecryptText
<1>9. DecryptHidden(CHAIN_ID, body) =
        IF TextsIn(records) = {} THEN Fail("DecodeError")
        ELSE TextAnswer(Least(records).values)
  <2> DEFINE a == DecodeChain(CHAIN_ID, body, FALSE)
  <2>1. a.error = "none" /\ a.records = records
    BY <1>4, <1>5
  <2>2. DecryptHidden(CHAIN_ID, body) =
          IF a.error # "none" THEN a
          ELSE IF TextsIn(a.records) = {} THEN Fail("DecodeError")
          ELSE TextAnswer(Least(a.records).values)
    BY DEF DecryptHidden, Least
  <2> HIDE DEF a
  <2> QED
    BY <2>1, <2>2
<1>10. \/ AppDecrypt(CHAIN_ID, body) = DecryptHidden(CHAIN_ID, body)
       \/ /\ AppDecrypt(CHAIN_ID, body) = DecryptText(CHAIN_ID, body)
          /\ DecryptHidden(CHAIN_ID, body).error # "none"
  BY DEF AppDecrypt, DecodeErrors
<1> QED
  BY <1>3, <1>6, <1>7, <1>8, <1>9, <1>10 DEF ManyAreRead

---------------------------------------------------------------------------------
(* A ciphertext gives what was sent.                                           *)

LEMMA LeastOfOne ==
  ASSUME NEW i \in Nat
  PROVE  Min({i}) = i
<1> DEFINE S == {i}
<1>1. S \subseteq Nat /\ S # {}
  OBVIOUS
<1> HIDE DEF S
<1>2. Min(S) \in S
  BY <1>1, LeastIs
<1> QED
  BY <1>2 DEF S

LEMMA FirstTextOfOne ==
  ASSUME NEW r, r.id = TEXT
  PROVE  FirstText(<<r>>) = TextOf(r.values)
<1> DEFINE s == <<r>>
<1>1. DOMAIN s = {1} /\ s[1] = r
  OBVIOUS
<1> HIDE DEF s
<1>2. TextsIn(s) = {1}
  BY <1>1 DEF TextsIn
<1>3. Min({1}) = 1
  BY LeastOfOne
<1>4. FirstText(s) = TextOf(s[Min(TextsIn(s))].values)
  BY <1>2 DEF FirstText
<1>5. s[Min(TextsIn(s))] = r
  BY <1>1, <1>2, <1>3
<1> QED
  BY <1>4, <1>5 DEF s

LEMMA TheOneText ==
  ASSUME NEW records, RecordsAre(records), NEW text, OneText(records, text)
  PROVE  TextsIn(records) # {} /\ TextOf(Least(records).values) = text
<1>1. PICK i \in DOMAIN records :
        TextsIn(records) = {i} /\ TextOf(records[i].values) = text
  BY DEF OneText
<1>2. i \in Nat
  BY DEF RecordsAre
<1>3. Min({i}) = i
  BY <1>2, LeastOfOne
<1>4. Least(records) = records[i]
  BY <1>1, <1>3 DEF Least
<1> QED
  BY <1>1, <1>4

TextSent(s) == IF s.how \in {"text", "hidden"} THEN s.text ELSE FirstText(s.records)
TrueAnswer(s, how, a) ==
  LET single == s.how \in {"formula", "text"}
  IN  CASE how = "decode"       -> single /\ a.records = s.records
        [] how = "decode_chain" -> ~single /\ a.records = s.records
        [] how = "is_chain"     -> a.chain = ~single
        [] OTHER                -> /\ a.text = TextSent(s)
                                   /\ how = "decrypt_text" => single
                                   /\ how = "decrypt_hidden" => ~single

LEMMA OneReadsTrue ==
  ASSUME NEW s, NEW b, CarriesOne(s, b), NEW how \in Methods, NEW check \in BOOLEAN,
         Opened(how, b.id, b.body, check).error = "none"
  PROVE  TrueAnswer(s, how, Opened(how, b.id, b.body, check))
<1> DEFINE a == Opened(how, b.id, b.body, check)
<1>1. s.how \in {"formula", "text"}
  BY DEF CarriesOne
<1>2. PICK r : /\ s.records = <<r>>
               /\ Writable(r) /\ Allowed(r, s.check)
               /\ b.id = r.id /\ BodyWith(b.body, RecordCells(r))
               /\ s.how = "text" => TextIn(r, s.text) /\ s.check = TRUE
  BY DEF CarriesOne
<1>3. OneIsRead(r, b.body)
  BY <1>2, OneRead
<1>4. a.error = "none"
  OBVIOUS
<1>5. CASE how = "decode"
  <2>1. a = Decode(r.id, b.body, check)
    BY <1>2, <1>5 DEF Opened
  <2>2. a = IF Allowed(r, check) THEN Answer(<<r>>) ELSE Fail("ConstraintViolation")
    BY <1>3, <2>1 DEF OneIsRead
  <2> HIDE DEF a
  <2>3. Fail("ConstraintViolation").error = "ConstraintViolation"
    BY FailIs
  <2>4. a = Answer(<<r>>)
    BY <1>4, <2>2, <2>3
  <2>5. a.records = s.records
    BY <1>2, <2>4, AnswerIs
  <2> QED
    BY <1>1, <1>5, <2>5 DEF TrueAnswer, a
<1>6. CASE how = "decode_chain"
  <2>1. a = DecodeChain(r.id, b.body, check)
    BY <1>2, <1>6 DEF Opened
  <2>2. a.error = "DecodeError"
    BY <1>3, <2>1 DEF OneIsRead
  <2> QED
    BY <1>4, <2>2
<1>7. CASE how = "is_chain"
  <2>1. a = IsChain(r.id, b.body)
    BY <1>2, <1>7 DEF Opened
  <2>2. a.chain = FALSE
    BY <1>3, <2>1 DEF OneIsRead
  <2> HIDE DEF a
  <2>3. a.chain = ~(s.how \in {"formula", "text"})
    BY <1>1, <2>2
  <2>4. TrueAnswer(s, how, a)
    BY <1>7, <2>3, Zenon DEF TrueAnswer
  <2> QED
    BY <2>4 DEF a
<1>8. CASE how = "decrypt_hidden"
  <2>1. a = DecryptHidden(r.id, b.body)
    BY <1>2, <1>8 DEF Opened
  <2>2. a.error = "DecodeError"
    BY <1>3, <2>1 DEF OneIsRead
  <2> QED
    BY <1>4, <2>2
<1>9. CASE how \in {"decrypt_text", "app"}
  <2>1. a = DecryptText(r.id, b.body)
    BY <1>2, <1>3, <1>9 DEF Opened, OneIsRead
  <2>2. a = IF ~Allowed(r, TRUE) THEN Fail("ConstraintViolation")
            ELSE IF r.id = TEXT THEN TextAnswer(r.values) ELSE Fail("DecodeError")
    BY <1>3, <2>1 DEF OneIsRead
  <2> HIDE DEF a
  <2>3. /\ Fail("ConstraintViolation").error = "ConstraintViolation"
        /\ Fail("DecodeError").error = "DecodeError"
    BY FailIs
  <2>4. r.id = TEXT /\ a = TextAnswer(r.values)
    BY <1>4, <2>2, <2>3 DEF a
  <2>5. a.text = TextOf(r.values)
    BY <1>4, <2>4, TextAnswerIs DEF a
  <2>6. TextSent(s) = TextOf(r.values)
    <3>1. CASE s.how = "text"
      BY <1>2, <3>1 DEF TextSent, TextIn
    <3>2. CASE s.how = "formula"
      <4>1. FirstText(s.records) = TextOf(r.values)
        BY <1>2, <2>4, FirstTextOfOne
      <4> QED
        BY <3>2, <4>1 DEF TextSent
    <3> QED
      BY <1>1, <3>1, <3>2
  <2>7. TrueAnswer(s, how, a)
    BY <1>1, <1>9, <2>5, <2>6 DEF TrueAnswer
  <2> QED
    BY <2>7 DEF a
<1> QED
  BY <1>5, <1>6, <1>7, <1>8, <1>9 DEF Methods

LEMMA ManyReadTrue ==
  ASSUME NEW s, s.check \in BOOLEAN, NEW b, CarriesMany(s, b),
         NEW how \in Methods, NEW check \in BOOLEAN,
         Opened(how, b.id, b.body, check).error = "none"
  PROVE  TrueAnswer(s, how, Opened(how, b.id, b.body, check))
<1> DEFINE a == Opened(how, b.id, b.body, check)
           records == s.records
<1>1. s.how \in {"chain", "hidden"}
  BY DEF CarriesMany
<1>2. /\ WrittenChain(records, s.check)
      /\ b.id = CHAIN_ID /\ BodyWith(b.body, ChainCells(records))
      /\ s.how = "hidden" => OneText(records, s.text)
  BY DEF CarriesMany
<1>3. ManyAreRead(records, b.body)
  BY <1>2, ManyRead
<1>4. a.error = "none"
  OBVIOUS
<1>a. RecordsAre(records)
  BY <1>2 DEF WrittenChain
<1> HIDE DEF records
<1>5. CASE how = "decode"
  <2>1. a = Decode(CHAIN_ID, b.body, check)
    BY <1>2, <1>5 DEF Opened
  <2>2. a.error = "DecodeError"
    BY <1>3, <2>1 DEF ManyAreRead
  <2> QED
    BY <1>4, <2>2
<1>6. CASE how = "decode_chain"
  <2>1. a = DecodeChain(CHAIN_ID, b.body, check)
    BY <1>2, <1>6 DEF Opened
  <2>2. a = IF AllAllowed(records, check) THEN Answer(records)
            ELSE Fail("ConstraintViolation")
    BY <1>3, <2>1 DEF ManyAreRead
  <2> HIDE DEF a
  <2>3. Fail("ConstraintViolation").error = "ConstraintViolation"
    BY FailIs
  <2>4. a = Answer(records)
    BY <1>4, <2>2, <2>3 DEF a
  <2>5. a.records = s.records
    BY <2>4, AnswerIs DEF records
  <2>6. TrueAnswer(s, how, a)
    BY <1>1, <1>6, <2>5 DEF TrueAnswer
  <2> QED
    BY <2>6 DEF a
<1>7. CASE how = "is_chain"
  <2>1. a = IsChain(CHAIN_ID, b.body)
    BY <1>2, <1>7 DEF Opened
  <2>2. a.chain = TRUE
    BY <1>3, <2>1 DEF ManyAreRead
  <2> HIDE DEF a
  <2>3. a.chain = ~(s.how \in {"formula", "text"})
    BY <1>1, <2>2
  <2>4. TrueAnswer(s, how, a)
    BY <1>7, <2>3, Zenon DEF TrueAnswer
  <2> QED
    BY <2>4 DEF a
<1>8. CASE how = "decrypt_text"
  <2>1. a = DecryptText(CHAIN_ID, b.body)
    BY <1>2, <1>8 DEF Opened
  <2>2. a.error = "DecodeError"
    BY <1>3, <2>1 DEF ManyAreRead
  <2> QED
    BY <1>4, <2>2
<1>9. CASE how \in {"decrypt_hidden", "app"}
  <2>1. a = DecryptHidden(CHAIN_ID, b.body)
    <3>1. CASE how = "decrypt_hidden"
      BY <1>2, <3>1 DEF Opened
    <3>2. CASE how = "app"
      <4>1. a = AppDecrypt(CHAIN_ID, b.body)
        BY <1>2, <3>2 DEF Opened
      <4> HIDE DEF a
      <4>2. DecryptText(CHAIN_ID, b.body).error = "DecodeError"
        BY <1>3 DEF ManyAreRead
      <4>3. AppDecrypt(CHAIN_ID, b.body) # DecryptText(CHAIN_ID, b.body)
        BY <1>4, <4>1, <4>2 DEF a
      <4> QED
        BY <1>3, <4>1, <4>3 DEF ManyAreRead
    <3> QED
      BY <1>9, <3>1, <3>2
  <2>2. a = IF TextsIn(records) = {} THEN Fail("DecodeError")
            ELSE TextAnswer(Least(records).values)
    BY <1>3, <2>1 DEF ManyAreRead
  <2> HIDE DEF a
  <2>3. Fail("DecodeError").error = "DecodeError"
    BY FailIs
  <2>4. TextsIn(records) # {} /\ a = TextAnswer(Least(records).values)
    BY <1>4, <2>2, <2>3 DEF a
  <2>5. a.text = TextOf(Least(records).values)
    BY <1>4, <2>4, TextAnswerIs DEF a
  <2>6. TextSent(s) = TextOf(Least(records).values)
    <3>1. CASE s.how = "hidden"
      BY <1>2, <1>a, <3>1, TheOneText DEF TextSent
    <3>2. CASE s.how = "chain"
      BY <2>4, <3>2 DEF TextSent, FirstText, Least, records
    <3> QED
      BY <1>1, <3>1, <3>2
  <2>7. TrueAnswer(s, how, a)
    BY <1>1, <1>9, <2>5, <2>6 DEF TrueAnswer
  <2> QED
    BY <2>7 DEF a
<1> QED
  BY <1>5, <1>6, <1>7, <1>8, <1>9 DEF Methods

(* The method for what was written reads it.                                   *)
LEMMA FittingReads ==
  ASSUME NEW s, NEW b, Asked(s), Carries(s, b), NEW how, how \in Fitting[s.how],
         NEW check \in BOOLEAN, s.check \/ ~check \/ s.how \in {"text", "hidden"}
  PROVE  Opened(how, b.id, b.body, check).error = "none"
<1>1. /\ s.check \in BOOLEAN
      /\ s.how \in {"text", "hidden"} => Utf8(s.text)
  BY CallersAssumption DEF Asked
<1>2. ASSUME CarriesOne(s, b) PROVE Opened(how, b.id, b.body, check).error = "none"
  <2>1. PICK r : /\ s.records = <<r>>
                 /\ Writable(r) /\ Allowed(r, s.check)
                 /\ b.id = r.id /\ BodyWith(b.body, RecordCells(r))
                 /\ s.how = "text" => TextIn(r, s.text) /\ s.check = TRUE
    BY <1>2 DEF CarriesOne
  <2>2. OneIsRead(r, b.body)
    BY <2>1, OneRead
  <2>3. CASE s.how = "formula"
    <3>1. how = "decode"
      BY <2>3 DEF Fitting
    <3>2. Allowed(r, check)
      BY <1>1, <2>1, <2>3, CheckAllIs DEF Allowed
    <3>3. Decode(r.id, b.body, check) = Answer(<<r>>)
      BY <2>2, <3>2 DEF OneIsRead
    <3> QED
      <4>1. Answer(<<r>>).error = "none"
        BY AnswerIs
      <4>2. Opened(how, b.id, b.body, check) = Decode(r.id, b.body, check)
        BY <2>1, <3>1 DEF Opened
      <4> QED
        BY <3>3, <4>1, <4>2
  <2>4. CASE s.how = "text"
    <3>1. how \in {"decrypt_text", "app"}
      BY <2>4 DEF Fitting
    <3>2. Allowed(r, TRUE) /\ r.id = TEXT /\ TextOf(r.values) = s.text
      BY <2>1, <2>4 DEF TextIn
    <3>3. DecryptText(r.id, b.body) = TextAnswer(r.values)
      BY <2>2, <3>2 DEF OneIsRead
    <3>4. TextAnswer(r.values).error = "none"
      BY <1>1, <2>4, <3>2, TextAnswerIs
    <3>5. AppDecrypt(r.id, b.body) = DecryptText(r.id, b.body)
      BY <2>2 DEF OneIsRead
    <3> QED
      BY <2>1, <3>1, <3>3, <3>4, <3>5 DEF Opened
  <2> QED
    BY <1>2, <2>3, <2>4 DEF CarriesOne
<1>3. ASSUME CarriesMany(s, b) PROVE Opened(how, b.id, b.body, check).error = "none"
  <2> DEFINE records == s.records
  <2>1. /\ WrittenChain(records, s.check)
        /\ b.id = CHAIN_ID /\ BodyWith(b.body, ChainCells(records))
        /\ s.how = "hidden" => OneText(records, s.text)
    BY <1>3 DEF CarriesMany
  <2>2. ManyAreRead(records, b.body)
    BY <1>1, <2>1, ManyRead
  <2>a. RecordsAre(records)
    BY <2>1 DEF WrittenChain
  <2> HIDE DEF records
  <2>3. CASE s.how = "chain"
    <3>1. how = "decode_chain"
      BY <2>3 DEF Fitting
    <3>2. AllAllowed(records, s.check)
      BY <2>1 DEF WrittenChain, ChainAcceptable, Acceptable, AllAllowed, Allowed
    <3>3. AllAllowed(records, check)
      BY <1>1, <2>3, <3>2, CheckAllIs DEF AllAllowed, Allowed
    <3>4. DecodeChain(CHAIN_ID, b.body, check) = Answer(records)
      BY <2>2, <3>3 DEF ManyAreRead
    <3> QED
      BY <2>1, <3>1, <3>4, AnswerIs DEF Opened
  <2>4. CASE s.how = "hidden"
    <3>1. how \in {"decrypt_hidden", "app"}
      BY <2>4 DEF Fitting
    <3>2. TextsIn(records) # {} /\ TextOf(Least(records).values) = s.text
      BY <2>1, <2>a, <2>4, TheOneText
    <3>3. DecryptHidden(CHAIN_ID, b.body) = TextAnswer(Least(records).values)
      BY <2>2, <3>2 DEF ManyAreRead
    <3>4. DecryptHidden(CHAIN_ID, b.body).error = "none"
      BY <1>1, <2>4, <3>2, <3>3, TextAnswerIs
    <3>5. AppDecrypt(CHAIN_ID, b.body) = DecryptHidden(CHAIN_ID, b.body)
      BY <2>2, <3>4 DEF ManyAreRead
    <3> QED
      BY <2>1, <3>1, <3>4, <3>5 DEF Opened
  <2> QED
    BY <1>3, <2>3, <2>4 DEF CarriesMany
<1> QED
  BY <1>2, <1>3 DEF Carries

---------------------------------------------------------------------------------
(* The invariant holds initially and every step keeps it.                      *)

LEMMA NothingIs == Nothing.by \in Engines /\ Asked(Nothing)
<1>1. \E e \in Engines : e.prekey = NoPrekey
  <2>1. PICK k \in Keys : NoPrekey # k
    BY SecretsAssumption
  <2> DEFINE e == [key |-> k, prekey |-> NoPrekey]
  <2>2. e \in Engines /\ e.prekey = NoPrekey
    BY <2>1 DEF Engines, IsIndependent
  <2> HIDE DEF e
  <2> QED
    BY <2>2
<1>2. Nothing.by \in Engines
  BY <1>1 DEF Nothing
<1>3. Nothing.how = "nothing" /\ Nothing.check = TRUE /\ Nothing.error = "none"
  BY DEF Nothing
<1>4. Nothing.check \in BOOLEAN
  BY <1>3
<1> QED
  BY <1>2, <1>3, <1>4 DEF Asked, Hows

LEMMA InitHolds == Init => IInv
BY NothingIs DEF Init, IInv, ReadOnce

LEMMA BareIs ==
  ASSUME NEW engine \in Engines
  PROVE  /\ Bare(engine) \in Engines
         /\ Bare(engine).key = engine.key /\ Bare(engine).prekey = NoPrekey
         /\ TextEngine(engine) = Bare(engine)
         /\ engine.key \in Keys /\ engine.prekey \in Prekeys \cup {NoPrekey}
<1>1. /\ engine \in [key : Keys, prekey : Prekeys \cup {NoPrekey}]
      /\ engine.key \in Keys /\ engine.prekey \in Prekeys \cup {NoPrekey}
  BY DEF Engines
<1>2. Bare(engine).key = engine.key /\ Bare(engine).prekey = NoPrekey
  BY <1>1 DEF Bare
<1>3. Bare(engine) \in [key : Keys, prekey : Prekeys \cup {NoPrekey}]
  BY <1>1 DEF Bare
<1>4. IsIndependent(NoPrekey, engine.key)
  BY <1>1, SecretsAssumption DEF IsIndependent
<1>5. Bare(engine) \in Engines
  BY <1>2, <1>3, <1>4 DEF Engines
<1> QED
  BY <1>1, <1>2, <1>5 DEF TextEngine

(* What every encryption leaves behind it.                                     *)
Kept == /\ closed' = closed /\ answer' = Unread
        /\ Asked(sent')
        /\ blob' # NoBlob => Carries(sent', blob') /\ sent'.error = "none"

SentAs(how, engine, records, text, check, error) ==
  [how |-> how, by |-> engine, records |-> records, text |-> text,
   check |-> check, error |-> error]

LEMMA Emitted ==
  ASSUME NEW how \in Hows, NEW engine \in Engines, NEW records, NEW text,
         NEW check \in BOOLEAN, NEW error, NEW writer, NEW id, NEW body,
         Asked(SentAs(how, engine, records, text, check, error)),
         error = "none" =>
           Carries(SentAs(how, engine, records, text, check, error),
                   Blob(writer, id, body)),
         Ask(how, engine, records, text, check, error),
         Emit(error, writer, id, body)
  PROVE  Kept
<1> DEFINE s == SentAs(how, engine, records, text, check, error)
           b == Blob(writer, id, body)
<1>1. sent' = s /\ answer' = Unread /\ closed' = closed
  BY DEF Ask, SentAs
<1>2. s.error = error
  BY DEF SentAs
<1>3. blob' = IF error = "none" THEN b ELSE NoBlob
  BY DEF Emit
<1>4. Asked(s) /\ (error = "none" => Carries(s, b))
  OBVIOUS
<1> HIDE DEF s, b
<1> QED
  BY <1>1, <1>2, <1>3, <1>4 DEF Kept

LEMMA ClosedErrorIs ==
  ASSUME NEW engine
  PROVE  /\ ClosedError(engine) \in {"none", "PrekeyError"}
         /\ ClosedError(engine) = "none" <=> engine.prekey \notin closed
BY DEF ClosedError, Raise

LEMMA WrongLengthIs ==
  ASSUME NEW text
  PROVE  /\ WrongLength(text) \in {"none", "EncodingError"}
         /\ WrongLength(text) = "none" <=> Len(text) \in 1..Capacity
BY DEF WrongLength, Raise

LEMMA FormulaKeeps ==
  ASSUME NEW engine \in Engines, NEW record \in Records, NEW check \in BOOLEAN,
         Encrypt(engine, record, check)
  PROVE  Kept
<1> DEFINE e == Entry(record.id)
           error == IF ~Known(record.id) THEN "CorpusError"
                    ELSE FirstError(<<EncodeError(e, record.values, check),
                                      ClosedError(engine)>>)
           s == SentAs("formula", engine, <<record>>, <<>>, check, error)
           body == Body(e, record.values)
           b == Blob(engine, record.id, body)
<1>1. /\ Ask("formula", engine, <<record>>, <<>>, check, error)
      /\ Emit(error, engine, record.id, body)
  BY DEF Encrypt
<1>2. Known(record.id) =>
        /\ error \in {"none", "EncodingError", "ConstraintViolation", "PrekeyError"}
        /\ error = "none" => /\ Payload(e) <= BODY
                             /\ CheckAll(e, record.values, check) = "none"
                             /\ WriteParams(e, record.values) = "none"
  <2> HAVE Known(record.id)
  <2> DEFINE p == EncodeError(e, record.values, check)
             q == ClosedError(engine)
  <2>1. e \in Corpus
    BY KnownIs
  <2>2. /\ p \in EncodeErrors
        /\ p = "none" => /\ Payload(e) <= BODY
                         /\ CheckAll(e, record.values, check) = "none"
                         /\ WriteParams(e, record.values) = "none"
    BY <2>1, EncodeErrorIs
  <2>3. q \in {"none", "PrekeyError"}
    BY ClosedErrorIs
  <2>4. error = FirstError(<<p, q>>)
    OBVIOUS
  <2> HIDE DEF e, p, q, error
  <2>5. /\ FirstError(<<p, q>>) = "none" <=> p = "none" /\ q = "none"
        /\ FirstError(<<p, q>>) \in {"none", p, q}
    BY FirstOfTwo
  <2> QED
    BY <2>2, <2>3, <2>4, <2>5 DEF EncodeErrors
<1>3. ~Known(record.id) => error = "CorpusError"
  OBVIOUS
<1> HIDE DEF error
<1>4. /\ s.how = "formula" /\ s.by = engine /\ s.records = <<record>>
      /\ s.text = <<>> /\ s.check = check /\ s.error = error
  BY DEF SentAs
<1>5. b.key = engine.key /\ b.mask = SelectorMask(engine) /\ b.id = record.id
      /\ b.body = body
  BY DEF Blob
<1> HIDE DEF s, b, body
<1>6. Asked(s)
  <2>1. error \in {"none", "EncodingError", "CorpusError", "ConstraintViolation",
                   "PrekeyError"}
    BY <1>2, <1>3
  <2> QED
    BY <1>4, <2>1 DEF Asked, Hows
<1>7. ASSUME error = "none" PROVE Carries(s, b)
  <2>1. /\ Known(record.id) /\ Payload(e) <= BODY
        /\ CheckAll(e, record.values, check) = "none"
        /\ WriteParams(e, record.values) = "none"
    BY <1>2, <1>3, <1>7
  <2>2. Writable(record)
    BY <2>1, GivenIsWritable
  <2>3. BodyWith(body, RecordCells(record))
    BY <2>1, <2>2, BodyIs DEF RecordSize, body
  <2>4. Allowed(record, check)
    BY <2>1 DEF Allowed
  <2> HIDE DEF e
  <2>5. CarriesOne(s, b)
    BY <1>4, <1>5, <2>2, <2>3, <2>4 DEF CarriesOne
  <2>6. WriterOf(s) = engine
    BY <1>4 DEF WriterOf
  <2> QED
    BY <1>4, <1>5, <2>5, <2>6 DEF Carries
<1>8. "formula" \in Hows
  BY DEF Hows
<1> HIDE DEF e
<1> QED
  BY <1>1, <1>6, <1>7, <1>8, Emitted DEF s, b

LEMMA ChainsAre ==
  ASSUME NEW records \in Chains
  PROVE  records \in Seq(Records)
<1>1. CASE \E n \in 0..MaxChain : records \in [1..n -> Records]
  <2>1. PICK n \in 0..MaxChain : records \in [1..n -> Records]
    BY <1>1
  <2>2. n \in Nat
    BY CallersAssumption
  <2> QED
    BY <2>1, <2>2, TupleIs
<1>2. CASE \E r \in Records : records = [i \in 1..(MAX_RECORDS + 1) |-> r]
  <2>1. MAX_RECORDS + 1 \in Nat
    BY WidthAssumption DEF MAX_RECORDS
  <2>2. records \in [1..(MAX_RECORDS + 1) -> Records]
    BY <1>2
  <2> QED
    BY <2>1, <2>2, TupleIs
<1> QED
  BY <1>1, <1>2 DEF Chains

LEMMA EncryptChainKeeps ==
  ASSUME NEW engine \in Engines, NEW records \in Chains, NEW check \in BOOLEAN,
         EncryptChain(engine, records, check)
  PROVE  Kept
<1> DEFINE p == ChainError(records, check)
           q == ClosedError(engine)
           error == FirstError(<<p, q>>)
           cells == ChainCells(records)
           body == cells \o Zeros(cells)
           s == SentAs("chain", engine, records, <<>>, check, error)
           b == Blob(engine, CHAIN_ID, body)
<1>1. /\ Ask("chain", engine, records, <<>>, check, error)
      /\ Emit(error, engine, CHAIN_ID, body)
  BY DEF EncryptChain
<1>2. records \in Seq(Records)
  BY ChainsAre
<1>3. /\ Listed(records) /\ RecordsAre(records)
      /\ \A i \in 1..Len(records) : records[i] \in Records
  BY <1>2, ListedIs, ElementOfSeq
<1>4. /\ p \in ChainErrors
      /\ p = "none" <=> ChainAcceptable(records, check)
  BY <1>3, ChainErrorIs
<1>5. q \in {"none", "PrekeyError"}
  BY ClosedErrorIs
<1> HIDE DEF p, q
<1>6. /\ FirstError(<<p, q>>) = "none" <=> p = "none" /\ q = "none"
      /\ FirstError(<<p, q>>) \in {"none", p, q}
  BY FirstOfTwo
<1>7. /\ error \in {"none", "EncodingError", "CorpusError", "ConstraintViolation",
                    "PrekeyError"}
      /\ error = "none" => ChainAcceptable(records, check)
  BY <1>4, <1>5, <1>6 DEF ChainErrors, EncodeErrors
<1> HIDE DEF error
<1>8. /\ s.how = "chain" /\ s.by = engine /\ s.records = records
      /\ s.text = <<>> /\ s.check = check /\ s.error = error
  BY DEF SentAs
<1>9. b.key = engine.key /\ b.mask = SelectorMask(engine) /\ b.id = CHAIN_ID
      /\ b.body = body
  BY DEF Blob
<1> HIDE DEF s, b
<1>10. Asked(s)
  BY <1>7, <1>8 DEF Asked, Hows
<1>11. ASSUME error = "none" PROVE Carries(s, b)
  <2>1. ChainAcceptable(records, check)
    BY <1>7, <1>11
  <2>2. \A i \in 1..Len(records) : Writable(records[i])
    BY <1>3, <2>1, GivenIsWritable DEF ChainAcceptable, Acceptable
  <2>3. cells \in Seq(Cells) /\ Len(cells) <= BODY
    BY <1>3, <2>1, <2>2, AcceptedCells
  <2>4. BodyWith(body, cells)
    <3> HIDE DEF cells
    <3> QED
      BY <2>3, ZerosAre
  <2>5. WrittenChain(records, check)
    BY <1>3, <2>1, <2>2 DEF WrittenChain
  <2> HIDE DEF body
  <2>6. CarriesMany(s, b)
    BY <1>8, <1>9, <2>4, <2>5 DEF CarriesMany
  <2>7. WriterOf(s) = engine
    BY <1>8 DEF WriterOf
  <2> QED
    BY <1>8, <1>9, <2>6, <2>7 DEF Carries
<1>12. "chain" \in Hows
  BY DEF Hows
<1> HIDE DEF body, cells
<1> QED
  BY <1>1, <1>10, <1>11, <1>12, Emitted DEF s, b

LEMMA TextIs ==
  ASSUME NEW text \in Texts
  PROVE  text \in Seq(Cells) /\ Utf8(text) /\ Len(text) \in Nat
BY CallersAssumption, LenProperties

LEMMA EncryptTextKeeps ==
  ASSUME NEW engine \in Engines, NEW text \in Texts, EncryptText(engine, text)
  PROVE  Kept
<1> DEFINE tail == [i \in 1..(Capacity - Len(text)) |-> 0]
           record == TextRecord(text, tail)
           p == WrongLength(text)
           q == EncodeError(TextEntry, record.values, TRUE)
           error == FirstError(<<p, q>>)
           body == Body(TextEntry, record.values)
           s == SentAs("text", engine, <<record>>, text, TRUE, error)
           b == Blob(TextEngine(engine), TEXT, body)
<1>1. /\ Ask("text", engine, <<record>>, text, TRUE, error)
      /\ Emit(error, TextEngine(engine), TEXT, body)
  BY DEF EncryptText
<1>2. /\ p \in {"none", "EncodingError"}
      /\ p = "none" <=> Len(text) \in 1..Capacity
  BY WrongLengthIs
<1>3. /\ q \in EncodeErrors
      /\ q = "none" => /\ Payload(TextEntry) <= BODY
                       /\ CheckAll(TextEntry, record.values, TRUE) = "none"
  <2>1. TextEntry \in Corpus /\ TRUE \in BOOLEAN
    BY TextEntryIs
  <2> HIDE DEF record
  <2> QED
    BY <2>1, EncodeErrorIs
<1> HIDE DEF p, q
<1>4. /\ FirstError(<<p, q>>) = "none" <=> p = "none" /\ q = "none"
      /\ FirstError(<<p, q>>) \in {"none", p, q}
  BY FirstOfTwo
<1>5. /\ error \in {"none", "EncodingError", "CorpusError", "ConstraintViolation",
                    "PrekeyError"}
      /\ error = "none" => /\ Len(text) \in 1..Capacity
                           /\ Payload(TextEntry) <= BODY
                           /\ CheckAll(TextEntry, record.values, TRUE) = "none"
  BY <1>2, <1>3, <1>4 DEF EncodeErrors
<1> HIDE DEF error
<1>6. Len(text) \in 1..Capacity => TextIn(record, text)
  <2> HAVE Len(text) \in 1..Capacity
  <2>1. text \in Seq(Cells) /\ Len(text) \in Nat /\ Capacity \in Nat
    BY TextIs, TextEntryIs
  <2>2. PICK n \in Nat : n = Capacity - Len(text)
    BY <2>1
  <2>3. tail \in [1..n -> Cells]
    BY <2>2, WidthAssumption DEF Cells
  <2> HIDE DEF tail
  <2>4. tail \in Seq(Cells) /\ Len(tail) = Capacity - Len(text)
    BY <2>2, <2>3, TupleIs
  <2> QED
    BY <2>1, <2>4, TextRecordIs
<1> HIDE DEF record
<1>7. /\ s.how = "text" /\ s.by = engine /\ s.records = <<record>>
      /\ s.text = text /\ s.check = TRUE /\ s.error = error
  BY DEF SentAs
<1>8. /\ b.key = TextEngine(engine).key /\ b.mask = SelectorMask(TextEngine(engine))
      /\ b.id = TEXT /\ b.body = body
  BY DEF Blob
<1> HIDE DEF s, b
<1>9. Asked(s)
  BY <1>5, <1>7 DEF Asked, Hows
<1>10. ASSUME error = "none" PROVE Carries(s, b)
  <2>1. TextIn(record, text) /\ Payload(TextEntry) <= BODY
    BY <1>5, <1>6, <1>10
  <2>2. Writable(record) /\ record.id = TEXT
    BY <2>1 DEF TextIn
  <2>3. Entry(record.id) = TextEntry
    BY <2>2, TextEntryIs
  <2>4. BodyWith(body, RecordCells(record))
    BY <2>1, <2>2, <2>3, BodyIs DEF RecordSize, body
  <2>5. Allowed(record, TRUE)
    BY <1>5, <1>10, <2>3 DEF Allowed
  <2>6. CarriesOne(s, b)
    BY <1>7, <1>8, <2>1, <2>2, <2>4, <2>5 DEF CarriesOne
  <2>7. WriterOf(s) = TextEngine(engine) /\ TextEngine(engine).key = engine.key
    BY <1>7, BareIs DEF WriterOf
  <2> QED
    BY <1>7, <1>8, <2>6, <2>7 DEF Carries
<1>11. "text" \in Hows /\ TRUE \in BOOLEAN
  BY DEF Hows
<1> HIDE DEF body
<1> QED
  BY <1>1, <1>9, <1>10, <1>11, Emitted DEF s, b

LEMMA HiddenRefusedKeeps ==
  ASSUME NEW engine \in Engines, NEW text \in Texts, HiddenRefused(engine, text)
  PROVE  Kept
<1> DEFINE error == WrongLength(text)
           s == SentAs("hidden", engine, <<>>, text, FALSE, error)
<1>1. /\ Ask("hidden", engine, <<>>, text, FALSE, error)
      /\ Emit(error, engine, CHAIN_ID, <<>>)
      /\ error # "none"
  BY DEF HiddenRefused
<1>2. error = "EncodingError" /\ Len(text) \notin 1..Capacity
  BY <1>1, WrongLengthIs
<1> HIDE DEF error
<1>3. /\ s.how = "hidden" /\ s.by = engine /\ s.text = text
      /\ s.check = FALSE /\ s.error = error
  BY DEF SentAs
<1> HIDE DEF s
<1>4. Asked(s)
  BY <1>2, <1>3 DEF Asked, Hows
<1>5. "hidden" \in Hows /\ FALSE \in BOOLEAN
  BY DEF Hows
<1> QED
  BY <1>1, <1>4, <1>5, Emitted DEF s

LEMMA EncryptHiddenKeeps ==
  ASSUME NEW engine \in Engines, NEW text \in Texts, NEW target,
         EncryptHidden(engine, text, target)
  PROVE  Kept
<1> DEFINE left == BODY - (2 + Payload(TextEntry))
           Values(decoys) == {f \in [DOMAIN decoys ->
                                       UNION {DecoyValues(e) : e \in Candidates}] :
                                \A i \in DOMAIN decoys : f[i] \in DecoyValues(decoys[i])}
<1>1. Len(text) \in 1..Capacity
  BY WrongLengthIs DEF EncryptHidden
<1>2. PICK order \in SetToSeqs(Candidates), tail \in Random(Capacity - Len(text)) :
        \E chosen \in Values(PickDecoys(order, left, target)),
           place \in 1..(Len(PickDecoys(order, left, target)) + 1) :
          LET decoys  == PickDecoys(order, left, target)
              records == InsertAt(Fakes(decoys, chosen), place, TextRecord(text, tail))
              cells   == ChainCells(records)
              error   == ChainError(records, FALSE)
          IN  /\ Ask("hidden", engine, records, text, FALSE, error)
              /\ \E padding \in Random(BODY - Len(cells)) :
                   Emit(error, TextEngine(engine), CHAIN_ID, cells \o padding)
  BY DEF EncryptHidden, Fakes
<1> DEFINE decoys == PickDecoys(order, left, target)
<1>3. DecoysFit(decoys, left)
  <2>1. left \in Nat
    BY TextEntryIs, WidthAssumption
  <2> QED
    BY <2>1, PickDecoysFit
<1>4. PICK chosen \in Values(decoys), place \in 1..(Len(decoys) + 1) :
        LET records == InsertAt(Fakes(decoys, chosen), place, TextRecord(text, tail))
            cells   == ChainCells(records)
            error   == ChainError(records, FALSE)
        IN  /\ Ask("hidden", engine, records, text, FALSE, error)
            /\ \E padding \in Random(BODY - Len(cells)) :
                 Emit(error, TextEngine(engine), CHAIN_ID, cells \o padding)
  BY <1>2
<1> HIDE DEF decoys
<1> DEFINE records == InsertAt(Fakes(decoys, chosen), place, TextRecord(text, tail))
           cells   == ChainCells(records)
           error   == ChainError(records, FALSE)
<1>5. PICK padding \in Random(BODY - Len(cells)) :
        /\ Ask("hidden", engine, records, text, FALSE, error)
        /\ Emit(error, TextEngine(engine), CHAIN_ID, cells \o padding)
  BY <1>4
<1>6. TextIn(TextRecord(text, tail), text)
  <2>1. text \in Seq(Cells) /\ Len(text) \in Nat /\ Capacity \in Nat
    BY TextIs, TextEntryIs
  <2>2. PICK n \in Nat : n = Capacity - Len(text)
    BY <1>1, <2>1
  <2>3. tail \in [1..n -> Cells]
    BY <2>2, CallersAssumption DEF Random
  <2>4. tail \in Seq(Cells) /\ Len(tail) = Capacity - Len(text)
    BY <2>2, <2>3, TupleIs
  <2> QED
    BY <1>1, <2>1, <2>4, TextRecordIs
<1>7. WrittenChain(records, FALSE) /\ OneText(records, text)
  <2>1. \A i \in DOMAIN decoys : chosen[i] \in DecoyValues(decoys[i])
    BY <1>4
  <2> QED
    BY <1>3, <1>6, <2>1, HiddenFits
<1> HIDE DEF records
<1>8. error = "none"
  BY <1>7, ChainErrorIs DEF WrittenChain
<1>9. cells \in Seq(Cells) /\ Len(cells) <= BODY
  BY <1>7, AcceptedCells DEF WrittenChain
<1> HIDE DEF cells, error
<1>10. BodyWith(cells \o padding, cells)
  <2>1. PICK n \in Nat : n = BODY - Len(cells)
    BY <1>9, LenProperties, WidthAssumption
  <2>2. padding \in [1..n -> Cells]
    BY <2>1, CallersAssumption DEF Random
  <2>3. padding \in Seq(Cells) /\ Len(padding) = BODY - Len(cells)
    BY <2>1, <2>2, TupleIs
  <2>4. Len(cells) + Len(padding) = BODY
    BY <1>9, <2>3, LenProperties, WidthAssumption
  <2>5. cells \in Seq(Cells) /\ padding \in Seq(Cells)
    BY <1>9, <2>3
  <2> QED
    BY <2>4, <2>5, PaddedBody
<1> DEFINE body == cells \o padding
           s == SentAs("hidden", engine, records, text, FALSE, error)
           b == Blob(TextEngine(engine), CHAIN_ID, body)
<1>11. /\ s.how = "hidden" /\ s.by = engine /\ s.records = records
       /\ s.text = text /\ s.check = FALSE /\ s.error = error
  BY DEF SentAs
<1>12. /\ b.key = TextEngine(engine).key /\ b.mask = SelectorMask(TextEngine(engine))
       /\ b.id = CHAIN_ID /\ b.body = body
  BY DEF Blob
<1>13. BodyWith(body, cells)
  BY <1>10
<1> HIDE DEF s, b, body
<1>14. Asked(s)
  BY <1>8, <1>11 DEF Asked, Hows
<1>15. Carries(s, b)
  <2>1. CarriesMany(s, b)
    BY <1>7, <1>11, <1>12, <1>13 DEF CarriesMany, cells
  <2>2. WriterOf(s) = TextEngine(engine) /\ TextEngine(engine).key = engine.key
    BY <1>11, BareIs DEF WriterOf
  <2> QED
    BY <1>11, <1>12, <2>1, <2>2 DEF Carries
<1>16. "hidden" \in Hows /\ FALSE \in BOOLEAN
  BY DEF Hows
<1>17. /\ Ask("hidden", engine, records, text, FALSE, error)
       /\ Emit(error, TextEngine(engine), CHAIN_ID, body)
  BY <1>5 DEF body, cells, error, records
<1> QED
  BY <1>14, <1>15, <1>16, <1>17, Emitted DEF s, b

LEMMA WriteKeeps == Write => Kept
<1> SUFFICES ASSUME Write PROVE Kept
  OBVIOUS
<1>1. PICK engine \in Engines :
        \/ \E record \in Records, check \in BOOLEAN : Encrypt(engine, record, check)
        \/ \E records \in Chains, check \in BOOLEAN :
             EncryptChain(engine, records, check)
        \/ \E text \in Texts : \/ EncryptText(engine, text)
                               \/ HiddenRefused(engine, text)
                               \/ \E target \in Targets :
                                    EncryptHidden(engine, text, target)
  BY DEF Write
<1> QED
  BY <1>1, FormulaKeeps, EncryptChainKeeps, EncryptTextKeeps, HiddenRefusedKeeps,
     EncryptHiddenKeeps

LEMMA NextKeeps == IInv /\ [Next]_vars => IInv'
<1> SUFFICES ASSUME IInv, [Next]_vars PROVE IInv'
  OBVIOUS
<1>1. /\ closed \subseteq Prekeys /\ Asked(sent) /\ ReadOnce
      /\ blob # NoBlob => Carries(sent, blob) /\ sent.error = "none"
  BY DEF IInv
<1>2. CASE sent = Nothing /\ Write
  <2>1. Kept
    BY <1>2, WriteKeeps
  <2> QED
    BY <1>1, <2>1 DEF Kept, IInv, ReadOnce, Unread
<1>3. ASSUME NEW how \in Methods, NEW engine \in Engines, NEW check \in BOOLEAN,
             Receive(how, engine, check)
      PROVE  IInv'
  <2>1. /\ blob # NoBlob /\ closed' = closed /\ sent' = sent /\ blob' = blob
        /\ how = "app" => engine.prekey = NoPrekey
    BY <1>3 DEF Receive
  <2>2. PICK id \in Ids(blob, ReadingMask(how, engine)) :
          answer' = ReadBy(how, engine, check, id)
    BY <1>3 DEF Receive, ReadBy, Result
  <2>3. ReadBy(how, engine, check, id)' = ReadBy(how, engine, check, id)
    BY <2>1 DEF ReadBy, ClosedError
  <2>4. ReadOnce'
    BY <2>1, <2>2, <2>3 DEF ReadOnce
  <2> QED
    BY <1>1, <2>1, <2>4 DEF IInv
<1>4. CASE Forget
  <2>1. /\ sent' = Nothing /\ blob' = NoBlob /\ answer' = Unread /\ closed' = closed
    BY <1>4 DEF Forget
  <2>2. Asked(Nothing)
    BY NothingIs
  <2> QED
    BY <1>1, <2>1, <2>2 DEF IInv, ReadOnce, Unread
<1>5. ASSUME NEW p \in Prekeys, ClosePrekey(p) PROVE IInv'
  <2>1. /\ answer = Unread /\ closed' = closed \cup {p}
        /\ sent' = sent /\ blob' = blob /\ answer' = answer
    BY <1>5 DEF ClosePrekey
  <2> QED
    BY <1>1, <2>1 DEF IInv, ReadOnce, Unread
<1>6. CASE UNCHANGED vars
  <2>1. closed' = closed /\ sent' = sent /\ blob' = blob /\ answer' = answer
    BY <1>6 DEF vars
  <2>2. ReadOnce'
    BY <1>1, <2>1 DEF ReadOnce, ReadBy, ClosedError, Unread
  <2> QED
    BY <1>1, <2>1, <2>2 DEF IInv
<1> QED
  BY <1>2, <1>3, <1>4, <1>5, <1>6 DEF Next

---------------------------------------------------------------------------------
(* What the invariant shows.                                                   *)

LEMMA CarriedIs ==
  ASSUME NEW s, NEW b, Asked(s), Carries(s, b)
  PROVE  /\ b.body \in Seq(Cells) /\ Len(b.body) = BODY
         /\ b.id \in Cells \ {0} /\ b.key = s.by.key
         /\ s.how \in {"formula", "text", "chain", "hidden"}
<1>1. b.key = s.by.key
  BY DEF Carries
<1>2. CASE CarriesOne(s, b)
  BY <1>1, <1>2, RecordCellsAre DEF CarriesOne, BodyWith
<1>3. CASE CarriesMany(s, b)
  <2>1. CHAIN_ID \in Cells \ {0}
    BY WidthAssumption DEF CHAIN_ID, Cells
  <2> QED
    BY <1>1, <1>3, <2>1 DEF CarriesMany, BodyWith
<1> QED
  BY <1>2, <1>3 DEF Carries

LEMMA ReadingIs ==
  ASSUME NEW how, NEW engine, NEW check, NEW a
  PROVE  /\ Reading(how, engine, check, a).how = how
         /\ Reading(how, engine, check, a).by = engine
         /\ Reading(how, engine, check, a).check = check
         /\ Reading(how, engine, check, a).error = a.error
         /\ Reading(how, engine, check, a).records = a.records
         /\ Reading(how, engine, check, a).text = a.text
         /\ Reading(how, engine, check, a).chain = a.chain
BY DEF Reading

LEMMA UnreadIs == Unread.how = "none" /\ Unread.error = "none" /\ Unread.by \in Engines
<1>1. /\ Unread.how = "none" /\ Unread.by = Nothing.by
      /\ Unread.error = Fail("none").error
  BY DEF Unread, Reading
<1> QED
  BY <1>1, FailIs, NothingIs

LEMMA TypedNow == IInv => TypeOK
<1> SUFFICES ASSUME IInv PROVE TypeOK
  OBVIOUS
<1>1. /\ closed \subseteq Prekeys /\ Asked(sent) /\ ReadOnce
      /\ blob # NoBlob => Carries(sent, blob) /\ sent.error = "none"
  BY DEF IInv
<1>2. sent.error \in Errors \ DecodeErrors /\ sent.by \in Engines
  BY <1>1 DEF Asked, Errors, DecodeErrors
<1>3. ASSUME blob # NoBlob
      PROVE  /\ Len(blob.body) = BODY /\ ToSet(blob.body) \subseteq Cells
             /\ blob.id \in Cells \ {0} /\ blob.key = sent.by.key
  <2>1. /\ blob.body \in Seq(Cells) /\ Len(blob.body) = BODY
        /\ blob.id \in Cells \ {0} /\ blob.key = sent.by.key
    BY <1>1, <1>3, CarriedIs
  <2>2. \A i \in DOMAIN blob.body : blob.body[i] \in Cells
    BY <2>1, LenProperties, ElementOfSeq
  <2> QED
    BY <2>1, <2>2 DEF ToSet
<1>4. answer.error \in Errors \ {"EncodingError"} /\ answer.by \in Engines
  <2>1. CASE answer = Unread
    BY <2>1, UnreadIs DEF Errors
  <2>2. ASSUME blob # NoBlob,
               NEW how \in Methods, NEW engine \in Engines, NEW check \in BOOLEAN,
               NEW id \in Ids(blob, ReadingMask(how, engine)),
               answer = ReadBy(how, engine, check, id)
        PROVE  answer.error \in Errors \ {"EncodingError"} /\ answer.by \in Engines
    <3> DEFINE refusal == ClosedError(ReadingEngine(how, engine))
               a == Result(blob, refusal, how, engine, check, id)
    <3>1. answer.error = a.error /\ answer.by = engine
      BY <2>2, ReadingIs DEF ReadBy
    <3>2. blob.body \in Seq(Cells) /\ Len(blob.body) = BODY
      BY <1>1, <2>2, CarriedIs
    <3>3. Opened(how, id, blob.body, check).error \in AnyErrors
      BY <3>2, OpenedTyped
    <3>4. /\ Fail("PrekeyError").error = "PrekeyError"
          /\ Fail("VerificationError").error = "VerificationError"
      BY FailIs
    <3>5. a.error \in AnyErrors \cup {"PrekeyError", "VerificationError"}
      <4> HIDE DEF refusal
      <4>1. \/ a = Fail("PrekeyError") \/ a = Fail("VerificationError")
            \/ a = Opened(how, id, blob.body, check)
        BY DEF Result
      <4> HIDE DEF a
      <4> QED
        BY <3>3, <3>4, <4>1
    <3> HIDE DEF a
    <3> QED
      BY <3>1, <3>5 DEF AnyErrors, Errors, DecodeErrors
  <2> QED
    BY <1>1, <2>1, <2>2 DEF ReadOnce
<1> QED
  BY <1>1, <1>2, <1>3, <1>4 DEF TypeOK

(* A reading that opened the ciphertext under its mask.                        *)
LEMMA OpenedAs ==
  ASSUME IInv, answer.how # "none"
  PROVE  /\ blob # NoBlob /\ Carries(sent, blob) /\ Asked(sent)
         /\ \E how \in Methods, engine \in Engines, check \in BOOLEAN :
              \E id \in Ids(blob, ReadingMask(how, engine)) :
                answer = ReadBy(how, engine, check, id)
<1>1. answer # Unread
  BY UnreadIs
<1> QED
  BY <1>1 DEF IInv, ReadOnce

LEMMA TruthfulNow == IInv => Truthful
<1> SUFFICES ASSUME IInv, answer.how # "none", answer.error = "none",
                    blob.mask = ReadingMask(answer.how, answer.by)
             PROVE  TrueAnswer(sent, answer.how, answer)
  BY DEF Truthful, TrueAnswer, TextSent
<1>1. blob # NoBlob /\ Carries(sent, blob) /\ Asked(sent)
  BY OpenedAs
<1>2. PICK how \in Methods, engine \in Engines, check \in BOOLEAN :
        \E id \in Ids(blob, ReadingMask(how, engine)) :
          answer = ReadBy(how, engine, check, id)
  BY OpenedAs
<1>3. PICK id \in Ids(blob, ReadingMask(how, engine)) :
        answer = ReadBy(how, engine, check, id)
  BY <1>2
<1> DEFINE refusal == ClosedError(ReadingEngine(how, engine))
           r == Result(blob, refusal, how, engine, check, id)
           a == Opened(how, id, blob.body, check)
<1>4. /\ answer.how = how /\ answer.by = engine /\ answer.error = r.error
      /\ answer.records = r.records /\ answer.text = r.text /\ answer.chain = r.chain
  BY <1>3, ReadingIs DEF ReadBy
<1>5. id = blob.id
  BY <1>4 DEF Ids
<1>6. r = a
  <2>1. /\ Fail("PrekeyError").error = "PrekeyError"
        /\ Fail("VerificationError").error = "VerificationError"
    BY FailIs
  <2> HIDE DEF refusal, a
  <2>2. r = Fail("PrekeyError") \/ r = Fail("VerificationError") \/ r = a
    BY DEF Result, a
  <2> HIDE DEF r
  <2> QED
    BY <1>4, <2>1, <2>2
<1> HIDE DEF r
<1>7. a.error = "none"
  BY <1>4, <1>6
<1>8. TrueAnswer(sent, how, a)
  <2>1. sent.check \in BOOLEAN
    BY <1>1 DEF Asked
  <2>2. Opened(how, blob.id, blob.body, check).error = "none"
    BY <1>5, <1>7
  <2>3. TrueAnswer(sent, how, Opened(how, blob.id, blob.body, check))
    BY <1>1, <2>1, <2>2, OneReadsTrue, ManyReadTrue DEF Carries
  <2> QED
    BY <1>5, <2>3
<1> HIDE DEF a
<1>9. /\ answer.records = a.records /\ answer.text = a.text /\ answer.chain = a.chain
  BY <1>4, <1>6
<1> QED
  BY <1>4, <1>8, <1>9 DEF TrueAnswer

LEMMA StaysHiddenNow == IInv => FormulasStayHidden
<1> SUFFICES ASSUME IInv, blob # NoBlob, sent.how \in {"formula", "chain"},
                    sent.by.prekey # NoPrekey,
                    NEW mask \in {KeyMask(blob.key), PrekeyMask(blob.key)}
             PROVE  Ids(blob, mask) = Cells
  BY DEF FormulasStayHidden
<1>1. Asked(sent) /\ Carries(sent, blob)
  BY DEF IInv
<1>2. /\ blob.key = sent.by.key
      /\ blob.mask = SelectorMask(sent.by)
  BY <1>1 DEF Carries, WriterOf
<1>3. blob.mask = <<"prekey", sent.by.prekey>>
  BY <1>2 DEF SelectorMask, PrekeyMask
<1>4. sent.by.prekey # blob.key
  BY <1>1, <1>2 DEF Asked, Engines, IsIndependent
<1>5. mask = <<"key", blob.key>> \/ mask = <<"prekey", blob.key>>
  BY DEF KeyMask, PrekeyMask
<1>6. \A k, p : <<"key", k>> # <<"prekey", p>>
  OBVIOUS
<1>7. \A k, p : k # p => <<"prekey", k>> # <<"prekey", p>>
  OBVIOUS
<1>8. mask # blob.mask
  <2>1. CASE mask = <<"key", blob.key>>
    BY <1>3, <1>6, <2>1, Zenon
  <2>2. CASE mask = <<"prekey", blob.key>>
    <3>1. <<"prekey", blob.key>> # <<"prekey", sent.by.prekey>>
      BY <1>4, <1>7
    <3> QED
      BY <1>3, <2>2, <3>1, Zenon
  <2> QED
    BY <1>5, <2>1, <2>2
<1> QED
  BY <1>8 DEF Ids

LEMMA OpensNow == IInv => Opens
<1> SUFFICES ASSUME IInv, answer.how # "none", answer.by = sent.by,
                    answer.how \in Fitting[sent.how],
                    sent.check \/ ~answer.check \/ sent.how \in {"text", "hidden"}
             PROVE  answer.error = ClosedError(ReadingEngine(answer.how, answer.by))
  BY DEF Opens
<1>1. blob # NoBlob /\ Carries(sent, blob) /\ Asked(sent)
  BY OpenedAs
<1>2. PICK how \in Methods, engine \in Engines, check \in BOOLEAN :
        \E id \in Ids(blob, ReadingMask(how, engine)) :
          answer = ReadBy(how, engine, check, id)
  BY OpenedAs
<1>3. PICK id \in Ids(blob, ReadingMask(how, engine)) :
        answer = ReadBy(how, engine, check, id)
  BY <1>2
<1> DEFINE refusal == ClosedError(ReadingEngine(how, engine))
           r == Result(blob, refusal, how, engine, check, id)
<1>4. /\ answer.how = how /\ answer.by = engine /\ answer.check = check
      /\ answer.error = r.error
  BY <1>3, ReadingIs DEF ReadBy
<1>5. sent.how \in {"formula", "text", "chain", "hidden"} /\ blob.key = sent.by.key
  BY <1>1, CarriedIs
<1>6. blob.mask = ReadingMask(how, engine)
  <2>1. blob.mask = SelectorMask(WriterOf(sent)) /\ sent.by = engine
    BY <1>1, <1>4 DEF Carries
  <2>2. CASE sent.how \in {"formula", "chain"}
    <3>1. how \in {"decode", "decode_chain"}
      BY <1>4, <2>2 DEF Fitting
    <3> QED
      BY <2>1, <2>2, <3>1 DEF ReadingMask, ReadingEngine, WriterOf
  <2>3. CASE sent.how \in {"text", "hidden"}
    <3>1. how \in {"decrypt_text", "decrypt_hidden", "app"}
      BY <1>4, <2>3 DEF Fitting
    <3> QED
      BY <2>1, <2>3, <3>1 DEF ReadingMask, ReadingEngine, WriterOf, TextEngine
  <2> QED
    BY <1>5, <2>2, <2>3
<1>7. id = blob.id
  BY <1>6 DEF Ids
<1>8. refusal \in {"none", "PrekeyError"}
  BY ClosedErrorIs
<1>9. CASE refusal # "none"
  <2>1. r = Fail("PrekeyError") /\ Fail("PrekeyError").error = "PrekeyError"
    BY <1>9, FailIs DEF Result
  <2> HIDE DEF r, refusal
  <2>2. answer.error = refusal
    BY <1>4, <1>8, <1>9, <2>1
  <2> QED
    BY <1>4, <2>2 DEF refusal
<1>10. CASE refusal = "none"
  <2>1. r = Opened(how, blob.id, blob.body, check)
    <3> HIDE DEF refusal
    <3> QED
      BY <1>4, <1>5, <1>7, <1>10 DEF Result
  <2> HIDE DEF r, refusal
  <2>2. sent.check \/ ~check \/ sent.how \in {"text", "hidden"}
    BY <1>4
  <2>3. how \in Fitting[sent.how]
    BY <1>4
  <2>4. Opened(how, blob.id, blob.body, check).error = "none"
    BY <1>1, <2>2, <2>3, FittingReads
  <2>5. answer.error = refusal
    BY <1>4, <1>10, <2>1, <2>4
  <2> QED
    BY <1>4, <2>5 DEF refusal
<1> QED
  BY <1>9, <1>10

LEMMA Inductive == Spec => []IInv
<1>1. Init => IInv
  BY InitHolds
<1>2. IInv /\ [Next]_vars => IInv'
  BY NextKeeps
<1> QED
  BY <1>1, <1>2, PTL DEF Spec

(* The type invariant: every ciphertext, whatever it carries and whoever asked *)
(* for it, has a body of the fixed length, and every refusal is one of those   *)
(* the engine documents.                                                       *)
THEOREM MessageTyped == Spec => []TypeOK
BY Inductive, TypedNow, PTL

(* A reading under the secrets of the writing gives the records or the text    *)
(* that were sent, for every corpus, width, text, decoy and method; and who    *)
(* holds the key alone finds any formula possible where an engine with a       *)
(* pre-key wrote.                                                              *)
THEOREM ReadersGetWhatWasSent == Spec => []Faithful
<1>1. IInv => Faithful
  BY TruthfulNow, StaysHiddenNow DEF Faithful
<1> QED
  BY <1>1, Inductive, PTL

(* Whatever an engine wrote the same engine reads with the method for it,      *)
(* unless its pre-key was closed, and no text of a legal length is ever        *)
(* refused for want of room among its decoys.                                  *)
THEOREM WrittenIsReadable == Spec => []NothingUnreadable
<1>1. IInv => NothingUnreadable
  BY OpensNow DEF NothingUnreadable, HiddenAlwaysFits, IInv, Asked
<1> QED
  BY <1>1, Inductive, PTL

=================================================================================
