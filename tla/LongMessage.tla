------------------------------ MODULE LongMessage -------------------------------
(* Multi block messages of crypto/longmessage.py: a sender splits texts into   *)
(* blocks, a transport without order or memory hands some of them over, and    *)
(* the receiver calls decrypt_long on the list it collected.  A text is the    *)
(* sequence of its bytes, each byte being the pair of its message and place.   *)
EXTENDS Integers, SequencesExt

CONSTANTS BlockBody,        \* block_capacity: bytes of text in a block
          MAX_BLOCKS,
          Lengths,          \* of the texts, in bytes
          NoTarget,         \* target_blocks left out
          BlockTargets,     \* the values callers give it
          MaxMessages,      \* bound: calls of encrypt_long
          MaxOthers,        \* bound: other messages under the same key
          MaxList           \* bound: blocks collected for one call

ASSUME BlockBodyAssumption == BlockBody \in Nat \ {0}
ASSUME MaxBlocksAssumption == MAX_BLOCKS \in Nat \ {0}
ASSUME LengthsAssumption == Lengths \subseteq Nat
ASSUME TargetsAssumption ==
  NoTarget \in BlockTargets /\ BlockTargets \ {NoTarget} \subseteq Int

VARIABLES texts,            \* history: the texts encrypted, one per message id
          blocks,           \* every block in the transport's hands
          list,             \* the blocks collected for the next decrypt_long
          outcome           \* what the last decrypt_long answered

longVars == <<texts, blocks, list, outcome>>

NoOutcome == [verdict |-> "none", text |-> <<>>]

LongInit == texts = <<>> /\ blocks = {} /\ list = <<>> /\ outcome = NoOutcome

---------------------------------------------------------------------------------
(* Sending.                                                                    *)

Text(id, length) == [p \in 1..length |-> <<id, p>>]
ZERO == <<0, 0>>            \* a padding byte

Needed(length) == (length + BlockBody - 1) \div BlockBody
TotalBlocks(length, target) == IF target = NoTarget THEN Needed(length) ELSE target

(* Mistake, for the runs: the limit is on the blocks the text needs, not on    *)
(* those it gets.                                                              *)
RefusedByNeed(length, target) ==
  \/ length = 0
  \/ target # NoTarget /\ (target < 1 \/ target < Needed(length))
  \/ Needed(length) > MAX_BLOCKS

(* The conditions under which encrypt_long raises, in its order.               *)
Refused(length, target) ==
  \/ length = 0
  \/ target # NoTarget /\ (target < 1 \/ target < Needed(length))
  \/ TotalBlocks(length, target) > MAX_BLOCKS

(* ljust: the text and zeros up to the last block's end.                       *)
Padded(text, total) ==
  [p \in 1..(total * BlockBody) |-> IF p <= Len(text) THEN text[p] ELSE ZERO]

(* Mistake, for the runs: the last block is left out when it would be full.    *)
BlocksShort(id, text, total) ==
  {[slug |-> "ham-metin", header |-> TRUE, id |-> id, index |-> i,
    total |-> Len(text) \div BlockBody, length |-> Len(text),
    body |-> SubSeq(Padded(text, total), i * BlockBody + 1, (i + 1) * BlockBody)] :
      i \in 0..(Len(text) \div BlockBody - 1)}

(* Each block carries the header and its share of the padded text.             *)
Blocks(id, text, total) ==
  {[slug |-> "ham-metin", header |-> TRUE, id |-> id, index |-> i,
    total |-> total, length |-> Len(text),
    body |-> SubSeq(Padded(text, total), i * BlockBody + 1, (i + 1) * BlockBody)] :
      i \in 0..(total - 1)}

(* encrypt_long: a fresh message_id, then every block under the same key.      *)
EncryptLong(length, target) ==
  /\ ~Refused(length, target)
  /\ Len(texts) < MaxMessages
  /\ LET id == Len(texts) + 1
     IN  /\ texts' = Append(texts, Text(id, length))
         /\ blocks' = blocks \cup
                        Blocks(id, Text(id, length), TotalBlocks(length, target))
  /\ UNCHANGED <<list, outcome>>

EncryptRefused(length, target) == Refused(length, target) /\ UNCHANGED longVars

(* Other messages under the same key: a formula, a plain text too short for a  *)
(* header, and a longer one, whose first 24 bytes read as a header with an id  *)
(* no encrypt_long drew and any numbers.                                       *)
PLAIN_ID == 0
Other(slug, header, index, total) ==
  [slug |-> slug, header |-> header, id |-> PLAIN_ID, index |-> index,
   total |-> total, length |-> total, body |-> Text(PLAIN_ID, BlockBody)]
EncryptOther(b) == /\ Cardinality({c \in blocks : c.id = PLAIN_ID}) < MaxOthers
                   /\ blocks' = blocks \cup {b}
                   /\ UNCHANGED <<texts, list, outcome>>

---------------------------------------------------------------------------------
(* The transport.                                                              *)

Collect(b) == /\ Len(list) < MaxList
              /\ list' = Append(list, b)
              /\ outcome' = NoOutcome
              /\ UNCHANGED <<texts, blocks>>

StartAgain == /\ list # <<>>
              /\ list' = <<>>
              /\ outcome' = NoOutcome
              /\ UNCHANGED <<texts, blocks>>

---------------------------------------------------------------------------------
(* Receiving.                                                                  *)

(* Mistake, for the runs: the message id is not compared.                      *)
AnyMessage(first, b)  == TRUE

SameMessage(first, b) == b.id = first.id
InRange(b)            == b.index \in 0..(b.total - 1)

(* Why the loop of decrypt_long raises at block i of l, having accepted those  *)
(* before it; the checks are in its order.                                     *)
Fault(l, i) ==
  LET b == l[i]
  IN  IF b.slug # "ham-metin" THEN "not a text block"
      ELSE IF ~b.header THEN "header truncated"
      ELSE IF ~SameMessage(l[1], b) THEN "different messages"
      ELSE IF b.total # l[1].total \/ b.length # l[1].length THEN "headers disagree"
      ELSE IF \E j \in 1..(i - 1) : l[j].index = b.index THEN "arrived twice"
      ELSE IF ~InRange(b) THEN "index out of range"
      ELSE "none"
Faulty(l) == {i \in DOMAIN l : Fault(l, i) # "none"}

(* The dictionary of the pieces by index, and the bytes it holds.              *)
Indexes(l) == {l[i].index : i \in DOMAIN l}
Piece(l, index) == l[CHOOSE i \in DOMAIN l : l[i].index = index].body
Joined(l) == FlattenSeq([k \in 1..l[1].total |-> Piece(l, k - 1)])

Ended(verdict, text) == [verdict |-> verdict, text |-> text]

(* What decrypt_long answers: the first fault, then what follows the loop.     *)
Decrypted(l) ==
  IF l = <<>> \/ Len(l) > MAX_BLOCKS THEN Ended("no blocks or too many", <<>>)
  ELSE IF Faulty(l) # {} THEN Ended(Fault(l, Min(Faulty(l))), <<>>)
  ELSE IF Cardinality(Indexes(l)) # l[1].total THEN Ended("incomplete", <<>>)
  ELSE IF l[1].length > Len(Joined(l)) THEN Ended("length exceeds", <<>>)
  ELSE Ended("ok", SubSeq(Joined(l), 1, l[1].length))

DecryptLong == /\ outcome' = Decrypted(list)
               /\ UNCHANGED <<texts, blocks, list>>

LongNext == \/ \E length \in Lengths, target \in BlockTargets :
                 EncryptLong(length, target) \/ EncryptRefused(length, target)
            \/ EncryptOther(Other("another slug", FALSE, 0, 1))
            \/ EncryptOther(Other("ham-metin", FALSE, 0, 1))
            \/ \E index \in {0, 1} : EncryptOther(Other("ham-metin", TRUE, index, 1))
            \/ \E b \in blocks : Collect(b)
            \/ StartAgain
            \/ DecryptLong

LongSpec == LongInit /\ [][LongNext]_longVars

---------------------------------------------------------------------------------
Verdicts == {"none", "ok", "not a text block", "header truncated",
             "different messages", "headers disagree", "arrived twice",
             "index out of range", "incomplete", "length exceeds",
             "no blocks or too many"}

(* Type invariant: the blocks of a message number at most MAX_BLOCKS and have  *)
(* the same size.                                                              *)
LongTypeOK == /\ \A b \in blocks : b.id # PLAIN_ID =>
                   /\ b.id \in DOMAIN texts /\ b.length = Len(texts[b.id])
                   /\ b.total \in 1..MAX_BLOCKS /\ b.index \in 0..(b.total - 1)
                   /\ Len(b.body) = BlockBody
              /\ list \in Seq(blocks)
              /\ outcome.verdict \in Verdicts

(* The blocks that belong to a message.                                        *)
Whole(id) == {b \in blocks : b.id = id}
Collected == ToSet(list)
Once == Cardinality(Collected) = Len(list)
WithBlock == \E b \in Collected : b.id # PLAIN_ID

(* From a list with a block in it a text is returned only as it was sent, and  *)
(* only when every block of its message, padding included, was there exactly   *)
(* once and nothing else: no block lost at the end, repeated, or taken from    *)
(* another message, and no plain text slipped in.                              *)
OnlyWhole ==
  outcome.verdict = "ok" /\ WithBlock =>
    \E id \in DOMAIN texts :
      Collected = Whole(id) /\ Once /\ outcome.text = texts[id]

(* Whatever order the blocks of a message arrive in, its text is returned.     *)
AnyOrder ==
  \A id \in DOMAIN texts :
    Collected = Whole(id) /\ Once /\ Len(list) <= MAX_BLOCKS
      => outcome.verdict \in {"none", "ok"}

(* A text comes back when its blocks are all there once, in whatever order,    *)
(* and otherwise nothing comes back that could be taken for one.               *)
WholeOrNothing == OnlyWhole /\ AnyOrder

=================================================================================
