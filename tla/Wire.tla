---------------------------------- MODULE Wire ----------------------------------
(* The wire format of crypto/wire.py as functions: a formula and its           *)
(* parameters to a ciphertext and back, one formula or a chain of them.        *)
(*                                                                             *)
(* The unit is a cell, the width of an id, of the record counter and of the    *)
(* text's length; in the code these are 16, 8 and 16 bits.  An entry of the    *)
(* corpus is [id, slug, status, params, forbids]; a parameter is               *)
(* [type, size, count], count being the number of values of an enum, and       *)
(* forbids the values of the first parameter that the constraints refuse.      *)
(* The values of an entry are the sequence of its parameters' values, an enum  *)
(* by its place in the list and a point (x, y_parity) as 2 * x + y_parity.     *)
EXTENDS Layout, SequencesExt

CONSTANTS Base,             \* values of a cell
          BODY,             \* BODY_FIXED_BYTES: cells in a body
          Corpus,
          NoPrekey          \* an engine without a pre-key

Cells == 0..(Base - 1)
CHAIN_ID == Base - 1        \* RESERVED_ID
MAX_RECORDS == Base - 1     \* what the counter can hold

(* A cell tells the two parities of a point and neither.                       *)
ASSUME WidthAssumption == Base \in Nat /\ Base >= 4 /\ BODY \in Nat \ {0}

(* The largest number of a field is one less than the power of its width.      *)
Power == Powers(Base)

(* What Corpus.__init__ enforces, and the schema of the entries for id 0.      *)
ASSUME CorpusAssumption ==
  /\ \A e \in Corpus : e.id \in Cells \ {0, CHAIN_ID}
  /\ \A e, f \in Corpus : e.id = f.id => e = f

(* What param_bits gives: an enum has the width its values need, and a point   *)
(* has room for its prefix.                                                    *)
Parameters == [type : {"uint", "bytes", "enum", "point"}, size : Nat, count : Nat]
ASSUME ParametersAssumption ==
  \A e \in Corpus : /\ e.params \in Seq(Parameters)
                    /\ \A i \in DOMAIN e.params :
                         /\ e.params[i].type = "enum" =>
                              e.params[i].count <= Power[e.params[i].size]
                         /\ e.params[i].type = "point" => e.params[i].size > 0

Known(id) == \E e \in Corpus : e.id = id
Entry(id) == CHOOSE e \in Corpus : e.id = id

---------------------------------------------------------------------------------
(* Parameters.                                                                 *)

Sizes(e) == [i \in DOMAIN e.params |-> e.params[i].size]

(* Entry.payload_bits, and where a parameter begins.                           *)
Payload(e) == Total(Sizes(e))
Offset(e, i) == Ends(Sizes(e))[i - 1]

Digits(v, size) == DigitsTo(Base, v, size)
Number(cells) == NumberOf(Base, cells)

(* Compressed points: a prefix of 2 plus the parity, then x.                   *)
CanWrite(p, v) ==
  CASE p.type = "uint"  -> v \in 0..(Power[p.size] - 1)
    [] p.type = "bytes" -> Len(v) = p.size
    [] p.type = "enum"  -> v \in 1..p.count
    [] p.type = "point" -> v \in 0..(2 * Power[p.size - 1] - 1)
Written(p, v) ==
  CASE p.type = "uint"  -> Digits(v, p.size)
    [] p.type = "bytes" -> v
    [] p.type = "enum"  -> Digits(v - 1, p.size)
    [] p.type = "point" -> <<2 + (v % 2)>> \o Digits(v \div 2, p.size - 1)

CanRead(p, cells) ==
  CASE p.type \in {"uint", "bytes"} -> TRUE
    [] p.type = "enum"  -> Number(cells) < p.count
    [] p.type = "point" -> cells[1] \in {2, 3}
Read(p, cells) ==
  CASE p.type = "uint"  -> Number(cells)
    [] p.type = "bytes" -> cells
    [] p.type = "enum"  -> Number(cells) + 1
    [] p.type = "point" -> 2 * Number(Tail(cells)) + cells[1] - 2

Serialize(e, values) ==
  FlattenSeq([i \in DOMAIN e.params |-> Written(e.params[i], values[i])])

(* The cells of a parameter, when its entry is read from position pos on.      *)
Field(e, i, body, pos) ==
  SubSeq(body, pos + Offset(e, i), pos + Offset(e, i) + e.params[i].size - 1)
Readable(e, body, pos) ==
  /\ pos + Payload(e) - 1 <= Len(body)
  /\ \A i \in DOMAIN e.params : CanRead(e.params[i], Field(e, i, body, pos))
Deserialize(e, body, pos) ==
  [i \in DOMAIN e.params |-> Read(e.params[i], Field(e, i, body, pos))]

---------------------------------------------------------------------------------
(* Refusals: the first check that fails decides, "none" being no failure.      *)

FirstError(errors) ==
  LET raised == {i \in DOMAIN errors : errors[i] # "none"}
  IN  IF raised = {} THEN "none" ELSE errors[Min(raised)]
Raise(error, condition) == IF condition THEN error ELSE "none"

CheckAll(e, values, check) ==
  Raise("ConstraintViolation",
        check /\ values # <<>> /\ values[1] \in e.forbids)
WriteParams(e, values) ==
  Raise("EncodingError",
        \E i \in DOMAIN e.params : ~CanWrite(e.params[i], values[i]))
Retired(e) == Raise("EncodingError", e.status = "retired")

EncodeError(e, values, check) ==
  FirstError(<<Retired(e), Raise("EncodingError", Payload(e) > BODY),
               CheckAll(e, values, check), WriteParams(e, values)>>)

(* Mistake, for the runs: the counter is not counted.                          *)
ChainCostUncounted(entries) ==
  Total([i \in DOMAIN entries |-> 1 + Payload(entries[i])])

(* chain_capacity: the counter, then an id and the parameters per record.      *)
ChainCost(entries) ==
  1 + Total([i \in DOMAIN entries |-> 1 + Payload(entries[i])])

Entries(records) == [i \in DOMAIN records |-> Entry(records[i].id)]

ChainError(records, check) ==
  LET resolving == [i \in DOMAIN records |->
                      IF Known(records[i].id) THEN Retired(Entry(records[i].id))
                      ELSE "CorpusError"]
      writing(i) == LET e == Entry(records[i].id)
                    IN  FirstError(<<CheckAll(e, records[i].values, check),
                                     WriteParams(e, records[i].values)>>)
  IN  IF Len(records) \notin 1..MAX_RECORDS THEN "EncodingError"
      ELSE IF FirstError(resolving) # "none" THEN FirstError(resolving)
      ELSE IF ChainCost(Entries(records)) > BODY THEN "EncodingError"
      ELSE FirstError([i \in DOMAIN records |-> writing(i)])

---------------------------------------------------------------------------------
(* Ciphertexts.  The nonce is fresh, so a mask made from another secret hides  *)
(* the id completely, and the tag verifies under the key it was made with.     *)

(* subkeys and Prekey.mask expand a secret under labels of their own, so the   *)
(* same bytes give two masks.                                                  *)
KeyMask(secret)    == <<"key", secret>>
PrekeyMask(secret) == <<"prekey", secret>>

(* selector_mask: from the pre-key if the engine has one, else from the key.   *)
SelectorMask(engine) ==
  IF engine.prekey = NoPrekey THEN KeyMask(engine.key) ELSE PrekeyMask(engine.prekey)

(* is_independent, on which the constructor of Engine insists.                 *)
IsIndependent(prekey, key) == prekey # key

Blob(engine, id, body) ==
  [id |-> id, key |-> engine.key, mask |-> SelectorMask(engine), body |-> body]

(* Cells up to the end of the body; there is no cutting.                       *)
Zeros(cells) == [i \in 1..(BODY - Len(cells)) |-> 0]
Body(e, values) == Serialize(e, values) \o Zeros(Serialize(e, values))

ChainCells(records) ==
  <<Len(records)>> \o
  FlattenSeq([i \in DOMAIN records |->
     <<records[i].id>> \o Serialize(Entry(records[i].id), records[i].values)])

(* The ids _open can get out of a blob with a mask from this secret.           *)
Ids(b, mask) == IF mask = b.mask THEN {b.id} ELSE Cells

Answer(records) ==
  [error |-> "none", records |-> records, text |-> <<>>, chain |-> FALSE]
Fail(error) == [Answer(<<>>) EXCEPT !.error = error]

(* The id corpus.get finds, read from the body, with the checks in order.      *)
DecodeRecord(id, body, pos, check) ==
  IF ~Known(id) THEN Fail("CorpusError")
  ELSE IF ~Readable(Entry(id), body, pos) THEN Fail("DecodeError")
  ELSE LET values == Deserialize(Entry(id), body, pos)
       IN  IF CheckAll(Entry(id), values, check) # "none"
             THEN Fail("ConstraintViolation")
             ELSE Answer(<<[id |-> id, values |-> values]>>)

(* decode, once the tag has verified.                                          *)
Decode(id, body, check) ==
  IF id = CHAIN_ID THEN Fail("DecodeError")
  ELSE DecodeRecord(id, body, 1, check)

(* decode_chain, once the tag has verified: an id the corpus does not have is  *)
(* a DecodeError here, and a body too short for the next record another.       *)
DecodeNext(s, body, check) ==
  IF s.answer.error # "none" THEN s
  ELSE IF s.pos > BODY \/ ~Known(body[s.pos])
       THEN [s EXCEPT !.answer = Fail("DecodeError")]
  ELSE LET a == DecodeRecord(body[s.pos], body, s.pos + 1, check)
       IN  [pos    |-> s.pos + 1 + Payload(Entry(body[s.pos])),
            answer |-> IF a.error # "none" THEN a
                       ELSE Answer(s.answer.records \o a.records)]
DecodeChain(id, body, check) ==
  IF id # CHAIN_ID \/ body[1] = 0 THEN Fail("DecodeError")
  ELSE LET state[i \in 0..body[1]] ==
             IF i = 0 THEN [pos |-> 2, answer |-> Answer(<<>>)]
             ELSE DecodeNext(state[i - 1], body, check)
       IN  state[body[1]].answer

(* is_chain: whether decode_chain, unchecked, comes to an end.                 *)
IsChain(id, body) ==
  [Answer(<<>>) EXCEPT !.chain = DecodeChain(id, body, FALSE).error = "none"]
=================================================================================
