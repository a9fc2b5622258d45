-------------------------------- MODULE Message ---------------------------------
(* The engine of crypto/wire.py and the text modes of crypto/message.py: one   *)
(* engine encrypts a formula, a chain, a text or a text hidden among decoys,   *)
(* and any engine, with the same secrets or others, reads the result by any    *)
(* of the methods, or as app.py does.                                          *)
EXTENDS Wire

CONSTANTS Keys, Prekeys,
          Records,          \* bound: the records callers give, valid and not
          MaxChain,         \* bound: records in a chain, when they are not too many
          Texts,            \* bound: texts, as the cells of their UTF-8
          Noise,            \* bound: the cells random bytes are drawn from
          Targets,          \* bound: values of target_decoys
          NoBlob

ASSUME SecretsAssumption == NoPrekey \notin Keys \cup Prekeys /\ Keys # {}

VARIABLES closed,           \* the pre-keys that were closed
          sent,             \* history: what the last encryption was asked for
          blob,             \* what it returned
          answer            \* what the last reading of it returned

vars == <<closed, sent, blob, answer>>

(* What Engine() constructs; the bytes of a pre-key may be a key elsewhere.    *)
Engines == {e \in [key : Keys, prekey : Prekeys \cup {NoPrekey}] :
              IsIndependent(e.prekey, e.key)}

TEXT_SLUG == "ham-metin"
TextEntry == CHOOSE e \in Corpus : e.slug = TEXT_SLUG
TEXT == TextEntry.id
Capacity == TextEntry.params[2].size

(* The text's entry: a length that can tell every length there may be, and     *)
(* the bytes.                                                                  *)
ASSUME TextAssumption ==
  /\ TextEntry \in Corpus /\ TextEntry.slug = TEXT_SLUG
  /\ \A e \in Corpus : e.slug = TEXT_SLUG => e = TextEntry
  /\ TextEntry.status = "active"
  /\ Len(TextEntry.params) = 2
  /\ TextEntry.params[1].type = "uint" /\ TextEntry.params[2].type = "bytes"
  /\ Capacity < Power[TextEntry.params[1].size]
  /\ 2 + Payload(TextEntry) <= BODY

(* A byte that begins no character stands for all that is not valid UTF-8.     *)
Utf8(cells) == Base - 1 \notin ToSet(cells)

Nothing == [how |-> "nothing", records |-> <<>>, text |-> <<>>, check |-> TRUE,
            by |-> CHOOSE e \in Engines : e.prekey = NoPrekey, error |-> "none"]

(* What a reading returned, and by which method and whom.                      *)
Reading(how, engine, check, a) ==
  [how |-> how, by |-> engine, check |-> check,
   error |-> a.error, records |-> a.records, text |-> a.text, chain |-> a.chain]
Unread == Reading("none", Nothing.by, TRUE, Fail("none"))

(* What callers give: bytes where bytes are expected and numbers elsewhere,    *)
(* though not always numbers that fit; and texts that are UTF-8.               *)
ASSUME CallersAssumption ==
  /\ \A r \in Records :
       /\ r = [id |-> r.id, values |-> r.values]
       /\ Known(r.id) =>
            /\ r.values = [i \in DOMAIN Entry(r.id).params |-> r.values[i]]
            /\ \A i \in DOMAIN r.values :
                 r.values[i] \in IF Entry(r.id).params[i].type = "bytes"
                                THEN Seq(Cells) ELSE Int
  /\ Texts \subseteq {t \in Seq(Cells) : Utf8(t)}
  /\ Noise \subseteq Cells /\ MaxChain \in Nat /\ Targets \subseteq Int

Init == closed = {} /\ sent = Nothing /\ blob = NoBlob /\ answer = Unread

---------------------------------------------------------------------------------
(* Pre-keys.                                                                   *)

(* Prekey.close, before an encryption or between it and the reading: the       *)
(* engines that have the pre-key keep it.                                      *)
ClosePrekey(p) ==
  /\ answer = Unread /\ p \notin closed
  /\ closed' = closed \cup {p}
  /\ UNCHANGED <<sent, blob, answer>>

(* Prekey.mask, the last thing encode does before it makes the ciphertext and  *)
(* the first thing _open does with one.                                        *)
ClosedError(engine) == Raise("PrekeyError", engine.prekey \in closed)

---------------------------------------------------------------------------------
(* Encrypting.                                                                 *)

(* The functions of message.py get the engine's key and not its pre-key.       *)
Bare(engine) == [engine EXCEPT !.prekey = NoPrekey]

(* Mistake, for the runs: only the sender's side is given the pre-key.         *)
TextEngineAware(engine) == engine

(* The engine the text functions encrypt with.                                 *)
TextEngine(engine) == Bare(engine)

(* What an encryption was asked for and how it ended, and the ciphertext.      *)
Ask(how, engine, records, text, check, error) ==
  /\ sent' = [how |-> how, by |-> engine, records |-> records, text |-> text,
              check |-> check, error |-> error]
  /\ answer' = Unread
  /\ UNCHANGED closed
Emit(error, engine, id, body) ==
  blob' = IF error = "none" THEN Blob(engine, id, body) ELSE NoBlob

(* Engine.encrypt: a formula the corpus may not have, with values it may not   *)
(* take.                                                                       *)
Encrypt(engine, record, check) ==
  LET e     == Entry(record.id)
      error == IF ~Known(record.id) THEN "CorpusError"
               ELSE FirstError(<<EncodeError(e, record.values, check),
                                 ClosedError(engine)>>)
  IN  /\ Ask("formula", engine, <<record>>, <<>>, check, error)
      /\ Emit(error, engine, record.id, Body(e, record.values))

EncryptChain(engine, records, check) ==
  LET error == FirstError(<<ChainError(records, check), ClosedError(engine)>>)
      cells == ChainCells(records)
  IN  /\ Ask("chain", engine, records, <<>>, check, error)
      /\ Emit(error, engine, CHAIN_ID, cells \o Zeros(cells))

TextRecord(text, tail) == [id |-> TEXT, values |-> <<Len(text), text \o tail>>]
WrongLength(text) == Raise("EncodingError", Len(text) \notin 1..Capacity)

EncryptText(engine, text) ==
  LET record == TextRecord(text, [i \in 1..(Capacity - Len(text)) |-> 0])
      error  == FirstError(<<WrongLength(text),
                             EncodeError(TextEntry, record.values, TRUE)>>)
  IN  /\ Ask("text", engine, <<record>>, text, TRUE, error)
      /\ Emit(error, TextEngine(engine), TEXT, Body(TextEntry, record.values))

(* Mistakes, for the runs: texts are candidates too, every candidate costs its *)
(* parameters only.                                                            *)
CandidatesAll == {e \in Corpus : e.status = "active"}
DecoyCostBare(e) == Payload(e)

Candidates == {e \in Corpus : e.status = "active" /\ e.slug # TEXT_SLUG}
DecoyCost(e) == 1 + Payload(e)

PickNext(s, e, target) ==
  IF Len(s.chosen) < target /\ DecoyCost(e) <= s.left
  THEN [chosen |-> Append(s.chosen, e), left |-> s.left - DecoyCost(e)]
  ELSE s

(* _pick_decoys: in the shuffled order, every candidate that still fits, up to *)
(* the target.                                                                 *)
PickDecoys(order, left, target) ==
  LET picked[i \in 0..Len(order)] ==
        IF i = 0 THEN [chosen |-> <<>>, left |-> left]
        ELSE PickNext(picked[i - 1], order[i], target)
  IN  picked[Len(order)].chosen

(* What sample_or_free may return for an entry: values that can be written,    *)
(* whether the constraints allow them or not.                                  *)
DecoyValues(e) == {r.values : r \in {r \in Records :
                      r.id = e.id /\ WriteParams(e, r.values) = "none"}}

Random(n) == [1..n -> Noise]

(* encrypt_hidden: a random tail behind the text, the decoys that fit, the     *)
(* real record among them, random cells up to the end of the body.             *)
EncryptHidden(engine, text, target) ==
  /\ WrongLength(text) = "none"
  /\ \E order \in SetToSeqs(Candidates), tail \in Random(Capacity - Len(text)) :
       LET left   == BODY - (2 + Payload(TextEntry))
           decoys == PickDecoys(order, left, target)
       IN  \E chosen \in {f \in [DOMAIN decoys -> UNION {DecoyValues(e) : e \in Candidates}] :
                            \A i \in DOMAIN decoys : f[i] \in DecoyValues(decoys[i])},
              place \in 1..(Len(decoys) + 1) :
            LET fakes   == [i \in DOMAIN decoys |->
                              [id |-> decoys[i].id, values |-> chosen[i]]]
                records == InsertAt(fakes, place, TextRecord(text, tail))
                cells   == ChainCells(records)
                error   == ChainError(records, FALSE)
            IN  /\ Ask("hidden", engine, records, text, FALSE, error)
                /\ \E padding \in Random(BODY - Len(cells)) :
                     Emit(error, TextEngine(engine), CHAIN_ID, cells \o padding)

HiddenRefused(engine, text) ==
  /\ WrongLength(text) # "none"
  /\ Ask("hidden", engine, <<>>, text, FALSE, WrongLength(text))
  /\ Emit(WrongLength(text), engine, CHAIN_ID, <<>>)

---------------------------------------------------------------------------------
(* Reading.  A tag made with another key does not verify; an id behind another *)
(* mask can come out as any.                                                   *)

DecodeErrors == {"DecodeError", "VerificationError"}

TextOf(values) == SubSeq(values[2], 1, values[1])
TextAnswer(values) ==
  IF Utf8(TextOf(values))
    THEN [Answer(<<>>) EXCEPT !.text = TextOf(values)]
    ELSE Fail("DecodeError")

DecryptText(id, body) ==
  LET a == Decode(id, body, TRUE)
  IN  IF a.error # "none" THEN a
      ELSE IF a.records[1].id # TEXT THEN Fail("DecodeError")
      ELSE TextAnswer(a.records[1].values)

TextsIn(records) == {i \in DOMAIN records : records[i].id = TEXT}

(* The first text record counts.                                               *)
DecryptHidden(id, body) ==
  LET a == DecodeChain(id, body, FALSE)
  IN  IF a.error # "none" THEN a
      ELSE IF TextsIn(a.records) = {} THEN Fail("DecodeError")
      ELSE TextAnswer(a.records[Min(TextsIn(a.records))].values)

(* app.py, whose engine has no pre-key: hidden text first, and plain text when *)
(* that is a DecodeError.                                                      *)
AppDecrypt(id, body) ==
  LET a == DecryptHidden(id, body)
  IN  IF a.error \in DecodeErrors THEN DecryptText(id, body) ELSE a

Methods == {"decode", "decode_chain", "is_chain", "decrypt_text", "decrypt_hidden",
            "app"}

(* The mask a method removes: only the formula methods use the pre-key.        *)
ReadingEngine(how, engine) ==
  IF how \in {"decode", "decode_chain"} THEN engine ELSE Bare(engine)
ReadingMask(how, engine) == SelectorMask(ReadingEngine(how, engine))

Opened(how, id, body, check) ==
  CASE how = "decode"         -> Decode(id, body, check)
    [] how = "decode_chain"   -> DecodeChain(id, body, check)
    [] how = "is_chain"       -> IsChain(id, body)
    [] how = "decrypt_text"   -> DecryptText(id, body)
    [] how = "decrypt_hidden" -> DecryptHidden(id, body)
    [] how = "app"            -> AppDecrypt(id, body)

Receive(how, engine, check) ==
  /\ blob # NoBlob
  /\ how = "app" => engine.prekey = NoPrekey
  /\ \E id \in Ids(blob, ReadingMask(how, engine)) :
       answer' = Reading(how, engine, check,
                   IF ClosedError(ReadingEngine(how, engine)) # "none"
                     THEN Fail("PrekeyError")
                   ELSE IF engine.key # blob.key THEN Fail("VerificationError")
                   ELSE Opened(how, id, blob.body, check))
  /\ UNCHANGED <<closed, sent, blob>>

Chains == (UNION {[1..n -> Records] : n \in 0..MaxChain})
            \cup {[i \in 1..(MAX_RECORDS + 1) |-> r] : r \in Records}

Write == \E engine \in Engines :
           \/ \E record \in Records, check \in BOOLEAN :
                Encrypt(engine, record, check)
           \/ \E records \in Chains, check \in BOOLEAN :
                EncryptChain(engine, records, check)
           \/ \E text \in Texts : \/ EncryptText(engine, text)
                                  \/ HiddenRefused(engine, text)
                                  \/ \E target \in Targets :
                                       EncryptHidden(engine, text, target)

Forget == /\ sent' = Nothing /\ blob' = NoBlob /\ answer' = Unread
          /\ UNCHANGED closed

(* The engine keeps no state, so one ciphertext at a time, read once, shows    *)
(* all it does.                                                                *)
Next == \/ sent = Nothing /\ Write
        \/ answer = Unread /\ \E how \in Methods, engine \in Engines, check \in BOOLEAN :
             Receive(how, engine, check)
        \/ Forget
        \/ \E p \in Prekeys : ClosePrekey(p)

Spec == Init /\ [][Next]_vars

---------------------------------------------------------------------------------
Errors == {"none", "EncodingError", "CorpusError", "ConstraintViolation", "PrekeyError"}
            \cup DecodeErrors

(* Type invariant: whatever a ciphertext carries, its body has the fixed       *)
(* length.                                                                     *)
TypeOK ==
  /\ closed \subseteq Prekeys
  /\ sent.error \in Errors \ DecodeErrors /\ sent.by \in Engines
  /\ blob # NoBlob => /\ Len(blob.body) = BODY /\ ToSet(blob.body) \subseteq Cells
                      /\ blob.id \in Cells \ {0} /\ blob.key = sent.by.key
  /\ answer.error \in Errors \ {"EncodingError"} /\ answer.by \in Engines

(* The first text among the records, nothing when there is none.               *)
FirstText(records) ==
  IF TextsIn(records) = {} THEN <<>>
  ELSE TextOf(records[Min(TextsIn(records))].values)

(* A reading with the secrets of the writing that succeeds gives exactly what  *)
(* was sent: the records, or the text and never a decoy; and no method takes   *)
(* one formula for a chain or a chain for one formula.                         *)
Truthful ==
  LET single == sent.how \in {"formula", "text"}
  IN  answer.how # "none" /\ answer.error = "none"
        /\ blob.mask = ReadingMask(answer.how, answer.by) =>
        CASE answer.how = "decode"       -> single /\ answer.records = sent.records
          [] answer.how = "decode_chain" -> ~single /\ answer.records = sent.records
          [] answer.how = "is_chain"     -> answer.chain = ~single
          [] OTHER ->
               /\ answer.text =
                    IF sent.how \in {"text", "hidden"} THEN sent.text
                    ELSE FirstText(sent.records)
               /\ answer.how = "decrypt_text" => single
               /\ answer.how = "decrypt_hidden" => ~single

(* The methods that are there to read what a method wrote.                     *)
Fitting == [formula |-> {"decode"}, chain |-> {"decode_chain"},
            text    |-> {"decrypt_text", "app"},
            hidden  |-> {"decrypt_hidden", "app"}]

(* What an engine wrote, the same engine reads with the method for it: no      *)
(* value, text, decoy or order of records is accepted that cannot be read.     *)
(* Only the formulas of an engine whose pre-key was closed are lost to it.     *)
Opens ==
  answer.how # "none" /\ answer.by = sent.by /\ answer.how \in Fitting[sent.how]
    /\ (sent.check \/ ~answer.check \/ sent.how \in {"text", "hidden"})
    => answer.error = ClosedError(ReadingEngine(answer.how, answer.by))

(* The decoys never take so much room that a text of a legal length is         *)
(* refused.                                                                    *)
HiddenAlwaysFits ==
  sent.how = "hidden" /\ Len(sent.text) \in 1..Capacity => sent.error = "none"

(* Whatever legal thing an engine is given to write it writes, and reads back. *)
NothingUnreadable == Opens /\ HiddenAlwaysFits

(* Whoever holds the key but not the pre-key of the engine that encrypted a    *)
(* formula or a chain cannot tell which; no ciphertext is made under the key's *)
(* mask because the pre-key was closed in between.                             *)
FormulasStayHidden ==
  blob # NoBlob /\ sent.how \in {"formula", "chain"} /\ sent.by.prekey # NoPrekey =>
    \A mask \in {KeyMask(blob.key), PrekeyMask(blob.key)} : Ids(blob, mask) = Cells

(* A ciphertext gives its readers what was sent, and a formula only to those   *)
(* who hold both secrets.                                                      *)
Faithful == Truthful /\ FormulasStayHidden
=================================================================================
