------------------------------- MODULE Authoring --------------------------------
(* How formulas come into the corpus: layer2/generator.py writes candidate     *)
(* files, layer2/exam.py examines them beside the corpus, a person promotes    *)
(* what passed, writes files by hand and has corpus/validate.py look at the    *)
(* result.  The tools are processes of their own and share only the files:     *)
(* whatever a tool has read may have changed when it writes.                   *)
EXTENDS Sampler

CONSTANTS Originals,        \* the corpus to begin with
          Drafts,           \* the files people write
          BLOCKED,
          BlockSize,        \* ids of a block, 256 in the code
          FACTORS,          \* twice the factors of the code
          SLOTS,            \* the names that slots may have, in order
          TRIALS,           \* trials per entry asked for: 50 and 60
          BODY,             \* BODY_FIXED_BYTES, in bits
          CEILING,          \* PAYLOAD_FIXED_BYTES, in bits, the generator's too
          Sabotage,         \* sabotage_entries(): [entry, gate]
          MaxDrafts,        \* bound: drafts at a time
          MaxWork           \* bound: entries asked for and drafts written

ASSUME SizesAssumption ==
  /\ MAX_ID \in Nat /\ MAX_BITS \in Nat /\ MAX_WORDS \in Nat /\ MAX_PARAMS \in Nat
  /\ MAX_NAME \in Nat /\ MAX_INDEX \in Nat /\ MEMORY \in Nat
  /\ BlockSize \in Nat \ {0} /\ ByteBits \in Nat \ {0} /\ TRIALS \in Nat \ {0}
  /\ POINT_PREFIX_BITS \in Nat /\ POINT_PREFIX_BITS >= 2
  /\ BODY \in Nat /\ CEILING \in Nat /\ BODY <= CEILING
  /\ FACTORS \subseteq Nat /\ SLOTS \in Seq(Range(SLOTS))
  /\ MaxWork \in Nat
(* Ids fill blocks, and the last one is reserved.                              *)
ASSUME IdsAssumption == (MAX_ID + 1) % BlockSize = 0 /\ RESERVED_ID \in BLOCKED
ASSUME FilesAssumption == /\ Loads(Originals) /\ IsFiniteSet(Originals)
                          /\ \A e \in Originals \cup Drafts : IsEntry(e)

VARIABLES formulas,         \* the files of corpus/formulas
          candidates,       \* the files of generated_corpus/formulas
          gen,              \* the generator: where it is, the corpus it learned
                            \*   from, its entries, how many it still wants, its
                            \*   trials left, what it generates after deriving
          report,           \* the last verdict of the exam, and the corpus it read
          work

vars == <<formulas, candidates, gen, report, work>>

Idle     == [pc |-> "idle", real |-> {}, out |-> <<>>, wants |-> 0, trials |-> 0, more |-> 0]
NoReport == [outcome |-> "none", real |-> {}, passed |-> {}]

Init == /\ formulas = Originals
        /\ candidates = {}
        /\ gen = Idle
        /\ report = NoReport
        /\ work = 0

---------------------------------------------------------------------------------
(* learn: the profile, as functions of the corpus it was learned from.         *)

Domains(real) == {e.domain : e \in real}
Pieces(real)  == UNION {{e.params[i] : i \in DOMAIN e.params} : e \in real}

Block(id) == id \div BlockSize
(* most_common: of two blocks with the same count the one met first, and the   *)
(* corpus is walked in the order of the ids.                                   *)
DomainBlock(real, d) ==
  LET mine == {e \in real : e.domain = d}
      count(b) == Cardinality({e \in mine : Block(e.id) = b})
      blocks == {Block(e.id) : e \in mine}
  IN  Min({b \in blocks : \A c \in blocks : count(c) <= count(b)})

(* A domain without parameters takes the types of modular arithmetic.          *)
TypesIn(real, d) == UNION {{e.params[i].type : i \in DOMAIN e.params} :
                             e \in {f \in real : f.domain = d}}
KindsOf(real, d) == TypesIn(real, IF TypesIn(real, d) = {} THEN "modular-arithmetic" ELSE d)
WidthsOf(real, kind) == {p.bits : p \in {q \in Pieces(real) : q.type = kind /\ q.bits > 0}}
ChoicesOf(real) ==
  LET pool == {p.choices : p \in {q \in Pieces(real) : q.type = "enum" /\ q.choices > 0}}
  IN  IF pool = {} THEN {2} ELSE pool
NamesOf(real, kind) ==
  LET pool == {p.name : p \in {q \in Pieces(real) : q.type = kind}}
  IN  IF pool = {} THEN {"x"} ELSE pool

(* constraint_template: names become slots, in whatever order they are met;    *)
(* nothing with a constant that is no integer, without names or with four.     *)
Injections(S, T) == {f \in [S -> T] : IsInjective(f)}
Renamed(e, new) ==
  [i \in DOMAIN e |-> IF e[i].kind = "name" /\ e[i].name \in DOMAIN new
                      THEN [e[i] EXCEPT !.name = new[@]] ELSE e[i]]
OnlyIntegers(e) == \A i \in DOMAIN e : e[i].kind = "const" => IsInt(e[i].value)
Templatable(e) == /\ ~IsBad(e) /\ OnlyIntegers(e)
                  /\ Cardinality(FreeNames(e)) \in 1..Len(SLOTS)
FirstSlots(k) == {SLOTS[i] : i \in 1..k}
Templates(real) ==
  UNION {{Renamed(e, f) : f \in Injections(FreeNames(e), FirstSlots(Cardinality(FreeNames(e))))}
         : e \in {x \in UNION {{f.constraints[i].expr : i \in DOMAIN f.constraints} : f \in real} :
                    Templatable(x)}}

---------------------------------------------------------------------------------
(* generate.                                                                   *)

FreeIds(block, used) ==
  {i \in block * BlockSize..(block + 1) * BlockSize - 1 : i \notin used \cup BLOCKED \cup {0}}

(* _make_name: a name of the pool; after picks that were all in use, one with  *)
(* a number behind it, the next number for each pick that is in use again.     *)
Numbered(pool, k) == {n \o ToString(k) : n \in pool}
FreshNames(real, kind, used) ==
  LET pool == NamesOf(real, kind)
      misses(k) == pool \cap used # {} /\ \A m \in 2..(k - 1) : Numbered(pool, m) \cap used # {}
  IN  (pool \ used) \cup UNION {Numbered(pool, k) \ used : k \in {j \in 2..59 : misses(j)}}

(* _make_params, one parameter: a type that needs a modulus gives way to uint  *)
(* as long as there is no prime, a point to bytes.  A type the corpus has no   *)
(* width of ends the run with an IndexError, and so does having no type.       *)
Primes(params) == {params[i].name : i \in {j \in DOMAIN params : params[j].type = "prime"}}
Kinds(real, d, params) ==
  {CASE k \in MOD_REQUIRED /\ Primes(params) = {} -> "uint"
     [] k = "point" -> "bytes" [] OTHER -> k : k \in KindsOf(real, d)}
NextParams(real, d, params) ==
  {Append(params, p) : p \in UNION
     {[name : FreshNames(real, k, {params[i].name : i \in DOMAIN params}),
       type : {k},
       bits : IF k = "enum" THEN {0} ELSE WidthsOf(real, k),
       mod : IF k \in MOD_REQUIRED THEN {{n} : n \in Primes(params)} ELSE {{}},
       curve : {FALSE},
       public : {p.public : p \in Pieces(real)},
       choices : IF k = "enum" THEN ChoicesOf(real) ELSE {0}] : k \in Kinds(real, d, params)}}
MadeParams(real, d) ==
  LET most == Max({Len(e.params) : e \in real})
      lists[i \in 0..most] ==
        IF i = 0 THEN {<<>>} ELSE UNION {NextParams(real, d, l) : l \in lists[i - 1]}
  IN  UNION {lists[Len(e.params)] : e \in real}
IndexErrors(real, d) ==
  /\ \E e \in real : e.params # <<>>
  /\ \/ Kinds(real, d, <<>>) = {}
     \/ \E k \in Kinds(real, d, <<>>) : k # "enum" /\ WidthsOf(real, k) = {}

(* _replace_slot, slot after slot: a parameter whose name is a slot is         *)
(* replaced again by the one chosen for it.                                    *)
Bindings(template, numeric) ==
  LET slots == {s \in Range(SLOTS) : s \in FreeNames(template)}
      bound(f) ==
        LET after[i \in 0..Len(SLOTS)] ==
              IF i = 0 THEN template
              ELSE IF SLOTS[i] \in slots
              THEN Renamed(after[i - 1], [s \in {SLOTS[i]} |-> f[s]])
              ELSE after[i - 1]
        IN  after[Len(SLOTS)]
  IN  {bound(f) : f \in Injections(slots, numeric)}

(* _make_constraints: as many different ones as some real entry has, or fewer  *)
(* when the attempts run out.                                                  *)
MadeConstraints(real, params) ==
  LET numeric == {params[i].name : i \in {j \in DOMAIN params : params[j].type \in IntTypes}}
      bound == UNION {Bindings(t, numeric) : t \in Templates(real)}
  IN  {[i \in DOMAIN f |-> [expr |-> f[i], warning |-> FALSE]] :
         f \in UNION {Injections(1..n, bound) : n \in UNION {0..Len(e.constraints) : e \in real}}}

Slugs(entries) == {e.slug : e \in entries}

Slug(d, id) == <<"generated", d, ToString(id)>>
Made(d, id, params, constraints) ==
  [id |-> id, slug |-> Slug(d, id), name |-> <<"Generated structure", d>>,
   domain |-> d, status |-> "active", shape |-> "whole",
   params |-> params, constraints |-> constraints]

Fits(params) == params # <<>> /\ PayloadBits(params) <= CEILING

(* Mistake, for the runs: the ids of this run are not marked as used.          *)
UsedBefore(real, out) == Ids(real)

(* used_ids, in mixed mode with those of the derivatives.                      *)
Used(real, out) == Ids(real) \cup Ids(Range(out))

(* One trial of generate: an entry, or none when the parameters are too wide   *)
(* or the id or the slug is taken.                                             *)
TrialIn(d, real, out) ==
  LET ids == FreeIds(DomainBlock(real, d), Used(real, out))
      free == {i \in ids : Slug(d, i) \notin Slugs(real \cup Range(out))}
      lists == MadeParams(real, d)
      fitting == {l \in lists : Fits(l)}
      entries(l) == {Made(d, i, l, c) : i \in free, c \in MadeConstraints(real, l)}
      sure == fitting = lists /\ free = ids /\ ids # {}
  IN  {Append(out, e) : e \in UNION {entries(l) : l \in fitting}}
      \cup (IF lists = {} \/ sure THEN {} ELSE {out})
Trials(real, out) == UNION {TrialIn(d, real, out) : d \in Domains(real)}

---------------------------------------------------------------------------------
(* derive and derivatives.                                                     *)

(* round() goes to the even neighbour.                                         *)
Half(n) == IF n % 2 = 0 THEN n \div 2 ELSE 2 * ((n + 1) \div 4)
Scaled(p, f) ==
  LET b == Half(p.bits * f)
  IN  IF p.type = "bytes" THEN b - (b % ByteBits) ELSE b
Scales(p) == p.type \in BITS_REQUIRED /\ p.bits > 0

(* derive: {} where the code returns None.                                     *)
Derived(parent, id, f) ==
  LET params == [i \in DOMAIN parent.params |->
                   IF Scales(parent.params[i])
                   THEN [parent.params[i] EXCEPT !.bits = Scaled(parent.params[i], f)]
                   ELSE parent.params[i]]
  IN  IF \/ \E i \in DOMAIN params : Scales(parent.params[i]) /\ params[i].bits \notin 1..MAX_BITS
         \/ PayloadBits(params) > CEILING
         \/ params = parent.params
      THEN {}
      ELSE {[parent EXCEPT !.id = id, !.status = "active", !.params = params,
                           !.slug = <<"derive">> \o @ \o <<ToString(f)>>,
                           !.name = @ \o <<ToString(f)>>]}

(* One trial of derivatives: the slug is only compared with this run's own.    *)
Derivation(parent, f, real, out) ==
  LET ids == FreeIds(Block(parent.id), Used(real, out))
      made == {e \in UNION {Derived(parent, i, f) : i \in ids} :
                 e.slug \notin Slugs(Range(out))}
  IN  IF made = {} THEN {out} ELSE {Append(out, e) : e \in made}
Derivations(real, out) ==
  UNION {Derivation(parent, f, real, out) :
           parent \in {e \in real : e.status = "active"}, f \in FACTORS}

---------------------------------------------------------------------------------
(* The generator's process.                                                    *)

Loop(pc, wants) == [Idle EXCEPT !.pc = pc, !.wants = wants, !.trials = TRIALS * wants]

(* main: the corpus is loaded once.  Half of a mixed run is derived first.     *)
Start(count) ==
  /\ gen.pc = "idle"
  /\ work + count <= MaxWork /\ work' = work + count
  /\ Loads(formulas)
  /\ \E g \in {Loop("generate", count), Loop("derive", count),
               [Loop("derive", count \div 2) EXCEPT !.more = count - count \div 2]} :
       gen' = [g EXCEPT !.real = formulas]
  /\ UNCHANGED <<formulas, candidates, report>>

(* One round of the loop of derivatives or of generate.                        *)
Try ==
  /\ gen.pc \in {"derive", "generate"} /\ gen.wants > 0 /\ gen.trials > 0
  /\ \E out \in IF gen.pc = "derive" THEN Derivations(gen.real, gen.out)
                                     ELSE Trials(gen.real, gen.out) :
       gen' = [gen EXCEPT !.out = out, !.trials = @ - 1,
                          !.wants = @ - (Len(out) - Len(gen.out))]
  /\ UNCHANGED <<formulas, candidates, report, work>>

(* Mistake, for the runs: what was derived is asked for once more.             *)
LoopEndsTwice ==
  /\ gen.pc \in {"derive", "generate"} /\ (gen.wants = 0 \/ gen.trials = 0)
  /\ gen' = [Loop(IF gen.more > 0 THEN "generate" ELSE "write",
                  IF gen.more > 0 THEN gen.more + Len(gen.out) ELSE 0)
             EXCEPT !.real = gen.real, !.out = gen.out]
  /\ UNCHANGED <<formulas, candidates, report, work>>

(* The loop has its entries or no trials left; main goes on.                   *)
LoopEnds ==
  /\ gen.pc \in {"derive", "generate"} /\ (gen.wants = 0 \/ gen.trials = 0)
  /\ gen' = IF gen.more > 0
            THEN [Loop("generate", gen.more) EXCEPT !.real = gen.real, !.out = gen.out]
            ELSE [Loop("write", 0) EXCEPT !.real = gen.real, !.out = gen.out]
  /\ UNCHANGED <<formulas, candidates, report, work>>

(* write_entries: a file per entry, named after its id and slug.  The files of *)
(* earlier runs stay, unless they have the name of a new one.                  *)
Write ==
  /\ gen.pc = "write" /\ gen.out # <<>>
  /\ candidates' = {c \in candidates : <<c.id, c.slug>> # <<Head(gen.out).id, Head(gen.out).slug>>}
                   \cup {Head(gen.out)}
  /\ gen' = [gen EXCEPT !.out = Tail(@)]
  /\ UNCHANGED <<formulas, report, work>>
Finish == /\ gen.pc = "write" /\ gen.out = <<>>
          /\ gen' = Idle
          /\ UNCHANGED <<formulas, candidates, report, work>>

(* A trial that has to draw a width of a type the corpus has none of.          *)
Crash == /\ gen.pc = "generate" /\ gen.wants > 0 /\ gen.trials > 0
         /\ \E d \in Domains(gen.real) : IndexErrors(gen.real, d)
         /\ gen' = Idle
         /\ UNCHANGED <<formulas, candidates, report, work>>

(* The process is killed, between two files or anywhere else.                  *)
Die == /\ gen.pc # "idle"
       /\ gen' = Idle
       /\ UNCHANGED <<formulas, candidates, report, work>>

---------------------------------------------------------------------------------
(* The exam.                                                                   *)

(* Mistake, for the runs: nothing is compared with the real corpus.            *)
Gate2NoCollision(e, real) ==
  /\ e.id \notin BLOCKED
  /\ ParamErrors(e) = {} /\ ParamWarnings(e) = {}
  /\ PayloadBits(e.params) <= CEILING

(* Mistake, for the runs: the warnings are taken for the errors.               *)
Gate2Warnings(e, real) ==
  /\ e.id \notin BLOCKED /\ e.id \notin Ids(real)
  /\ ParamWarnings(e) = {}
  /\ PayloadBits(e.params) <= CEILING

Gate2(e, real) ==
  /\ e.id \notin BLOCKED /\ e.id \notin Ids(real)
  /\ ParamErrors(e) = {} /\ ParamWarnings(e) = {}
  /\ PayloadBits(e.params) <= CEILING

(* _write_param, the number that is written for a value: of a text without its *)
(* padding, of an enum the index, and of a point x behind the prefix 2 or 3.   *)
Number(p, x) ==
  CASE p.type \in IntTypes -> x.n
    [] p.type = "bytes" -> NumberOf(2, SubSeq(x.s, 1, p.bits))
    [] p.type = "enum"  -> x.s[1] - 1
    [] p.type = "point" -> (2 + x.s[2]) * TwoTo[p.bits] + x.s[1]

(* The body as bits, the parameters one after the other, zeros behind them.    *)
Body(e, env) ==
  LET written == FlattenSeq([i \in DOMAIN e.params |->
                   LET p == e.params[i] IN DigitsTo(2, Number(p, env[p.name]), Width(p))])
  IN  written \o [i \in 1..(BODY - Len(written)) |-> 0]

(* The numbers that an entry's parameters have in a body, and their values.    *)
Publics(e) == {i \in DOMAIN e.params : e.params[i].public}
ReadNumber(e, i, body) ==
  LET end == Ends(Widths(e.params)) IN NumberOf(2, SubSeq(body, end[i - 1] + 1, end[i]))
Read(e, i, body) == {v \in Whole(e.params[i]) : Number(e.params[i], v) = ReadNumber(e, i, body)}
Readable(e, body) ==
  /\ PayloadBits(e.params) <= BODY
  /\ \A i \in Publics(e) : Read(e, i, body) # {}
ReadBack(e, body) ==
  [n \in {e.params[i].name : i \in Publics(e)} |->
     LET i == Max({j \in Publics(e) : e.params[j].name = n})
     IN  CHOOSE v \in Read(e, i, body) : TRUE]

(* gate4_round_trip: encode with the entry, decode with the corpus.            *)
RoundTrips(e, env, corpus) ==
  /\ e.status # "retired"
  /\ PayloadBits(e.params) <= BODY
  /\ CheckAll(e.constraints, env) = "ok"
  /\ e.id \in Ids(corpus)
  /\ LET found == Lookup(corpus, e.id)
         back == ReadBack(found, Body(e, env))
     IN  /\ Readable(found, Body(e, env))
         /\ CheckAll(found.constraints, back) = "ok"
         /\ \A i \in Publics(e) :
              LET n == e.params[i].name
              IN  n \in DOMAIN back /\ back[n] = env[n]

(* exam_1_4, the corpus to decode with: the real entries and every candidate   *)
(* that has the fields, or the real ones alone if Corpus() refuses them.       *)
Combined(real, files) ==
  LET entries == {e \in files : e.shape \in {"whole", "odd"}}
  IN  IF Accepted(real \cup entries) /\ Ids(real) \cap Ids(entries) = {}
      THEN real \cup entries ELSE real

(* What may become of an entry at the gates; "raises" is an exception that no  *)
(* gate expects.                                                               *)
Outcomes(e, real, corpus) ==
  IF e.shape = "unreadable" THEN {"raises"}
  ELSE IF ~Conforms(e) THEN {"schema"}
  ELSE IF ~Gate2(e, real) THEN {"semantics"}
  ELSE {CASE s.kind = "raises"  -> "raises"
          [] s.kind = "gave up" -> "samplable"
          [] s.kind = "values"  -> IF RoundTrips(e, s.env, corpus) THEN "passed"
                                   ELSE "round-trip" : s \in Sample(e)}

(* sabotage_entries: each breaks what one gate looks at and nothing that the   *)
(* gates before it do.                                                         *)
ASSUME SabotageAssumption ==
  \A s \in Sabotage :
    LET e == s.entry
        faulty == \/ e.id \in BLOCKED \/ ParamErrors(e) # {} \/ ParamWarnings(e) # {}
                  \/ ~(PayloadBits(e.params) <= CEILING)
    IN  \/ s.gate = "schema" /\ e.shape # "unreadable" /\ ~Conforms(e)
        \/ s.gate = "semantics" /\ Conforms(e) /\ faulty
        \/ /\ s.gate = "samplable" /\ Conforms(e) /\ ~faulty
           /\ Raises(e) /\ \A i \in Hard(e) : ~IsBad(e.constraints[i].expr)

(* control_1_4: where the sabotaged entries end, each examined alone.          *)
Fates(s, real) == Outcomes(s.entry, real, Combined(real, {s.entry}))
ControlClean(real)  == \A s \in Sabotage : s.gate \in Fates(s, real)
ControlBroken(real) == \E s \in Sabotage : Fates(s, real) # {s.gate}

(* The verdicts that may come of where entries end; those that may end in two  *)
(* ways have passed or have not.                                               *)
Judged(real, fates, clean, broken) ==
  LET May(end)  == {f.entry : f \in {g \in fates : end \in g.ends}}
      Must(end) == {f.entry : f \in {g \in fates : g.ends = {end}}}
      verdict(outcome, passed) == [outcome |-> outcome, real |-> real, passed |-> passed]
  IN  (IF broken THEN {verdict("broken", {})} ELSE {})
      \cup (IF clean /\ May("raises") # {} THEN {verdict("raised", {})} ELSE {})
      \cup (IF clean /\ Must("raises") = {}
            THEN {verdict(IF s = {} THEN "nothing passed" ELSE "passed", s) :
                    s \in {Must("passed") \cup t : t \in SUBSET (May("passed") \ Must("passed"))}}
            ELSE {})

(* main: the control decides first.  What gate 5 measures about the entries    *)
(* that passed changes no file and is left out.                                *)
EndsOf(files, real, corpus) ==
  {[entry |-> e, ends |-> Outcomes(e, real, corpus)] : e \in files}
Verdicts(real, files) ==
  Judged(real, EndsOf(files, real, Combined(real, files)),
         ControlClean(real), ControlBroken(real))

Exam == /\ candidates # {} /\ Loads(formulas)
        /\ report' \in Verdicts(formulas, candidates)
        /\ UNCHANGED <<formulas, candidates, gen, work>>

---------------------------------------------------------------------------------
(* People.                                                                     *)

(* An entry that passed is copied into the corpus, whatever has happened to it *)
(* since; its file among the candidates is removed or left.                    *)
Promote(e) == /\ e \in report.passed /\ e \in candidates /\ e \notin formulas
              /\ formulas' = formulas \cup {e}
              /\ candidates' \in {candidates, candidates \ {e}}
              /\ UNCHANGED <<gen, report, work>>

(* A file is written by hand, here or there.                                   *)
WriteByHand(d) ==
  /\ work < MaxWork /\ work' = work + 1
  /\ Cardinality(Drafts \cap (formulas \cup candidates)) < MaxDrafts
  /\ \/ formulas' = formulas \cup {d} /\ UNCHANGED candidates
     \/ candidates' = candidates \cup {d} /\ UNCHANGED formulas
  /\ UNCHANGED <<gen, report>>

Next == \/ \E count \in 1..MaxWork : Start(count)
        \/ Try \/ Crash \/ LoopEnds \/ Write \/ Finish \/ Die
        \/ Exam
        \/ \E e \in candidates : Promote(e)
        \/ \E d \in Drafts : WriteByHand(d)

Spec == Init /\ [][Next]_vars

---------------------------------------------------------------------------------
(* corpus/validate.py.                                                         *)

(* check_constraints: every expression parses and has only names it knows.     *)
KnownNames(e) == \A i \in DOMAIN e.constraints :
                   LET x == e.constraints[i].expr
                   IN  ~IsBad(x) /\ FreeNames(x) \subseteq Names(e)

(* Mistake, for the runs: only the slugs are compared.                         *)
CleanBySlug(files) ==
  /\ files # {}
  /\ \A e \in files : Conforms(e) /\ ParamErrors(e) = {} /\ KnownNames(e)
  /\ \A e, f \in files : e.slug = f.slug => e = f

(* main returns 0.                                                             *)
Clean(files) ==
  /\ files # {}
  /\ \A e \in files : Conforms(e) /\ ParamErrors(e) = {} /\ KnownNames(e)
  /\ \A e, f \in files : e.id = f.id \/ e.slug = f.slug => e = f

---------------------------------------------------------------------------------
(* Type invariant: files are entries, a run makes no more of them than it was  *)
(* asked for, and a report has the verdict that goes with what passed.         *)
TypeOK ==
  /\ IsFiniteSet(formulas) /\ IsFiniteSet(gen.real)
  /\ \A e \in formulas \cup candidates \cup gen.real \cup Range(gen.out) : IsEntry(e)
  /\ gen = [pc |-> gen.pc, real |-> gen.real, out |-> gen.out, wants |-> gen.wants,
            trials |-> gen.trials, more |-> gen.more]
  /\ gen.pc \in {"idle", "derive", "generate", "write"}
  /\ gen.pc # "idle" => Loads(gen.real)
  /\ gen.out \in Seq(Range(gen.out))
  /\ gen.wants \in Nat /\ gen.trials \in Nat /\ gen.more \in Nat
  /\ Len(gen.out) + gen.wants + gen.more <= work
  /\ report = [outcome |-> report.outcome, real |-> report.real, passed |-> report.passed]
  /\ report.outcome \in {"none", "broken", "raised", "nothing passed", "passed"}
  /\ report.passed # {} <=> report.outcome = "passed"
  /\ work \in 0..MaxWork

(* What an exam passed can go into the corpus it was examined beside, all of   *)
(* it together: the ids stay distinct, none is reserved, and whatever values   *)
(* the sampler finds for an entry come back from its ciphertext, not only      *)
(* those the exam tried, and with the corpus as it will then be.               *)
PassedGoTogether ==
  LET joined == report.real \cup report.passed
  IN  report.passed # {} =>
        /\ Accepted(joined)
        /\ Ids(report.real) \cap Ids(report.passed) = {}
        /\ \A e \in report.passed : \A s \in Sample(e) :
             s.kind = "values" => RoundTrips(e, s.env, joined)

(* What the generator makes of a corpus that validates, the exam refuses only  *)
(* for its constraints, for its size in a body, for a slug or a name that the  *)
(* schema does not admit, or for a warning about parameters that a derivative  *)
(* has from its parent: ids are free and distinct, references go backwards,    *)
(* every width is allowed and the ceiling is kept, and constraints name the    *)
(* entry's own parameters.                                                     *)
MadeAreCandidates ==
  Clean(gen.real) =>
    /\ \A i, j \in DOMAIN gen.out : gen.out[i].id = gen.out[j].id => i = j
    /\ \A e \in Range(gen.out) :
         /\ FitsSchema(e)
         /\ e.id \notin Ids(gen.real) \cup BLOCKED
         /\ ParamErrors(e) = {} /\ KnownNames(e)
         /\ PayloadBits(e.params) <= CEILING
         /\ ParamWarnings(e) = {} \/ \E f \in gen.real : ParamWarnings(f) = ParamWarnings(e)

(* Does an expression calculate with a text?  The operators of Python give     *)
(* texts and numbers a value, or errors that few callers expect.               *)
TextNames(e) == {n \in Names(e) : ParamOf(e, n).type \notin IntTypes}
IsText(node, names) == \/ node.kind = "const" /\ ~IsInt(node.value)
                       \/ node.kind = "name" /\ node.name \in names
Reckons(x, names) ==
  \E i \in DOMAIN x : /\ x[i].kind = "bin"
                      /\ \E k \in DOMAIN x[i].args : IsText(x[i - x[i].args[k]], names)
PlainNumbers(e) == \A i \in DOMAIN e.constraints : ~Reckons(e.constraints[i].expr, TextNames(e))

(* A corpus the validator calls clean is one the program can load and write    *)
(* from, but for the reserved id, which the schema admits and Corpus()         *)
(* refuses: ids are distinct and every width is known.  And if the constraints *)
(* of an entry calculate with numbers only, neither the sampler nor the engine *)
(* meets an exception it does not expect.                                      *)
CleanIsUsable ==
  Clean(formulas) /\ RESERVED_ID \notin Ids(formulas) =>
    /\ Loads(formulas)
    /\ \A e \in formulas :
         /\ \A i \in Publics(e) : ParamBits(e.params[i]) > 0
         /\ PlainNumbers(e) => \A s \in Sample(e) : s.kind # "raises"

(* The exam's positive control finds the exam in order for every corpus that   *)
(* leaves the ids free it needs, so that a refusal to answer means a broken    *)
(* gate; a corpus that takes the id of the contradictory entry breaks it.      *)
ControlWorks ==
  Loads(formulas) =>
    LET needed == {s.entry.id : s \in {t \in Sabotage : t.gate = "samplable"}}
    IN  IF needed \cap Ids(formulas) = {}
        THEN ControlClean(formulas) /\ ~ControlBroken(formulas)
        ELSE ~ControlClean(formulas)

(* The bounds that sampling starts from exclude no values the constraints      *)
(* admit, so that an entry is never refused as unsatisfiable because of them.  *)
Admits(e, env) == \A i \in Hard(e) : Verdict(e.constraints[i], env) = "ok"
BoundsLoseNothing ==
  \A e \in formulas \cup candidates :
    e.shape = "whole" /\ ParamErrors(e) = {} /\ KnownNames(e) =>
      LET limits == Bounds(e)
      IN  \A env \in RandomValues(e) :
            Admits(e, env) => \A n \in Bounded(e) : Inside(limits, n, env[n].n)

=================================================================================
