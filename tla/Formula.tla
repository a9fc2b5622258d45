-------------------------------- MODULE Formula ---------------------------------
(* Entries of the corpus as data: crypto/corpus.py, the expressions of         *)
(* crypto/constraints.py and what formula.schema.json asks of a file.          *)
(*                                                                             *)
(* An entry is [id, slug, name, domain, status, shape, params, constraints]:   *)
(* shape says whether its file can be read, has all fields and the rest of the *)
(* schema; a slug and the name in doc, the slug where doc has none, are        *)
(* sequences of words.  A parameter is                                         *)
(* [name, type, bits, mod, curve, public, choices], where 0 bits, 0 choices    *)
(* and a mod without a name are fields that are missing, and curve says that a *)
(* curve is named.  A constraint is [expr, warning].  The other texts of doc,  *)
(* which no code here reads, are left out.                                     *)
EXTENDS Layout, SequencesExt

CONSTANTS MAX_ID,           \* the schema's maximum id, which is RESERVED_ID
          MAX_BITS,         \* the schema's maximum width
          MAX_WORDS,        \* the schema's maximum slug, in words
          MAX_NAME,         \* the schema's maximum name, in words
          ODD_WORDS,        \* words that the schema's pattern of slugs refuses
          MAX_PARAMS,
          MAX_EXPONENT,
          POINT_PREFIX_BITS,
          ByteBits,         \* 8
          MAX_INDEX,        \* the largest size Python counts with, 2^63 - 1
          MEMORY            \* the largest text there is room for

RESERVED_ID == MAX_ID
IntTypes == {"prime", "field_element", "scalar", "uint"}
BITS_REQUIRED == IntTypes \cup {"bytes"}
MOD_REQUIRED == {"field_element", "scalar"}
MOD_VALID_TARGETS == {"prime", "uint"}
Types == BITS_REQUIRED \cup {"point", "enum"}

---------------------------------------------------------------------------------
(* Values and expressions.  A value is [t, n, s]: a number, or a text with its *)
(* symbols, which for bytes are their bits, for a str its words, those of all  *)
(* enums numbered alike, and for a point its two coordinates.  The truth       *)
(* values are the numbers 1 and 0.  Three values stand for errors: "err" for   *)
(* ValueError and TypeError, "overflow" and "memory" for the two that only     *)
(* some callers expect.                                                        *)
(* An expression is the sequence of the nodes of its tree, the operands of a   *)
(* node before the node itself: args says how far back the last node of each   *)
(* operand is.  "bad" is what parse() refuses.  Left out are true division,    *)
(* in, lists, signs, floats, formatting with %, abs, pow and len, and min, max *)
(* and gcd of other than two; and that a number may be too large for memory.   *)

Int_(n)    == [t |-> "int", n |-> n, s |-> <<>>]
Bool(b)    == Int_(IF b THEN 1 ELSE 0)
Text(t, s) == [t |-> t, n |-> 0, s |-> s]
Err        == Text("err", <<>>)
Overflow   == Text("overflow", <<>>)
NoMemory   == Text("memory", <<>>)

IsInt(x)   == x.t = "int"
Failed(x)  == x.t \in {"err", "overflow", "memory"}
Truthy(x)  == IF IsInt(x) THEN x.n # 0 ELSE x.s # <<>>

TwoTo == Powers(2)

Node(kind) == [kind |-> kind, value |-> Int_(0), name |-> "", ops |-> <<>>, args |-> <<>>]
Num(n)     == <<[Node("const") EXCEPT !.value = Int_(n)]>>
Var(n)     == <<[Node("name") EXCEPT !.name = n]>>
Pair(kind, op, l, r) ==
  l \o r \o <<[Node(kind) EXCEPT !.ops = <<op>>, !.args = <<Len(r) + 1, 1>>]>>
Bin(op, l, r)     == Pair("bin", op, l, r)
Compare(l, op, r) == Pair("cmp", op, l, r)
Bad == <<Node("bad")>>

Root(e)       == e[Len(e)]
Operand(e, k) == e[Len(e) - Root(e).args[k]]
IsBad(e)      == Root(e).kind = "bad"

(* divmod of Python: the quotient is rounded down, the rest has the divisor's  *)
(* sign.                                                                       *)
FloorDiv(a, b) == IF b > 0 THEN a \div b ELSE (-a) \div (-b)
FloorMod(a, b) == a - b * FloorDiv(a, b)

Magnitude(a) == IF a < 0 THEN -a ELSE a
Gcd(a, b) ==
  LET m == Magnitude(a)  n == Magnitude(b)
  IN  IF m = 0 \/ n = 0 THEN m + n
      ELSE CHOOSE d \in 1..m : /\ m % d = 0 /\ n % d = 0
                               /\ \A k \in (d + 1)..m : m % k # 0 \/ n % k # 0

Arithmetic(op, a, b) ==
  CASE op = "+"  -> Int_(a + b)
    [] op = "-"  -> Int_(a - b)
    [] op = "*"  -> Int_(a * b)
    [] op = "//" -> IF b = 0 THEN Err ELSE Int_(FloorDiv(a, b))
    [] op = "%"  -> IF b = 0 THEN Err ELSE Int_(FloorMod(a, b))
    [] op = "**" -> IF b \in 0..MAX_EXPONENT THEN Int_(a^b) ELSE Err
    [] op = "gcd" -> Int_(Gcd(a, b))
    [] op = "min" -> Int_(IF a < b THEN a ELSE b)
    [] op = "max" -> Int_(IF a < b THEN b ELSE a)

(* Texts can be repeated, joined and ordered.  What counts against the limits  *)
(* is bytes or symbols; a negative count gives the empty text.  Too long a     *)
(* tuple is a MemoryError also where other texts overflow.                     *)
Size(x) == IF x.t = "bytes" THEN Len(x.s) \div ByteBits ELSE Len(x.s)
Repeated(x, n) ==
  IF \/ n \notin (-MAX_INDEX - 1)..MAX_INDEX
     \/ n * Size(x) > MAX_INDEX /\ x.t # "pair" THEN Overflow
  ELSE IF n * Size(x) > MEMORY THEN NoMemory
  ELSE Text(x.t, FlattenSeq([i \in 1..n |-> x.s]))
Joined(x, y) ==
  IF Size(x) + Size(y) > MEMORY THEN NoMemory ELSE Text(x.t, x.s \o y.s)

Below(r, s) == \/ IsStrictPrefix(r, s)
               \/ \E i \in DOMAIN r \cap DOMAIN s :
                    r[i] < s[i] /\ \A k \in 1..(i - 1) : r[k] = s[k]
Smaller(x, y) == IF IsInt(x) THEN x.n < y.n ELSE Below(x.s, y.s)

Textual(op, x, y) ==
  LET count == IF IsInt(y) THEN y ELSE x
      text  == IF IsInt(y) THEN x ELSE y
  IN  IF op = "*" /\ IsInt(count) THEN Repeated(text, count.n)
      ELSE IF x.t # y.t THEN Err
      ELSE CASE op = "+" -> Joined(x, y)
             [] op \in {"min", "max"} -> IF Smaller(x, y) <=> op = "min" THEN x ELSE y
             [] OTHER -> Err

Applied(op, x, y) ==
  IF Failed(x) THEN x
  ELSE IF Failed(y) THEN y
  ELSE IF IsInt(x) /\ IsInt(y) THEN Arithmetic(op, x.n, y.n)
  ELSE Textual(op, x, y)

(* Equality is defined between any two values, the order only inside a type.   *)
Compared(op, x, y) ==
  IF Failed(x) THEN x
  ELSE IF Failed(y) THEN y
  ELSE CASE op = "==" -> Bool(x = y)
         [] op = "!=" -> Bool(x # y)
         [] OTHER -> IF x.t # y.t THEN Err
                     ELSE CASE op = "<"  -> Bool(Smaller(x, y))
                            [] op = "<=" -> Bool(~Smaller(y, x))
                            [] op = ">"  -> Bool(Smaller(y, x))
                            [] op = ">=" -> Bool(~Smaller(x, y))

(* and, or and chains of comparisons stop at the first operand that decides,   *)
(* so an error behind it is never met.                                         *)
Junction(x, decisive) ==
  LET stops == {k \in DOMAIN x : Failed(x[k]) \/ Truthy(x[k]) = decisive}
  IN  IF stops = {} THEN Bool(~decisive)
      ELSE IF Failed(x[Min(stops)]) THEN x[Min(stops)] ELSE Bool(decisive)
Chain(ops, x) ==
  LET link(k) == Compared(ops[k], x[k], x[k + 1])
      stops   == {k \in DOMAIN ops : link(k) # Bool(TRUE)}
  IN  IF stops = {} THEN Bool(TRUE) ELSE link(Min(stops))

(* _eval: the value of a node whose operands have the values x, and of all     *)
(* nodes of an expression.                                                     *)
NodeValue(node, x, env) ==
  CASE node.kind = "const" -> node.value
    [] node.kind = "name"  -> IF node.name \in DOMAIN env THEN env[node.name] ELSE Err
    [] node.kind = "not"   -> IF Failed(x[1]) THEN x[1] ELSE Bool(~Truthy(x[1]))
    [] node.kind = "bin"   -> Applied(node.ops[1], x[1], x[2])
    [] node.kind = "and"   -> Junction(x, FALSE)
    [] node.kind = "or"    -> Junction(x, TRUE)
    [] node.kind = "cmp"   -> Chain(node.ops, x)
Values(e, env) ==
  LET value[i \in DOMAIN e] ==
        NodeValue(e[i], [k \in DOMAIN e[i].args |-> value[i - e[i].args[k]]], env)
  IN  value
Eval(e, env) == Values(e, env)[Len(e)]

(* free_names, for an expression parse() accepts.                              *)
FreeNames(e) == {e[i].name : i \in {j \in DOMAIN e : e[j].kind = "name"}}

(* equality_gap: the difference of the two sides, an error if it has none.     *)
IsEquality(e) == Root(e).kind = "cmp" /\ Root(e).ops = <<"==">>
EqualityGap(e, env) ==
  LET side(k) == Len(e) - Root(e).args[k]
      gap(value) == Applied("-", value[side(1)], value[side(2)])
  IN  gap(Values(e, env))

(* check_all(skip_unknown=True): "ok", "violated" or "raises", the ValueError  *)
(* of free_names or a MemoryError, which no caller expects.  A warning is      *)
(* never a violation, and an overflow means that a constraint does not hold.   *)
Judgement(c, x) ==
  IF x = NoMemory THEN "raises"
  ELSE IF c.warning \/ (~Failed(x) /\ Truthy(x)) THEN "ok" ELSE "violated"
Verdict(c, env) ==
  IF IsBad(c.expr) THEN "raises"
  ELSE IF ~(FreeNames(c.expr) \subseteq DOMAIN env) THEN "ok"
  ELSE Judgement(c, Eval(c.expr, env))

FirstBad(verdicts) ==
  LET bad == {i \in DOMAIN verdicts : verdicts[i] # "ok"}
  IN  IF bad = {} THEN "ok" ELSE verdicts[Min(bad)]
CheckAll(constraints, env) ==
  FirstBad([i \in DOMAIN constraints |-> Verdict(constraints[i], env)])

---------------------------------------------------------------------------------
(* Parameters.                                                                 *)

(* ceil(log2(n)), at least 1: the width of an enum.                            *)
IndexBits(n) == CHOOSE b \in 1..n : TwoTo[b] >= n /\ \A k \in 1..(b - 1) : TwoTo[k] < n

(* param_bits: 0 is None.                                                      *)
ParamBits(p) ==
  CASE p.type \in BITS_REQUIRED -> p.bits
    [] p.type = "point" -> IF p.bits > 0 THEN p.bits + POINT_PREFIX_BITS ELSE 0
    [] p.type = "enum"  -> IF p.choices > 0 THEN IndexBits(p.choices) ELSE 0
    [] OTHER -> 0

(* What it takes in a body, where only public parameters are written.          *)
Width(p) == IF p.public THEN ParamBits(p) ELSE 0
Widths(params) == [i \in DOMAIN params |-> Width(params[i])]
PayloadBits(params) == Total(Widths(params))

Names(e) == {e.params[i].name : i \in DOMAIN e.params}

(* analyze_params.  Of two parameters with one name, seen holds the later one. *)
Seen(e, i, names) == {j \in 1..(i - 1) : e.params[j].name \in names}
Target(e, i) == e.params[Max(Seen(e, i, e.params[i].mod))]
ParamErrors(e) ==
  {i \in DOMAIN e.params :
     LET p == e.params[i]
     IN  \/ Seen(e, i, {p.name}) # {}
         \/ p.type \in BITS_REQUIRED /\ p.bits = 0
         \/ p.type \in MOD_REQUIRED /\ p.mod = {}
         \/ p.type = "enum" /\ p.choices = 0
         \/ p.type = "point" /\ ~p.curve
         \/ p.mod # {} /\ Seen(e, i, p.mod) = {}
         \/ p.mod # {} /\ Seen(e, i, p.mod) # {} /\ Target(e, i).type \notin MOD_VALID_TARGETS
         \/ p.public /\ ParamBits(p) = 0}
ParamWarnings(e) ==
  {i \in DOMAIN e.params : e.params[i].type \notin MOD_REQUIRED /\ e.params[i].mod # {}}

---------------------------------------------------------------------------------
(* Files and the loaded corpus.                                                *)

(* What formula.schema.json asks, of the fields the engine reads and of slug   *)
(* and name: gate1_schema and the validator.                                   *)
FitsSchema(e) ==
  /\ e.shape = "whole"
  /\ e.id \in 1..MAX_ID
  /\ Len(e.params) <= MAX_PARAMS
  /\ \A i \in DOMAIN e.params : /\ e.params[i].type \in Types
                                /\ e.params[i].bits \in 0..MAX_BITS
                                /\ e.params[i].choices # 1
NamesFit(e) == /\ Len(e.slug) \in 1..MAX_WORDS /\ Range(e.slug) \cap ODD_WORDS = {}
               /\ Len(e.name) <= MAX_NAME
Conforms(e) == FitsSchema(e) /\ NamesFit(e)

(* Corpus(entries): does the constructor accept them?                          *)
Ids(entries) == {e.id : e \in entries}
Accepted(entries) == /\ RESERVED_ID \notin Ids(entries)
                     /\ \A e, f \in entries : e.id = f.id => e = f

(* load_corpus: every file is read and has the fields the code takes out of    *)
(* it; nothing else of the schema is looked at.                                *)
Loads(files) == /\ files # {}
                /\ \A e \in files : e.shape \in {"whole", "odd"}
                /\ Accepted(files)

Lookup(corpus, id) == CHOOSE e \in corpus : e.id = id

---------------------------------------------------------------------------------
(* What entries are made of, whether or not they conform.                      *)
Operators   == {"+", "-", "*", "//", "%", "**", "gcd", "min", "max"}
Comparisons == {"==", "!=", "<", "<=", ">", ">="}
IsValue(x) == /\ x = [t |-> x.t, n |-> x.n, s |-> x.s]
              /\ x.t \in {"int", "bytes", "str"} /\ x.n \in Int /\ x.s \in Seq(Nat)
              /\ IF x.t = "int" THEN x.s = <<>> ELSE x.n = 0
IsNode(n, i) ==
  /\ n = [kind |-> n.kind, value |-> n.value, name |-> n.name, ops |-> n.ops, args |-> n.args]
  /\ IsValue(n.value)
  /\ n.args \in Seq(1..(i - 1))
  /\ \/ n.kind \in {"const", "name", "and", "or", "bad"}
     \/ n.kind = "not" /\ Len(n.args) = 1
     \/ n.kind = "bin" /\ Len(n.args) = 2 /\ \E op \in Operators : n.ops = <<op>>
     \/ n.kind = "cmp" /\ n.ops \in Seq(Comparisons) /\ Len(n.args) = Len(n.ops) + 1
IsExpr(e) == /\ e # <<>> /\ e \in Seq(Range(e)) /\ \A i \in DOMAIN e : IsNode(e[i], i)
             /\ \A i \in 1..(Len(e) - 1) : e[i].kind # "bad"
IsParam(p) ==
  /\ p = [name |-> p.name, type |-> p.type, bits |-> p.bits, mod |-> p.mod,
          curve |-> p.curve, public |-> p.public, choices |-> p.choices]
  /\ p.bits \in Nat /\ p.curve \in BOOLEAN /\ p.public \in BOOLEAN /\ p.choices \in Nat
IsConstraint(c) == /\ c = [expr |-> c.expr, warning |-> c.warning]
                   /\ IsExpr(c.expr) /\ c.warning \in BOOLEAN
IsEntry(e) ==
  /\ e = [id |-> e.id, slug |-> e.slug, name |-> e.name, domain |-> e.domain,
          status |-> e.status, shape |-> e.shape, params |-> e.params, constraints |-> e.constraints]
  /\ e.id \in Nat /\ e.slug \in Seq(Range(e.slug)) /\ e.name \in Seq(Range(e.name))
  /\ e.status \in {"active", "deprecated", "retired"}
  /\ e.shape \in {"whole", "odd", "incomplete", "unreadable"}
  /\ e.params \in Seq(Range(e.params)) /\ \A i \in DOMAIN e.params : IsParam(e.params[i])
  /\ e.constraints \in Seq(Range(e.constraints))
  /\ \A i \in DOMAIN e.constraints : IsConstraint(e.constraints[i])

=================================================================================
