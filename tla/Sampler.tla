-------------------------------- MODULE Sampler ---------------------------------
(* crypto/sampler.py as functions of an entry: what a draw may be, and what    *)
(* sample() may return.  Random generators are nondeterministic: of a number   *)
(* of trials each may turn out in any way a single one can.                    *)
EXTENDS Formula

(* The constraints of error level: sampling may violate the others.            *)
Hard(e) == {i \in DOMAIN e.constraints : ~e.constraints[i].warning}

(* Those of the form <name> <op> <constant>, with those of the form            *)
(* <constant> <op> <name> turned around.                                       *)
Turned(op) == CASE op = "<"  -> ">"  [] op = "<=" -> ">="
                [] op = ">"  -> "<"  [] op = ">=" -> "<=" [] OTHER -> op
Single(x) == Root(x).kind = "cmp" /\ Len(Root(x).ops) = 1
Against(x, n, c) == /\ Operand(x, n).kind = "name"
                    /\ Operand(x, c).kind = "const" /\ IsInt(Operand(x, c).value)
Limit(x, n, c, op) == [name |-> Operand(x, n).name, op |-> op, k |-> Operand(x, c).value.n]
Simple(e) ==
  LET single == {x \in {e.constraints[i].expr : i \in Hard(e)} : Single(x)}
  IN  {Limit(x, 1, 2, Root(x).ops[1]) : x \in {y \in single : Against(y, 1, 2)}}
      \cup
      {Limit(x, 2, 1, Turned(Root(x).ops[1])) : x \in {y \in single : Against(y, 2, 1)}}

(* Mistake, for the runs: <= is read as <.                                     *)
UpperStrict(s) == CASE s.op \in {"<", "<="} -> {s.k - 1}
                    [] s.op = "==" -> {s.k} [] OTHER -> {}

Upper(s) == CASE s.op = "<"  -> {s.k - 1}
              [] s.op \in {"<=", "=="} -> {s.k} [] OTHER -> {}
Lower(s) == CASE s.op = ">"  -> {s.k + 1}
              [] s.op \in {">=", "=="} -> {s.k} [] OTHER -> {}

(* bounds: the last parameter of a name decides its width.                     *)
ParamOf(e, name) == e.params[Max({i \in DOMAIN e.params : e.params[i].name = name})]
Bounded(e) == {n \in Names(e) : ParamOf(e, n).type \in IntTypes
                                /\ ParamBits(ParamOf(e, n)) > 0}
Bounds(e) ==
  {LET mine == {s \in Simple(e) : s.name = n}
   IN  [name |-> n,
        lo |-> Max({0} \cup UNION {Lower(s) : s \in mine}),
        hi |-> Min({TwoTo[ParamBits(ParamOf(e, n))] - 1} \cup UNION {Upper(s) : s \in mine})]
   : n \in Bounded(e)}
Inside(limits, n, v) == \A b \in limits : b.name = n => v \in b.lo..b.hi

(* The whole range of a parameter, and _random_value inside the bounds.  Bytes *)
(* are the number drawn and zeros up to the next byte; the y of a point is its *)
(* parity.                                                                     *)
Padding(bits) == (-bits) % ByteBits
Bytes(v, bits) == Text("bytes", DigitsTo(2, v, bits) \o [i \in 1..Padding(bits) |-> 0])
Whole(p) ==
  CASE p.type \in IntTypes -> {Int_(v) : v \in 0..(TwoTo[ParamBits(p)] - 1)}
    [] p.type = "bytes" -> {Bytes(v, ParamBits(p)) : v \in 0..(TwoTo[ParamBits(p)] - 1)}
    [] p.type = "enum"  -> {Text("str", <<v>>) : v \in 1..p.choices}
    [] p.type = "point" -> {Text("pair", <<x, y>>) : x \in 0..(TwoTo[p.bits] - 1), y \in 0..1}
RandomValue(e, n) ==
  IF n \in Bounded(e)
  THEN UNION {{Int_(v) : v \in b.lo..b.hi} : b \in {c \in Bounds(e) : c.name = n}}
  ELSE Whole(ParamOf(e, n))

(* random_values, without and with use_bounds; it raises when a width is       *)
(* missing or the bounds of a parameter exclude each other.                    *)
Assignments(S) ==
  {f \in [DOMAIN S -> UNION {S[n] : n \in DOMAIN S}] : \A n \in DOMAIN S : f[n] \in S[n]}
RandomValues(e) == Assignments([n \in Names(e) |-> Whole(ParamOf(e, n))])
Raises(e) == \E n \in Names(e) : \/ ParamBits(ParamOf(e, n)) = 0
                                 \/ RandomValue(e, n) = {}
Draws(e) == IF Raises(e) THEN {} ELSE Assignments([n \in Names(e) |-> RandomValue(e, n)])

(* _solve: the root when the gap is linear in the name and divides.  Err is    *)
(* its None, and also the errors it expects; the first failure ends it.        *)
RootOf(g0, g1, g2) ==
  IF Failed(g0) THEN g0
  ELSE IF Failed(g1) THEN g1
  ELSE IF Failed(g2) THEN g2
  ELSE LET a == g1.n - g0.n
       IN  IF a = 0 \/ g2.n - g1.n # a \/ FloorMod(-g0.n, a) # 0
           THEN Err ELSE Int_(FloorDiv(-g0.n, a))
Solve(expr, name, env) ==
  LET gap(v) == EqualityGap(expr, [env EXCEPT ![name] = Int_(v)])
  IN  IF IsEquality(expr) THEN RootOf(gap(0), gap(1), gap(2)) ELSE Err
Escapes(root) == root.t \in {"overflow", "memory"}
Hits(root, n, limits) == IsInt(root) /\ Inside(limits, n, root.n)

(* equality_plan: for each equality the variable to solve it for.  Any         *)
(* candidate that some trial solves may come out best; none does if each may   *)
(* miss in all its trials.  Nothing but an equality is ever solved.  An error  *)
(* that _solve does not expect ends the planning, and sample with it.          *)
Extended(expr, plan, limits, roots) ==
  LET candidates == DOMAIN roots
      quiet(n)   == {r \in roots[n] : ~Escapes(r)}
      sometimes  == {n \in candidates : \E r \in quiet(n) : Hits(r, n, limits)}
      always     == {n \in sometimes : \A r \in quiet(n) : Hits(r, n, limits)}
  IN  (IF \E n \in candidates : quiet(n) # roots[n]
       THEN {[plan EXCEPT !.raises = TRUE]} ELSE {})
      \cup
      (IF \E n \in candidates : quiet(n) = {} THEN {}
       ELSE {[plan EXCEPT !.steps = Append(@, [expr |-> expr, name |-> n])] : n \in sometimes}
            \cup IF always = {} THEN {plan} ELSE {})
Extensions(e, expr, plan, limits, draws) ==
  LET reserved   == {plan.steps[i].name : i \in DOMAIN plan.steps}
      candidates == (FreeNames(expr) \cap Bounded(e)) \ reserved
  IN  Extended(expr, plan, limits, [n \in candidates |-> {Solve(expr, n, d) : d \in draws}])
EqualityPlans(e, limits, draws) ==
  LET next(expr, p) == IF p.raises THEN {p} ELSE Extensions(e, expr, p, limits, draws)
      plans[i \in 0..Len(e.constraints)] ==
        IF i = 0 THEN {[steps |-> <<>>, raises |-> FALSE]}
        ELSE IF i \in Hard(e) /\ IsEquality(e.constraints[i].expr)
        THEN UNION {next(e.constraints[i].expr, p) : p \in plans[i - 1]}
        ELSE plans[i - 1]
  IN  plans[Len(e.constraints)]

(* One attempt: the equalities are solved in the order of the plan, then every *)
(* constraint is checked.                                                      *)
SolveStep(s, step, limits) ==
  LET root == Solve(step.expr, step.name, s.env)
  IN  IF s.end # "ok" THEN s
      ELSE IF Escapes(root) THEN [s EXCEPT !.end = "raises"]
      ELSE IF Hits(root, step.name, limits) THEN [s EXCEPT !.env[step.name] = root]
      ELSE [s EXCEPT !.end = "violated"]
Ended(e, s) == IF s.end = "ok" THEN [s EXCEPT !.end = CheckAll(e.constraints, s.env)] ELSE s
Attempt(e, plan, limits, draw) ==
  LET after[i \in 0..Len(plan.steps)] ==
        IF i = 0 THEN [end |-> IF plan.raises THEN "raises" ELSE "ok", env |-> draw]
        ELSE SolveStep(after[i - 1], plan.steps[i], limits)
  IN  Ended(e, after[Len(plan.steps)])

(* sample: the values it may return; SamplingError, for a width it does not    *)
(* know, bounds that exclude each other or attempts that all fail; or an       *)
(* exception that no caller expects: an error of arithmetic, or the ValueError *)
(* of an expression that parse() refuses, which the plan meets first when the  *)
(* constraint is no warning, unless one before it made the plan draw values.   *)
Attempts(e, limits, draws) ==
  {Attempt(e, plan, limits, d) : plan \in EqualityPlans(e, limits, draws), d \in draws}
Sample(e) ==
  LET result(kind, env) == [kind |-> kind, env |-> env]
      bad == {i \in Hard(e) : IsBad(e.constraints[i].expr)}
      drawn(i) == FreeNames(e.constraints[i].expr) \cap Bounded(e) # {}
  IN  IF Raises(e) /\ (bad = {} \/ \E i \in Hard(e) : i < Min(bad) /\ drawn(i))
      THEN {result("gave up", <<>>)}
      ELSE IF bad # {} THEN {result("raises", <<>>)}
      ELSE {CASE a.end = "ok" -> result("values", a.env)
              [] a.end = "violated" -> result("gave up", <<>>)
              [] a.end = "raises"   -> result("raises", <<>>) :
            a \in Attempts(e, Bounds(e), Draws(e))}

=================================================================================
