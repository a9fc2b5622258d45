---------------------------- MODULE AuthoringProofs -----------------------------
(* How formulas come into the corpus, proved.                                  *)
EXTENDS Authoring, LayoutProofs

---------------------------------------------------------------------------------
(* Expressions and parameters.                                                 *)

(* A function on 1..n is a list of n elements.                                 *)
LEMMA ListIs ==
  ASSUME NEW n \in Nat, NEW T, NEW s \in [1..n -> T]
  PROVE  s \in Seq(T) /\ Len(s) = n
<1>1. s \in Seq(T)
  BY SeqDef
<1>2. Len(s) \in Nat /\ DOMAIN s = 1..Len(s) /\ DOMAIN s = 1..n
  BY <1>1, LenProperties
<1>3. CASE Len(s) < n
  BY <1>2, <1>3
<1>4. CASE n < Len(s)
  BY <1>2, <1>4
<1> QED
  BY <1>1, <1>2, <1>3, <1>4

(* What the parts of a typed expression are.                                   *)
LEMMA ExprParts ==
  ASSUME NEW e, IsExpr(e)
  PROVE  /\ Len(e) \in Nat \ {0} /\ DOMAIN e = 1..Len(e)
         /\ \A i \in 1..Len(e) : IsNode(e[i], i)
<1>1. e \in Seq(Range(e)) /\ e # <<>>
  BY DEF IsExpr
<1>2. Len(e) \in Nat /\ DOMAIN e = 1..Len(e) /\ Len(e) # 0
  BY <1>1, LenProperties, EmptySeq
<1> QED
  BY <1>2 DEF IsExpr

(* A node of an expression refers to nodes before it.                          *)
LEMMA NodeParts ==
  ASSUME NEW n, NEW i \in Nat, IsNode(n, i)
  PROVE  /\ Len(n.args) \in Nat /\ DOMAIN n.args = 1..Len(n.args)
         /\ \A k \in 1..Len(n.args) : n.args[k] \in 1..(i - 1)
         /\ n.kind = "cmp" => /\ Len(n.ops) \in Nat /\ DOMAIN n.ops = 1..Len(n.ops)
                              /\ Len(n.args) = Len(n.ops) + 1
                              /\ \A k \in 1..Len(n.ops) : n.ops[k] \in Comparisons
<1>1. /\ n.args \in Seq(1..(i - 1))
      /\ n.kind = "cmp" => n.ops \in Seq(Comparisons) /\ Len(n.args) = Len(n.ops) + 1
  BY DEF IsNode
<1> QED
  BY <1>1, LenProperties, ElementOfSeq

(* The values of the nodes of an expression are those that NodeValue gives     *)
(* them one after the other.                                                   *)
Valued(f, e, env, n) ==
  f = [i \in 1..n |-> NodeValue(e[i], [k \in DOMAIN e[i].args |-> f[i - e[i].args[k]]], env)]
LEMMA ValuesExist ==
  ASSUME NEW e, NEW env, IsExpr(e)
  PROVE  \E f : Valued(f, e, env, Len(e))
<1> DEFINE S == {n \in 0..Len(e) : \E f : Valued(f, e, env, n)}
           X(f, i) == [k \in DOMAIN e[i].args |-> f[i - e[i].args[k]]]
<1>0. Len(e) \in Nat /\ \A i \in 1..Len(e) : IsNode(e[i], i)
  BY ExprParts
<1>1. 0 \in S
  <2> DEFINE f == [i \in 1..0 |-> NodeValue(e[i], <<>>, env)]
  <2>1. Valued(f, e, env, 0)
    BY DEF Valued
  <2> QED
    BY <2>1, <1>0
<1>2. ASSUME NEW n \in 1..Len(e), n - 1 \in S PROVE n \in S
  <2>1. PICK f : Valued(f, e, env, n - 1)
    BY <1>2
  <2> DEFINE h == [i \in 1..n |-> IF i < n THEN f[i] ELSE NodeValue(e[n], X(f, n), env)]
  <2>2. ASSUME NEW i \in 1..n PROVE X(h, i) = X(f, i)
    <3>1. IsNode(e[i], i) /\ i \in Nat
      BY <1>0
    <3>2. \A k \in DOMAIN e[i].args : e[i].args[k] \in 1..(i - 1)
      BY <3>1, NodeParts
    <3>3. \A k \in DOMAIN e[i].args : h[i - e[i].args[k]] = f[i - e[i].args[k]]
      BY <3>2
    <3> QED
      BY <3>3
  <2>3. ASSUME NEW i \in 1..n PROVE h[i] = NodeValue(e[i], X(h, i), env)
    <3>1. CASE i < n
      <4>1. i \in 1..(n - 1) /\ h[i] = f[i]
        BY <3>1
      <4>2. f[i] = NodeValue(e[i], X(f, i), env)
        BY <2>1, <4>1 DEF Valued
      <4> QED
        BY <2>2, <4>1, <4>2
    <3>2. CASE i = n
      <4>1. h[n] = NodeValue(e[n], X(f, n), env)
        BY <3>2
      <4> HIDE DEF h, X
      <4> QED
        BY <2>2, <3>2, <4>1
    <3> QED
      BY <3>1, <3>2
  <2>4. h = [i \in 1..n |-> NodeValue(e[i], X(h, i), env)]
    <3>1. h = [i \in 1..n |-> h[i]]
      OBVIOUS
    <3> HIDE DEF h
    <3> QED
      BY <2>3, <3>1
  <2> HIDE DEF h
  <2>5. Valued(h, e, env, n)
    BY <2>4 DEF Valued
  <2> QED
    BY <2>5
<1> HIDE DEF S
<1>3. \A n \in 0..Len(e) : n \in S
  BY <1>0, <1>1, <1>2, RangeInduction, Zenon
<1>4. Len(e) \in S
  BY <1>0, <1>3
<1> QED
  BY <1>4 DEF S

(* Values is that function.                                                    *)
LEMMA ValuesAre ==
  ASSUME NEW e, NEW env, IsExpr(e)
  PROVE  Valued(Values(e, env), e, env, Len(e))
<1>1. DOMAIN e = 1..Len(e)
  BY ExprParts
<1>2. \E f : Valued(f, e, env, Len(e))
  BY ValuesExist
<1> DEFINE V == CHOOSE f : Valued(f, e, env, Len(e))
<1>3. Values(e, env) = V
  BY <1>1 DEF Values, Valued
<1>4. Valued(V, e, env, Len(e))
  BY <1>2
<1> QED
  BY <1>3, <1>4

(* An expression has the same values wherever its names have.                  *)
LEMMA SameValues ==
  ASSUME NEW e, NEW env, NEW other, IsExpr(e),
         \A n \in FreeNames(e) : /\ n \in DOMAIN env /\ n \in DOMAIN other
                                 /\ env[n] = other[n]
  PROVE  Eval(e, env) = Eval(e, other)
<1> DEFINE v == Values(e, env)
           w == Values(e, other)
           X(f, i) == [k \in DOMAIN e[i].args |-> f[i - e[i].args[k]]]
           S == {n \in 0..Len(e) : \A i \in 1..n : v[i] = w[i]}
<1>0. /\ Len(e) \in Nat \ {0} /\ DOMAIN e = 1..Len(e)
      /\ \A i \in 1..Len(e) : IsNode(e[i], i)
  BY ExprParts
<1>1. \A i \in 1..Len(e) : /\ v[i] = NodeValue(e[i], X(v, i), env)
                           /\ w[i] = NodeValue(e[i], X(w, i), other)
  BY ValuesAre DEF Valued
<1> HIDE DEF v, w
<1>2. ASSUME NEW i \in 1..Len(e), NEW x PROVE NodeValue(e[i], x, env) = NodeValue(e[i], x, other)
  <2>1. e[i].kind = "name" => e[i].name \in FreeNames(e)
    BY <1>0 DEF FreeNames
  <2>2. e[i].kind = "name" => NodeValue(e[i], x, env) = NodeValue(e[i], x, other)
    BY <2>1 DEF NodeValue
  <2>3. e[i].kind # "name" => NodeValue(e[i], x, env) = NodeValue(e[i], x, other)
    BY DEF NodeValue
  <2> QED
    BY <2>2, <2>3
<1>3. 0 \in S
  BY <1>0
<1>4. ASSUME NEW n \in 1..Len(e), n - 1 \in S PROVE n \in S
  <2>1. IsNode(e[n], n) /\ n \in Nat
    BY <1>0
  <2>2. \A k \in DOMAIN e[n].args : e[n].args[k] \in 1..(n - 1)
    BY <2>1, NodeParts
  <2>3. \A k \in DOMAIN e[n].args : v[n - e[n].args[k]] = w[n - e[n].args[k]]
    BY <1>4, <2>2
  <2>4. X(v, n) = X(w, n)
    BY <2>3
  <2>5. v[n] = w[n]
    BY <1>1, <1>2, <2>4
  <2> QED
    BY <1>4, <2>5
<1>5. Len(e) \in S
  <2> HIDE DEF S
  <2> DEFINE N == Len(e)
  <2>1. N \in Nat /\ N \in 0..N /\ \A n \in 1..N : n - 1 \in S => n \in S
    BY <1>0, <1>4
  <2> HIDE DEF N
  <2>2. \A n \in 0..N : n \in S
    BY <1>3, <2>1, RangeInduction
  <2> QED
    BY <2>1, <2>2 DEF N
<1> QED
  BY <1>0, <1>5 DEF Eval, v, w

---------------------------------------------------------------------------------
(* Bounds.                                                                     *)

(* The largest of a set of integers that is bounded, and the least.            *)
LEMMA GreatestIs ==
  ASSUME NEW S, S \subseteq Int, S # {}, \E b \in Int : \A n \in S : n <= b
  PROVE  Max(S) \in S /\ \A n \in S : n <= Max(S)
<1>0. PICK b \in Int : \A n \in S : n <= b
  OBVIOUS
<1> DEFINE T == {b - n : n \in S}
<1>1. T \subseteq Nat /\ T # {}
  <2>1. \A n \in S : b - n \in Nat
    BY <1>0
  <2> QED
    BY <2>1
<1>2. PICK m \in T : \A k \in T : m <= k
  BY <1>1, LeastIs
<1>3. PICK n \in S : m = b - n
  BY <1>2
<1>4. \A k \in S : k <= n
  <2> SUFFICES ASSUME NEW k \in S PROVE k <= n
    OBVIOUS
  <2>1. b - k \in T
    OBVIOUS
  <2>2. b - n <= b - k
    BY <1>2, <1>3, <2>1
  <2>3. k \in Int /\ n \in Int
    OBVIOUS
  <2> HIDE DEF T
  <2> QED
    BY <2>2, <2>3
<1> QED
  BY <1>3, <1>4 DEF Max

(* A set of integers that is bounded below has a least element.                *)
LEMMA LowestIs ==
  ASSUME NEW S, S \subseteq Int, S # {}, \E b \in Int : \A n \in S : b <= n
  PROVE  Min(S) \in S /\ \A n \in S : Min(S) <= n
<1>0. PICK b \in Int : \A n \in S : b <= n
  OBVIOUS
<1> DEFINE T == {n - b : n \in S}
<1>1. T \subseteq Nat /\ T # {}
  <2>1. \A n \in S : n - b \in Nat
    BY <1>0
  <2> QED
    BY <2>1
<1>2. PICK m \in T : \A k \in T : m <= k
  BY <1>1, LeastIs
<1>3. PICK n \in S : m = n - b
  BY <1>2
<1>4. \A k \in S : n <= k
  <2> SUFFICES ASSUME NEW k \in S PROVE n <= k
    OBVIOUS
  <2>1. k - b \in T
    OBVIOUS
  <2>2. n - b <= k - b
    BY <1>2, <1>3, <2>1
  <2>3. k \in Int /\ n \in Int
    OBVIOUS
  <2> HIDE DEF T
  <2> QED
    BY <2>2, <2>3
<1> QED
  BY <1>3, <1>4 DEF Min

(* The powers of two.                                                          *)
LEMMA TwoToIs ==
  /\ TwoTo[0] = 1
  /\ \A n \in Nat : TwoTo[n] \in Nat \ {0} /\ TwoTo[n + 1] = 2 * TwoTo[n]
BY PowersAre DEF TwoTo

(* A chain of one comparison is that comparison.                               *)
LEMMA ChainOfOne ==
  ASSUME NEW ops, NEW x, DOMAIN ops = {1}
  PROVE  Chain(ops, x) = Compared(ops[1], x[1], x[2])
<1> DEFINE link(k) == Compared(ops[k], x[k], x[k + 1])
           stops == {k \in DOMAIN ops : link(k) # Bool(TRUE)}
<1>1. Chain(ops, x) = IF stops = {} THEN Bool(TRUE) ELSE link(Min(stops))
  BY DEF Chain
<1>2. link(1) = Compared(ops[1], x[1], x[2])
  OBVIOUS
<1> HIDE DEF link
<1>3. CASE link(1) = Bool(TRUE)
  <2>1. stops = {}
    BY <1>3
  <2> QED
    BY <1>1, <1>2, <1>3, <2>1
<1>4. CASE link(1) # Bool(TRUE)
  <2>1. stops = {1}
    BY <1>4
  <2>2. Min({1}) = 1
    BY DEF Min
  <2> QED
    BY <1>1, <1>2, <2>1, <2>2
<1> QED
  BY <1>3, <1>4

(* What a comparison of two integers says of them, either way round.           *)
Holds(op, v, k) == /\ (op = "<")  => v < k
                   /\ (op = "<=") => v <= k
                   /\ (op = ">")  => v > k
                   /\ (op = ">=") => v >= k
                   /\ (op = "==") => v = k
LEMMA ComparedHolds ==
  ASSUME NEW op, NEW v \in Int, NEW k \in Int
  PROVE  /\ Truthy(Compared(op, Int_(v), Int_(k))) => Holds(op, v, k)
         /\ Truthy(Compared(op, Int_(k), Int_(v))) => Holds(Turned(op), v, k)
<1>1. /\ IsInt(Int_(v)) /\ Int_(v).n = v /\ IsInt(Int_(k)) /\ Int_(k).n = k
      /\ (Int_(v) = Int_(k)) => v = k
  BY DEF Int_, IsInt
<1>2. IsInt(Bool(FALSE)) /\ Bool(FALSE).n = 0
  BY DEF Bool, Int_, IsInt
<1>3. ~Truthy(Bool(FALSE))
  BY <1>2 DEF Truthy
<1>4. ASSUME NEW b \in BOOLEAN, Truthy(Bool(b)) PROVE b
  BY <1>3, <1>4
<1>5. ASSUME NEW a \in Int, NEW c \in Int, NEW x, NEW y, Truthy(Compared(op, x, y)),
             IsInt(x), IsInt(y), x.n = a, y.n = c, (x = y) => a = c
      PROVE  Holds(op, a, c)
  <2>0. /\ ~Failed(x) /\ ~Failed(y) /\ x.t = y.t
        /\ Smaller(x, y) = (a < c) /\ Smaller(y, x) = (c < a)
    BY <1>5 DEF IsInt, Failed, Smaller
  <2>1. CASE op = "=="
    <3>1. Compared(op, x, y) = Bool(x = y)
      BY <2>0, <2>1 DEF Compared
    <3>2. x = y
      BY <1>4, <1>5, <3>1
    <3> QED
      BY <1>5, <2>0, <2>1, <3>2 DEF Holds
  <2>2. CASE op = "<"
    <3>1. Compared(op, x, y) = Bool(a < c)
      BY <2>0, <2>2 DEF Compared
    <3>2. (a < c) \in BOOLEAN /\ Truthy(Bool(a < c))
      BY <1>5, <3>1
    <3>3. a < c
      BY <1>4, <3>2, Zenon
    <3> QED
      BY <1>5, <2>2, <3>3 DEF Holds
  <2>3. CASE op = "<="
    <3>1. Compared(op, x, y) = Bool(~(c < a))
      BY <2>0, <2>3 DEF Compared
    <3>2. ~(c < a)
      BY <1>4, <1>5, <3>1
    <3> QED
      BY <1>5, <2>3, <3>2 DEF Holds
  <2>4. CASE op = ">"
    <3>1. Compared(op, x, y) = Bool(c < a)
      BY <2>0, <2>4 DEF Compared
    <3>2. (c < a) \in BOOLEAN /\ Truthy(Bool(c < a))
      BY <1>5, <3>1
    <3>3. c < a
      BY <1>4, <3>2, Zenon
    <3> QED
      BY <1>5, <2>4, <3>3 DEF Holds
  <2>5. CASE op = ">="
    <3>1. Compared(op, x, y) = Bool(~(a < c))
      BY <2>0, <2>5 DEF Compared
    <3>2. ~(a < c)
      BY <1>4, <1>5, <3>1
    <3> QED
      BY <1>5, <2>5, <3>2 DEF Holds
  <2> QED
    BY <2>1, <2>2, <2>3, <2>4, <2>5 DEF Holds
<1>6. Truthy(Compared(op, Int_(v), Int_(k))) => Holds(op, v, k)
  BY <1>1, <1>5
<1>7. Truthy(Compared(op, Int_(k), Int_(v))) => Holds(op, k, v)
  BY <1>1, <1>5
<1>8. Holds(op, k, v) => Holds(Turned(op), v, k)
  BY DEF Holds, Turned
<1> QED
  BY <1>6, <1>7, <1>8

(* The parameters of a name: with a name there is one, and where nothing is    *)
(* wrong with the parameters there is only one.                                *)
LEMMA EntryParts ==
  ASSUME NEW e, IsEntry(e)
  PROVE  /\ Len(e.params) \in Nat /\ DOMAIN e.params = 1..Len(e.params)
         /\ \A i \in 1..Len(e.params) : IsParam(e.params[i])
         /\ Len(e.constraints) \in Nat /\ DOMAIN e.constraints = 1..Len(e.constraints)
         /\ \A i \in 1..Len(e.constraints) :
              IsConstraint(e.constraints[i]) /\ IsExpr(e.constraints[i].expr)
<1>1. /\ e.params \in Seq(Range(e.params)) /\ e.constraints \in Seq(Range(e.constraints))
      /\ \A i \in DOMAIN e.params : IsParam(e.params[i])
      /\ \A i \in DOMAIN e.constraints : IsConstraint(e.constraints[i])
  BY DEF IsEntry
<1>2. \A i \in DOMAIN e.constraints : IsExpr(e.constraints[i].expr)
  BY <1>1 DEF IsConstraint
<1> QED
  BY <1>1, <1>2, LenProperties

(* The parameter a name stands for is one of that name.                        *)
LEMMA ParamOfName ==
  ASSUME NEW e, IsEntry(e), NEW n \in Names(e)
  PROVE  \E i \in 1..Len(e.params) : ParamOf(e, n) = e.params[i] /\ e.params[i].name = n
<1> DEFINE S == {i \in DOMAIN e.params : e.params[i].name = n}
<1>1. Len(e.params) \in Nat /\ DOMAIN e.params = 1..Len(e.params)
  BY EntryParts
<1>2. S # {}
  BY DEF Names
<1>3. \E b \in Int : S \subseteq Int /\ \A i \in S : i <= b
  <2>1. Len(e.params) \in Int /\ S \subseteq Int /\ \A i \in S : i <= Len(e.params)
    BY <1>1
  <2> HIDE DEF S
  <2> QED
    BY <2>1
<1>4. Max(S) \in S
  <2> HIDE DEF S
  <2> QED
    BY <1>2, <1>3, GreatestIs
<1>5. ParamOf(e, n) = e.params[Max(S)]
  BY DEF ParamOf
<1> QED
  BY <1>1, <1>4, <1>5

(* Without errors, a name stands for one parameter.                            *)
LEMMA NamesDistinct ==
  ASSUME NEW e, IsEntry(e), ParamErrors(e) = {}
  PROVE  /\ \A i, j \in 1..Len(e.params) : e.params[i].name = e.params[j].name => i = j
         /\ \A i \in 1..Len(e.params) : /\ e.params[i].name \in Names(e)
                                        /\ ParamOf(e, e.params[i].name) = e.params[i]
<1>1. Len(e.params) \in Nat /\ DOMAIN e.params = 1..Len(e.params)
  BY EntryParts
<1>2. \A i \in 1..Len(e.params) : Seen(e, i, {e.params[i].name}) = {}
  BY <1>1 DEF ParamErrors
<1>3. \A i \in 1..Len(e.params), j \in 1..Len(e.params) :
        j < i => e.params[j].name # e.params[i].name
  <2> SUFFICES ASSUME NEW i \in 1..Len(e.params), NEW j \in 1..Len(e.params), j < i,
                      e.params[j].name = e.params[i].name
               PROVE  FALSE
    OBVIOUS
  <2>1. j \in 1..(i - 1)
    BY <1>1
  <2>2. j \in Seen(e, i, {e.params[i].name})
    BY <2>1 DEF Seen
  <2> QED
    BY <1>2, <2>2
<1>4. \A i, j \in 1..Len(e.params) : e.params[i].name = e.params[j].name => i = j
  <2> SUFFICES ASSUME NEW i \in 1..Len(e.params), NEW j \in 1..Len(e.params),
                      e.params[i].name = e.params[j].name, i # j
               PROVE  FALSE
    OBVIOUS
  <2>1. i < j \/ j < i
    BY <1>1
  <2> QED
    BY <1>3, <2>1
<1>5. \A i \in 1..Len(e.params) : e.params[i].name \in Names(e)
  BY <1>1 DEF Names
<1> QED
  BY <1>4, <1>5, ParamOfName

(* What an admitted value of a parameter obeys: a limit on it.                 *)
LEMMA LimitHolds ==
  ASSUME NEW x, IsExpr(x), Single(x), NEW env, NEW n \in 1..2, NEW c \in 1..2, n # c,
         Against(x, n, c), Operand(x, n).name \in DOMAIN env,
         NEW v \in Int, env[Operand(x, n).name] = Int_(v), Truthy(Eval(x, env))
  PROVE  /\ Operand(x, c).value.n \in Int
         /\ Holds(IF n = 1 THEN Root(x).ops[1] ELSE Turned(Root(x).ops[1]), v,
                  Operand(x, c).value.n)
<1> DEFINE L == Len(x)
           r == x[L]
           V == Values(x, env)
           X(i) == [k \in DOMAIN x[i].args |-> V[i - x[i].args[k]]]
           k == Operand(x, c).value.n
<1>1. L \in Nat \ {0} /\ L \in 1..L /\ DOMAIN x = 1..L /\ \A i \in 1..L : IsNode(x[i], i)
  BY ExprParts
<1>2. /\ r.kind = "cmp" /\ Len(r.ops) = 1 /\ Root(x) = r
  BY DEF Single, Root
<1>3. /\ DOMAIN r.ops = {1} /\ DOMAIN r.args = 1..2
      /\ \A j \in 1..2 : r.args[j] \in 1..(L - 1)
  <2>1. IsNode(r, L)
    BY <1>1
  <2>2. Len(r.args) = 2
    BY <1>2, <2>1 DEF IsNode
  <2> HIDE DEF r, L
  <2> QED
    BY <1>1, <1>2, <2>1, <2>2, NodeParts
<1>4. \A i \in 1..L : V[i] = NodeValue(x[i], X(i), env)
  BY ValuesAre DEF Valued
<1>5. \A j \in 1..2 : Operand(x, j) = x[L - r.args[j]] /\ L - r.args[j] \in 1..L
  BY <1>1, <1>2, <1>3 DEF Operand
<1>6. V[L - r.args[n]] = Int_(v)
  <2>1. x[L - r.args[n]].kind = "name"
    BY <1>5 DEF Against
  <2>2. V[L - r.args[n]] = env[Operand(x, n).name]
    BY <1>4, <1>5, <2>1 DEF NodeValue
  <2> QED
    BY <2>2
<1>7. V[L - r.args[c]] = Int_(k) /\ k \in Int
  <2>1. x[L - r.args[c]].kind = "const" /\ Operand(x, c).value.t = "int"
    BY <1>5 DEF Against, IsInt
  <2>2. V[L - r.args[c]] = Operand(x, c).value
    BY <1>4, <1>5, <2>1 DEF NodeValue
  <2>3. IsNode(Operand(x, c), L - r.args[c])
    BY <1>1, <1>5
  <2> QED
    BY <1>5, <2>1, <2>2, <2>3 DEF IsNode, IsValue, Int_
<1>8. Eval(x, env) = Compared(r.ops[1], V[L - r.args[1]], V[L - r.args[2]])
  <2>1. Eval(x, env) = NodeValue(r, X(L), env)
    BY <1>1, <1>4 DEF Eval
  <2>2. NodeValue(r, X(L), env) = Chain(r.ops, X(L))
    BY <1>2 DEF NodeValue
  <2>3. X(L)[1] = V[L - r.args[1]] /\ X(L)[2] = V[L - r.args[2]]
    BY <1>3
  <2> HIDE DEF X, V, r, L
  <2> QED
    BY <1>3, <2>1, <2>2, <2>3, ChainOfOne
<1> HIDE DEF V, k, r, L
<1>9. CASE n = 1
  <2>1. c = 2
    BY <1>9
  <2>2. Truthy(Compared(r.ops[1], Int_(v), Int_(k)))
    BY <1>6, <1>7, <1>8, <1>9, <2>1
  <2> QED
    BY <1>2, <1>7, <1>9, <2>2, ComparedHolds DEF k
<1>10. CASE n = 2
  <2>1. c = 1
    BY <1>10
  <2>2. Truthy(Compared(r.ops[1], Int_(k), Int_(v)))
    BY <1>6, <1>7, <1>8, <1>10, <2>1
  <2> QED
    BY <1>2, <1>7, <1>10, <2>2, ComparedHolds DEF k
<1> QED
  BY <1>9, <1>10

(* What values that are admitted obey: each simple constraint on them.         *)
LEMMA SimpleHolds ==
  ASSUME NEW e, IsEntry(e), KnownNames(e), NEW env, DOMAIN env = Names(e), Admits(e, env),
         NEW s \in Simple(e), s.name \in Names(e), NEW v \in Int, env[s.name] = Int_(v)
  PROVE  s.k \in Int /\ Holds(s.op, v, s.k)
<1> DEFINE single == {x \in {e.constraints[i].expr : i \in Hard(e)} : Single(x)}
<1>1. ASSUME NEW x \in single PROVE IsExpr(x) /\ Single(x) /\ Truthy(Eval(x, env))
  <2>1. PICK i \in Hard(e) : x = e.constraints[i].expr
    BY <1>1
  <2>2. i \in DOMAIN e.constraints /\ ~e.constraints[i].warning
    BY DEF Hard
  <2>3. i \in 1..Len(e.constraints) /\ IsExpr(x)
    BY <2>1, <2>2, EntryParts
  <2>4. ~IsBad(x) /\ FreeNames(x) \subseteq DOMAIN env
    BY <2>1, <2>2 DEF KnownNames
  <2>5. Verdict(e.constraints[i], env) = "ok"
    BY DEF Admits
  <2>6. Truthy(Eval(x, env))
    BY <2>1, <2>2, <2>4, <2>5 DEF Verdict, Judgement
  <2> QED
    BY <1>1, <2>3, <2>6
<1>2. CASE \E x \in single : Against(x, 1, 2) /\ s = Limit(x, 1, 2, Root(x).ops[1])
  <2>1. PICK x \in single : Against(x, 1, 2) /\ s = Limit(x, 1, 2, Root(x).ops[1])
    BY <1>2
  <2> HIDE DEF single
  <2>2. /\ s.name = Operand(x, 1).name /\ s.k = Operand(x, 2).value.n
        /\ s.op = Root(x).ops[1]
    BY <2>1 DEF Limit
  <2>3. Operand(x, 1).name \in DOMAIN env /\ env[Operand(x, 1).name] = Int_(v)
    BY <2>2
  <2> QED
    BY <1>1, <2>1, <2>2, <2>3, LimitHolds
<1>3. CASE \E x \in single : Against(x, 2, 1) /\ s = Limit(x, 2, 1, Turned(Root(x).ops[1]))
  <2>1. PICK x \in single : Against(x, 2, 1) /\ s = Limit(x, 2, 1, Turned(Root(x).ops[1]))
    BY <1>3
  <2> HIDE DEF single
  <2>2. /\ s.name = Operand(x, 2).name /\ s.k = Operand(x, 1).value.n
        /\ s.op = Turned(Root(x).ops[1])
    BY <2>1 DEF Limit
  <2>3. Operand(x, 2).name \in DOMAIN env /\ env[Operand(x, 2).name] = Int_(v)
    BY <2>2
  <2> QED
    BY <1>1, <2>1, <2>2, <2>3, LimitHolds
<1>4. \/ s \in {Limit(x, 1, 2, Root(x).ops[1]) : x \in {y \in single : Against(y, 1, 2)}}
      \/ s \in {Limit(x, 2, 1, Turned(Root(x).ops[1])) : x \in {y \in single : Against(y, 2, 1)}}
  BY Zenon DEF Simple
<1> QED
  BY <1>2, <1>3, <1>4

(* The limits that simple constraints set lie on the right side of a value     *)
(* that obeys them.                                                            *)
LEMMA LimitsLie ==
  ASSUME NEW s, s.k \in Int, NEW v \in Int, Holds(s.op, v, s.k)
  PROVE  /\ \A x \in Lower(s) : x \in Int /\ x <= v
         /\ \A x \in Upper(s) : x \in Int /\ v <= x
<1>1. \A x \in Lower(s) : x \in Int /\ x <= v
  BY DEF Lower, Holds
<1>2. \A x \in Upper(s) : x \in Int /\ v <= x
  BY DEF Upper, Holds
<1> QED
  BY <1>1, <1>2

(* The width and the range of a numeric parameter.                             *)
LEMMA NumericParam ==
  ASSUME NEW p, IsParam(p), p.type \in IntTypes
  PROVE  /\ ParamBits(p) = p.bits /\ p.bits \in Nat
         /\ Whole(p) = {Int_(v) : v \in 0..(TwoTo[p.bits] - 1)}
<1>1. ParamBits(p) = p.bits
  BY DEF ParamBits, BITS_REQUIRED, IntTypes
<1>2. Whole(p) = {Int_(v) : v \in 0..(TwoTo[ParamBits(p)] - 1)}
  BY DEF Whole, IntTypes
<1> QED
  BY <1>1, <1>2 DEF IsParam

(* Values of the ranges that the constraints admit lie inside the bounds.      *)
LEMMA LoseNothing ==
  ASSUME NEW e, IsEntry(e), KnownNames(e), NEW env \in RandomValues(e), Admits(e, env),
         NEW n \in Bounded(e)
  PROVE  Inside(Bounds(e), n, env[n].n)
<1> DEFINE p == ParamOf(e, n)
           mine == {s \in Simple(e) : s.name = n}
           L == {0} \cup UNION {Lower(s) : s \in mine}
           U == {TwoTo[ParamBits(p)] - 1} \cup UNION {Upper(s) : s \in mine}
           v == env[n].n
<1>1. n \in Names(e) /\ p.type \in IntTypes /\ IsParam(p)
  BY EntryParts, ParamOfName DEF Bounded
<1>2. DOMAIN env = Names(e) /\ env[n] \in Whole(p)
  BY <1>1 DEF RandomValues, Assignments
<1>3. /\ env[n] = Int_(v) /\ v \in 0..(TwoTo[ParamBits(p)] - 1)
      /\ v \in Nat /\ v <= TwoTo[ParamBits(p)] - 1 /\ TwoTo[ParamBits(p)] - 1 \in Int
  <2> HIDE DEF p
  <2>1. PICK w \in 0..(TwoTo[ParamBits(p)] - 1) : env[n] = Int_(w)
    BY <1>1, <1>2, NumericParam
  <2>2. v = w
    BY <2>1 DEF Int_
  <2>3. TwoTo[ParamBits(p)] \in Nat
    BY <1>1, NumericParam, TwoToIs
  <2> QED
    BY <2>1, <2>2, <2>3
<1> HIDE DEF v, p
<1>4. ASSUME NEW s \in mine PROVE s.k \in Int /\ Holds(s.op, v, s.k)
  BY <1>1, <1>2, <1>3, SimpleHolds
<1>5. \A x \in L : x \in Int /\ x <= v
  <2>1. ASSUME NEW s \in mine, NEW x \in Lower(s) PROVE x \in Int /\ x <= v
    BY <1>3, <1>4, LimitsLie
  <2> HIDE DEF mine
  <2> QED
    BY <1>3, <2>1
<1>6. \A x \in U : x \in Int /\ v <= x
  <2>1. ASSUME NEW s \in mine, NEW x \in Upper(s) PROVE x \in Int /\ v <= x
    BY <1>3, <1>4, LimitsLie
  <2> HIDE DEF mine
  <2> QED
    BY <1>3, <2>1
<1>7. Max(L) \in Int /\ Max(L) <= v
  <2>1. L # {}
    OBVIOUS
  <2> HIDE DEF L
  <2>2. L \subseteq Int /\ \E b \in Int : \A x \in L : x <= b
    BY <1>3, <1>5
  <2> QED
    BY <1>5, <2>1, <2>2, GreatestIs
<1>8. Min(U) \in Int /\ v <= Min(U)
  <2>1. U # {}
    OBVIOUS
  <2> HIDE DEF U
  <2>2. U \subseteq Int /\ \E b \in Int : \A x \in U : b <= x
    BY <1>3, <1>6
  <2> QED
    BY <1>6, <2>1, <2>2, LowestIs
<1>9. \A b \in Bounds(e) : b.name = n => b.lo = Max(L) /\ b.hi = Min(U)
  <2> DEFINE own(m) == {s \in Simple(e) : s.name = m}
             R(m) == [name |-> m, lo |-> Max({0} \cup UNION {Lower(s) : s \in own(m)}),
                      hi |-> Min({TwoTo[ParamBits(ParamOf(e, m))] - 1}
                                 \cup UNION {Upper(s) : s \in own(m)})]
  <2>1. Bounds(e) = {R(m) : m \in Bounded(e)}
    BY Zenon DEF Bounds
  <2>2. R(n).lo = Max(L) /\ R(n).hi = Min(U)
    BY DEF p
  <2>3. \A m \in Bounded(e) : R(m).name = m
    OBVIOUS
  <2> HIDE DEF R, L, U
  <2> QED
    BY <2>1, <2>2, <2>3
<1> HIDE DEF L, U
<1>10. \A b \in Bounds(e) : b.name = n => v \in b.lo..b.hi
  BY <1>3, <1>7, <1>8, <1>9
<1> QED
  BY <1>10 DEF Inside, v

(* So it is for every entry among the files.                                   *)
LEMMA BoundsLoseNothingNow == TypeOK => BoundsLoseNothing
<1> SUFFICES ASSUME TypeOK, NEW e \in formulas \cup candidates, KnownNames(e),
                    NEW env \in RandomValues(e), Admits(e, env), NEW n \in Bounded(e)
             PROVE  Inside(Bounds(e), n, env[n].n)
  BY DEF BoundsLoseNothing
<1>1. IsEntry(e)
  BY DEF TypeOK
<1> QED
  BY <1>1, LoseNothing

---------------------------------------------------------------------------------
(* Widths.                                                                     *)

(* Powers of two grow, past their exponent.                                    *)
LEMMA TwoToGrows ==
  /\ \A n \in Nat : n < TwoTo[n]
  /\ \A m \in Nat, k \in Nat : TwoTo[m] <= TwoTo[m + k]
<1>0. \A n \in Nat : TwoTo[n] \in Nat \ {0} /\ TwoTo[n + 1] = 2 * TwoTo[n]
  BY TwoToIs
<1>1. \A n \in Nat : n < TwoTo[n]
  <2> DEFINE S == {n \in Nat : n < TwoTo[n]}
  <2>1. 0 \in S
    BY TwoToIs
  <2>2. ASSUME NEW n \in Nat, n \in S PROVE n + 1 \in S
    BY <1>0, <2>2
  <2> HIDE DEF S
  <2>3. \A n \in Nat : n \in S
    BY <2>1, <2>2, SetInduction
  <2> QED
    BY <2>3 DEF S
<1>2. ASSUME NEW m \in Nat PROVE \A k \in Nat : TwoTo[m] <= TwoTo[m + k]
  <2> DEFINE S == {k \in Nat : TwoTo[m] <= TwoTo[m + k]}
  <2>1. 0 \in S
    BY <1>0
  <2>2. ASSUME NEW k \in Nat, k \in S PROVE k + 1 \in S
    <3>1. m + k \in Nat /\ m + (k + 1) = (m + k) + 1
      OBVIOUS
    <3>2. TwoTo[m + (k + 1)] = 2 * TwoTo[m + k]
      BY <1>0, <3>1
    <3> QED
      BY <1>0, <2>2, <3>1, <3>2
  <2> HIDE DEF S
  <2>3. \A k \in Nat : k \in S
    BY <2>1, <2>2, SetInduction
  <2> QED
    BY <2>3 DEF S
<1> QED
  BY <1>1, <1>2

(* The width of an enum holds the index of every choice.                       *)
LEMMA IndexBitsIs ==
  ASSUME NEW n \in Nat \ {0}
  PROVE  IndexBits(n) \in 1..n /\ n <= TwoTo[IndexBits(n)]
<1> DEFINE S == {b \in 1..n : TwoTo[b] >= n}
           m == Min(S)
           P(b) == TwoTo[b] >= n /\ \A k \in 1..(b - 1) : TwoTo[k] < n
<1>1. \A b \in 1..n : TwoTo[b] \in Nat
  BY TwoToIs
<1>2. S # {} /\ S \subseteq Nat
  <2>1. n \in S
    BY <1>1, TwoToGrows
  <2> QED
    BY <2>1
<1>3. m \in S /\ \A b \in S : m <= b
  <2> HIDE DEF S
  <2> QED
    BY <1>2, LeastIs
<1> HIDE DEF m
<1>4. m \in 1..n /\ P(m)
  <2>1. ASSUME NEW k \in 1..(m - 1) PROVE TwoTo[k] < n
    <3>1. k \in 1..n /\ k \notin S
      BY <1>3
    <3> QED
      BY <1>1, <3>1
  <2> QED
    BY <1>3, <2>1
<1>5. IndexBits(n) = CHOOSE b \in 1..n : P(b)
  BY DEF IndexBits
<1>6. IndexBits(n) \in 1..n /\ P(IndexBits(n))
  <2> HIDE DEF P
  <2> QED
    BY <1>4, <1>5
<1> QED
  BY <1>1, <1>6

(* The width of a parameter, 0 when there is none.                             *)
LEMMA ParamBitsIs ==
  ASSUME NEW p, IsParam(p)
  PROVE  ParamBits(p) \in Nat
<1>1. p.bits \in Nat /\ p.choices \in Nat /\ p.bits + POINT_PREFIX_BITS \in Nat
  BY SizesAssumption DEF IsParam
<1>2. p.choices > 0 => IndexBits(p.choices) \in Nat
  BY <1>1, IndexBitsIs
<1> QED
  BY <1>1, <1>2 DEF ParamBits, BITS_REQUIRED, IntTypes

---------------------------------------------------------------------------------
(* The validator, and the exam's control.                                      *)

(* The constraints hold together when each of them does.                       *)
LEMMA CheckAllIs ==
  ASSUME NEW e, IsEntry(e), NEW env
  PROVE  /\ CheckAll(e.constraints, env) = "ok"
              <=> \A i \in DOMAIN e.constraints : Verdict(e.constraints[i], env) = "ok"
         /\ CheckAll(e.constraints, env) = "raises"
              => \E i \in DOMAIN e.constraints : Verdict(e.constraints[i], env) = "raises"
         /\ CheckAll(e.constraints, env) \in {"ok", "violated", "raises"}
<1> DEFINE bad == {i \in DOMAIN e.constraints : Verdict(e.constraints[i], env) # "ok"}
           verdicts == [i \in DOMAIN e.constraints |-> Verdict(e.constraints[i], env)]
<1>1. CheckAll(e.constraints, env)
        = IF bad = {} THEN "ok" ELSE Verdict(e.constraints[Min(bad)], env)
  <2> DEFINE those == {i \in DOMAIN verdicts : verdicts[i] # "ok"}
  <2>1. CheckAll(e.constraints, env) = IF those = {} THEN "ok" ELSE verdicts[Min(those)]
    BY Zenon DEF CheckAll, FirstBad
  <2>2. those = bad
    OBVIOUS
  <2>3. bad # {} => Min(bad) \in DOMAIN e.constraints
    <3>1. bad \subseteq Nat
      BY EntryParts
    <3>2. bad \subseteq DOMAIN e.constraints
      OBVIOUS
    <3> HIDE DEF bad
    <3> QED
      BY <3>1, <3>2, LeastIs
  <2> HIDE DEF bad, those
  <2>4. bad # {} => verdicts[Min(bad)] = Verdict(e.constraints[Min(bad)], env)
    BY <2>3
  <2> QED
    BY <2>1, <2>2, <2>4
<1> HIDE DEF verdicts
<1>2. bad \subseteq Nat
  BY EntryParts
<1>3. CASE bad = {}
  BY <1>1, <1>3
<1>4. CASE bad # {}
  <2>1. Min(bad) \in bad
    <3> HIDE DEF bad
    <3> QED
      BY <1>2, <1>4, LeastIs
  <2> DEFINE m == Min(bad)
  <2>2. m \in DOMAIN e.constraints /\ Verdict(e.constraints[m], env) # "ok"
    BY <2>1
  <2>3. CheckAll(e.constraints, env) = Verdict(e.constraints[m], env)
    BY <1>1, <1>4
  <2> HIDE DEF m, bad
  <2>4. Verdict(e.constraints[m], env) \in {"ok", "violated", "raises"}
    BY DEF Verdict, Judgement
  <2> QED
    BY <2>2, <2>3, <2>4
<1> QED
  BY <1>3, <1>4

(* The control, entry by entry.                                                *)
LEMMA FatesAre ==
  ASSUME NEW s \in Sabotage, NEW real
  PROVE  /\ s.gate \in {"schema", "semantics"} => Fates(s, real) = {s.gate}
         /\ s.gate = "samplable" =>
              Fates(s, real) = {IF s.entry.id \in Ids(real) THEN "semantics" ELSE "samplable"}
         /\ s.gate \in {"schema", "semantics", "samplable"}
<1> DEFINE e == s.entry
           c == Combined(real, {e})
           faulty == \/ e.id \in BLOCKED \/ ParamErrors(e) # {} \/ ParamWarnings(e) # {}
                     \/ ~(PayloadBits(e.params) <= CEILING)
<1>1. \/ s.gate = "schema" /\ e.shape # "unreadable" /\ ~Conforms(e)
      \/ s.gate = "semantics" /\ Conforms(e) /\ faulty
      \/ /\ s.gate = "samplable" /\ Conforms(e) /\ ~faulty
         /\ Raises(e) /\ \A i \in Hard(e) : ~IsBad(e.constraints[i].expr)
  BY SabotageAssumption, Zenon
<1>2. Fates(s, real) = Outcomes(e, real, c)
  BY DEF Fates
<1>3. Conforms(e) => e.shape # "unreadable"
  BY DEF Conforms, FitsSchema
<1>4. CASE s.gate = "schema" /\ e.shape # "unreadable" /\ ~Conforms(e)
  <2>1. Outcomes(e, real, c) = {"schema"}
    BY <1>4, Zenon DEF Outcomes
  <2> QED
    BY <1>2, <1>4, <2>1
<1>5. CASE s.gate = "semantics" /\ Conforms(e) /\ faulty
  <2>1. ~Gate2(e, real)
    BY <1>5 DEF Gate2
  <2>2. Outcomes(e, real, c) = {"semantics"}
    BY <1>3, <1>5, <2>1, Zenon DEF Outcomes
  <2> QED
    BY <1>2, <1>5, <2>2
<1>6. CASE /\ s.gate = "samplable" /\ Conforms(e) /\ ~faulty
           /\ Raises(e) /\ \A i \in Hard(e) : ~IsBad(e.constraints[i].expr)
  <2>1. Gate2(e, real) <=> e.id \notin Ids(real)
    BY <1>6 DEF Gate2
  <2>2. Sample(e) = {[kind |-> "gave up", env |-> <<>>]}
    BY <1>6, Zenon DEF Sample
  <2>3. CASE e.id \in Ids(real)
    <3>1. Outcomes(e, real, c) = {"semantics"}
      BY <1>3, <1>6, <2>1, <2>3, Zenon DEF Outcomes
    <3> QED
      BY <1>2, <1>6, <2>3, <3>1
  <2>4. CASE e.id \notin Ids(real)
    <3> DEFINE R(x) == CASE x.kind = "raises"  -> "raises"
                         [] x.kind = "gave up" -> "samplable"
                         [] x.kind = "values"  -> IF RoundTrips(e, x.env, c) THEN "passed"
                                                  ELSE "round-trip"
    <3>1. Outcomes(e, real, c) = {R(x) : x \in Sample(e)}
      BY <1>3, <1>6, <2>1, <2>4, Zenon DEF Outcomes
    <3> DEFINE r == [kind |-> "gave up", env |-> <<>>]
    <3>2. R(r) = "samplable" /\ Sample(e) = {r}
      BY <2>2
    <3> HIDE DEF R, r
    <3>3. Outcomes(e, real, c) = {"samplable"}
      <4>1. Outcomes(e, real, c) = {R(x) : x \in {r}}
        BY <3>1, <3>2
      <4> QED
        BY <3>2, <4>1
    <3> QED
      BY <1>2, <1>6, <2>4, <3>3
  <2> QED
    BY <2>3, <2>4
<1> QED
  BY <1>1, <1>4, <1>5, <1>6

(* The control comes out as it should, whatever the corpus.                    *)
LEMMA ControlWorksAlways == ControlWorks
<1> DEFINE sampled == {t \in Sabotage : t.gate = "samplable"}
           needed == {s.entry.id : s \in sampled}
           real == formulas
<1>1. ASSUME needed \cap Ids(real) = {}
      PROVE  ControlClean(real) /\ ~ControlBroken(real)
  <2>1. ASSUME NEW s \in Sabotage PROVE Fates(s, real) = {s.gate}
    <3>1. CASE s.gate = "samplable"
      <4>1. s.entry.id \in needed
        BY <3>1
      <4> QED
        BY <1>1, <3>1, <4>1, FatesAre
    <3>2. CASE s.gate # "samplable"
      BY <3>2, FatesAre
    <3> QED
      BY <3>1, <3>2
  <2> QED
    BY <2>1 DEF ControlClean, ControlBroken
<1>2. ASSUME needed \cap Ids(real) # {}
      PROVE  ~ControlClean(real)
  <2>1. PICK s \in sampled : s.entry.id \in Ids(real)
    BY <1>2
  <2>2. Fates(s, real) = {"semantics"} /\ s.gate = "samplable"
    BY <2>1, FatesAre
  <2>3. s.gate \notin Fates(s, real)
    BY <2>2
  <2> QED
    BY <2>1, <2>3 DEF ControlClean
<1>3. ControlWorks <=> (Loads(real) =>
        IF needed \cap Ids(real) = {} THEN ControlClean(real) /\ ~ControlBroken(real)
        ELSE ~ControlClean(real))
  BY Zenon DEF ControlWorks
<1> QED
  BY <1>1, <1>2, <1>3, Zenon

---------------------------------------------------------------------------------
(* What the generator learns of a corpus.                                      *)

(* The integers that a finite set is mapped to are bounded.                    *)
LEMMA ListBound ==
  ASSUME NEW N \in Nat, NEW g, \A i \in 1..N : g[i] \in Int
  PROVE  \E b \in Nat : \A i \in 1..N : -b <= g[i] /\ g[i] <= b
<1> DEFINE T == {k \in 0..N : \E b \in Nat : \A i \in 1..k : -b <= g[i] /\ g[i] <= b}
<1>1. 0 \in T
  OBVIOUS
<1>2. ASSUME NEW k \in 1..N, k - 1 \in T PROVE k \in T
  <2>1. PICK b \in Nat : \A i \in 1..(k - 1) : -b <= g[i] /\ g[i] <= b
    BY <1>2
  <2>2. PICK c \in Nat : -c <= g[k] /\ g[k] <= c
    <3>1. g[k] \in Int
      OBVIOUS
    <3>2. CASE g[k] >= 0
      <4>1. g[k] \in Nat /\ -g[k] <= g[k]
        BY <3>1, <3>2
      <4> QED
        BY <4>1
    <3>3. CASE g[k] < 0
      <4>1. -g[k] \in Nat /\ -(-g[k]) <= g[k] /\ g[k] <= -g[k]
        BY <3>1, <3>3
      <4> QED
        BY <4>1
    <3> QED
      BY <3>1, <3>2, <3>3
  <2>3. \A i \in 1..k : -(b + c) <= g[i] /\ g[i] <= b + c
    <3> SUFFICES ASSUME NEW i \in 1..k PROVE -(b + c) <= g[i] /\ g[i] <= b + c
      OBVIOUS
    <3>1. g[i] \in Int /\ b \in Int /\ c \in Int /\ b >= 0 /\ c >= 0
      OBVIOUS
    <3>2. CASE i = k
      BY <2>2, <3>1, <3>2
    <3>3. CASE i \in 1..(k - 1)
      BY <2>1, <3>1, <3>3
    <3> QED
      BY <3>2, <3>3
  <2>4. b + c \in Nat
    OBVIOUS
  <2> QED
    BY <2>3, <2>4
<1> HIDE DEF T
<1>3. \A k \in 0..N : k \in T
  BY <1>1, <1>2, RangeInduction
<1>4. N \in T
  BY <1>3
<1> QED
  BY <1>4 DEF T

(* What a function makes of a finite set of things is bounded.                 *)
LEMMA ImageBound ==
  ASSUME NEW S, IsFiniteSet(S), NEW h, \A x \in S : h[x] \in Int
  PROVE  \E b \in Nat : \A x \in S : -b <= h[x] /\ h[x] <= b
<1>1. PICK f : /\ Cardinality(S) \in Nat
               /\ f \in Bijection(1..Cardinality(S), S)
  BY FS_CardinalityType DEF ExistsBijection
<1> DEFINE N == Cardinality(S)
           g == [i \in 1..N |-> h[f[i]]]
<1>2. \A i \in 1..N : f[i] \in S
  BY <1>1 DEF Bijection, Injection
<1>3. \A x \in S : \E i \in 1..N : f[i] = x
  BY <1>1 DEF Bijection, Surjection
<1>4. N \in Nat /\ \A i \in 1..N : g[i] = h[f[i]] /\ g[i] \in Int
  BY <1>1, <1>2
<1> HIDE DEF g, N
<1>5. PICK b \in Nat : \A i \in 1..N : -b <= g[i] /\ g[i] <= b
  BY <1>4, ListBound
<1> QED
  BY <1>3, <1>4, <1>5

(* The entries of a corpus have a longest list of parameters, and one of the   *)
(* blocks that a domain is in has the most of its entries.                     *)
LEMMA LongestIs ==
  ASSUME NEW real, IsFiniteSet(real), real # {}, \A e \in real : IsEntry(e)
  PROVE  /\ Max({Len(d.params) : d \in real}) \in Nat
         /\ \A e \in real : Len(e.params) \in 0..Max({Len(d.params) : d \in real})
<1> DEFINE h == [e \in real |-> Len(e.params)]
           S == {Len(e.params) : e \in real}
<1>1. \A e \in real : h[e] = Len(e.params) /\ Len(e.params) \in Nat /\ h[e] \in Int
  BY EntryParts
<1> HIDE DEF h
<1>2. PICK b \in Nat : \A e \in real : -b <= h[e] /\ h[e] <= b
  BY <1>1, ImageBound
<1>3. S # {} /\ S \subseteq Nat /\ S \subseteq Int /\ \E c \in Int : \A n \in S : n <= c
  <2>1. S # {} /\ S \subseteq Nat /\ S \subseteq Int
    BY <1>1
  <2>2. b \in Int /\ \A n \in S : n <= b
    BY <1>1, <1>2
  <2> HIDE DEF S
  <2> QED
    BY <2>1, <2>2
<1>4. \A e \in real : Len(e.params) \in S
  OBVIOUS
<1> HIDE DEF S
<1>5. Max(S) \in S /\ \A n \in S : n <= Max(S)
  BY <1>3, GreatestIs
<1> QED
  BY <1>1, <1>3, <1>4, <1>5 DEF S

(* The block that a domain is in is one of its entries'.                       *)
LEMMA DomainBlockIs ==
  ASSUME NEW real, IsFiniteSet(real), \A e \in real : IsEntry(e), NEW d \in Domains(real)
  PROVE  \E e \in real : DomainBlock(real, d) = Block(e.id) /\ Block(e.id) \in Nat
<1> DEFINE mine == {e \in real : e.domain = d}
           count(b) == Cardinality({e \in mine : Block(e.id) = b})
           blocks == {Block(e.id) : e \in mine}
           C == {count(b) : b \in blocks}
           best == {b \in blocks : \A c \in blocks : count(c) <= count(b)}
<1>1. \A e \in mine : e \in real /\ Block(e.id) \in Nat
  <2> SUFFICES ASSUME NEW e \in mine PROVE Block(e.id) \in Nat
    OBVIOUS
  <2>1. e.id \in Nat /\ BlockSize \in Nat \ {0}
    BY SizesAssumption DEF IsEntry
  <2> QED
    BY <2>1, Quotient DEF Block
<1>2. blocks # {} /\ blocks \subseteq Nat
  BY <1>1 DEF Domains
<1>3. IsFiniteSet(mine) /\ Cardinality(mine) \in Nat
  BY FS_Subset, FS_CardinalityType
<1>4. \A b \in blocks : count(b) \in Nat /\ count(b) <= Cardinality(mine)
  <2> SUFFICES ASSUME NEW b \in blocks PROVE count(b) \in Nat /\ count(b) <= Cardinality(mine)
    OBVIOUS
  <2> DEFINE those == {e \in mine : Block(e.id) = b}
  <2>1. those \in SUBSET mine
    OBVIOUS
  <2> HIDE DEF those, mine
  <2>2. IsFiniteSet(those) /\ Cardinality(those) <= Cardinality(mine)
    BY <1>3, <2>1, FS_Subset
  <2>3. Cardinality(those) \in Nat
    BY <2>2, FS_CardinalityType
  <2> QED
    BY <2>2, <2>3 DEF those
<1> HIDE DEF count, blocks
<1>5. C # {} /\ C \subseteq Int /\ \E x \in Int : \A n \in C : n <= x
  <2>1. C # {}
    BY <1>2
  <2>2. \A n \in C : n \in Int /\ n <= Cardinality(mine)
    BY <1>4
  <2> QED
    BY <1>3, <2>1, <2>2
<1>6. Max(C) \in C /\ \A n \in C : n <= Max(C)
  <2> HIDE DEF C
  <2> QED
    BY <1>5, GreatestIs
<1>7. best # {} /\ best \subseteq Nat
  <2>1. PICK b \in blocks : Max(C) = count(b)
    BY <1>6
  <2>2. \A c \in blocks : count(c) \in C
    OBVIOUS
  <2>3. b \in best
    BY <1>6, <2>1, <2>2
  <2> QED
    BY <1>2, <2>3
<1>8. Min(best) \in best
  <2> HIDE DEF best
  <2> QED
    BY <1>7, LeastIs
<1>9. DomainBlock(real, d) = Min(best)
  BY DEF DomainBlock, count, blocks
<1>10. PICK e \in mine : DomainBlock(real, d) = Block(e.id)
  BY <1>8, <1>9 DEF blocks
<1> QED
  BY <1>1, <1>10

(* Free ids of a block can be given to an entry.                               *)
LEMMA FreeIdsAre ==
  ASSUME NEW block \in Nat, NEW used, NEW i \in FreeIds(block, used)
  PROVE  /\ i \in Nat /\ i # 0 /\ i \notin used /\ i \notin BLOCKED
         /\ i < (block + 1) * BlockSize
<1>1. BlockSize \in Nat \ {0}
  BY SizesAssumption
<1>2. i \in (block * BlockSize)..((block + 1) * BlockSize - 1) /\ i \notin used \cup BLOCKED \cup {0}
  BY DEF FreeIds
<1>3. block * BlockSize \in Nat /\ (block + 1) * BlockSize \in Nat
  BY <1>1, SMT
<1> DEFINE lo == block * BlockSize
           hi == (block + 1) * BlockSize
<1>4. i \in lo..(hi - 1) /\ lo \in Nat /\ hi \in Nat
  BY <1>2, <1>3
<1> HIDE DEF lo, hi
<1>5. i \in Nat /\ i < hi
  BY <1>4
<1> QED
  BY <1>2, <1>5 DEF hi

---------------------------------------------------------------------------------
(* Templates, and constraints made of them.                                    *)

Becomes(n, new) == IF n \in DOMAIN new THEN new[n] ELSE n
LEMMA NodeRenamed ==
  ASSUME NEW n, NEW i, IsNode(n, i), NEW m
  PROVE  /\ IsNode([n EXCEPT !.name = m], i)
         /\ [n EXCEPT !.name = m].kind = n.kind /\ [n EXCEPT !.name = m].name = m
         /\ \A k : [[n EXCEPT !.name = m] EXCEPT !.name = k] = [n EXCEPT !.name = k]
         /\ [n EXCEPT !.name = n.name] = n
<1> DEFINE r == [n EXCEPT !.name = m]
<1>1. n = [kind |-> n.kind, value |-> n.value, name |-> n.name, ops |-> n.ops, args |-> n.args]
  BY DEF IsNode
<1>2. r = [kind |-> n.kind, value |-> n.value, name |-> m, ops |-> n.ops, args |-> n.args]
  BY <1>1
<1>3. IsNode(r, i)
  BY <1>2 DEF IsNode
<1>4. \A k : [r EXCEPT !.name = k] = [n EXCEPT !.name = k]
  BY <1>1, <1>2
<1>5. [n EXCEPT !.name = n.name] = n
  BY <1>1
<1> QED
  BY <1>2, <1>3, <1>4, <1>5

(* Renaming changes the names and nothing else.                                *)
LEMMA RenamedIs ==
  ASSUME NEW e, IsExpr(e), NEW new
  PROVE  /\ IsExpr(Renamed(e, new))
         /\ IsBad(Renamed(e, new)) <=> IsBad(e)
         /\ \A n \in FreeNames(Renamed(e, new)) : \E m \in FreeNames(e) : n = Becomes(m, new)
<1> DEFINE r == Renamed(e, new)
           L == Len(e)
           to(i) == IF e[i].kind = "name" /\ e[i].name \in DOMAIN new
                    THEN [e[i] EXCEPT !.name = new[@]] ELSE e[i]
<1>1. /\ L \in Nat \ {0} /\ DOMAIN e = 1..L /\ L \in 1..L
      /\ \A i \in 1..L : IsNode(e[i], i)
  BY ExprParts
<1>2. r = [i \in 1..L |-> to(i)]
  BY <1>1, Zenon DEF Renamed
<1>3. ASSUME NEW i \in 1..L
      PROVE  /\ IsNode(to(i), i) /\ to(i).kind = e[i].kind
             /\ to(i).kind = "name" => to(i).name = Becomes(e[i].name, new)
  <2>1. IsNode(e[i], i)
    BY <1>1
  <2>2. CASE e[i].kind = "name" /\ e[i].name \in DOMAIN new
    <3>1. to(i) = [e[i] EXCEPT !.name = new[e[i].name]]
      BY <2>2
    <3> DEFINE m == new[e[i].name]
               n == [e[i] EXCEPT !.name = m]
    <3> HIDE DEF m
    <3>2. IsNode(n, i) /\ n.kind = e[i].kind /\ n.name = m
      BY <2>1, NodeRenamed
    <3>3. to(i) = n
      BY <3>1 DEF m
    <3> HIDE DEF to, n
    <3> QED
      BY <2>2, <3>2, <3>3 DEF Becomes, m
  <2>3. CASE ~(e[i].kind = "name" /\ e[i].name \in DOMAIN new)
    BY <2>1, <2>3 DEF Becomes
  <2> QED
    BY <2>2, <2>3
<1> HIDE DEF r, to
<1>4. DOMAIN r = 1..L /\ r \in [1..L -> Range(r)] /\ \A i \in 1..L : r[i] = to(i)
  BY <1>2 DEF Range
<1>5. r \in Seq(Range(r)) /\ Len(r) = L
  BY <1>1, <1>4, ListIs
<1>6. IsExpr(r)
  <2>1. r # <<>>
    BY <1>1, <1>5, EmptySeq
  <2> QED
    BY <1>3, <1>4, <1>5, <2>1 DEF IsExpr
<1>7. IsBad(r) <=> IsBad(e)
  <2>1. r[L] = to(L) /\ to(L).kind = e[L].kind
    BY <1>1, <1>3, <1>4
  <2> QED
    BY <1>5, <2>1 DEF IsBad, Root
<1>8. ASSUME NEW n \in FreeNames(r) PROVE \E m \in FreeNames(e) : n = Becomes(m, new)
  <2>1. PICK i \in 1..L : r[i].kind = "name" /\ n = r[i].name
    BY <1>4 DEF FreeNames
  <2>2. e[i].kind = "name" /\ n = Becomes(e[i].name, new)
    BY <1>3, <1>4, <2>1
  <2>3. e[i].name \in FreeNames(e)
    BY <1>1, <2>2 DEF FreeNames
  <2> QED
    BY <2>2, <2>3
<1> QED
  BY <1>6, <1>7, <1>8 DEF r

(* Templates are expressions over slots.                                       *)
LEMMA TemplatesAre ==
  ASSUME NEW real, \A e \in real : IsEntry(e), NEW t \in Templates(real)
  PROVE  IsExpr(t) /\ ~IsBad(t) /\ FreeNames(t) \subseteq Range(SLOTS)
<1> DEFINE exprs == UNION {{f.constraints[i].expr : i \in DOMAIN f.constraints} : f \in real}
           R(e) == {Renamed(e, f) :
                      f \in Injections(FreeNames(e), FirstSlots(Cardinality(FreeNames(e))))}
<1>1. Templates(real) = UNION {R(e) : e \in {x \in exprs : Templatable(x)}}
  BY Zenon DEF Templates
<1>2. PICK e \in exprs : Templatable(e) /\ t \in R(e)
  BY <1>1
<1>3. IsExpr(e)
  <2>1. PICK x \in real : \E i \in DOMAIN x.constraints : e = x.constraints[i].expr
    OBVIOUS
  <2>2. \A i \in DOMAIN x.constraints : IsExpr(x.constraints[i].expr)
    BY EntryParts
  <2> QED
    BY <2>1, <2>2
<1>4. PICK f \in Injections(FreeNames(e), FirstSlots(Cardinality(FreeNames(e)))) :
        t = Renamed(e, f)
  BY <1>2
<1>5. ~IsBad(e) /\ Cardinality(FreeNames(e)) \in 1..Len(SLOTS)
  BY <1>2 DEF Templatable
<1>6. f \in [FreeNames(e) -> FirstSlots(Cardinality(FreeNames(e)))]
  BY DEF Injections
<1>7. FirstSlots(Cardinality(FreeNames(e))) \subseteq Range(SLOTS)
  <2>1. SLOTS \in Seq(Range(SLOTS))
    BY SizesAssumption
  <2>2. Len(SLOTS) \in Nat /\ DOMAIN SLOTS = 1..Len(SLOTS)
    BY <2>1, LenProperties
  <2>3. \A i \in 1..Cardinality(FreeNames(e)) : i \in DOMAIN SLOTS
    BY <1>5, <2>2
  <2> QED
    BY <2>3 DEF FirstSlots, Range
<1>8. \A m \in FreeNames(e) : Becomes(m, f) \in Range(SLOTS)
  BY <1>6, <1>7 DEF Becomes
<1>9. /\ IsExpr(t) /\ ~IsBad(t)
      /\ \A n \in FreeNames(t) : \E m \in FreeNames(e) : n = Becomes(m, f)
  BY <1>3, <1>4, <1>5, RenamedIs
<1> QED
  BY <1>8, <1>9

(* Binding slots one after the other leaves only names of parameters.          *)
Binds(f, i) == [s \in {SLOTS[i]} |-> f[s]]
With(n, m) == [n EXCEPT !.name = m]
NamesAnd(t, more) == {t[j].name : j \in 1..Len(t)} \cup more
Variants(t, more) == {With(t[k], m) : k \in 1..Len(t), m \in NamesAnd(t, more)}
LEMMA BindStep ==
  ASSUME NEW t, IsExpr(t), NEW numeric, NEW f, NEW i, f[SLOTS[i]] \in numeric,
         NEW x \in [1..Len(t) -> Variants(t, numeric)]
  PROVE  Renamed(x, Binds(f, i)) \in [1..Len(t) -> Variants(t, numeric)]
<1> DEFINE L == Len(t)
           M == Variants(t, numeric)
           s == f[SLOTS[i]]
           to(j) == IF x[j].kind = "name" /\ x[j].name \in DOMAIN Binds(f, i)
                    THEN [x[j] EXCEPT !.name = Binds(f, i)[@]] ELSE x[j]
<1>1. DOMAIN x = 1..L /\ \A k \in 1..L : IsNode(t[k], k)
  BY ExprParts
<1>2. Renamed(x, Binds(f, i)) = [j \in 1..L |-> to(j)]
  BY <1>1, Zenon DEF Renamed
<1>3. ASSUME NEW j \in 1..L PROVE to(j) \in M
  <2>0. x[j] \in M
    OBVIOUS
  <2>1. CASE x[j].kind = "name" /\ x[j].name \in DOMAIN Binds(f, i)
    <3>1. Binds(f, i)[x[j].name] = s
      BY <2>1 DEF Binds
    <3>2. to(j) = With(x[j], s)
      BY <2>1, <3>1 DEF With
    <3> HIDE DEF to, s
    <3>3. PICK k \in 1..L, m \in NamesAnd(t, numeric) : x[j] = With(t[k], m)
      BY <2>0 DEF Variants
    <3>4. With(x[j], s) = With(t[k], s)
      <4>1. IsNode(t[k], k)
        BY <1>1
      <4> QED
        BY <3>3, <4>1, NodeRenamed, ZenonT(40) DEF With
    <3>5. s \in NamesAnd(t, numeric)
      BY DEF s, NamesAnd
    <3> QED
      BY <3>2, <3>4, <3>5 DEF Variants
  <2>2. CASE ~(x[j].kind = "name" /\ x[j].name \in DOMAIN Binds(f, i))
    BY <2>0, <2>2
  <2> QED
    BY <2>1, <2>2
<1> HIDE DEF to, M
<1>4. [j \in 1..L |-> to(j)] \in [1..L -> M]
  BY <1>3
<1> QED
  BY <1>2, <1>4 DEF M

(* What becomes of a template when all its slots are bound.                    *)
LEMMA BindingsAre ==
  ASSUME NEW t, IsExpr(t), ~IsBad(t), FreeNames(t) \subseteq Range(SLOTS), NEW numeric,
         NEW x \in Bindings(t, numeric)
  PROVE  IsExpr(x) /\ ~IsBad(x) /\ FreeNames(x) \subseteq numeric
<1> DEFINE slots == {s \in Range(SLOTS) : s \in FreeNames(t)}
           N == Len(SLOTS)
           R(f, h) == h = [i \in 0..N |-> IF i = 0 THEN t
                                          ELSE IF SLOTS[i] \in slots
                                          THEN Renamed(h[i - 1], [s \in {SLOTS[i]} |-> f[s]])
                                          ELSE h[i - 1]]
           F(f) == CHOOSE h : R(f, h)
<1>1. Bindings(t, numeric) = {F(f)[N] : f \in Injections(slots, numeric)}
  BY Zenon DEF Bindings
<1> HIDE DEF F
<1>2. PICK f \in Injections(slots, numeric) : x = F(f)[N]
  BY <1>1
<1>3. f \in [slots -> numeric]
  BY DEF Injections
<1>4. N \in Nat /\ DOMAIN SLOTS = 1..N
  BY SizesAssumption, LenProperties
<1> HIDE DEF slots, N
<1> DEFINE M == Variants(t, numeric)
           D == [1..Len(t) -> M]
           g == [i \in 1..N |-> [y \in D |-> IF SLOTS[i] \in slots
                                             THEN Renamed(y, Binds(f, i)) ELSE y]]
<1>5. t \in D
  <2>1. /\ DOMAIN t = 1..Len(t) /\ Len(t) \in Nat /\ t \in Seq(Range(t))
        /\ \A k \in 1..Len(t) : IsNode(t[k], k)
    BY ExprParts DEF IsExpr
  <2>2. \A k \in 1..Len(t) : t[k] = With(t[k], t[k].name)
    BY <2>1, NodeRenamed DEF With
  <2>3. ASSUME NEW k \in 1..Len(t) PROVE t[k] \in M
    <3>1. t[k].name \in NamesAnd(t, numeric)
      BY DEF NamesAnd
    <3>2. With(t[k], t[k].name) \in M
      BY <3>1 DEF Variants
    <3> QED
      BY <2>2, <3>2
  <2>4. t \in [1..Len(t) -> Range(t)]
    BY <2>1, LenProperties
  <2> HIDE DEF M
  <2> QED
    BY <2>3, <2>4
<1>6. \A i \in 1..N : \A y \in D : g[i][y] \in D
  <2>1. ASSUME NEW i \in 1..N, NEW y \in D, SLOTS[i] \in slots
        PROVE  Renamed(y, Binds(f, i)) \in D
    <3>1. f[SLOTS[i]] \in numeric
      BY <1>3, <2>1
    <3> QED
      BY <3>1, BindStep
  <2> HIDE DEF D
  <2> QED
    BY <2>1
<1> HIDE DEF M
<1>7. PICK a \in [0..N -> D] : Stepwise(a, N, t, g)
  <2> HIDE DEF D, g
  <2> QED
    BY <1>4, <1>5, <1>6, StepwiseExists
<1>8. R(f, a)
  <2>1. ASSUME NEW i \in 1..N
        PROVE  g[i][a[i - 1]] = IF SLOTS[i] \in slots
                                THEN Renamed(a[i - 1], [s \in {SLOTS[i]} |-> f[s]])
                                ELSE a[i - 1]
    <3>1. i - 1 \in 0..N /\ a[i - 1] \in D
      BY <1>4
    <3> HIDE DEF D
    <3> QED
      BY <3>1 DEF Binds
  <2>2. a = [i \in 0..N |-> IF i = 0 THEN t ELSE g[i][a[i - 1]]]
    BY <1>7, Zenon DEF Stepwise
  <2>3. \A i \in 0..N : a[i] = IF i = 0 THEN t
                               ELSE IF SLOTS[i] \in slots
                               THEN Renamed(a[i - 1], [s \in {SLOTS[i]} |-> f[s]])
                               ELSE a[i - 1]
    <3> HIDE DEF g, D
    <3>1. \A i \in 0..N : i = 0 \/ i \in 1..N
      BY <1>4
    <3>2. \A i \in 0..N : a[i] = IF i = 0 THEN t ELSE g[i][a[i - 1]]
      BY <2>2
    <3> QED
      BY <2>1, <3>1, <3>2
  <2>4. a = [i \in 0..N |-> a[i]]
    OBVIOUS
  <2> QED
    BY <2>3, <2>4
<1>9. R(f, F(f))
  <2> HIDE DEF R
  <2> QED
    BY <1>8 DEF F
<1> DEFINE b == F(f)
           left(i) == {SLOTS[j] : j \in {k \in (i + 1)..N : SLOTS[k] \in slots}}
           S == {i \in 0..N : /\ IsExpr(b[i]) /\ ~IsBad(b[i])
                              /\ FreeNames(b[i]) \subseteq numeric \cup left(i)}
<1>10. \A i \in 0..N : b[i] = IF i = 0 THEN t
                              ELSE IF SLOTS[i] \in slots THEN Renamed(b[i - 1], Binds(f, i))
                              ELSE b[i - 1]
  <2> HIDE DEF F
  <2> QED
    BY <1>9 DEF Binds
<1> HIDE DEF b, R, F
<1>11. 0 \in S
  <2>1. b[0] = t /\ 0 \in 0..N
    BY <1>4, <1>10
  <2>2. FreeNames(t) \subseteq left(0)
    <3> SUFFICES ASSUME NEW n \in FreeNames(t) PROVE n \in left(0)
      OBVIOUS
    <3>1. n \in slots
      BY DEF slots
    <3>2. PICK j \in 1..N : n = SLOTS[j]
      BY <1>4 DEF Range
    <3> QED
      BY <3>1, <3>2
  <2> QED
    BY <2>1, <2>2
<1>12. ASSUME NEW i \in 1..N, i - 1 \in S PROVE i \in S
  <2>0. i \in 0..N /\ i # 0 /\ i - 1 \in 0..N
    BY <1>4
  <2>1. /\ IsExpr(b[i - 1]) /\ ~IsBad(b[i - 1])
        /\ FreeNames(b[i - 1]) \subseteq numeric \cup left(i - 1)
    BY <1>12
  <2>2. \A n \in left(i - 1) : (n = SLOTS[i] /\ SLOTS[i] \in slots) \/ n \in left(i)
    <3> SUFFICES ASSUME NEW n \in left(i - 1) PROVE (n = SLOTS[i] /\ SLOTS[i] \in slots) \/ n \in left(i)
      OBVIOUS
    <3>1. PICK j \in ((i - 1) + 1)..N : n = SLOTS[j] /\ SLOTS[j] \in slots
      OBVIOUS
    <3>2. j = i \/ j \in (i + 1)..N
      BY <1>4
    <3> QED
      BY <3>1, <3>2
  <2> HIDE DEF left
  <2>3. CASE SLOTS[i] \in slots
    <3>1. b[i] = Renamed(b[i - 1], Binds(f, i))
      BY <1>10, <2>0, <2>3
    <3>2. /\ IsExpr(b[i]) /\ ~IsBad(b[i])
          /\ \A n \in FreeNames(b[i]) : \E m \in FreeNames(b[i - 1]) :
               n = Becomes(m, Binds(f, i))
      BY <2>1, <3>1, RenamedIs
    <3>3. \A m \in FreeNames(b[i - 1]) : Becomes(m, Binds(f, i)) \in numeric \cup left(i)
      <4> SUFFICES ASSUME NEW m \in FreeNames(b[i - 1])
                   PROVE  Becomes(m, Binds(f, i)) \in numeric \cup left(i)
        OBVIOUS
      <4>1. CASE m = SLOTS[i]
        <5>1. Becomes(m, Binds(f, i)) = f[SLOTS[i]]
          BY <4>1 DEF Becomes, Binds
        <5> QED
          BY <1>3, <2>3, <5>1
      <4>2. CASE m # SLOTS[i]
        <5>1. Becomes(m, Binds(f, i)) = m
          BY <4>2 DEF Becomes, Binds
        <5> QED
          BY <2>1, <2>2, <4>2, <5>1
      <4> QED
        BY <4>1, <4>2
    <3>4. FreeNames(b[i]) \subseteq numeric \cup left(i)
      BY <3>2, <3>3
    <3> QED
      BY <2>0, <3>2, <3>4
  <2>4. CASE SLOTS[i] \notin slots
    <3>1. b[i] = b[i - 1]
      BY <1>10, <2>0, <2>4
    <3>2. FreeNames(b[i]) \subseteq numeric \cup left(i)
      BY <2>1, <2>2, <2>4, <3>1
    <3> QED
      BY <2>0, <2>1, <3>1, <3>2
  <2> QED
    BY <2>3, <2>4
<1>13. N \in S
  <2> HIDE DEF S
  <2>1. \A i \in 0..N : i \in S
    BY <1>4, <1>11, <1>12, RangeInduction
  <2> QED
    BY <1>4, <2>1
<1>14. left(N) = {}
  BY <1>4
<1>15. x = b[N]
  BY <1>2 DEF b
<1> HIDE DEF left
<1> QED
  BY <1>13, <1>14, <1>15

(* Constraints that are made up name parameters of the entry.                  *)
LEMMA MadeConstraintsAre ==
  ASSUME NEW real, \A e \in real : IsEntry(e), NEW params, NEW c \in MadeConstraints(real, params)
  PROVE  /\ c \in Seq(Range(c))
         /\ \A i \in DOMAIN c : /\ IsConstraint(c[i]) /\ ~IsBad(c[i].expr)
                                /\ FreeNames(c[i].expr) \subseteq {params[j].name : j \in DOMAIN params}
<1> DEFINE numeric == {params[i].name : i \in {j \in DOMAIN params : params[j].type \in IntTypes}}
           bound == UNION {Bindings(t, numeric) : t \in Templates(real)}
           sizes == UNION {0..Len(e.constraints) : e \in real}
           C(f) == [i \in DOMAIN f |-> [expr |-> f[i], warning |-> FALSE]]
<1>1. MadeConstraints(real, params) = {C(f) : f \in UNION {Injections(1..n, bound) : n \in sizes}}
  BY Zenon DEF MadeConstraints
<1>2. sizes \subseteq Nat
  BY EntryParts
<1>3. \A x \in bound : IsExpr(x) /\ ~IsBad(x) /\ FreeNames(x) \subseteq numeric
  <2> SUFFICES ASSUME NEW x \in bound
               PROVE  IsExpr(x) /\ ~IsBad(x) /\ FreeNames(x) \subseteq numeric
    OBVIOUS
  <2> HIDE DEF numeric
  <2>1. PICK t \in Templates(real) : x \in Bindings(t, numeric)
    OBVIOUS
  <2> QED
    BY <2>1, TemplatesAre, BindingsAre
<1> HIDE DEF bound, sizes, C
<1>4. PICK n \in sizes : \E f \in Injections(1..n, bound) : c = C(f)
  BY <1>1
<1>5. PICK f \in [1..n -> bound] : c = C(f)
  BY <1>4 DEF Injections
<1>6. n \in Nat /\ DOMAIN f = 1..n /\ \A i \in 1..n : f[i] \in bound
  BY <1>2, <1>5
<1>7. DOMAIN c = 1..n /\ \A i \in 1..n : c[i] = [expr |-> f[i], warning |-> FALSE]
  BY <1>5, <1>6 DEF C
<1>8. c \in Seq(Range(c))
  <2>1. c \in [1..n -> Range(c)]
    <3>1. c = [i \in 1..n |-> c[i]]
      BY <1>5, <1>6 DEF C
    <3>2. \A i \in 1..n : c[i] \in Range(c)
      BY <1>7 DEF Range
    <3> QED
      BY <3>1, <3>2
  <2> QED
    BY <1>6, <2>1, ListIs
<1>9. ASSUME NEW i \in 1..n
      PROVE  /\ IsConstraint(c[i]) /\ ~IsBad(c[i].expr)
             /\ FreeNames(c[i].expr) \subseteq numeric
  <2>1. c[i].expr = f[i] /\ c[i].warning = FALSE /\ c[i] = [expr |-> c[i].expr, warning |-> c[i].warning]
    BY <1>7
  <2> QED
    BY <1>3, <1>6, <2>1 DEF IsConstraint
<1> QED
  BY <1>7, <1>8, <1>9

---------------------------------------------------------------------------------
(* Parameters that are made up.                                                *)

MadeKinds(real, d) == KindsOf(real, d) \cup {"uint", "bytes"}
AllNames(real, d) ==
  UNION {NamesOf(real, k) \cup UNION {Numbered(NamesOf(real, k), j) : j \in 2..59} :
           k \in MadeKinds(real, d)}
AnyParam(real, d) ==
  [name : AllNames(real, d), type : MadeKinds(real, d), bits : Nat,
   mod : {{}} \cup {{n} : n \in AllNames(real, d)}, curve : BOOLEAN, public : BOOLEAN,
   choices : Nat]

(* What the parameter at i of a list of made up ones is, beside those before.  *)
MadeParam(real, d, l, i) ==
  /\ l[i].type \in MadeKinds(real, d) /\ l[i].type # "point"
  /\ l[i].type # "enum" => l[i].bits \in WidthsOf(real, l[i].type) /\ l[i].choices = 0
  /\ l[i].type = "enum" => l[i].choices \in ChoicesOf(real)
  /\ l[i].type = "enum" => l[i].bits = 0
  /\ l[i].type \notin MOD_REQUIRED => l[i].mod = {}
  /\ l[i].type \in MOD_REQUIRED =>
       \E j \in 1..(i - 1) : l[j].type = "prime" /\ l[i].mod = {l[j].name}
  /\ \A j \in 1..(i - 1) : l[j].name # l[i].name
MadeList(real, d, l) == /\ l \in Seq(AnyParam(real, d))
                        /\ \A i \in 1..Len(l) : MadeParam(real, d, l, i)

(* What is known of the parameters a corpus has.                               *)
LEMMA PiecesAre ==
  ASSUME NEW real, \A e \in real : IsEntry(e)
  PROVE  /\ \A p \in Pieces(real) : IsParam(p)
         /\ \A k : \A b \in WidthsOf(real, k) : b \in Nat /\ b > 0
         /\ \A n \in ChoicesOf(real) : n \in Nat /\ n > 0
<1>1. ASSUME NEW p \in Pieces(real) PROVE IsParam(p)
  <2>1. PICK e \in real : \E i \in DOMAIN e.params : p = e.params[i]
    BY DEF Pieces
  <2> QED
    BY <2>1, EntryParts
<1>2. \A p \in Pieces(real) : p.bits \in Nat /\ p.choices \in Nat
  BY <1>1 DEF IsParam
<1> QED
  BY <1>1, <1>2 DEF WidthsOf, ChoicesOf

(* A name that is made up is not in use.                                       *)
LEMMA FreshNamesAre ==
  ASSUME NEW real, NEW d, NEW k \in MadeKinds(real, d), NEW used,
         NEW n \in FreshNames(real, k, used)
  PROVE  n \in AllNames(real, d) /\ n \notin used
<1> DEFINE pool == NamesOf(real, k)
           misses(j) == /\ pool \cap used # {}
                        /\ \A m \in 2..(j - 1) : Numbered(pool, m) \cap used # {}
           numbers == {j \in 2..59 : misses(j)}
<1>1. FreshNames(real, k, used) = (pool \ used) \cup UNION {Numbered(pool, j) \ used : j \in numbers}
  BY Zenon DEF FreshNames
<1>2. pool \cup UNION {Numbered(pool, j) : j \in 2..59} \subseteq AllNames(real, d)
  BY DEF AllNames
<1> HIDE DEF pool
<1>3. numbers \subseteq 2..59
  OBVIOUS
<1> HIDE DEF numbers
<1> QED
  BY <1>1, <1>2, <1>3

(* One more parameter keeps a made up list one.                                *)
LEMMA NextParamsAre ==
  ASSUME NEW real, \A e \in real : IsEntry(e), NEW d, NEW l, MadeList(real, d, l),
         NEW m \in NextParams(real, d, l)
  PROVE  MadeList(real, d, m) /\ Len(m) = Len(l) + 1
<1> DEFINE used == {l[i].name : i \in DOMAIN l}
           Made1(k) == [name : FreshNames(real, k, used), type : {k},
                        bits : IF k = "enum" THEN {0} ELSE WidthsOf(real, k),
                        mod : IF k \in MOD_REQUIRED THEN {{n} : n \in Primes(l)} ELSE {{}},
                        curve : {FALSE},
                        public : {p.public : p \in Pieces(real)},
                        choices : IF k = "enum" THEN ChoicesOf(real) ELSE {0}]
           n == Len(l)
<1>1. NextParams(real, d, l)
        = {Append(l, p) : p \in UNION {Made1(k) : k \in Kinds(real, d, l)}}
  BY Zenon DEF NextParams
<1>2. l \in Seq(AnyParam(real, d)) /\ n \in Nat /\ DOMAIN l = 1..n
      /\ \A i \in 1..n : MadeParam(real, d, l, i) /\ l[i] \in AnyParam(real, d)
  BY LenProperties, ElementOfSeq DEF MadeList
<1> HIDE DEF Made1
<1>3. PICK k \in Kinds(real, d, l) : \E p \in Made1(k) : m = Append(l, p)
  BY <1>1
<1>4. PICK p \in Made1(k) : m = Append(l, p)
  BY <1>3
<1>5. k \in MadeKinds(real, d) /\ k # "point"
  BY DEF Kinds, MadeKinds, MOD_REQUIRED
<1>6. /\ p = [name |-> p.name, type |-> p.type, bits |-> p.bits, mod |-> p.mod,
              curve |-> p.curve, public |-> p.public, choices |-> p.choices]
      /\ p.type = k /\ p.curve \in {FALSE} /\ p.name \in FreshNames(real, k, used)
      /\ p.bits \in (IF k = "enum" THEN {0} ELSE WidthsOf(real, k))
      /\ p.mod \in (IF k \in MOD_REQUIRED THEN {{x} : x \in Primes(l)} ELSE {{}})
      /\ p.public \in {x.public : x \in Pieces(real)}
      /\ p.choices \in (IF k = "enum" THEN ChoicesOf(real) ELSE {0})
  <2> HIDE DEF used
  <2> QED
    BY DEF Made1
<1>7. p.name \in AllNames(real, d) /\ p.name \notin used
  <2> HIDE DEF used
  <2> QED
    BY <1>5, <1>6, FreshNamesAre
<1>8. p.bits \in Nat /\ p.choices \in Nat /\ p.public \in BOOLEAN
  BY <1>6, PiecesAre DEF IsParam
<1>9. \A x \in Primes(l) : \E j \in 1..n : l[j].type = "prime" /\ x = l[j].name
  BY <1>2 DEF Primes
<1>10. p.mod \in {{}} \cup {{x} : x \in AllNames(real, d)}
  <2>1. \A x \in Primes(l) : x \in AllNames(real, d)
    BY <1>2, <1>9 DEF AnyParam
  <2> QED
    BY <1>6, <2>1
<1>11. p \in AnyParam(real, d)
  BY <1>5, <1>6, <1>7, <1>8, <1>10 DEF AnyParam
<1>12. /\ m \in Seq(AnyParam(real, d)) /\ Len(m) = n + 1
       /\ \A i \in 1..n : m[i] = l[i]
       /\ m[n + 1] = p
  BY <1>2, <1>4, <1>11, AppendProperties
<1> HIDE DEF n
<1>13. ASSUME NEW i \in 1..n PROVE MadeParam(real, d, m, i)
  <2>1. m[i] = l[i] /\ \A j \in 1..(i - 1) : m[j] = l[j]
    BY <1>2, <1>12
  <2>2. MadeParam(real, d, l, i)
    BY <1>2
  <2> QED
    BY <2>1, <2>2 DEF MadeParam
<1>14. MadeParam(real, d, m, n + 1)
  <2> DEFINE N == n + 1
  <2>1. m[N] = p /\ \A j \in 1..(N - 1) : j \in 1..n /\ m[j] = l[j]
    BY <1>2, <1>12
  <2>2. \A j \in 1..n : j \in 1..(N - 1) /\ m[j] = l[j] /\ m[j].name # p.name
    BY <1>2, <1>7, <1>12
  <2>3. p.type \in MOD_REQUIRED => \E j \in 1..n : l[j].type = "prime" /\ p.mod = {l[j].name}
    BY <1>6, <1>9
  <2> HIDE DEF N
  <2>4. MadeParam(real, d, m, N)
    BY <1>5, <1>6, <2>1, <2>2, <2>3 DEF MadeParam
  <2> QED
    BY <2>4 DEF N
<1>15. \A i \in 1..Len(m) : i \in 1..n \/ i = n + 1
  BY <1>2, <1>12
<1> QED
  BY <1>12, <1>13, <1>14, <1>15 DEF MadeList, n

(* All lists of the generator are made up ones, as long as those of the real   *)
(* entries.                                                                    *)
LEMMA MadeParamsAre ==
  ASSUME NEW real, IsFiniteSet(real), real # {}, \A e \in real : IsEntry(e), NEW d,
         NEW l \in MadeParams(real, d)
  PROVE  MadeList(real, d, l) /\ \E e \in real : Len(l) = Len(e.params)
<1> DEFINE N == Max({Len(e.params) : e \in real})
           R(h) == h = [i \in 0..N |->
                          IF i = 0 THEN {<<>>} ELSE UNION {NextParams(real, d, x) : x \in h[i - 1]}]
           F == CHOOSE h : R(h)
           D == {X \in SUBSET Seq(AnyParam(real, d)) : \A x \in X : MadeList(real, d, x)}
           g == [i \in 1..N |-> [X \in D |-> UNION {NextParams(real, d, x) : x \in X}]]
<1>1. MadeParams(real, d) = UNION {F[Len(e.params)] : e \in real}
  BY Zenon DEF MadeParams
<1>2. N \in Nat /\ \A e \in real : Len(e.params) \in 0..N
  BY LongestIs
<1> HIDE DEF N, F
<1>3. {<<>>} \in D
  <2>1. <<>> \in Seq(AnyParam(real, d)) /\ Len(<<>>) = 0
    BY EmptySeq
  <2>2. MadeList(real, d, <<>>)
    BY <2>1 DEF MadeList
  <2> QED
    BY <2>1, <2>2
<1>4. ASSUME NEW X \in D PROVE UNION {NextParams(real, d, x) : x \in X} \in D
  <2>1. ASSUME NEW x \in X, NEW y \in NextParams(real, d, x) PROVE MadeList(real, d, y)
    BY NextParamsAre
  <2>2. \A y : MadeList(real, d, y) => y \in Seq(AnyParam(real, d))
    BY DEF MadeList
  <2> QED
    BY <2>1, <2>2
<1>5. \A i \in 1..N : \A X \in D : g[i][X] \in D
  <2> HIDE DEF D
  <2> QED
    BY <1>4
<1>6. PICK a \in [0..N -> D] : Stepwise(a, N, {<<>>}, g)
  <2> HIDE DEF D, g
  <2> QED
    BY <1>2, <1>3, <1>5, StepwiseExists
<1>7. R(a)
  <2>1. ASSUME NEW i \in 1..N
        PROVE  g[i][a[i - 1]] = UNION {NextParams(real, d, x) : x \in a[i - 1]}
    <3>1. i - 1 \in 0..N /\ a[i - 1] \in D
      BY <1>2
    <3> HIDE DEF D
    <3> QED
      BY <3>1
  <2>2. \A i \in 0..N : a[i] = IF i = 0 THEN {<<>>}
                               ELSE UNION {NextParams(real, d, x) : x \in a[i - 1]}
    <3> HIDE DEF g, D
    <3>1. \A i \in 0..N : i = 0 \/ i \in 1..N
      BY <1>2
    <3>2. \A i \in 0..N : a[i] = IF i = 0 THEN {<<>>} ELSE g[i][a[i - 1]]
      BY <1>6, Zenon DEF Stepwise
    <3> QED
      BY <2>1, <3>1, <3>2
  <2>3. a = [i \in 0..N |-> a[i]]
    OBVIOUS
  <2> QED
    BY <2>2, <2>3
<1>8. R(F)
  <2> HIDE DEF R
  <2> QED
    BY <1>7 DEF F
<1>9. /\ 0 \in 0..N /\ F[0] = {<<>>}
      /\ \A i \in 1..N : F[i] = UNION {NextParams(real, d, x) : x \in F[i - 1]}
  <2>1. \A i \in 0..N : F[i] = IF i = 0 THEN {<<>>}
                               ELSE UNION {NextParams(real, d, x) : x \in F[i - 1]}
    BY <1>8
  <2>2. 0 \in 0..N /\ \A i \in 1..N : i \in 0..N /\ i # 0
    BY <1>2
  <2> HIDE DEF R
  <2> QED
    BY <2>1, <2>2
<1> DEFINE S == {i \in 0..N : \A x \in F[i] : MadeList(real, d, x) /\ Len(x) = i}
<1>10. 0 \in S
  BY <1>3, <1>9
<1>11. ASSUME NEW i \in 1..N, i - 1 \in S PROVE i \in S
  <2>1. i \in 0..N /\ (i - 1) + 1 = i
    BY <1>2
  <2>2. ASSUME NEW y \in F[i] PROVE MadeList(real, d, y) /\ Len(y) = i
    <3>1. PICK x \in F[i - 1] : y \in NextParams(real, d, x)
      BY <1>9
    <3>2. MadeList(real, d, x) /\ Len(x) = i - 1
      BY <1>11
    <3>3. MadeList(real, d, y) /\ Len(y) = Len(x) + 1
      BY <3>1, <3>2, NextParamsAre
    <3> QED
      BY <2>1, <3>2, <3>3
  <2> QED
    BY <2>1, <2>2
<1>12. \A i \in 0..N : i \in S
  <2> HIDE DEF S
  <2> QED
    BY <1>2, <1>10, <1>11, RangeInduction
<1>13. PICK e \in real : l \in F[Len(e.params)]
  BY <1>1
<1>14. Len(e.params) \in S
  BY <1>2, <1>12
<1> QED
  BY <1>13, <1>14

---------------------------------------------------------------------------------
(* Entries that are made up.                                                   *)

(* What gates 1 and 2 ask, but for the names, the ids of others and warnings.  *)
Proper(e) == /\ FitsSchema(e) /\ ParamErrors(e) = {} /\ KnownNames(e)
             /\ PayloadBits(e.params) <= CEILING
Sound(real, e) ==
  Proper(e) /\ (ParamWarnings(e) = {} \/ \E f \in real : ParamWarnings(f) = ParamWarnings(e))

(* What a trial adds to the entries a run has made so far.                     *)
Addition(real, out, e) ==
  /\ IsEntry(e)
  /\ e.id \notin Ids(real) \cup BLOCKED /\ \A i \in DOMAIN out : out[i].id # e.id
  /\ Clean(real) => Sound(real, e)

(* A list is one of the elements it has.                                       *)
LEMMA OwnRange ==
  ASSUME NEW T, NEW s \in Seq(T)
  PROVE  /\ s \in Seq(Range(s)) /\ Len(s) \in Nat
         /\ \A x \in Range(s) : \E i \in 1..Len(s) : x = s[i]
         /\ \A i \in 1..Len(s) : s[i] \in Range(s)
<1>1. Len(s) \in Nat /\ s \in [1..Len(s) -> T] /\ DOMAIN s = 1..Len(s)
  BY LenProperties
<1>2. \A i \in 1..Len(s) : s[i] \in Range(s)
  BY <1>1 DEF Range
<1>3. s \in [1..Len(s) -> Range(s)]
  BY <1>1, <1>2
<1>4. s \in Seq(Range(s))
  BY <1>1, <1>3, ListIs
<1> QED
  BY <1>1, <1>2, <1>4 DEF Range

(* So is one with something before and behind it.                              *)
LEMMA Lengthened ==
  ASSUME NEW s, s \in Seq(Range(s)), NEW a, NEW b
  PROVE  /\ <<a>> \o s \o <<b>> \in Seq(Range(<<a>> \o s \o <<b>>))
         /\ s \o <<b>> \in Seq(Range(s \o <<b>>))
<1> DEFINE T == Range(s) \cup {a, b}
<1>1. s \in [1..Len(s) -> Range(s)] /\ Len(s) \in Nat
  BY LenProperties
<1>2. s \in [1..Len(s) -> T]
  BY <1>1
<1>3. s \in Seq(T)
  BY <1>1, <1>2, ListIs
<1>4. <<a>> \in Seq(T) /\ <<b>> \in Seq(T)
  OBVIOUS
<1> HIDE DEF T
<1>5. <<a>> \o s \in Seq(T)
  BY <1>3, <1>4, ConcatProperties
<1>6. <<a>> \o s \o <<b>> \in Seq(T) /\ s \o <<b>> \in Seq(T)
  BY <1>3, <1>4, <1>5, ConcatProperties
<1> QED
  BY <1>6, OwnRange

(* The size of an entry in a body.                                             *)
LEMMA PayloadIs ==
  ASSUME NEW e, IsEntry(e)
  PROVE  PayloadBits(e.params) \in Nat
<1> DEFINE n == Len(e.params)
           sizes == Widths(e.params)
<1>1. n \in Nat /\ DOMAIN e.params = 1..n /\ \A i \in 1..n : IsParam(e.params[i])
  BY EntryParts
<1> HIDE DEF n
<1>2. \A i \in 1..n : Width(e.params[i]) \in Nat
  BY <1>1, ParamBitsIs DEF Width
<1>3. sizes \in [1..n -> Nat]
  BY <1>1, <1>2 DEF Widths
<1> HIDE DEF sizes
<1>4. sizes \in Seq(Nat)
  BY <1>1, <1>3, ListIs
<1>5. Total(sizes) \in Nat
  BY <1>4, TotalIs
<1> QED
  BY <1>5 DEF PayloadBits, sizes

(* A new id is one the schema admits: the last block is full.                  *)
LEMMA NewIdIs ==
  ASSUME NEW old \in 1..MAX_ID, NEW used, NEW i \in FreeIds(Block(old), used)
  PROVE  i \in 1..MAX_ID
<1> DEFINE B == BlockSize
           q == (MAX_ID + 1) \div B
           b == Block(old)
<1>1. B \in Nat \ {0} /\ MAX_ID \in Nat /\ old \in Nat /\ old < MAX_ID + 1
  BY SizesAssumption
<1>2. (MAX_ID + 1) % B = 0
  BY IdsAssumption
<1>3. q \in Nat /\ MAX_ID + 1 = B * q
  <2>1. MAX_ID + 1 \in Nat
    BY <1>1
  <2>2. q \in Nat
    BY <1>1, <2>1, Quotient
  <2>3. MAX_ID + 1 = B * q + ((MAX_ID + 1) % B)
    BY <1>1, <2>1, Remainder
  <2>4. B * q \in Nat
    BY <1>1, <2>2, SMT
  <2> QED
    BY <1>2, <2>2, <2>3, <2>4
<1>4. b \in Nat /\ B * b <= old
  BY <1>1, Quotient DEF Block
<1> HIDE DEF b, q
<1>5. b + 1 <= q
  <2>1. CASE q <= b
    <3>1. B * q <= B * b
      BY <1>1, <1>3, <1>4, <2>1, SMT
    <3>2. B * q \in Nat /\ B * b \in Nat
      BY <1>1, <1>3, <1>4, SMT
    <3> QED
      BY <1>1, <1>3, <1>4, <3>1, <3>2
  <2> QED
    BY <1>3, <1>4, <2>1
<1>6. (b + 1) * B <= MAX_ID + 1
  <2>1. (b + 1) * B <= q * B /\ q * B = B * q
    BY <1>1, <1>3, <1>4, <1>5, SMT
  <2> QED
    BY <1>3, <2>1
<1>7. i \in Nat /\ i # 0 /\ i < (b + 1) * B
  BY <1>4, FreeIdsAre DEF b
<1>8. (b + 1) * B \in Nat
  BY <1>1, <1>4, SMT
<1> QED
  BY <1>1, <1>6, <1>7, <1>8

(* Made up parameters are such that the analysis finds nothing.                *)
LEMMA MadeHaveNoErrors ==
  ASSUME NEW real, \A e \in real : IsEntry(e), NEW d, NEW e, IsEntry(e),
         MadeList(real, d, e.params), \A i \in DOMAIN e.params : e.params[i].type \in Types
  PROVE  ParamErrors(e) = {}
<1> DEFINE n == Len(e.params)
<1>1. /\ n \in Nat /\ DOMAIN e.params = 1..n
      /\ \A i \in 1..n : IsParam(e.params[i]) /\ MadeParam(real, d, e.params, i)
  BY EntryParts DEF MadeList
<1> HIDE DEF n
<1> SUFFICES ASSUME NEW i \in 1..n PROVE i \notin ParamErrors(e)
  BY <1>1 DEF ParamErrors
<1> DEFINE p == e.params[i]
<1>2. i \in Nat /\ \A j \in 1..(i - 1) : j \in 1..n
  BY <1>1
<1>3. /\ IsParam(p) /\ p.type \in Types /\ MadeParam(real, d, e.params, i)
  BY <1>1
<1>4. Seen(e, i, {p.name}) = {}
  BY <1>3 DEF Seen, MadeParam
<1>5. p.type \in BITS_REQUIRED => p.bits \in Nat /\ p.bits > 0
  BY <1>3, PiecesAre DEF MadeParam, BITS_REQUIRED, IntTypes
<1>6. p.type = "enum" => p.choices \in Nat /\ p.choices > 0
  BY <1>3, PiecesAre DEF MadeParam
<1>7. ASSUME p.mod # {}
      PROVE  Seen(e, i, p.mod) # {} /\ Target(e, i).type = "prime"
  <2>1. PICK j \in 1..(i - 1) : e.params[j].type = "prime" /\ p.mod = {e.params[j].name}
    BY <1>3, <1>7 DEF MadeParam
  <2>2. j \in Seen(e, i, p.mod)
    BY <2>1 DEF Seen
  <2>3. \A k \in Seen(e, i, p.mod) : k \in 1..(i - 1) /\ e.params[k].name = e.params[j].name
    BY <2>1 DEF Seen
  <2>4. \A k \in 1..(i - 1) : e.params[k].name = e.params[j].name => k = j
    <3> SUFFICES ASSUME NEW k \in 1..(i - 1), e.params[k].name = e.params[j].name, k # j
                 PROVE  FALSE
      OBVIOUS
    <3>1. k \in 1..n /\ j \in 1..n /\ (k \in 1..(j - 1) \/ j \in 1..(k - 1))
      BY <1>1, <1>2
    <3>2. MadeParam(real, d, e.params, k) /\ MadeParam(real, d, e.params, j)
      BY <1>1, <3>1
    <3> QED
      BY <3>1, <3>2 DEF MadeParam
  <2>5. Seen(e, i, p.mod) = {j}
    BY <2>2, <2>3, <2>4
  <2>6. j \in Int /\ {j} # {} /\ {j} \subseteq Int /\ \A k \in {j} : k <= j
    BY <1>2
  <2>7. Max({j}) \in {j}
    BY <2>6, GreatestIs
  <2>8. Target(e, i) = e.params[j]
    BY <2>5, <2>7 DEF Target
  <2> QED
    BY <2>1, <2>5, <2>8
<1>8. ParamBits(p) # 0
  <2>1. CASE p.type \in BITS_REQUIRED
    <3>1. ParamBits(p) = p.bits
      BY <2>1 DEF ParamBits, BITS_REQUIRED, IntTypes
    <3> QED
      BY <1>5, <2>1, <3>1
  <2>2. CASE p.type = "enum"
    <3>1. ParamBits(p) = IndexBits(p.choices)
      BY <1>6, <2>2 DEF ParamBits, BITS_REQUIRED, IntTypes
    <3>2. p.choices \in Nat \ {0}
      BY <1>6, <2>2
    <3>3. IndexBits(p.choices) \in 1..p.choices
      BY <3>2, IndexBitsIs
    <3> QED
      BY <3>1, <3>2, <3>3
  <2>3. p.type # "point"
    BY <1>3 DEF MadeParam
  <2> QED
    BY <1>3, <2>1, <2>2, <2>3 DEF Types
<1>9. p.type \in MOD_REQUIRED => p.mod # {}
  BY <1>3 DEF MadeParam
<1> SUFFICES ASSUME i \in ParamErrors(e) PROVE FALSE
  OBVIOUS
<1>10. \/ Seen(e, i, {p.name}) # {}
       \/ p.type \in BITS_REQUIRED /\ p.bits = 0
       \/ p.type \in MOD_REQUIRED /\ p.mod = {}
       \/ p.type = "enum" /\ p.choices = 0
       \/ p.type = "point" /\ ~p.curve
       \/ p.mod # {} /\ Seen(e, i, p.mod) = {}
       \/ p.mod # {} /\ Seen(e, i, p.mod) # {} /\ Target(e, i).type \notin MOD_VALID_TARGETS
       \/ p.public /\ ParamBits(p) = 0
  BY Zenon DEF ParamErrors
<1> HIDE DEF p
<1>11. p.mod # {} => Target(e, i).type \in MOD_VALID_TARGETS
  BY <1>7 DEF MOD_VALID_TARGETS
<1>12. p.type # "point"
  BY <1>3 DEF MadeParam, p
<1>13. /\ ~(p.type \in BITS_REQUIRED /\ p.bits = 0)
       /\ ~(p.type = "enum" /\ p.choices = 0)
  BY <1>5, <1>6
<1>14. ~(p.mod # {} /\ Seen(e, i, p.mod) = {})
  BY <1>7
<1> QED
  BY <1>4, <1>8, <1>9, <1>10, <1>11, <1>12, <1>13, <1>14, Zenon

(* What generate makes.                                                        *)
LEMMA MadeIs ==
  ASSUME NEW real, IsFiniteSet(real), real # {}, \A e \in real : IsEntry(e),
         NEW d \in Domains(real), NEW out,
         NEW i \in FreeIds(DomainBlock(real, d), Ids(real) \cup Ids(Range(out))),
         NEW l \in MadeParams(real, d), Fits(l), NEW c \in MadeConstraints(real, l)
  PROVE  Addition(real, out, Made(d, i, l, c))
<1> DEFINE e == Made(d, i, l, c)
<1>1. /\ e.id = i /\ e.shape = "whole" /\ e.params = l /\ e.constraints = c /\ e.status = "active"
      /\ e = [id |-> e.id, slug |-> e.slug, name |-> e.name, domain |-> e.domain,
              status |-> e.status, shape |-> e.shape, params |-> e.params,
              constraints |-> e.constraints]
      /\ e.slug = <<"generated", d, ToString(i)>> /\ e.name = <<"Generated structure", d>>
  BY DEF Made, Slug
<1>2. PICK old \in real : DomainBlock(real, d) = Block(old.id) /\ Block(old.id) \in Nat
  BY DomainBlockIs
<1>3. i \in Nat /\ i \notin Ids(real) \cup Ids(Range(out)) /\ i \notin BLOCKED
  BY <1>2, FreeIdsAre
<1>4. MadeList(real, d, l) /\ \E x \in real : Len(l) = Len(x.params)
  BY MadeParamsAre
<1>5. /\ l \in Seq(AnyParam(real, d)) /\ Len(l) \in Nat /\ DOMAIN l = 1..Len(l)
      /\ \A j \in 1..Len(l) : l[j] \in AnyParam(real, d) /\ MadeParam(real, d, l, j)
  BY <1>4, LenProperties, ElementOfSeq DEF MadeList
<1>6. /\ c \in Seq(Range(c))
      /\ \A j \in DOMAIN c : /\ IsConstraint(c[j]) /\ ~IsBad(c[j].expr)
                             /\ FreeNames(c[j].expr) \subseteq {l[k].name : k \in DOMAIN l}
  BY MadeConstraintsAre
<1>7. l \in Seq(Range(l)) /\ \A j \in DOMAIN l : IsParam(l[j])
  <2>1. l \in [1..Len(l) -> Range(l)]
    <3>1. l = [j \in 1..Len(l) |-> l[j]]
      BY <1>5, LenProperties
    <3>2. \A j \in 1..Len(l) : l[j] \in Range(l)
      BY <1>5 DEF Range
    <3> QED
      BY <3>1, <3>2
  <2>2. l \in Seq(Range(l))
    BY <1>5, <2>1, ListIs
  <2>3. \A p \in AnyParam(real, d) : IsParam(p)
    BY DEF AnyParam, IsParam
  <2> QED
    BY <1>5, <2>2, <2>3
<1> HIDE DEF e
<1>13. e.slug \in Seq(Range(e.slug)) /\ e.name \in Seq(Range(e.name))
  <2> DEFINE S == {"generated", d, ToString(i)}
             N == {"Generated structure", d}
  <2>1. e.slug \in Seq(S) /\ e.name \in Seq(N)
    <3>1. \A x : <<"generated", d, x>> \in Seq({"generated", d, x})
      OBVIOUS
    <3>2. <<"Generated structure", d>> \in Seq(N)
      OBVIOUS
    <3>3. <<"generated", d, ToString(i)>> \in Seq(S)
      BY <3>1, Zenon
    <3> HIDE DEF S, N
    <3> QED
      BY <1>1, <3>2, <3>3, Zenon
  <2> HIDE DEF S, N
  <2> QED
    BY <2>1, OwnRange
<1>8. IsEntry(e)
  BY <1>1, <1>3, <1>6, <1>7, <1>13 DEF IsEntry
<1>9. \A j \in DOMAIN out : out[j].id # e.id
  BY <1>1, <1>3 DEF Ids, Range
<1>10. ASSUME Clean(real) PROVE Sound(real, e)
  <2>1. \A x \in real : FitsSchema(x)
    BY <1>10 DEF Clean, Conforms
  <2>2. e.id \in 1..MAX_ID
    <3>1. old.id \in 1..MAX_ID
      BY <2>1 DEF FitsSchema
    <3> QED
      BY <1>1, <1>2, <3>1, NewIdIs
  <2>3. Len(e.params) <= MAX_PARAMS
    BY <1>1, <1>4, <2>1 DEF FitsSchema
  <2>4. ASSUME NEW j \in DOMAIN l
        PROVE  l[j].type \in Types /\ l[j].bits \in 0..MAX_BITS /\ l[j].choices # 1
    <3>1. MadeParam(real, d, l, j)
      BY <1>5
    <3>2. \A p \in Pieces(real) : p.type \in Types /\ p.bits \in 0..MAX_BITS /\ p.choices # 1
      BY <2>1 DEF Pieces, FitsSchema
    <3>3. KindsOf(real, d) \subseteq Types
      BY <2>1 DEF KindsOf, TypesIn, FitsSchema
    <3>4. l[j].type \in Types
      BY <3>1, <3>3 DEF MadeParam, MadeKinds, Types, BITS_REQUIRED, IntTypes
    <3>5. CASE l[j].type = "enum"
      <4>1. l[j].bits = 0 /\ l[j].choices \in ChoicesOf(real) /\ MAX_BITS \in Nat
        BY <3>1, <3>5, SizesAssumption DEF MadeParam
      <4> QED
        BY <3>2, <3>4, <4>1 DEF ChoicesOf
    <3>6. CASE l[j].type # "enum"
      <4>1. l[j].bits \in WidthsOf(real, l[j].type) /\ l[j].choices = 0
        BY <3>1, <3>6 DEF MadeParam
      <4> QED
        BY <3>2, <3>4, <4>1 DEF WidthsOf
    <3> QED
      BY <3>5, <3>6
  <2>5. ParamErrors(e) = {}
    BY <1>1, <1>4, <1>8, <2>4, MadeHaveNoErrors
  <2>6. KnownNames(e)
    BY <1>1, <1>6 DEF KnownNames, Names
  <2>7. FitsSchema(e)
    BY <1>1, <2>2, <2>3, <2>4 DEF FitsSchema
  <2>8. PayloadBits(e.params) <= CEILING
    BY <1>1 DEF Fits
  <2>9. ParamWarnings(e) = {}
    BY <1>1, <1>5 DEF ParamWarnings, MadeParam
  <2> QED
    BY <2>5, <2>6, <2>7, <2>8, <2>9 DEF Sound, Proper
<1>11. e.id \notin Ids(real) \cup BLOCKED
  BY <1>1, <1>3
<1>12. Addition(real, out, e)
  BY <1>8, <1>9, <1>10, <1>11 DEF Addition
<1> QED
  BY <1>12 DEF e

(* What a trial of generate does with the entries made so far.                 *)
LEMMA TrialsAre ==
  ASSUME NEW real, IsFiniteSet(real), real # {}, \A e \in real : IsEntry(e),
         NEW out, NEW new \in Trials(real, out)
  PROVE  new = out \/ \E e : Addition(real, out, e) /\ new = Append(out, e)
<1>1. PICK d \in Domains(real) : new \in TrialIn(d, real, out)
  BY DEF Trials
<1> DEFINE ids == FreeIds(DomainBlock(real, d), Used(real, out))
           free == {i \in ids : Slug(d, i) \notin Slugs(real \cup Range(out))}
           lists == MadeParams(real, d)
           fitting == {l \in lists : Fits(l)}
           entries(l) == {Made(d, i, l, c) : i \in free, c \in MadeConstraints(real, l)}
           sure == fitting = lists /\ free = ids /\ ids # {}
<1>2. TrialIn(d, real, out) = {Append(out, e) : e \in UNION {entries(l) : l \in fitting}}
                              \cup (IF lists = {} \/ sure THEN {} ELSE {out})
  BY DEF TrialIn
<1> HIDE DEF entries, sure
<1>3. CASE new # out
  <2>1. PICK l \in fitting : \E e \in entries(l) : new = Append(out, e)
    BY <1>1, <1>2, <1>3
  <2>2. PICK e \in entries(l) : new = Append(out, e)
    BY <2>1
  <2>3. PICK i \in free, c \in MadeConstraints(real, l) : e = Made(d, i, l, c)
    BY DEF entries
  <2>4. i \in FreeIds(DomainBlock(real, d), Ids(real) \cup Ids(Range(out)))
    BY DEF Used
  <2>5. l \in MadeParams(real, d)
    OBVIOUS
  <2>7. Fits(l)
    OBVIOUS
  <2>6. Addition(real, out, e)
    BY <2>3, <2>4, <2>5, <2>7, MadeIs
  <2> QED
    BY <2>2, <2>6
<1> QED
  BY <1>3

(* What derive makes of an entry.                                              *)
LEMMA DerivedIs ==
  ASSUME NEW parent, IsEntry(parent), NEW id \in Nat, NEW f, NEW e \in Derived(parent, id, f)
  PROVE  IsEntry(e) /\ e.id = id
         /\ (FitsSchema(parent) /\ ParamErrors(parent) = {} /\ KnownNames(parent)
             /\ id \in 1..MAX_ID => Proper(e) /\ ParamWarnings(e) = ParamWarnings(parent))
<1> DEFINE n == Len(parent.params)
           to(i) == IF Scales(parent.params[i])
                    THEN [parent.params[i] EXCEPT !.bits = Scaled(parent.params[i], f)]
                    ELSE parent.params[i]
           params == [i \in DOMAIN parent.params |-> to(i)]
           slug == <<"derive">> \o parent.slug \o <<ToString(f)>>
           name == parent.name \o <<ToString(f)>>
<1>1. /\ ~(\E i \in DOMAIN params : Scales(parent.params[i]) /\ params[i].bits \notin 1..MAX_BITS)
      /\ ~(PayloadBits(params) > CEILING)
      /\ e = [parent EXCEPT !.id = id, !.status = "active", !.params = params, !.slug = slug,
                            !.name = name]
  BY DEF Derived
<1>2. parent = [id |-> parent.id, slug |-> parent.slug, name |-> parent.name,
                domain |-> parent.domain, status |-> parent.status, shape |-> parent.shape,
                params |-> parent.params, constraints |-> parent.constraints]
  BY DEF IsEntry
<1> HIDE DEF to, slug, name
<1>3. e = [id |-> id, slug |-> slug, name |-> name, domain |-> parent.domain,
           status |-> "active", shape |-> parent.shape, params |-> params,
           constraints |-> parent.constraints]
  BY <1>1, <1>2
<1>4. /\ e.id = id /\ e.status = "active" /\ e.params = params /\ e.shape = parent.shape
      /\ e.constraints = parent.constraints /\ e.slug = slug /\ e.name = name
      /\ e = [id |-> e.id, slug |-> e.slug, name |-> e.name, domain |-> e.domain,
              status |-> e.status, shape |-> e.shape, params |-> e.params,
              constraints |-> e.constraints]
  BY <1>3
<1>5. n \in Nat /\ DOMAIN parent.params = 1..n /\ \A i \in 1..n : IsParam(parent.params[i])
  BY EntryParts
<1> HIDE DEF n
<1>6. DOMAIN e.params = 1..n /\ \A i \in 1..n : e.params[i] = to(i)
  BY <1>4, <1>5
<1>7. ASSUME NEW i \in 1..n
      PROVE  /\ IsParam(to(i)) /\ to(i).type = parent.params[i].type
             /\ to(i).name = parent.params[i].name /\ to(i).mod = parent.params[i].mod
             /\ to(i).public = parent.params[i].public /\ to(i).choices = parent.params[i].choices
             /\ to(i).curve = parent.params[i].curve
             /\ to(i).bits = parent.params[i].bits
                \/ (parent.params[i].type \in BITS_REQUIRED /\ to(i).bits \in 1..MAX_BITS)
  <2> DEFINE p == parent.params[i]
  <2>1. IsParam(p)
    BY <1>5
  <2>2. Scales(p) => to(i).bits \in 1..MAX_BITS
    BY <1>1, <1>4, <1>5, <1>6
  <2>3. p = [name |-> p.name, type |-> p.type, bits |-> p.bits, mod |-> p.mod,
             curve |-> p.curve, public |-> p.public, choices |-> p.choices]
    BY <2>1 DEF IsParam
  <2>4. CASE Scales(p)
    <3>1. to(i) = [p EXCEPT !.bits = Scaled(p, f)]
      BY <2>4 DEF to
    <3> HIDE DEF p
    <3>2. to(i) = [name |-> p.name, type |-> p.type, bits |-> to(i).bits, mod |-> p.mod,
                   curve |-> p.curve, public |-> p.public, choices |-> p.choices]
      BY <2>3, <3>1
    <3>3. to(i).bits \in 1..MAX_BITS /\ MAX_BITS \in Nat /\ p.type \in BITS_REQUIRED
      BY <2>2, <2>4, SizesAssumption DEF Scales
    <3>4. to(i).bits \in Nat /\ p.public \in BOOLEAN /\ p.choices \in Nat /\ p.curve \in BOOLEAN
      BY <2>1, <3>3 DEF IsParam
    <3>5. /\ to(i).name = p.name /\ to(i).type = p.type /\ to(i).mod = p.mod
          /\ to(i).public = p.public /\ to(i).choices = p.choices /\ to(i).curve = p.curve
      BY <3>2
    <3>6. IsParam(to(i))
      BY <3>2, <3>4, <3>5 DEF IsParam
    <3> QED
      BY <3>3, <3>5, <3>6 DEF p
  <2>5. CASE ~Scales(p)
    <3>1. to(i) = p
      BY <2>5 DEF to
    <3> QED
      BY <2>1, <3>1
  <2> QED
    BY <2>4, <2>5
<1>8. e.params \in Seq(Range(e.params)) /\ Len(e.params) = n
  <2>1. e.params \in [1..n -> Range(e.params)]
    <3>1. e.params = [i \in 1..n |-> e.params[i]]
      BY <1>4, <1>5
    <3>2. \A i \in 1..n : e.params[i] \in Range(e.params)
      BY <1>6 DEF Range
    <3> QED
      BY <3>1, <3>2
  <2> QED
    BY <1>5, <2>1, ListIs
<1> HIDE DEF params
<1>9. IsEntry(e)
  <2>1. /\ parent.constraints \in Seq(Range(parent.constraints))
        /\ \A i \in DOMAIN parent.constraints : IsConstraint(parent.constraints[i])
        /\ parent.shape \in {"whole", "odd", "incomplete", "unreadable"}
    BY DEF IsEntry
  <2>2. \A i \in DOMAIN e.params : IsParam(e.params[i])
    BY <1>6, <1>7
  <2>3. e.slug \in Seq(Range(e.slug)) /\ e.name \in Seq(Range(e.name))
    <3>1. parent.slug \in Seq(Range(parent.slug)) /\ parent.name \in Seq(Range(parent.name))
      BY DEF IsEntry
    <3>2. slug \in Seq(Range(slug))
      BY <3>1, Lengthened DEF slug
    <3>3. name \in Seq(Range(name))
      BY <3>1, Lengthened DEF name
    <3> QED
      BY <1>4, <3>2, <3>3
  <2> QED
    BY <1>4, <1>8, <2>1, <2>2, <2>3 DEF IsEntry
<1>11. PayloadBits(e.params) <= CEILING
  <2>1. PayloadBits(e.params) \in Nat /\ CEILING \in Nat
    BY <1>9, PayloadIs, SizesAssumption
  <2> QED
    BY <1>1, <1>4, <2>1
<1>12. ParamWarnings(e) = ParamWarnings(parent)
  BY <1>5, <1>6, <1>7 DEF ParamWarnings
<1>10. ASSUME FitsSchema(parent), ParamErrors(parent) = {}, KnownNames(parent), id \in 1..MAX_ID
       PROVE  Proper(e)
  <2>1. \A i \in 1..n : /\ e.params[i].type \in Types /\ e.params[i].bits \in 0..MAX_BITS
                        /\ e.params[i].choices # 1
    <3> SUFFICES ASSUME NEW i \in 1..n
                 PROVE  /\ e.params[i].type \in Types /\ e.params[i].bits \in 0..MAX_BITS
                        /\ e.params[i].choices # 1
      OBVIOUS
    <3>1. /\ parent.params[i].type \in Types /\ parent.params[i].bits \in 0..MAX_BITS
          /\ parent.params[i].choices # 1 /\ MAX_BITS \in Nat
      BY <1>5, <1>10, SizesAssumption DEF FitsSchema
    <3> QED
      BY <1>6, <1>7, <3>1
  <2>2. ASSUME NEW i \in 1..n PROVE i \notin ParamErrors(e)
    <3> DEFINE p == e.params[i]
               q == parent.params[i]
    <3>1. /\ p.type = q.type /\ p.name = q.name /\ p.mod = q.mod /\ p.public = q.public
          /\ p.choices = q.choices /\ p.curve = q.curve
          /\ p.bits = q.bits \/ (q.type \in BITS_REQUIRED /\ p.bits \in 1..MAX_BITS)
          /\ p.bits \in Nat
      BY <1>6, <1>7 DEF IsParam
    <3>2. \A j \in 1..(i - 1) : j \in 1..n
      BY <1>5
    <3>3. \A names : Seen(e, i, names) = Seen(parent, i, names)
      BY <1>6, <1>7, <3>2 DEF Seen
    <3>4. Target(e, i).type = Target(parent, i).type \/ Seen(e, i, p.mod) = {}
      <4> SUFFICES ASSUME Seen(e, i, p.mod) # {}
                   PROVE  Target(e, i).type = Target(parent, i).type
        OBVIOUS
      <4> DEFINE S == Seen(parent, i, q.mod)
      <4>1. S # {} /\ S \subseteq Int /\ S \subseteq 1..n /\ \A j \in S : j <= n
        BY <1>5, <3>1, <3>2, <3>3 DEF Seen
      <4>2. Target(e, i) = e.params[Max(S)] /\ Target(parent, i) = parent.params[Max(S)]
        BY <3>1, <3>3 DEF Target
      <4> HIDE DEF S
      <4>3. n \in Int
        BY <1>5
      <4>4. Max(S) \in S
        BY <4>1, <4>3, GreatestIs
      <4> QED
        BY <1>6, <1>7, <4>1, <4>2, <4>4
    <3>5. ParamBits(p) = 0 => ParamBits(q) = 0
      <4>1. CASE q.type \in BITS_REQUIRED
        <5>1. ParamBits(p) = p.bits /\ ParamBits(q) = q.bits
          BY <3>1, <4>1 DEF ParamBits, BITS_REQUIRED, IntTypes
        <5> HIDE DEF p, q
        <5> QED
          BY <3>1, <5>1
      <4>2. CASE q.type \notin BITS_REQUIRED
        <5>1. p.bits = q.bits
          BY <3>1, <4>2
        <5> HIDE DEF p, q
        <5> QED
          BY <3>1, <5>1 DEF ParamBits
      <4> QED
        BY <4>1, <4>2
    <3>6. p.bits = 0 => q.bits = 0
      <4> HIDE DEF p, q
      <4> QED
        BY <3>1
    <3>7. i \notin ParamErrors(parent) /\ i \in DOMAIN parent.params
      BY <1>5, <1>10
    <3>8. ~ \/ Seen(parent, i, {q.name}) # {}
            \/ q.type \in BITS_REQUIRED /\ q.bits = 0
            \/ q.type \in MOD_REQUIRED /\ q.mod = {}
            \/ q.type = "enum" /\ q.choices = 0
            \/ q.type = "point" /\ ~q.curve
            \/ q.mod # {} /\ Seen(parent, i, q.mod) = {}
            \/ (/\ q.mod # {} /\ Seen(parent, i, q.mod) # {}
                /\ Target(parent, i).type \notin MOD_VALID_TARGETS)
            \/ q.public /\ ParamBits(q) = 0
      BY <3>7, Zenon DEF ParamErrors
    <3>9. ~ \/ Seen(e, i, {p.name}) # {}
            \/ p.type \in BITS_REQUIRED /\ p.bits = 0
            \/ p.type \in MOD_REQUIRED /\ p.mod = {}
            \/ p.type = "enum" /\ p.choices = 0
            \/ p.type = "point" /\ ~p.curve
            \/ p.mod # {} /\ Seen(e, i, p.mod) = {}
            \/ (/\ p.mod # {} /\ Seen(e, i, p.mod) # {}
                /\ Target(e, i).type \notin MOD_VALID_TARGETS)
            \/ p.public /\ ParamBits(p) = 0
      <4> HIDE DEF p, q
      <4> QED
        BY <3>1, <3>3, <3>4, <3>5, <3>6, <3>8
    <3> QED
      BY <3>9, Zenon DEF ParamErrors
  <2>3. ParamErrors(e) = {}
    BY <1>6, <2>2 DEF ParamErrors
  <2>4. Names(e) = Names(parent)
    BY <1>5, <1>6, <1>7 DEF Names
  <2>5. KnownNames(e)
    BY <1>4, <1>10, <2>4 DEF KnownNames
  <2>6. e.shape = "whole" /\ Len(e.params) <= MAX_PARAMS /\ e.id \in 1..MAX_ID
    <3>1. Len(e.params) = Len(parent.params)
      BY <1>8 DEF n
    <3> QED
      BY <1>4, <1>10, <3>1 DEF FitsSchema
  <2> QED
    BY <1>6, <1>11, <2>1, <2>3, <2>5, <2>6 DEF Proper, FitsSchema
<1> QED
  BY <1>4, <1>9, <1>10, <1>12

(* What a trial of derive does with them.                                      *)
LEMMA DerivationsAre ==
  ASSUME NEW real, \A e \in real : IsEntry(e), NEW out, NEW new \in Derivations(real, out)
  PROVE  new = out \/ \E e : Addition(real, out, e) /\ new = Append(out, e)
<1>1. PICK parent \in {e \in real : e.status = "active"}, f \in FACTORS :
        new \in Derivation(parent, f, real, out)
  BY DEF Derivations
<1> DEFINE ids == FreeIds(Block(parent.id), Used(real, out))
           made == {e \in UNION {Derived(parent, i, f) : i \in ids} :
                      e.slug \notin Slugs(Range(out))}
<1>2. Derivation(parent, f, real, out)
        = IF made = {} THEN {out} ELSE {Append(out, e) : e \in made}
  BY DEF Derivation
<1>3. CASE new # out
  <2>1. PICK e \in made : new = Append(out, e)
    <3> HIDE DEF made
    <3> QED
      BY <1>1, <1>2, <1>3
  <2>2. PICK i \in ids : e \in Derived(parent, i, f)
    OBVIOUS
  <2>3. Block(parent.id) \in Nat /\ parent \in real
    <3>1. parent.id \in Nat /\ BlockSize \in Nat \ {0} /\ parent \in real
      BY SizesAssumption DEF IsEntry
    <3> QED
      BY <3>1, Quotient DEF Block
  <2>4. i \in Nat /\ i \notin Ids(real) \cup Ids(Range(out)) /\ i \notin BLOCKED
    BY <2>3, FreeIdsAre DEF Used
  <2> HIDE DEF made
  <2>5. /\ IsEntry(e) /\ e.id = i
        /\ (FitsSchema(parent) /\ ParamErrors(parent) = {} /\ KnownNames(parent)
            /\ i \in 1..MAX_ID => Proper(e) /\ ParamWarnings(e) = ParamWarnings(parent))
    BY <2>2, <2>3, <2>4, DerivedIs
  <2>6. ASSUME Clean(real) PROVE Sound(real, e)
    <3>1. FitsSchema(parent) /\ ParamErrors(parent) = {} /\ KnownNames(parent)
      BY <2>3, <2>6 DEF Clean, Conforms
    <3>2. parent.id \in 1..MAX_ID
      BY <3>1 DEF FitsSchema
    <3>3. i \in 1..MAX_ID
      BY <3>2, NewIdIs
    <3> QED
      BY <2>3, <2>5, <3>1, <3>3 DEF Sound
  <2>7. \A j \in DOMAIN out : out[j].id # e.id
    BY <2>4, <2>5 DEF Ids, Range
  <2>8. Addition(real, out, e)
    BY <2>4, <2>5, <2>6, <2>7 DEF Addition
  <2> QED
    BY <2>1, <2>8
<1> QED
  BY <1>3

---------------------------------------------------------------------------------
(* The types.                                                                  *)

(* The conjuncts of the type invariant about the generator and the report.     *)
Maker(g, w) ==
  /\ g = [pc |-> g.pc, real |-> g.real, out |-> g.out, wants |-> g.wants,
          trials |-> g.trials, more |-> g.more]
  /\ g.pc \in {"idle", "derive", "generate", "write"}
  /\ g.pc # "idle" => Loads(g.real)
  /\ IsFiniteSet(g.real) /\ \A e \in g.real \cup Range(g.out) : IsEntry(e)
  /\ g.out \in Seq(Range(g.out))
  /\ g.wants \in Nat /\ g.trials \in Nat /\ g.more \in Nat
  /\ Len(g.out) + g.wants + g.more <= w
Verdicted(r) ==
  /\ r = [outcome |-> r.outcome, real |-> r.real, passed |-> r.passed]
  /\ r.outcome \in {"none", "broken", "raised", "nothing passed", "passed"}
  /\ r.passed # {} <=> r.outcome = "passed"
Files(fs, cs) == IsFiniteSet(fs) /\ \A e \in fs \cup cs : IsEntry(e)

(* The type invariant, in parts.                                               *)
LEMMA TypesAre ==
  TypeOK <=> /\ Files(formulas, candidates) /\ Maker(gen, work) /\ Verdicted(report)
             /\ work \in 0..MaxWork
BY DEF TypeOK, Files, Maker, Verdicted

(* One entry more among those made so far.                                     *)
LEMMA OneMore ==
  ASSUME NEW s, s \in Seq(Range(s)), NEW e
  PROVE  LET t == Append(s, e)
         IN  /\ t \in Seq(Range(t)) /\ Len(t) = Len(s) + 1 /\ Len(s) \in Nat
             /\ Range(t) \subseteq Range(s) \cup {e}
             /\ \A i \in 1..Len(s) : t[i] = s[i]
             /\ t[Len(s) + 1] = e
<1> DEFINE t == Append(s, e)
           T == Range(s) \cup {e}
<1>1. s \in Seq(T) /\ e \in T
  <2>1. s \in [1..Len(s) -> Range(s)] /\ Len(s) \in Nat
    BY LenProperties
  <2>2. s \in [1..Len(s) -> T]
    BY <2>1
  <2> QED
    BY <2>1, <2>2, ListIs
<1> HIDE DEF T
<1>2. /\ t \in Seq(T) /\ Len(t) = Len(s) + 1
      /\ \A i \in 1..Len(s) : t[i] = s[i]
      /\ t[Len(s) + 1] = e
  BY <1>1, AppendProperties
<1>3. Len(s) \in Nat
  BY LenProperties
<1> HIDE DEF t
<1>4. Range(t) \subseteq T
  BY <1>2, OwnRange, ElementOfSeq
<1>5. t \in Seq(Range(t))
  BY <1>2, OwnRange
<1> QED
  BY <1>2, <1>3, <1>4, <1>5 DEF t, T

(* A trial makes one entry, or none.                                           *)
LEMMA TrialIs ==
  ASSUME NEW g, NEW w, Maker(g, w), g.pc \in {"derive", "generate"},
         NEW out \in IF g.pc = "derive" THEN Derivations(g.real, g.out)
                                        ELSE Trials(g.real, g.out)
  PROVE  out = g.out \/ \E e : Addition(g.real, g.out, e) /\ out = Append(g.out, e)
<1>1. /\ IsFiniteSet(g.real) /\ g.real # {} /\ \A e \in g.real : IsEntry(e)
  BY DEF Maker, Loads
<1>2. CASE g.pc = "derive"
  <2> DEFINE real == g.real
             old == g.out
  <2>1. out \in Derivations(real, old) /\ \A e \in real : IsEntry(e)
    BY <1>1, <1>2
  <2> HIDE DEF real, old
  <2>2. out = old \/ \E e : Addition(real, old, e) /\ out = Append(old, e)
    BY <2>1, DerivationsAre
  <2> QED
    BY <2>2 DEF real, old
<1>3. CASE g.pc # "derive"
  <2>1. out \in Trials(g.real, g.out)
    BY <1>3
  <2> QED
    BY <1>1, <2>1, TrialsAre
<1> QED
  BY <1>2, <1>3

(* A generator that is idle.                                                   *)
LEMMA IdleMaker ==
  ASSUME NEW w \in Nat
  PROVE  Maker(Idle, w)
<1>1. <<>> \in Seq(Range(<<>>)) /\ Len(<<>>) = 0
  BY EmptySeq
<1>2. Range(<<>>) = {}
  <2>1. DOMAIN <<>> = {}
    OBVIOUS
  <2> QED
    BY <2>1 DEF Range
<1>3. IsFiniteSet({})
  BY FS_EmptySet
<1>4. 0 + 0 + 0 <= w /\ 0 \in Nat
  OBVIOUS
<1> QED
  BY <1>1, <1>2, <1>3, <1>4 DEF Maker, Idle

(* The loops that a run goes through.                                          *)
LEMMA LoopIs ==
  ASSUME NEW pc, NEW wants \in Nat
  PROVE  Loop(pc, wants) = [pc |-> pc, real |-> {}, out |-> <<>>, wants |-> wants,
                            trials |-> TRIALS * wants, more |-> 0]
         /\ TRIALS * wants \in Nat
<1>1. TRIALS * wants \in Nat
  BY SizesAssumption, SMT
<1> DEFINE trials == TRIALS * wants
<1> HIDE DEF trials
<1> DEFINE I == Idle
<1>2. I = [pc |-> "idle", real |-> {}, out |-> <<>>, wants |-> 0, trials |-> 0, more |-> 0]
  BY DEF Idle
<1>4. Loop(pc, wants) = [I EXCEPT !.pc = pc, !.wants = wants, !.trials = trials]
  BY DEF Loop, trials
<1> HIDE DEF I
<1>3. Loop(pc, wants)
        = [pc |-> pc, real |-> {}, out |-> <<>>, wants |-> wants, trials |-> trials, more |-> 0]
  BY <1>2, <1>4
<1> QED
  BY <1>1, <1>3 DEF trials

(* The verdicts of an exam: only what may pass has passed.                     *)
LEMMA JudgedIs ==
  ASSUME NEW real, NEW fates, NEW clean, NEW broken, NEW r \in Judged(real, fates, clean, broken)
  PROVE  /\ Verdicted(r)
         /\ r.passed # {} =>
              /\ r.real = real
              /\ \A e \in r.passed : \E f \in fates : f.entry = e /\ "passed" \in f.ends
<1> DEFINE May(end)  == {f.entry : f \in {g \in fates : end \in g.ends}}
           Must(end) == {f.entry : f \in {g \in fates : g.ends = {end}}}
           verdict(outcome, passed) == [outcome |-> outcome, real |-> real, passed |-> passed]
<1>1. Judged(real, fates, clean, broken) =
        (IF broken THEN {verdict("broken", {})} ELSE {})
        \cup (IF clean /\ May("raises") # {} THEN {verdict("raised", {})} ELSE {})
        \cup (IF clean /\ Must("raises") = {}
              THEN {verdict(IF s = {} THEN "nothing passed" ELSE "passed", s) :
                      s \in {Must("passed") \cup t : t \in SUBSET (May("passed") \ Must("passed"))}}
              ELSE {})
  BY Zenon DEF Judged
<1> HIDE DEF May, Must
<1>2. \/ r = verdict("broken", {}) \/ r = verdict("raised", {})
      \/ \E t \in SUBSET (May("passed") \ Must("passed")) :
           r = verdict(IF Must("passed") \cup t = {} THEN "nothing passed" ELSE "passed",
                       Must("passed") \cup t)
  BY <1>1
<1>3. Must("passed") \subseteq May("passed")
  BY DEF May, Must
<1>4. ASSUME NEW o \in {"broken", "raised"}, r = verdict(o, {})
      PROVE  Verdicted(r) /\ r.passed = {}
  BY <1>4 DEF Verdicted
<1>5. ASSUME NEW t \in SUBSET (May("passed") \ Must("passed")),
             r = verdict(IF Must("passed") \cup t = {} THEN "nothing passed" ELSE "passed",
                         Must("passed") \cup t)
      PROVE  Verdicted(r) /\ r.real = real /\ r.passed \subseteq May("passed")
  <2> DEFINE s == Must("passed") \cup t
  <2>1. r = verdict(IF s = {} THEN "nothing passed" ELSE "passed", s) /\ s \subseteq May("passed")
    BY <1>3, <1>5
  <2> HIDE DEF s
  <2> QED
    BY <2>1 DEF Verdicted
<1>6. \A e \in May("passed") : \E f \in fates : f.entry = e /\ "passed" \in f.ends
  BY DEF May
<1> QED
  BY <1>2, <1>4, <1>5, <1>6

(* What is to be shown of the entries made so far.                             *)
Candidates(real, out) ==
  Clean(real) =>
    /\ \A i, j \in DOMAIN out : out[i].id = out[j].id => i = j
    /\ \A e \in Range(out) : Sound(real, e) /\ e.id \notin Ids(real) \cup BLOCKED
LEMMA CandidatesAre == MadeAreCandidates <=> Candidates(gen.real, gen.out)
BY DEF MadeAreCandidates, Candidates, Sound, Proper

(* Beginning, a trial, the end of a loop and a written file keep the generator *)
(* typed, and what it makes candidates.                                        *)
LEMMA StartMaker ==
  ASSUME NEW count \in 1..MaxWork, TypeOK, Start(count)
  PROVE  Maker(gen', work') /\ Candidates(gen'.real, gen'.out) /\ work' \in 0..MaxWork
<1> DEFINE g == gen'
<1>1. /\ work' = work + count /\ work + count <= MaxWork /\ Loads(formulas)
      /\ work \in 0..MaxWork /\ MaxWork \in Nat /\ count \in Nat
      /\ Files(formulas, candidates)
  BY TypesAre, SizesAssumption DEF Start
<1>2. PICK l \in {Loop("generate", count), Loop("derive", count),
                  [Loop("derive", count \div 2) EXCEPT !.more = count - count \div 2]} :
        g = [l EXCEPT !.real = formulas]
  BY DEF Start
<1>3. \E pc \in {"derive", "generate"}, wants \in Nat, trials \in Nat, more \in Nat :
        /\ l = [pc |-> pc, real |-> {}, out |-> <<>>, wants |-> wants, trials |-> trials,
                more |-> more]
        /\ wants + more = count
  <2>1. CASE l = Loop("generate", count)
    BY <1>1, <2>1, LoopIs
  <2>2. CASE l = Loop("derive", count)
    BY <1>1, <2>2, LoopIs
  <2>3. CASE l = [Loop("derive", count \div 2) EXCEPT !.more = count - count \div 2]
    <3> DEFINE half == count \div 2
               rest == count - half
    <3>1. half \in Nat /\ rest \in Nat /\ half + rest = count
      BY <1>1, SMTT(30)
    <3> DEFINE loop == Loop("derive", half)
    <3>2. l = [loop EXCEPT !.more = rest]
      BY <2>3
    <3> HIDE DEF half, rest
    <3>3. loop = [pc |-> "derive", real |-> {}, out |-> <<>>, wants |-> half,
                                  trials |-> TRIALS * half, more |-> 0]
          /\ TRIALS * half \in Nat
      BY <3>1, LoopIs
    <3> HIDE DEF loop
    <3>4. l = [pc |-> "derive", real |-> {}, out |-> <<>>, wants |-> half,
               trials |-> TRIALS * half, more |-> rest]
      BY <3>2, <3>3
    <3> QED
      BY <3>1, <3>3, <3>4
  <2> QED
    BY <1>2, <2>1, <2>2, <2>3
<1>4. PICK pc \in {"derive", "generate"}, wants \in Nat, trials \in Nat, more \in Nat :
        /\ l = [pc |-> pc, real |-> {}, out |-> <<>>, wants |-> wants, trials |-> trials,
                more |-> more]
        /\ wants + more = count
  BY <1>3
<1> HIDE DEF g
<1>5. g = [pc |-> pc, real |-> formulas, out |-> <<>>, wants |-> wants, trials |-> trials,
           more |-> more]
  BY <1>2, <1>4
<1>6. <<>> \in Seq(Range(<<>>)) /\ Len(<<>>) = 0 /\ DOMAIN <<>> = {}
  BY EmptySeq
<1>7. Range(<<>>) = {}
  BY <1>6 DEF Range
<1>8. 0 + wants + more <= work' /\ work' \in 0..MaxWork
  BY <1>1, <1>4
<1>9. Maker(g, work')
  BY <1>1, <1>5, <1>6, <1>7, <1>8 DEF Maker, Files
<1>10. Candidates(g.real, g.out)
  BY <1>5, <1>6, <1>7 DEF Candidates
<1> QED
  BY <1>8, <1>9, <1>10 DEF g

(* A trial.                                                                    *)
LEMMA TryMaker ==
  ASSUME TypeOK, Candidates(gen.real, gen.out), Try
  PROVE  Maker(gen', work') /\ Candidates(gen'.real, gen'.out) /\ work' \in 0..MaxWork
<1> DEFINE g == gen
           h == gen'
<1>1. /\ Maker(g, work) /\ work \in 0..MaxWork /\ Candidates(g.real, g.out)
      /\ work' = work
      /\ g.pc \in {"derive", "generate"} /\ g.wants > 0 /\ g.trials > 0
  BY TypesAre DEF Try
<1>2. PICK out \in IF g.pc = "derive" THEN Derivations(g.real, g.out)
                                      ELSE Trials(g.real, g.out) :
        h = [g EXCEPT !.out = out, !.trials = @ - 1, !.wants = @ - (Len(out) - Len(g.out))]
  BY DEF Try
<1> HIDE DEF g, h
<1>3. out = g.out \/ \E e : Addition(g.real, g.out, e) /\ out = Append(g.out, e)
  BY <1>1, TrialIs
<1>4. /\ g = [pc |-> g.pc, real |-> g.real, out |-> g.out, wants |-> g.wants,
              trials |-> g.trials, more |-> g.more]
      /\ g.pc \in {"idle", "derive", "generate", "write"}
      /\ g.pc # "idle" => Loads(g.real)
      /\ IsFiniteSet(g.real) /\ \A e \in g.real \cup Range(g.out) : IsEntry(e)
      /\ g.out \in Seq(Range(g.out))
      /\ g.wants \in Nat /\ g.trials \in Nat /\ g.more \in Nat
      /\ Len(g.out) + g.wants + g.more <= work
  BY <1>1 DEF Maker
<1>5. h = [pc |-> g.pc, real |-> g.real, out |-> out, wants |-> g.wants - (Len(out) - Len(g.out)),
           trials |-> g.trials - 1, more |-> g.more]
  BY <1>2, <1>4
<1>6. Len(g.out) \in Nat /\ DOMAIN g.out = 1..Len(g.out) /\ g.trials - 1 \in Nat /\ work \in Nat
  BY <1>1, <1>4, LenProperties
<1>7. CASE out = g.out
  <2>1. h = [pc |-> g.pc, real |-> g.real, out |-> g.out, wants |-> g.wants,
             trials |-> g.trials - 1, more |-> g.more]
    BY <1>4, <1>5, <1>6, <1>7
  <2>2. Maker(h, work)
    BY <1>4, <1>6, <2>1 DEF Maker
  <2> QED
    BY <1>1, <2>1, <2>2 DEF h
<1>8. CASE out # g.out
  <2>1. PICK e : Addition(g.real, g.out, e) /\ out = Append(g.out, e)
    BY <1>3, <1>8
  <2> DEFINE n == Len(g.out)
  <2>2. /\ out \in Seq(Range(out)) /\ Len(out) = n + 1 /\ n \in Nat
        /\ Range(out) \subseteq Range(g.out) \cup {e}
        /\ \A i \in 1..n : out[i] = g.out[i]
        /\ out[n + 1] = e
    BY <1>4, <2>1, OneMore
  <2>3. /\ IsEntry(e) /\ (Clean(g.real) => Sound(g.real, e))
        /\ e.id \notin Ids(g.real) \cup BLOCKED /\ \A i \in DOMAIN g.out : g.out[i].id # e.id
    BY <2>1 DEF Addition
  <2>4. /\ g.wants - (Len(out) - n) \in Nat
        /\ Len(out) + (g.wants - (Len(out) - n)) + g.more <= work
    BY <1>1, <1>4, <1>6, <2>2
  <2>5. Maker(h, work)
    BY <1>4, <1>5, <1>6, <2>2, <2>3, <2>4 DEF Maker
  <2>6. Candidates(g.real, out)
    <3> SUFFICES ASSUME Clean(g.real)
                 PROVE  /\ \A i, j \in DOMAIN out : out[i].id = out[j].id => i = j
                        /\ \A x \in Range(out) : Sound(g.real, x) /\ x.id \notin Ids(g.real) \cup BLOCKED
      BY DEF Candidates
    <3>1. /\ \A i, j \in 1..n : g.out[i].id = g.out[j].id => i = j
          /\ \A x \in Range(g.out) : Sound(g.real, x) /\ x.id \notin Ids(g.real) \cup BLOCKED
      BY <1>1, <1>6 DEF Candidates
    <3>2. DOMAIN out = 1..(n + 1) /\ \A i \in 1..(n + 1) : i \in 1..n \/ i = n + 1
      BY <2>2, LenProperties
    <3> HIDE DEF n
    <3>3. \A i \in 1..n : out[i].id # e.id
      BY <1>6, <2>2, <2>3 DEF n
    <3>4. \A i, j \in DOMAIN out : out[i].id = out[j].id => i = j
      BY <2>2, <3>1, <3>2, <3>3
    <3> QED
      BY <2>2, <2>3, <3>1, <3>4
  <2> QED
    BY <1>1, <1>5, <2>5, <2>6 DEF h
<1> QED
  BY <1>7, <1>8

(* The end of a loop.                                                          *)
LEMMA LoopEndsMaker ==
  ASSUME TypeOK, Candidates(gen.real, gen.out), LoopEnds
  PROVE  Maker(gen', work') /\ Candidates(gen'.real, gen'.out) /\ work' \in 0..MaxWork
<1> DEFINE g == gen
           h == gen'
<1>1. /\ Maker(g, work) /\ work \in 0..MaxWork /\ Candidates(g.real, g.out)
      /\ work' = work /\ g.pc \in {"derive", "generate"}
      /\ h = IF g.more > 0
             THEN [Loop("generate", g.more) EXCEPT !.real = g.real, !.out = g.out]
             ELSE [Loop("write", 0) EXCEPT !.real = g.real, !.out = g.out]
  BY TypesAre DEF LoopEnds
<1> HIDE DEF g, h
<1>2. /\ IsFiniteSet(g.real) /\ \A e \in g.real \cup Range(g.out) : IsEntry(e)
      /\ g.pc # "idle" /\ Loads(g.real)
      /\ g.out \in Seq(Range(g.out)) /\ g.wants \in Nat /\ g.more \in Nat
      /\ Len(g.out) + g.wants + g.more <= work /\ Len(g.out) \in Nat /\ work \in Nat
  BY <1>1, LenProperties DEF Maker
<1>3. \E pc \in {"generate", "write"}, wants \in Nat, trials \in Nat :
        /\ h = [pc |-> pc, real |-> g.real, out |-> g.out, wants |-> wants, trials |-> trials,
                more |-> 0]
        /\ wants <= g.more
  <2>1. CASE g.more > 0
    <3> DEFINE l == Loop("generate", g.more)
    <3>1. l = [pc |-> "generate", real |-> {}, out |-> <<>>, wants |-> g.more,
               trials |-> TRIALS * g.more, more |-> 0]
          /\ TRIALS * g.more \in Nat
      BY <1>2, LoopIs
    <3>2. h = [l EXCEPT !.real = g.real, !.out = g.out]
      BY <1>1, <2>1
    <3> HIDE DEF l
    <3>3. h = [pc |-> "generate", real |-> g.real, out |-> g.out, wants |-> g.more,
               trials |-> TRIALS * g.more, more |-> 0]
      BY <3>1, <3>2
    <3>4. g.more <= g.more
      BY <1>2
    <3> QED
      BY <1>2, <3>1, <3>3, <3>4
  <2>2. CASE ~(g.more > 0)
    <3> DEFINE l == Loop("write", 0)
    <3>1. l = [pc |-> "write", real |-> {}, out |-> <<>>, wants |-> 0,
               trials |-> TRIALS * 0, more |-> 0]
          /\ TRIALS * 0 \in Nat /\ 0 \in Nat
      BY LoopIs
    <3>2. h = [l EXCEPT !.real = g.real, !.out = g.out]
      BY <1>1, <2>2
    <3> HIDE DEF l
    <3>3. h = [pc |-> "write", real |-> g.real, out |-> g.out, wants |-> 0,
               trials |-> TRIALS * 0, more |-> 0]
      BY <3>1, <3>2
    <3>4. 0 <= g.more
      BY <1>2
    <3> QED
      BY <3>1, <3>3, <3>4
  <2> QED
    BY <2>1, <2>2
<1>4. PICK pc \in {"generate", "write"}, wants \in Nat, trials \in Nat :
        /\ h = [pc |-> pc, real |-> g.real, out |-> g.out, wants |-> wants, trials |-> trials,
                more |-> 0]
        /\ wants <= g.more
  BY <1>3
<1>5. Len(g.out) + wants + 0 <= work
  BY <1>2, <1>4
<1>6. Maker(h, work)
  BY <1>2, <1>4, <1>5 DEF Maker
<1> QED
  BY <1>1, <1>4, <1>6 DEF h

(* A file that is written.                                                     *)
LEMMA WriteMaker ==
  ASSUME TypeOK, Candidates(gen.real, gen.out), Write
  PROVE  /\ Maker(gen', work') /\ Candidates(gen'.real, gen'.out) /\ work' \in 0..MaxWork
         /\ \A e \in candidates' : IsEntry(e)
<1> DEFINE g == gen
           h == gen'
           n == Len(g.out)
<1>1. /\ Maker(g, work) /\ work \in 0..MaxWork /\ Candidates(g.real, g.out)
      /\ work' = work /\ g.pc = "write" /\ g.out # <<>>
      /\ h = [g EXCEPT !.out = Tail(@)]
      /\ candidates' \subseteq candidates \cup {Head(g.out)}
      /\ \A e \in candidates : IsEntry(e)
  BY TypesAre DEF Write, Files
<1> HIDE DEF g, h
<1>2. /\ g = [pc |-> g.pc, real |-> g.real, out |-> g.out, wants |-> g.wants,
              trials |-> g.trials, more |-> g.more]
      /\ Loads(g.real) /\ IsFiniteSet(g.real) /\ \A e \in g.real \cup Range(g.out) : IsEntry(e)
      /\ g.out \in Seq(Range(g.out))
      /\ g.wants \in Nat /\ g.trials \in Nat /\ g.more \in Nat
      /\ n + g.wants + g.more <= work /\ work \in Nat
  BY <1>1 DEF Maker
<1> DEFINE t == Tail(g.out)
<1>3. /\ Head(g.out) \in Range(g.out) /\ t \in Seq(Range(g.out)) /\ Len(t) = n - 1
      /\ \A i \in 1..Len(t) : t[i] = g.out[i + 1]
      /\ n \in Nat \ {0} /\ DOMAIN g.out = 1..n
  BY <1>1, <1>2, HeadTailProperties, LenProperties, EmptySeq
<1>4. h = [pc |-> g.pc, real |-> g.real, out |-> t, wants |-> g.wants, trials |-> g.trials,
           more |-> g.more]
  BY <1>1, <1>2
<1> HIDE DEF t
<1>5. /\ t \in Seq(Range(t)) /\ DOMAIN t = 1..Len(t)
      /\ \A x \in Range(t) : x \in Range(g.out)
  <2>1. \A x \in Range(t) : \E i \in 1..Len(t) : x = t[i]
    BY <1>3, OwnRange
  <2>2. \A i \in 1..Len(t) : t[i] \in Range(g.out)
    BY <1>3, ElementOfSeq
  <2> QED
    BY <1>3, <2>1, <2>2, OwnRange, LenProperties
<1>6. Len(t) + g.wants + g.more <= work
  BY <1>2, <1>3
<1>7. Maker(h, work)
  <2>1. /\ h.pc = g.pc /\ h.real = g.real /\ h.out = t /\ h.wants = g.wants
        /\ h.trials = g.trials /\ h.more = g.more
        /\ h = [pc |-> h.pc, real |-> h.real, out |-> h.out, wants |-> h.wants,
                trials |-> h.trials, more |-> h.more]
    BY <1>4
  <2>2. \A e \in h.real \cup Range(h.out) : IsEntry(e)
    BY <1>2, <1>5, <2>1
  <2> QED
    BY <1>1, <1>2, <1>5, <1>6, <2>1, <2>2 DEF Maker
<1>8. Candidates(g.real, t)
  <2>1. \A i \in 1..Len(t) : i + 1 \in 1..n
    BY <1>3
  <2>2. ASSUME Clean(g.real), NEW i \in 1..Len(t), NEW j \in 1..Len(t), t[i].id = t[j].id
        PROVE  i = j
    <3>1. i + 1 \in DOMAIN g.out /\ j + 1 \in DOMAIN g.out /\ g.out[i + 1].id = g.out[j + 1].id
      BY <1>3, <2>1, <2>2
    <3>2. i + 1 = j + 1
      BY <1>1, <2>2, <3>1 DEF Candidates
    <3> QED
      BY <3>2
  <2>3. Clean(g.real) => \A x \in Range(t) : Sound(g.real, x) /\ x.id \notin Ids(g.real) \cup BLOCKED
    BY <1>1, <1>5 DEF Candidates
  <2> QED
    BY <1>5, <2>2, <2>3 DEF Candidates
<1>9. \A e \in candidates' : IsEntry(e)
  BY <1>1, <1>2, <1>3
<1>10. h.real = g.real /\ h.out = t
  BY <1>4
<1>11. Maker(h, work') /\ Candidates(h.real, h.out)
  BY <1>1, <1>7, <1>8, <1>10
<1> QED
  BY <1>1, <1>9, <1>11 DEF h

(* Every step keeps the types, and makes candidates.                           *)
LEMMA StepTyped ==
  ASSUME TypeOK, MadeAreCandidates, [Next]_vars
  PROVE  TypeOK' /\ MadeAreCandidates'
<1> USE DEF Files
<1>1. /\ Files(formulas, candidates) /\ Maker(gen, work) /\ Verdicted(report)
      /\ work \in 0..MaxWork /\ Candidates(gen.real, gen.out)
  BY TypesAre, CandidatesAre
<1>2. /\ Files(formulas', candidates') /\ Maker(gen', work') /\ Verdicted(report')
      /\ work' \in 0..MaxWork
      => TypeOK'
  BY DEF TypeOK, Maker, Verdicted
<1>3. Candidates(gen'.real, gen'.out) => MadeAreCandidates'
  BY DEF MadeAreCandidates, Candidates, Sound, Proper
<1> SUFFICES /\ Files(formulas', candidates') /\ Maker(gen', work') /\ Verdicted(report')
             /\ work' \in 0..MaxWork /\ Candidates(gen'.real, gen'.out)
  BY <1>2, <1>3
<1>4. work \in Nat /\ MaxWork \in Nat
  BY <1>1, SizesAssumption
<1>5. Candidates({}, <<>>)
  <2>1. ~Clean({})
    BY DEF Clean
  <2> QED
    BY <2>1 DEF Candidates
<1>6. ASSUME gen' = Idle, UNCHANGED work PROVE Maker(gen', work') /\ Candidates(gen'.real, gen'.out)
  <2>1. Maker(gen', work')
    BY <1>4, <1>6, IdleMaker
  <2>2. gen'.real = {} /\ gen'.out = <<>>
    BY <1>6 DEF Idle
  <2> QED
    BY <1>5, <2>1, <2>2
<1>7. CASE \E count \in 1..MaxWork : Start(count)
  <2>1. PICK count \in 1..MaxWork : Start(count)
    BY <1>7
  <2> QED
    BY <1>1, <2>1, StartMaker DEF Start
<1>8. CASE Try
  BY <1>1, <1>8, TryMaker DEF Try
<1>9. CASE Crash
  BY <1>1, <1>6, <1>9 DEF Crash
<1>10. CASE LoopEnds
  BY <1>1, <1>10, LoopEndsMaker DEF LoopEnds
<1>11. CASE Write
  BY <1>1, <1>11, WriteMaker DEF Write
<1>12. CASE Finish
  BY <1>1, <1>6, <1>12 DEF Finish
<1>13. CASE Die
  BY <1>1, <1>6, <1>13 DEF Die
<1>14. CASE Exam
  <2>1. report' \in Judged(formulas, EndsOf(candidates, formulas, Combined(formulas, candidates)),
                           ControlClean(formulas), ControlBroken(formulas))
    BY <1>14 DEF Exam, Verdicts
  <2>2. Verdicted(report')
    BY <2>1, JudgedIs
  <2> QED
    BY <1>1, <1>14, <2>2 DEF Exam
<1>15. CASE \E e \in candidates : Promote(e)
  <2>1. PICK e \in candidates : Promote(e)
    BY <1>15
  <2>2. IsFiniteSet(formulas')
    BY <1>1, <2>1, FS_AddElement DEF Promote
  <2>3. formulas' = formulas \cup {e} /\ candidates' \subseteq candidates
    BY <2>1 DEF Promote
  <2> QED
    BY <1>1, <2>1, <2>2, <2>3 DEF Promote
<1>16. CASE \E d \in Drafts : WriteByHand(d)
  <2>1. PICK d \in Drafts : WriteByHand(d)
    BY <1>16
  <2>2. IsEntry(d)
    BY FilesAssumption
  <2>3. IsFiniteSet(formulas')
    BY <1>1, <2>1, FS_AddElement DEF WriteByHand
  <2>4. formulas' \subseteq formulas \cup {d} /\ candidates' \subseteq candidates \cup {d}
    BY <2>1 DEF WriteByHand
  <2>5. UNCHANGED <<gen, report>> /\ work' = work + 1 /\ work < MaxWork
    BY <2>1 DEF WriteByHand
  <2>6. work' \in 0..MaxWork
    BY <1>1, <1>4, <2>5
  <2>7. Maker(gen, work')
    <3>1. \A n \in Int : n <= work => n <= work + 1
      BY <1>4
    <3>2. Len(gen.out) \in Nat /\ gen.wants \in Nat /\ gen.more \in Nat
      BY <1>1, LenProperties DEF Maker
    <3>3. Len(gen.out) + gen.wants + gen.more <= work + 1
      BY <1>1, <3>1, <3>2 DEF Maker
    <3> QED
      BY <1>1, <2>5, <3>3 DEF Maker
  <2> QED
    BY <1>1, <2>2, <2>3, <2>4, <2>5, <2>6, <2>7
<1>17. CASE UNCHANGED vars
  BY <1>1, <1>17 DEF vars
<1> QED
  BY <1>7, <1>8, <1>9, <1>10, <1>11, <1>12, <1>13, <1>14, <1>15, <1>16, <1>17 DEF Next

(* The invariant holds in the beginning.                                       *)
LEMMA InitTyped == Init => TypeOK /\ MadeAreCandidates
<1> SUFFICES ASSUME Init PROVE TypeOK /\ MadeAreCandidates
  OBVIOUS
<1>1. Files(formulas, candidates)
  BY FilesAssumption DEF Init, Files
<1>2. MaxWork \in Nat /\ 0 \in Nat /\ work = 0 /\ work \in 0..MaxWork
  BY SizesAssumption DEF Init
<1>3. Maker(gen, work)
  BY <1>2, IdleMaker DEF Init
<1>4. Verdicted(report)
  BY DEF Init, NoReport, Verdicted
<1>5. ~Clean(gen.real)
  BY DEF Init, Idle, Clean
<1>6. MadeAreCandidates
  BY <1>5 DEF MadeAreCandidates
<1> QED
  BY <1>1, <1>2, <1>3, <1>4, <1>6, TypesAre

(* It always holds.                                                            *)
LEMMA AlwaysTyped == Spec => [](TypeOK /\ MadeAreCandidates)
<1>1. Init => TypeOK /\ MadeAreCandidates
  BY InitTyped
<1>2. (TypeOK /\ MadeAreCandidates) /\ [Next]_vars => (TypeOK /\ MadeAreCandidates)'
  BY StepTyped
<1> QED
  BY <1>1, <1>2, PTL DEF Spec

---------------------------------------------------------------------------------
(* What sampling returns.                                                      *)

(* The constant of a comparison of a name and an integer is one.               *)
LEMMA SideIs ==
  ASSUME NEW x, IsExpr(x), Single(x), NEW c \in 1..2, IsInt(Operand(x, c).value)
  PROVE  Operand(x, c).value.n \in Int
<1> DEFINE L == Len(x)
           r == x[L]
<1>1. L \in Nat \ {0} /\ L \in 1..L /\ \A i \in 1..L : IsNode(x[i], i)
  BY ExprParts
<1>2. r.kind = "cmp" /\ Len(r.ops) = 1 /\ Root(x) = r
  BY DEF Single, Root
<1>3. DOMAIN r.args = 1..2 /\ \A j \in 1..2 : r.args[j] \in 1..(L - 1)
  <2>1. IsNode(r, L)
    BY <1>1
  <2>2. Len(r.args) = 2
    BY <1>2, <2>1 DEF IsNode
  <2> HIDE DEF r, L
  <2> QED
    BY <1>1, <1>2, <2>1, <2>2, NodeParts
<1>4. Operand(x, c) = x[L - r.args[c]] /\ L - r.args[c] \in 1..L
  BY <1>1, <1>2, <1>3 DEF Operand
<1>5. IsNode(Operand(x, c), L - r.args[c])
  BY <1>1, <1>4
<1> QED
  BY <1>5 DEF IsNode, IsValue

(* The constants that an entry's parameters are compared with are bounded.     *)
ConstantOf(x, n, c) ==
  IF Single(x) /\ Against(x, n, c) THEN Operand(x, c).value.n ELSE 0
LEMMA SimpleBounded ==
  ASSUME NEW e, IsEntry(e)
  PROVE  \E b \in Nat : \A s \in Simple(e) : s.k \in Int /\ -b <= s.k /\ s.k <= b
<1> DEFINE N == Len(e.constraints)
           g == [i \in 1..N |-> ConstantOf(e.constraints[i].expr, 1, 2)]
           h == [i \in 1..N |-> ConstantOf(e.constraints[i].expr, 2, 1)]
<1>1. N \in Nat /\ DOMAIN e.constraints = 1..N /\ \A i \in 1..N : IsExpr(e.constraints[i].expr)
  BY EntryParts
<1>2. ASSUME NEW x, IsExpr(x), NEW n \in 1..2, NEW c \in 1..2 PROVE ConstantOf(x, n, c) \in Int
  <2>1. CASE Single(x) /\ Against(x, n, c)
    BY <1>2, <2>1, SideIs DEF ConstantOf, Against
  <2>2. CASE ~(Single(x) /\ Against(x, n, c))
    BY <2>2 DEF ConstantOf
  <2> QED
    BY <2>1, <2>2
<1>3. \A i \in 1..N : g[i] \in Int /\ h[i] \in Int
  BY <1>1, <1>2
<1>4. \A i \in 1..N : /\ g[i] = ConstantOf(e.constraints[i].expr, 1, 2)
                      /\ h[i] = ConstantOf(e.constraints[i].expr, 2, 1)
  OBVIOUS
<1> HIDE DEF g, h, N
<1>5. PICK a \in Nat : \A i \in 1..N : -a <= g[i] /\ g[i] <= a
  BY <1>1, <1>3, ListBound
<1>6. PICK b \in Nat : \A i \in 1..N : -b <= h[i] /\ h[i] <= b
  BY <1>1, <1>3, ListBound
<1>7. a + b \in Nat
  OBVIOUS
<1>8. ASSUME NEW s \in Simple(e) PROVE s.k \in Int /\ -(a + b) <= s.k /\ s.k <= a + b
  <2> DEFINE single == {x \in {e.constraints[i].expr : i \in Hard(e)} : Single(x)}
  <2>1. \/ s \in {Limit(x, 1, 2, Root(x).ops[1]) : x \in {y \in single : Against(y, 1, 2)}}
        \/ s \in {Limit(x, 2, 1, Turned(Root(x).ops[1])) : x \in {y \in single : Against(y, 2, 1)}}
    BY Zenon DEF Simple
  <2>2. \A x \in single : \E i \in 1..N : x = e.constraints[i].expr /\ Single(x)
    BY <1>1 DEF Hard
  <2> HIDE DEF single
  <2>3. \E i \in 1..N : s.k = g[i] \/ s.k = h[i]
    <3>1. CASE \E x \in single : Against(x, 1, 2) /\ s = Limit(x, 1, 2, Root(x).ops[1])
      <4>1. PICK x \in single : Against(x, 1, 2) /\ s = Limit(x, 1, 2, Root(x).ops[1])
        BY <3>1
      <4>2. PICK i \in 1..N : x = e.constraints[i].expr /\ Single(x)
        BY <2>2
      <4>3. s.k = ConstantOf(x, 1, 2)
        BY <4>1, <4>2 DEF Limit, ConstantOf
      <4> QED
        BY <1>4, <4>2, <4>3
    <3>2. CASE \E x \in single : Against(x, 2, 1) /\ s = Limit(x, 2, 1, Turned(Root(x).ops[1]))
      <4>1. PICK x \in single : Against(x, 2, 1) /\ s = Limit(x, 2, 1, Turned(Root(x).ops[1]))
        BY <3>2
      <4>2. PICK i \in 1..N : x = e.constraints[i].expr /\ Single(x)
        BY <2>2
      <4>3. s.k = ConstantOf(x, 2, 1)
        BY <4>1, <4>2 DEF Limit, ConstantOf
      <4> QED
        BY <1>4, <4>2, <4>3
    <3> QED
      BY <2>1, <3>1, <3>2
  <2>4. PICK i \in 1..N : s.k = g[i] \/ s.k = h[i]
    BY <2>3
  <2>5. g[i] \in Int /\ h[i] \in Int /\ -a <= g[i] /\ g[i] <= a /\ -b <= h[i] /\ h[i] <= b
    BY <1>3, <1>5, <1>6
  <2> QED
    BY <2>4, <2>5
<1> QED
  BY <1>7, <1>8

(* The bounds of a parameter lie in the range of its width.                    *)
LEMMA BoundsAre ==
  ASSUME NEW e, IsEntry(e), NEW n \in Bounded(e)
  PROVE  /\ \E b \in Bounds(e) : b.name = n
         /\ \A b \in Bounds(e) : b.name = n =>
              \A v \in b.lo..b.hi : Int_(v) \in Whole(ParamOf(e, n))
<1> DEFINE p == ParamOf(e, n)
           mine == {s \in Simple(e) : s.name = n}
           L == {0} \cup UNION {Lower(s) : s \in mine}
           U == {TwoTo[ParamBits(p)] - 1} \cup UNION {Upper(s) : s \in mine}
<1>1. n \in Names(e) /\ p.type \in IntTypes /\ IsParam(p)
  BY EntryParts, ParamOfName DEF Bounded
<1>2. TwoTo[ParamBits(p)] \in Nat /\ Whole(p) = {Int_(v) : v \in 0..(TwoTo[ParamBits(p)] - 1)}
  <2> HIDE DEF p
  <2> QED
    BY <1>1, NumericParam, TwoToIs
<1> DEFINE top == TwoTo[ParamBits(p)] - 1
<1>3. top \in Int
  <2> HIDE DEF p
  <2> QED
    BY <1>2
<1> HIDE DEF p
<1>4. PICK c \in Nat : \A s \in Simple(e) : s.k \in Int /\ -c <= s.k /\ s.k <= c
  BY SimpleBounded
<1>5. \A s \in mine : /\ \A x \in Lower(s) : x \in Int /\ x <= c + 1
                      /\ \A x \in Upper(s) : x \in Int /\ -(c + 1) <= x
  <2> SUFFICES ASSUME NEW s \in mine
               PROVE  /\ \A x \in Lower(s) : x \in Int /\ x <= c + 1
                      /\ \A x \in Upper(s) : x \in Int /\ -(c + 1) <= x
    OBVIOUS
  <2>1. s.k \in Int /\ -c <= s.k /\ s.k <= c
    BY <1>4
  <2>2. /\ \A x \in Lower(s) : x = s.k + 1 \/ x = s.k
        /\ \A x \in Upper(s) : x = s.k - 1 \/ x = s.k
    BY DEF Lower, Upper
  <2>3. s.k + 1 <= c + 1 /\ s.k <= c + 1 /\ -(c + 1) <= s.k - 1 /\ -(c + 1) <= s.k
    BY <2>1
  <2> QED
    BY <2>1, <2>2, <2>3
<1>6. Max(L) \in Int /\ 0 <= Max(L)
  <2>1. L # {} /\ 0 \in L
    OBVIOUS
  <2>2. \A x \in L : x \in Int /\ x <= c + 1
    <3> HIDE DEF mine
    <3> QED
      BY <1>5
  <2> HIDE DEF L
  <2>3. L \subseteq Int /\ \E b \in Int : \A x \in L : x <= b
    BY <2>2
  <2> QED
    BY <2>1, <2>3, GreatestIs
<1>7. Min(U) \in Int /\ Min(U) <= top
  <2>1. U # {} /\ top \in U
    OBVIOUS
  <2>2. \A x \in U : x \in Int /\ (-(c + 1) <= x \/ x = top)
    <3> HIDE DEF mine
    <3> QED
      BY <1>3, <1>5
  <2> DEFINE least == IF top <= -(c + 1) THEN top ELSE -(c + 1)
  <2> HIDE DEF U, top
  <2>3. U \subseteq Int /\ least \in Int /\ \A x \in U : least <= x
    BY <1>3, <2>2
  <2>4. U \subseteq Int /\ \E b \in Int : \A x \in U : b <= x
    BY <2>3
  <2> QED
    BY <2>1, <2>4, LowestIs
<1> DEFINE own(m) == {s \in Simple(e) : s.name = m}
           R(m) == [name |-> m, lo |-> Max({0} \cup UNION {Lower(s) : s \in own(m)}),
                    hi |-> Min({TwoTo[ParamBits(ParamOf(e, m))] - 1}
                               \cup UNION {Upper(s) : s \in own(m)})]
<1>8. Bounds(e) = {R(m) : m \in Bounded(e)}
  BY Zenon DEF Bounds
<1>9. R(n).lo = Max(L) /\ R(n).hi = Min(U)
  BY DEF p
<1>10. \A m \in Bounded(e) : R(m).name = m
  OBVIOUS
<1> HIDE DEF R, L, U
<1>11. R(n) \in Bounds(e) /\ R(n).name = n
  BY <1>8, <1>10
<1>12. \A b \in Bounds(e) : b.name = n => b.lo = Max(L) /\ b.hi = Min(U)
  BY <1>8, <1>9, <1>10
<1>13. ASSUME NEW b \in Bounds(e), b.name = n, NEW v \in b.lo..b.hi
       PROVE  Int_(v) \in Whole(ParamOf(e, n))
  <2>1. v \in Int /\ Max(L) <= v /\ v <= Min(U)
    BY <1>6, <1>7, <1>12, <1>13
  <2>2. v \in 0..top
    <3> HIDE DEF top
    <3> QED
      BY <1>3, <1>6, <1>7, <2>1
  <2> QED
    BY <1>2, <2>2 DEF p
<1> QED
  BY <1>11, <1>13

(* A draw without bounds has a value of every parameter's whole range, and     *)
(* nothing else.                                                               *)
LEMMA RandomValuesAre ==
  ASSUME NEW e, NEW env
  PROVE  env \in RandomValues(e)
           <=> /\ env = [n \in Names(e) |-> env[n]]
               /\ \A n \in Names(e) : env[n] \in Whole(ParamOf(e, n))
<1> DEFINE S == [n \in Names(e) |-> Whole(ParamOf(e, n))]
<1>1. DOMAIN S = Names(e) /\ \A n \in Names(e) : S[n] = Whole(ParamOf(e, n))
  OBVIOUS
<1>2. RandomValues(e) = Assignments(S)
  BY DEF RandomValues
<1> HIDE DEF S
<1>3. ASSUME env = [n \in Names(e) |-> env[n]], \A n \in Names(e) : env[n] \in S[n]
      PROVE  env \in [Names(e) -> UNION {S[n] : n \in Names(e)}]
  BY <1>3
<1> QED
  BY <1>1, <1>2, <1>3 DEF Assignments

(* What a draw within the bounds may take of a parameter is in its range.      *)
LEMMA RandomValueIs ==
  ASSUME NEW e, IsEntry(e), NEW n \in Names(e), NEW x \in RandomValue(e, n)
  PROVE  x \in Whole(ParamOf(e, n))
<1>1. CASE n \in Bounded(e)
  <2>1. PICK b \in Bounds(e) : b.name = n /\ \E v \in b.lo..b.hi : x = Int_(v)
    BY <1>1 DEF RandomValue
  <2> QED
    BY <1>1, <2>1, BoundsAre
<1>2. CASE n \notin Bounded(e)
  BY <1>2 DEF RandomValue
<1> QED
  BY <1>1, <1>2

(* A draw within the bounds is one of the whole ranges.                        *)
LEMMA DrawsAre ==
  ASSUME NEW e, IsEntry(e), NEW d \in Draws(e)
  PROVE  d \in RandomValues(e)
<1> DEFINE S == [n \in Names(e) |-> RandomValue(e, n)]
<1>1. DOMAIN S = Names(e) /\ \A n \in Names(e) : S[n] = RandomValue(e, n)
  OBVIOUS
<1>2. d \in Assignments(S)
  BY DEF Draws
<1> HIDE DEF S
<1>3. d = [n \in Names(e) |-> d[n]] /\ \A n \in Names(e) : d[n] \in RandomValue(e, n)
  BY <1>1, <1>2 DEF Assignments
<1>4. \A n \in Names(e) : d[n] \in Whole(ParamOf(e, n))
  BY <1>3, RandomValueIs
<1> QED
  BY <1>3, <1>4, RandomValuesAre

(* Entries of which no solving and no check can raise an exception that        *)
(* sample does not expect.                                                     *)
Quiet(e) ==
  \A i \in DOMAIN e.constraints :
    /\ ~IsBad(e.constraints[i].expr)
    /\ \A env \in RandomValues(e) :
         /\ Verdict(e.constraints[i], env) # "raises"
         /\ \A n \in Bounded(e) : ~Escapes(Solve(e.constraints[i].expr, n, env))

(* A plan solves the equalities of the entry for parameters with bounds.       *)
Steps(e) == [expr : {e.constraints[i].expr : i \in DOMAIN e.constraints}, name : Bounded(e)]
Planned(e) == {p \in [steps : Seq(Steps(e)), raises : BOOLEAN] : Quiet(e) => ~p.raises}
LEMMA ExtensionsAre ==
  ASSUME NEW e, NEW i \in DOMAIN e.constraints, NEW plan \in Planned(e), NEW limits,
         NEW draws \in SUBSET RandomValues(e),
         NEW q \in Extensions(e, e.constraints[i].expr, plan, limits, draws)
  PROVE  q \in Planned(e)
<1> DEFINE expr == e.constraints[i].expr
           reserved   == {plan.steps[k].name : k \in DOMAIN plan.steps}
           eligible   == (FreeNames(expr) \cap Bounded(e)) \ reserved
           roots      == [n \in eligible |-> {Solve(expr, n, d) : d \in draws}]
           quiet(n)   == {r \in roots[n] : ~Escapes(r)}
           sometimes  == {n \in eligible : \E r \in quiet(n) : Hits(r, n, limits)}
           always     == {n \in sometimes : \A r \in quiet(n) : Hits(r, n, limits)}
           longer(n)  == [plan EXCEPT !.steps = Append(@, [expr |-> expr, name |-> n])]
<1>1. Extensions(e, expr, plan, limits, draws) =
        (IF \E n \in eligible : quiet(n) # roots[n] THEN {[plan EXCEPT !.raises = TRUE]} ELSE {})
        \cup
        (IF \E n \in eligible : quiet(n) = {} THEN {}
         ELSE {longer(n) : n \in sometimes} \cup IF always = {} THEN {plan} ELSE {})
  BY Zenon DEF Extensions, Extended
<1>2. sometimes \subseteq Bounded(e) /\ eligible \subseteq Bounded(e)
  OBVIOUS
<1>3. ASSUME Quiet(e), NEW n \in eligible PROVE quiet(n) = roots[n]
  <2>1. \A r \in roots[n] : ~Escapes(r)
    BY <1>2, <1>3 DEF Quiet
  <2> QED
    BY <2>1
<1> HIDE DEF sometimes, always, quiet, roots, longer, eligible
<1>4. \/ q = plan
      \/ q = [plan EXCEPT !.raises = TRUE] /\ ~Quiet(e)
      \/ \E n \in Bounded(e) : q = longer(n)
  BY <1>1, <1>2, <1>3
<1>5. plan = [steps |-> plan.steps, raises |-> plan.raises] /\ plan.steps \in Seq(Steps(e))
  BY DEF Planned
<1>6. CASE q = [plan EXCEPT !.raises = TRUE] /\ ~Quiet(e)
  <2>1. q = [steps |-> plan.steps, raises |-> TRUE]
    BY <1>5, <1>6
  <2> QED
    BY <1>5, <1>6, <2>1 DEF Planned
<1>7. ASSUME NEW n \in Bounded(e), q = longer(n) PROVE q \in Planned(e)
  <2>1. [expr |-> expr, name |-> n] \in Steps(e)
    BY DEF Steps
  <2> HIDE DEF expr
  <2>2. \A x \in Steps(e) : Append(plan.steps, x) \in Seq(Steps(e))
    BY <1>5, AppendProperties
  <2>3. q = [steps |-> Append(plan.steps, [expr |-> expr, name |-> n]), raises |-> plan.raises]
    BY <1>5, <1>7 DEF longer
  <2> QED
    BY <2>1, <2>2, <2>3 DEF Planned
<1> QED
  BY <1>4, <1>6, <1>7

(* Whatever is drawn, the plan is made of such steps.                          *)
LEMMA PlansAre ==
  ASSUME NEW e, IsEntry(e), NEW limits, NEW draws \in SUBSET RandomValues(e),
         NEW plan \in EqualityPlans(e, limits, draws)
  PROVE  plan \in Planned(e)
<1> DEFINE N == Len(e.constraints)
           first == [steps |-> <<>>, raises |-> FALSE]
           solves(i) == i \in Hard(e) /\ IsEquality(e.constraints[i].expr)
           then(expr, p) == IF p.raises THEN {p} ELSE Extensions(e, expr, p, limits, draws)
           longer(i, X) == UNION {then(e.constraints[i].expr, p) : p \in X}
           R(h) == h = [i \in 0..N |->
                     IF i = 0 THEN {first}
                     ELSE IF i \in Hard(e) /\ IsEquality(e.constraints[i].expr)
                     THEN UNION {then(e.constraints[i].expr, p) : p \in h[i - 1]}
                     ELSE h[i - 1]]
           F == CHOOSE h : R(h)
           D == SUBSET Planned(e)
           g == [i \in 1..N |-> [X \in D |-> IF solves(i) THEN longer(i, X) ELSE X]]
<1>1. EqualityPlans(e, limits, draws) = F[N]
  BY Zenon DEF EqualityPlans
<1>2. N \in Nat /\ DOMAIN e.constraints = 1..N
  BY EntryParts
<1> HIDE DEF N, F
<1>3. {first} \in D
  BY EmptySeq DEF Planned
<1>4. ASSUME NEW i \in 1..N, NEW X \in D PROVE longer(i, X) \in D
  <2>1. ASSUME NEW p \in X, NEW q \in then(e.constraints[i].expr, p) PROVE q \in Planned(e)
    BY <1>2, ExtensionsAre
  <2> HIDE DEF then
  <2> QED
    BY <2>1
<1> HIDE DEF longer, solves, first
<1>5. \A i \in 1..N : \A X \in D : g[i][X] \in D /\ g[i][X] = IF solves(i) THEN longer(i, X) ELSE X
  <2> HIDE DEF D
  <2> QED
    BY <1>4
<1> HIDE DEF D, g
<1>6. PICK a \in [0..N -> D] : Stepwise(a, N, {first}, g)
  BY <1>2, <1>3, <1>5, StepwiseExists
<1>7. R(a)
  <2>1. \A i \in 0..N : a[i] = IF i = 0 THEN {first} ELSE g[i][a[i - 1]]
    BY <1>6, Zenon DEF Stepwise
  <2>2. ASSUME NEW i \in 0..N, i # 0
        PROVE  a[i] = IF solves(i) THEN longer(i, a[i - 1]) ELSE a[i - 1]
    <3>1. i \in 1..N /\ i - 1 \in 0..N
      BY <1>2, <2>2
    <3>2. a[i - 1] \in D
      BY <3>1
    <3> QED
      BY <1>5, <2>1, <2>2, <3>1, <3>2
  <2>3. \A i \in 0..N : a[i] = IF i = 0 THEN {first}
                               ELSE IF solves(i) THEN longer(i, a[i - 1]) ELSE a[i - 1]
    BY <2>1, <2>2
  <2>4. a = [i \in 0..N |-> a[i]]
    OBVIOUS
  <2> QED
    BY <2>3, <2>4, Zenon DEF solves, longer
<1>8. R(F)
  <2> HIDE DEF R
  <2> QED
    BY <1>7 DEF F
<1>9. F[0] = {first} /\ \A i \in 1..N : F[i] = IF solves(i) THEN longer(i, F[i - 1]) ELSE F[i - 1]
  <2>1. \A i \in 0..N : F[i] = IF i = 0 THEN {first}
                               ELSE IF solves(i) THEN longer(i, F[i - 1]) ELSE F[i - 1]
    BY <1>8, Zenon DEF solves, longer
  <2>2. 0 \in 0..N /\ \A i \in 1..N : i \in 0..N /\ i # 0
    BY <1>2
  <2> HIDE DEF R
  <2> QED
    BY <2>1, <2>2
<1> HIDE DEF R
<1> DEFINE S == {i \in 0..N : F[i] \in D}
<1>10. 0 \in S
  <2>1. 0 \in 0..N /\ F[0] \in D
    BY <1>2, <1>3, <1>9
  <2> QED
    BY <2>1
<1>11. ASSUME NEW i \in 1..N, i - 1 \in S PROVE i \in S
  <2>1. i \in 0..N /\ F[i - 1] \in D
    BY <1>2, <1>11
  <2>2. F[i] \in D
    BY <1>4, <1>9, <2>1
  <2> QED
    BY <2>1, <2>2
<1>12. N \in S
  <2> HIDE DEF S
  <2>1. \A i \in 0..N : i \in S
    BY <1>2, <1>10, <1>11, RangeInduction
  <2> QED
    BY <1>2, <2>1
<1> QED
  BY <1>1, <1>12 DEF D

(* Solving for a bounded parameter keeps the values in range.                  *)
Ways == {"ok", "violated", "raises"}
Solving(e) == {s \in [end : Ways, env : RandomValues(e)] : Quiet(e) => s.end # "raises"}
LEMMA SolveStepIs ==
  ASSUME NEW e, IsEntry(e), NEW s \in Solving(e), NEW step \in Steps(e)
  PROVE  SolveStep(s, step, Bounds(e)) \in Solving(e)
<1> DEFINE name == step.name
           env == s.env
           root == Solve(step.expr, name, env)
           limits == Bounds(e)
           new == [env EXCEPT ![name] = root]
<1>1. /\ s = [end |-> s.end, env |-> env] /\ s.end \in Ways /\ env \in RandomValues(e)
      /\ Quiet(e) => s.end # "raises"
  BY DEF Solving
<1>2. name \in Bounded(e) /\ \E i \in DOMAIN e.constraints : step.expr = e.constraints[i].expr
  BY DEF Steps
<1>3. SolveStep(s, step, limits) =
        IF s.end # "ok" THEN s
        ELSE IF Escapes(root) THEN [s EXCEPT !.end = "raises"]
        ELSE IF Hits(root, name, limits) THEN [s EXCEPT !.env[name] = root]
        ELSE [s EXCEPT !.end = "violated"]
  BY DEF SolveStep
<1>4. Quiet(e) => ~Escapes(root)
  BY <1>1, <1>2 DEF Quiet
<1>5. ASSUME Hits(root, name, limits) PROVE new \in RandomValues(e)
  <2>1. root = Int_(root.n)
    <3>1. \A g0, g1, g2 : IsInt(RootOf(g0, g1, g2)) =>
                            RootOf(g0, g1, g2) = Int_(RootOf(g0, g1, g2).n)
      <4> SUFFICES ASSUME NEW g0, NEW g1, NEW g2
                   PROVE  IsInt(RootOf(g0, g1, g2)) =>
                            RootOf(g0, g1, g2) = Int_(RootOf(g0, g1, g2).n)
        OBVIOUS
      <4>1. \A m : Int_(m) = Int_(Int_(m).n)
        BY DEF Int_
      <4>2. \A x : Failed(x) => ~IsInt(x)
        BY DEF Failed, IsInt
      <4>3. ~IsInt(Err)
        BY DEF IsInt, Err, Text
      <4>4. \/ RootOf(g0, g1, g2) = g0 /\ Failed(g0)
            \/ RootOf(g0, g1, g2) = g1 /\ Failed(g1)
            \/ RootOf(g0, g1, g2) = g2 /\ Failed(g2)
            \/ RootOf(g0, g1, g2) = Err
            \/ \E m : RootOf(g0, g1, g2) = Int_(m)
        BY Zenon DEF RootOf
      <4> QED
        BY <4>1, <4>2, <4>3, <4>4
    <3>2. root = Err \/ \E g0, g1, g2 : root = RootOf(g0, g1, g2)
      BY Zenon DEF Solve
    <3>3. IsInt(root) /\ ~IsInt(Err)
      BY <1>5 DEF Hits, IsInt, Err, Text
    <3> QED
      BY <3>1, <3>2, <3>3
  <2> HIDE DEF root, env
  <2>2. root \in Whole(ParamOf(e, name))
    <3>1. PICK b \in Bounds(e) : b.name = name
      BY <1>2, BoundsAre
    <3>2. root.n \in b.lo..b.hi
      BY <1>5, <3>1 DEF Hits, Inside
    <3> QED
      BY <1>2, <2>1, <3>1, <3>2, BoundsAre
  <2>3. env = [n \in Names(e) |-> env[n]] /\ \A n \in Names(e) : env[n] \in Whole(ParamOf(e, n))
    BY <1>1, RandomValuesAre
  <2> HIDE DEF name
  <2>4. new = [n \in Names(e) |-> new[n]]
    BY <2>3
  <2>5. \A n \in Names(e) : new[n] \in Whole(ParamOf(e, n))
    BY <2>2, <2>3
  <2> HIDE DEF new
  <2> QED
    BY <2>4, <2>5, RandomValuesAre
<1>6. /\ [s EXCEPT !.end = "raises"] = [end |-> "raises", env |-> env]
      /\ [s EXCEPT !.end = "violated"] = [end |-> "violated", env |-> env]
      /\ [s EXCEPT !.env[name] = root] = [end |-> s.end, env |-> new]
  <2> HIDE DEF root, name
  <2> QED
    BY <1>1
<1> HIDE DEF new, root, limits, name, env
<1> QED
  BY <1>1, <1>3, <1>4, <1>5, <1>6 DEF Solving, Ways, limits

(* One attempt ends with values of the ranges, whatever is solved for.         *)
LEMMA AttemptIs ==
  ASSUME NEW e, IsEntry(e), NEW plan \in Planned(e), NEW d \in RandomValues(e)
  PROVE  \E s \in Solving(e) : Attempt(e, plan, Bounds(e), d) = Ended(e, s)
<1> DEFINE N == Len(plan.steps)
           limits == Bounds(e)
           z == [end |-> IF plan.raises THEN "raises" ELSE "ok", env |-> d]
           R(h) == h = [i \in 0..N |-> IF i = 0 THEN z ELSE SolveStep(h[i - 1], plan.steps[i], limits)]
           F == CHOOSE h : R(h)
           D == Solving(e)
           g == [i \in 1..N |-> [s \in D |-> SolveStep(s, plan.steps[i], limits)]]
<1>0. plan.steps \in Seq(Steps(e)) /\ (Quiet(e) => ~plan.raises)
  BY DEF Planned
<1>1. Attempt(e, plan, limits, d) = Ended(e, F[N])
  BY Zenon DEF Attempt
<1>2. N \in Nat /\ \A i \in 1..N : plan.steps[i] \in Steps(e)
  BY <1>0, LenProperties
<1> HIDE DEF N, F
<1>4. z \in D
  BY <1>0 DEF Solving, Ways
<1>5. \A i \in 1..N : \A s \in D : SolveStep(s, plan.steps[i], limits) \in D
  BY <1>2, SolveStepIs
<1> HIDE DEF D, limits, z
<1>6. \A i \in 1..N : \A s \in D : g[i][s] \in D /\ g[i][s] = SolveStep(s, plan.steps[i], limits)
  BY <1>5
<1> HIDE DEF g
<1>7. PICK a \in [0..N -> D] : Stepwise(a, N, z, g)
  BY <1>2, <1>4, <1>6, StepwiseExists
<1>8. R(a)
  <2>1. \A i \in 0..N : a[i] = IF i = 0 THEN z ELSE g[i][a[i - 1]]
    BY <1>7, Zenon DEF Stepwise
  <2>2. ASSUME NEW i \in 0..N, i # 0 PROVE a[i] = SolveStep(a[i - 1], plan.steps[i], limits)
    <3>1. i \in 1..N /\ i - 1 \in 0..N
      BY <1>2, <2>2
    <3>2. a[i - 1] \in D
      BY <3>1
    <3> QED
      BY <1>6, <2>1, <2>2, <3>1, <3>2
  <2>3. \A i \in 0..N : a[i] = IF i = 0 THEN z ELSE SolveStep(a[i - 1], plan.steps[i], limits)
    BY <2>1, <2>2
  <2>4. a = [i \in 0..N |-> a[i]]
    OBVIOUS
  <2> QED
    BY <2>3, <2>4
<1>9. R(F)
  <2> HIDE DEF R
  <2> QED
    BY <1>8 DEF F
<1>10. F[0] = z /\ \A i \in 1..N : F[i] = SolveStep(F[i - 1], plan.steps[i], limits)
  <2>1. \A i \in 0..N : F[i] = IF i = 0 THEN z ELSE SolveStep(F[i - 1], plan.steps[i], limits)
    BY <1>9
  <2>2. 0 \in 0..N /\ \A i \in 1..N : i \in 0..N /\ i # 0
    BY <1>2
  <2> HIDE DEF R
  <2> QED
    BY <2>1, <2>2
<1> HIDE DEF R
<1> DEFINE S == {i \in 0..N : F[i] \in D}
<1>11. 0 \in S
  BY <1>2, <1>4, <1>10
<1>12. ASSUME NEW i \in 1..N, i - 1 \in S PROVE i \in S
  <2>1. i \in 0..N /\ F[i - 1] \in D
    BY <1>2, <1>12
  <2>2. F[i] \in D
    BY <1>5, <1>10, <2>1
  <2> QED
    BY <2>1, <2>2
<1>13. N \in S
  <2> HIDE DEF S
  <2>1. \A i \in 0..N : i \in S
    BY <1>2, <1>11, <1>12, RangeInduction
  <2> QED
    BY <1>2, <2>1
<1> QED
  BY <1>1, <1>13 DEF D, limits

(* What sample returns has a value of every parameter's range and satisfies    *)
(* the constraints, and what it raises it expects where no solving and no      *)
(* check raises anything else.                                                 *)
LEMMA SampleIs ==
  ASSUME NEW e, IsEntry(e), NEW s \in Sample(e)
  PROVE  /\ s.kind \in {"raises", "gave up", "values"}
         /\ s.kind = "values" =>
              s.env \in RandomValues(e) /\ CheckAll(e.constraints, s.env) = "ok"
         /\ Quiet(e) => s.kind # "raises"
<1> DEFINE result(kind, env) == [kind |-> kind, env |-> env]
           A == Attempts(e, Bounds(e), Draws(e))
           R(a) == CASE a.end = "ok" -> result("values", a.env)
                     [] a.end = "violated" -> result("gave up", <<>>)
                     [] a.end = "raises"   -> result("raises", <<>>)
           bad == {i \in Hard(e) : IsBad(e.constraints[i].expr)}
<1>1. \/ s = result("gave up", <<>>)
      \/ s = result("raises", <<>>) /\ bad # {}
      \/ s \in {R(a) : a \in A}
  BY Zenon DEF Sample
<1>2. CASE s = result("gave up", <<>>) \/ (s = result("raises", <<>>) /\ bad # {})
  <2>1. \A k : result(k, <<>>).kind = k
    OBVIOUS
  <2>2. Quiet(e) => bad = {}
    BY DEF Quiet, Hard
  <2> HIDE DEF result, bad
  <2>4. s = result("gave up", <<>>) => s.kind = "gave up"
    BY <2>1, Zenon
  <2>5. s = result("raises", <<>>) => s.kind = "raises"
    BY <2>1, Zenon
  <2>3. s.kind \in {"gave up", "raises"} /\ (s.kind = "raises" => bad # {})
    BY <1>2, <2>4, <2>5
  <2> QED
    BY <2>2, <2>3
<1>3. CASE s \in {R(a) : a \in A}
  <2> HIDE DEF R
  <2>1. PICK a \in A : s = R(a)
    BY <1>3
  <2>2. PICK plan \in EqualityPlans(e, Bounds(e), Draws(e)), d \in Draws(e) :
          a = Attempt(e, plan, Bounds(e), d)
    BY <2>1 DEF Attempts
  <2>3. plan \in Planned(e) /\ d \in RandomValues(e)
    <3>1. Draws(e) \subseteq RandomValues(e)
      BY DrawsAre
    <3> QED
      BY <3>1, PlansAre
  <2>4. PICK x \in Solving(e) : a = Ended(e, x)
    BY <2>2, <2>3, AttemptIs
  <2>5. /\ x = [end |-> x.end, env |-> x.env] /\ x.env \in RandomValues(e) /\ x.end \in Ways
        /\ Quiet(e) => x.end # "raises"
    BY <2>4 DEF Solving
  <2>6. a = [end |-> IF x.end = "ok" THEN CheckAll(e.constraints, x.env) ELSE x.end, env |-> x.env]
    BY <2>4, <2>5 DEF Ended
  <2>7. CheckAll(e.constraints, x.env) \in Ways
    BY CheckAllIs DEF Ways
  <2>8. Quiet(e) => CheckAll(e.constraints, x.env) # "raises"
    BY <2>5, CheckAllIs DEF Quiet
  <2>9. /\ a.end \in Ways /\ a.env \in RandomValues(e)
        /\ a.end = "ok" => CheckAll(e.constraints, a.env) = "ok"
        /\ Quiet(e) => a.end # "raises"
    BY <2>5, <2>6, <2>7, <2>8 DEF Ways
  <2>10. /\ s.kind \in {"raises", "gave up", "values"}
         /\ s.kind = "values" => a.end = "ok" /\ s.env = a.env
         /\ s.kind = "raises" => a.end = "raises"
    BY <2>1, <2>9 DEF R, Ways
  <2> QED
    BY <2>9, <2>10
<1> QED
  BY <1>1, <1>2, <1>3

(* What is calculated with numbers only is a number or an error that every     *)
(* caller expects, and nothing else escapes.                                   *)
Plain(x) == x.t \in {"int", "err"}
LEMMA ArithmeticIs ==
  ASSUME NEW op \in Operators, NEW a, NEW b
  PROVE  Plain(Arithmetic(op, a, b))
<1>1. Plain(Err) /\ \A n : Plain(Int_(n))
  BY DEF Plain, Err, Text, Int_
<1>2. \/ Arithmetic(op, a, b) = Err
      \/ \E n : Arithmetic(op, a, b) = Int_(n)
  <2>1. /\ op = "+" => Arithmetic(op, a, b) = Int_(a + b)
        /\ op = "-" => Arithmetic(op, a, b) = Int_(a - b)
        /\ op = "*" => Arithmetic(op, a, b) = Int_(a * b)
        /\ op = "gcd" => Arithmetic(op, a, b) = Int_(Gcd(a, b))
    BY DEF Arithmetic
  <2>2. /\ op = "//" => Arithmetic(op, a, b) = IF b = 0 THEN Err ELSE Int_(FloorDiv(a, b))
        /\ op = "%" => Arithmetic(op, a, b) = IF b = 0 THEN Err ELSE Int_(FloorMod(a, b))
        /\ op = "**" => Arithmetic(op, a, b) = IF b \in 0..MAX_EXPONENT THEN Int_(a^b) ELSE Err
    BY DEF Arithmetic
  <2>3. /\ op = "min" => Arithmetic(op, a, b) = Int_(IF a < b THEN a ELSE b)
        /\ op = "max" => Arithmetic(op, a, b) = Int_(IF a < b THEN b ELSE a)
    BY DEF Arithmetic
  <2> QED
    BY <2>1, <2>2, <2>3, Zenon DEF Operators
<1> QED
  BY <1>1, <1>2

LEMMA NumbersStayPlain ==
  ASSUME NEW x, NEW y, Plain(x), Plain(y), NEW op \in Operators
  PROVE  Plain(Applied(op, x, y))
<1>1. ~Failed(x) /\ ~Failed(y) => IsInt(x) /\ IsInt(y)
  BY DEF Plain, Failed, IsInt
<1>2. \/ Applied(op, x, y) = x \/ Applied(op, x, y) = y
      \/ Applied(op, x, y) = Arithmetic(op, x.n, y.n)
  BY <1>1 DEF Applied
<1> QED
  BY <1>2, ArithmeticIs

LEMMA ComparisonsArePlain ==
  ASSUME NEW x, NEW y, ~Escapes(x), ~Escapes(y), NEW op \in Comparisons
  PROVE  Plain(Compared(op, x, y)) /\ Plain(Applied("-", x, y))
<1>1. Plain(Err) /\ \A b : Plain(Bool(b))
  BY DEF Plain, Err, Text, Bool, Int_
<1>2. /\ Failed(x) => Plain(x)
      /\ Failed(y) => Plain(y)
  BY DEF Escapes, Failed, Plain
<1>3. \/ Failed(x) /\ Compared(op, x, y) = x
      \/ Failed(y) /\ Compared(op, x, y) = y
      \/ Compared(op, x, y) = Err
      \/ \E b : Compared(op, x, y) = Bool(b)
  <2>1. CASE Failed(x) \/ Failed(y)
    BY <2>1 DEF Compared
  <2>2. ASSUME ~Failed(x), ~Failed(y)
        PROVE  Compared(op, x, y) = Err \/ \E b : Compared(op, x, y) = Bool(b)
    <3>1. /\ op = "==" => Compared(op, x, y) = Bool(x = y)
          /\ op = "!=" => Compared(op, x, y) = Bool(x # y)
          /\ op \notin {"==", "!="} /\ x.t # y.t => Compared(op, x, y) = Err
      BY <2>2 DEF Compared
    <3>2. x.t = y.t =>
          /\ op = "<"  => Compared(op, x, y) = Bool(Smaller(x, y))
          /\ op = "<=" => Compared(op, x, y) = Bool(~Smaller(y, x))
          /\ op = ">"  => Compared(op, x, y) = Bool(Smaller(y, x))
          /\ op = ">=" => Compared(op, x, y) = Bool(~Smaller(x, y))
      BY <2>2 DEF Compared
    <3> QED
      BY <3>1, <3>2, Zenon DEF Comparisons
  <2> QED
    BY <2>1, <2>2
<1>4. \/ Failed(x) /\ Applied("-", x, y) = x
      \/ Failed(y) /\ Applied("-", x, y) = y
      \/ Applied("-", x, y) = Err
      \/ Applied("-", x, y) = Arithmetic("-", x.n, y.n)
  BY DEF Applied, Textual
<1>5. Plain(Arithmetic("-", x.n, y.n))
  BY ArithmeticIs DEF Operators
<1> QED
  BY <1>1, <1>2, <1>3, <1>4, <1>5

LEMMA JunctionsArePlain ==
  ASSUME NEW x, NEW n \in Nat, DOMAIN x = 1..n, \A k \in 1..n : ~Escapes(x[k]), NEW b
  PROVE  Plain(Junction(x, b))
<1> DEFINE stops == {k \in DOMAIN x : Failed(x[k]) \/ Truthy(x[k]) = b}
           m == Min(stops)
<1>1. \A c : Plain(Bool(c))
  BY DEF Plain, Bool, Int_
<1>2. Junction(x, b) = IF stops = {} THEN Bool(~b)
                       ELSE IF Failed(x[m]) THEN x[m] ELSE Bool(b)
  BY Zenon DEF Junction
<1>3. stops # {} => m \in DOMAIN x
  <2>1. stops \subseteq Nat
    OBVIOUS
  <2> HIDE DEF stops
  <2>2. stops # {} => m \in stops
    BY <2>1, LeastIs
  <2> QED
    BY <2>2 DEF stops
<1>4. stops # {} /\ Failed(x[m]) => Plain(x[m])
  BY <1>3 DEF Failed, Escapes, Plain
<1> HIDE DEF stops, m
<1> QED
  BY <1>1, <1>2, <1>4

LEMMA ChainsArePlain ==
  ASSUME NEW x, NEW ops, NEW n \in Nat, DOMAIN ops = 1..n, \A k \in 1..n : ops[k] \in Comparisons,
         \A k \in 1..(n + 1) : ~Escapes(x[k])
  PROVE  Plain(Chain(ops, x))
<1> DEFINE link(k) == Compared(ops[k], x[k], x[k + 1])
           stops == {k \in DOMAIN ops : link(k) # Bool(TRUE)}
           m == Min(stops)
<1>1. Plain(Bool(TRUE))
  BY DEF Plain, Bool, Int_
<1>2. Chain(ops, x) = IF stops = {} THEN Bool(TRUE) ELSE link(m)
  BY Zenon DEF Chain
<1>3. \A k \in 1..n : Plain(link(k))
  <2> TAKE k \in 1..n
  <2>1. k \in 1..(n + 1) /\ k + 1 \in 1..(n + 1)
    OBVIOUS
  <2> QED
    BY <2>1, ComparisonsArePlain
<1>4. stops # {} => m \in 1..n
  <2>1. stops \subseteq Nat /\ stops \subseteq 1..n
    <3>1. stops \subseteq DOMAIN ops
      BY Zenon
    <3> HIDE DEF stops
    <3> QED
      BY <3>1
  <2> HIDE DEF stops
  <2>2. stops # {} => m \in stops
    BY <2>1, LeastIs
  <2> QED
    BY <2>1, <2>2
<1> HIDE DEF stops, m, link
<1> QED
  BY <1>1, <1>2, <1>3, <1>4

(* So it is for the nodes of an expression that does not calculate with texts. *)
Settled(env, names) ==
  \A n \in DOMAIN env : IF n \in names THEN ~Escapes(env[n]) ELSE IsInt(env[n])
LEMMA NodesArePlain ==
  ASSUME NEW x, IsExpr(x), ~IsBad(x), NEW names, ~Reckons(x, names), NEW env, Settled(env, names)
  PROVE  \A i \in 1..Len(x) : /\ ~Escapes(Values(x, env)[i])
                              /\ IsText(x[i], names) \/ Plain(Values(x, env)[i])
<1> DEFINE V == Values(x, env)
           X(i) == [k \in DOMAIN x[i].args |-> V[i - x[i].args[k]]]
           Good(i) == ~Escapes(V[i]) /\ (IsText(x[i], names) \/ Plain(V[i]))
           S == {n \in 0..Len(x) : \A i \in 1..n : Good(i)}
<1>1. /\ Len(x) \in Nat \ {0} /\ DOMAIN x = 1..Len(x)
      /\ \A i \in 1..Len(x) : IsNode(x[i], i)
  BY ExprParts
<1>2. \A i \in 1..Len(x) : V[i] = NodeValue(x[i], X(i), env)
  BY ValuesAre DEF Valued
<1> HIDE DEF V
<1>3. \A v : Plain(v) => ~Escapes(v)
  BY DEF Plain, Escapes
<1>4. Plain(Err) /\ (\A b : Plain(Bool(b))) /\ \A v : IsInt(v) => Plain(v)
  BY DEF Plain, Err, Text, Bool, Int_, IsInt
<1>5. 0 \in S
  BY <1>1
<1>6. ASSUME NEW n \in 1..Len(x), n - 1 \in S PROVE n \in S
  <2> DEFINE node == x[n]
             size == Len(node.args)
  <2>1. IsNode(node, n) /\ n \in Nat
    BY <1>1
  <2>2. /\ size \in Nat /\ DOMAIN node.args = 1..size
        /\ \A k \in 1..size : node.args[k] \in 1..(n - 1)
        /\ node.kind = "cmp" => /\ Len(node.ops) \in Nat /\ DOMAIN node.ops = 1..Len(node.ops)
                                /\ size = Len(node.ops) + 1
                                /\ \A k \in 1..Len(node.ops) : node.ops[k] \in Comparisons
    <3> HIDE DEF node
    <3> QED
      BY <2>1, NodeParts
  <2>3. \A k \in 1..size : /\ X(n)[k] = V[n - node.args[k]] /\ n - node.args[k] \in 1..(n - 1)
                           /\ Good(n - node.args[k])
    BY <1>6, <2>2
  <2>4. DOMAIN X(n) = 1..size /\ \A k \in 1..size : ~Escapes(X(n)[k])
    BY <2>2, <2>3
  <2>5. V[n] = NodeValue(node, X(n), env)
    BY <1>2
  <2> SUFFICES Good(n)
    BY <1>1, <1>6
  <2>6. CASE node.kind = "const"
    <3>1. V[n] = node.value
      BY <2>5, <2>6 DEF NodeValue
    <3>2. ~Escapes(node.value)
      BY <2>1 DEF IsNode, IsValue, Escapes
    <3>3. IsText(node, names) \/ IsInt(node.value)
      BY <2>6 DEF IsText
    <3> QED
      BY <1>4, <3>1, <3>2, <3>3
  <2>7. CASE node.kind = "name"
    <3>1. V[n] = IF node.name \in DOMAIN env THEN env[node.name] ELSE Err
      BY <2>5, <2>7 DEF NodeValue
    <3>2. IsText(node, names) \/ node.name \notin names
      BY <2>7 DEF IsText
    <3> QED
      BY <1>3, <1>4, <3>1, <3>2 DEF Settled
  <2>8. CASE node.kind = "not"
    <3>1. V[n] = IF Failed(X(n)[1]) THEN X(n)[1] ELSE Bool(~Truthy(X(n)[1]))
      BY <2>5, <2>8 DEF NodeValue
    <3>2. size = 1
      BY <2>1, <2>8 DEF IsNode
    <3>3. Failed(X(n)[1]) => Plain(X(n)[1])
      BY <2>4, <3>2 DEF Failed, Escapes, Plain
    <3> HIDE DEF X
    <3> QED
      BY <1>3, <1>4, <3>1, <3>3
  <2>9. CASE node.kind = "bin"
    <3>1. PICK op \in Operators : node.ops = <<op>> /\ size = 2
      BY <2>1, <2>9 DEF IsNode
    <3>2. V[n] = Applied(op, X(n)[1], X(n)[2])
      BY <2>5, <2>9, <3>1 DEF NodeValue
    <3>3. \A k \in 1..2 : ~IsText(x[n - node.args[k]], names)
      BY <1>1, <2>2, <2>9, <3>1 DEF Reckons
    <3>4. Plain(X(n)[1]) /\ Plain(X(n)[2])
      BY <2>3, <3>1, <3>3
    <3> HIDE DEF X
    <3> QED
      BY <1>3, <3>2, <3>4, NumbersStayPlain
  <2>10. CASE node.kind = "and"
    <3>1. V[n] = Junction(X(n), FALSE)
      BY <2>5, <2>10 DEF NodeValue
    <3> HIDE DEF X
    <3>2. Plain(Junction(X(n), FALSE))
      BY <2>2, <2>4, JunctionsArePlain
    <3> QED
      BY <1>3, <3>1, <3>2
  <2>11. CASE node.kind = "or"
    <3>1. V[n] = Junction(X(n), TRUE)
      BY <2>5, <2>11 DEF NodeValue
    <3> HIDE DEF X
    <3>2. Plain(Junction(X(n), TRUE))
      BY <2>2, <2>4, JunctionsArePlain
    <3> QED
      BY <1>3, <3>1, <3>2
  <2>12. CASE node.kind = "cmp"
    <3>1. V[n] = Chain(node.ops, X(n))
      BY <2>5, <2>12 DEF NodeValue
    <3> HIDE DEF X
    <3>2. Plain(Chain(node.ops, X(n)))
      BY <2>2, <2>4, <2>12, ChainsArePlain
    <3> QED
      BY <1>3, <3>1, <3>2
  <2>13. node.kind # "bad"
    BY <1>1 DEF IsExpr, IsBad, Root
  <2> QED
    BY <2>1, <2>6, <2>7, <2>8, <2>9, <2>10, <2>11, <2>12, <2>13 DEF IsNode
<1>7. Len(x) \in S
  <2> HIDE DEF S
  <2> QED
    BY <1>1, <1>5, <1>6, RangeInduction
<1> QED
  BY <1>7 DEF V

(* An expression of numbers never escapes, nor does the gap of its sides.      *)
LEMMA PlainExpression ==
  ASSUME NEW x, IsExpr(x), ~IsBad(x), NEW names, ~Reckons(x, names), NEW env, Settled(env, names)
  PROVE  /\ ~Escapes(Eval(x, env))
         /\ IsEquality(x) => ~Escapes(EqualityGap(x, env))
<1> DEFINE V == Values(x, env)
           L == Len(x)
           r == x[L]
<1>1. L \in 1..L /\ L \in Nat /\ \A i \in 1..L : IsNode(x[i], i)
  BY ExprParts
<1>2. \A i \in 1..L : ~Escapes(V[i])
  BY NodesArePlain
<1>3. ASSUME IsEquality(x) PROVE ~Escapes(EqualityGap(x, env))
  <2>1. r.kind = "cmp" /\ r.ops = <<"==">> /\ IsNode(r, L)
    BY <1>1, <1>3 DEF IsEquality, Root
  <2>2. Len(r.args) = 2
    BY <2>1 DEF IsNode
  <2> HIDE DEF r, L
  <2>3. r.args[1] \in 1..(L - 1) /\ r.args[2] \in 1..(L - 1)
    BY <1>1, <2>1, <2>2, NodeParts
  <2>4. L - r.args[1] \in 1..L /\ L - r.args[2] \in 1..L
    BY <1>1, <2>3
  <2>5. EqualityGap(x, env) = Applied("-", V[L - r.args[1]], V[L - r.args[2]])
    BY DEF EqualityGap, Root, r, L
  <2>6. Plain(EqualityGap(x, env))
    BY <1>2, <2>4, <2>5, ComparisonsArePlain DEF Comparisons
  <2> QED
    BY <2>6 DEF Plain, Escapes
<1> QED
  BY <1>1, <1>2, <1>3 DEF Eval

(* An entry that fits the schema, knows its names and calculates with numbers  *)
(* only is quiet.                                                              *)
LEMMA PlainIsQuiet ==
  ASSUME NEW e, IsEntry(e), FitsSchema(e), KnownNames(e), PlainNumbers(e)
  PROVE  Quiet(e)
<1> DEFINE names == TextNames(e)
<1>1. ASSUME NEW env \in RandomValues(e)
      PROVE  DOMAIN env = Names(e) /\ Settled(env, names)
  <2>1. DOMAIN env = Names(e) /\ \A n \in Names(e) : env[n] \in Whole(ParamOf(e, n))
    BY RandomValuesAre
  <2>2. ASSUME NEW n \in Names(e)
        PROVE  IF n \in names THEN ~Escapes(env[n]) ELSE IsInt(env[n])
    <3> DEFINE p == ParamOf(e, n)
    <3>1. p.type \in Types /\ env[n] \in Whole(p)
      BY <2>1, EntryParts, ParamOfName DEF FitsSchema
    <3>2. n \in names <=> p.type \notin IntTypes
      BY DEF TextNames
    <3> HIDE DEF p
    <3>3. p.type \in IntTypes => IsInt(env[n])
      BY <3>1 DEF Whole, IntTypes, Int_, IsInt
    <3>4. p.type \notin IntTypes => ~Escapes(env[n])
      <4>1. CASE p.type = "bytes"
        <5>1. \E v : env[n] = Bytes(v, ParamBits(p))
          BY <3>1, <4>1 DEF Whole, IntTypes
        <5> QED
          BY <5>1 DEF Bytes, Text, Escapes
      <4>2. CASE p.type = "enum"
        <5>1. PICK v \in 1..p.choices : env[n] = Text("str", <<v>>)
          BY <3>1, <4>2 DEF Whole, IntTypes
        <5> QED
          BY <5>1 DEF Text, Escapes
      <4>3. CASE p.type = "point"
        <5>1. PICK a \in 0..(TwoTo[p.bits] - 1), b \in 0..1 : env[n] = Text("pair", <<a, b>>)
          BY <3>1, <4>3 DEF Whole, IntTypes
        <5> QED
          BY <5>1 DEF Text, Escapes
      <4> QED
        BY <3>1, <4>1, <4>2, <4>3 DEF Types, BITS_REQUIRED
    <3> QED
      BY <3>2, <3>3, <3>4
  <2> QED
    BY <2>1, <2>2 DEF Settled
<1>2. ASSUME NEW i \in DOMAIN e.constraints, NEW env \in RandomValues(e)
      PROVE  /\ Verdict(e.constraints[i], env) # "raises"
             /\ \A n \in Bounded(e) : ~Escapes(Solve(e.constraints[i].expr, n, env))
  <2> DEFINE x == e.constraints[i].expr
  <2>1. IsExpr(x) /\ ~IsBad(x) /\ ~Reckons(x, names)
    BY EntryParts DEF KnownNames, PlainNumbers
  <2> HIDE DEF names
  <2>2. Verdict(e.constraints[i], env) # "raises"
    <3>1. ~Escapes(Eval(x, env)) /\ Escapes(NoMemory)
      BY <1>1, <2>1, PlainExpression DEF Escapes, NoMemory, Text
    <3>2. Eval(x, env) # NoMemory
      BY <3>1
    <3> QED
      BY <2>1, <3>2 DEF Verdict, Judgement
  <2>3. ASSUME NEW n \in Bounded(e) PROVE ~Escapes(Solve(x, n, env))
    <3> DEFINE at(v) == [env EXCEPT ![n] = Int_(v)]
               gap(v) == EqualityGap(x, at(v))
    <3>1. Solve(x, n, env) = IF IsEquality(x) THEN RootOf(gap(0), gap(1), gap(2)) ELSE Err
      BY DEF Solve
    <3>2. \A v : Settled(at(v), names)
      <4>1. n \notin names
        BY DEF Bounded, TextNames, names
      <4>2. \A v : DOMAIN at(v) = DOMAIN env /\ \A m \in DOMAIN env :
                     at(v)[m] = IF m = n THEN Int_(v) ELSE env[m]
        OBVIOUS
      <4>3. \A v : IsInt(Int_(v))
        BY DEF IsInt, Int_
      <4> HIDE DEF at
      <4> QED
        BY <1>1, <4>1, <4>2, <4>3 DEF Settled
    <3>3. IsEquality(x) => \A v : ~Escapes(gap(v))
      <4> HIDE DEF at, x
      <4> QED
        BY <2>1, <3>2, PlainExpression
    <3> HIDE DEF gap
    <3>4. \A g0, g1, g2 : ~Escapes(g0) /\ ~Escapes(g1) /\ ~Escapes(g2) => ~Escapes(RootOf(g0, g1, g2))
      <4> SUFFICES ASSUME NEW g0, NEW g1, NEW g2, ~Escapes(g0), ~Escapes(g1), ~Escapes(g2)
                   PROVE  ~Escapes(RootOf(g0, g1, g2))
        OBVIOUS
      <4>1. \/ RootOf(g0, g1, g2) \in {g0, g1, g2, Err}
            \/ \E m : RootOf(g0, g1, g2) = Int_(m)
        BY Zenon DEF RootOf
      <4>2. ~Escapes(Err) /\ \A m : ~Escapes(Int_(m))
        BY DEF Escapes, Err, Text, Int_
      <4> QED
        BY <4>1, <4>2
    <3>5. ~Escapes(Err)
      BY DEF Escapes, Err, Text
    <3> QED
      BY <3>1, <3>3, <3>4, <3>5
  <2> QED
    BY <2>2, <2>3
<1> QED
  BY <1>2 DEF Quiet, KnownNames

(* What the validator calls clean can be used.                                 *)
LEMMA CleanIsUsableNow == TypeOK => CleanIsUsable
<1> SUFFICES ASSUME TypeOK, Clean(formulas), RESERVED_ID \notin Ids(formulas)
             PROVE  /\ Loads(formulas)
                    /\ \A e \in formulas :
                         /\ \A i \in Publics(e) : ParamBits(e.params[i]) > 0
                         /\ PlainNumbers(e) => \A s \in Sample(e) : s.kind # "raises"
  BY DEF CleanIsUsable
<1>1. \A e \in formulas : /\ IsEntry(e) /\ Conforms(e) /\ ParamErrors(e) = {}
                          /\ KnownNames(e)
  BY DEF TypeOK, Clean
<1>2. Loads(formulas)
  <2>1. \A e \in formulas : e.shape = "whole"
    BY <1>1 DEF Conforms, FitsSchema
  <2>2. formulas # {} /\ \A e, f \in formulas : e.id = f.id => e = f
    BY DEF Clean
  <2> QED
    BY <2>1, <2>2 DEF Loads, Accepted
<1>3. ASSUME NEW e \in formulas, PlainNumbers(e), NEW s \in Sample(e) PROVE s.kind # "raises"
  <2>1. IsEntry(e) /\ FitsSchema(e) /\ KnownNames(e)
    BY <1>1 DEF Conforms
  <2> QED
    BY <1>3, <2>1, PlainIsQuiet, SampleIs
<1>4. ASSUME NEW e \in formulas, NEW i \in Publics(e) PROVE ParamBits(e.params[i]) > 0
  <2> DEFINE p == e.params[i]
  <2>1. i \in DOMAIN e.params /\ p.public /\ ParamErrors(e) = {}
    BY <1>1 DEF Publics
  <2>2. ParamBits(p) # 0 /\ (p.type = "enum" => p.choices # 0)
    BY <2>1 DEF ParamErrors
  <2>3. IsParam(p)
    BY <1>1, <2>1, EntryParts
  <2> HIDE DEF p
  <2>4. ParamBits(p) \in Nat
    BY <2>3, ParamBitsIs
  <2> QED
    BY <2>2, <2>4 DEF p
<1> QED
  BY <1>2, <1>3, <1>4

(* The bits of a text of bytes begin with the number it was drawn as.          *)
LEMMA BytesAre ==
  ASSUME NEW bits \in Nat, NEW v \in 0..(TwoTo[bits] - 1)
  PROVE  NumberOf(2, SubSeq(Bytes(v, bits).s, 1, bits)) = v
<1> DEFINE digits == DigitsTo(2, v, bits)
           zeros == [i \in 1..Padding(bits) |-> 0]
<1>1. TwoTo[bits] \in Nat /\ v \in Nat /\ v < TwoTo[bits] /\ v < Powers(2)[bits]
  BY TwoToIs DEF TwoTo
<1>2. digits \in Seq(0..1) /\ Len(digits) = bits /\ NumberOf(2, digits) = v
  <2>0. 2 \in Nat \ {0}
    OBVIOUS
  <2>1. digits \in Seq(0..(2 - 1)) /\ Len(digits) = bits /\ NumberOf(2, digits) = v
    BY <1>1, <2>0, DigitsToAre, Zenon
  <2>2. 0..(2 - 1) = 0..1
    OBVIOUS
  <2> QED
    BY <2>1, <2>2
<1>3. Padding(bits) \in Nat
  BY SizesAssumption DEF Padding
<1>4. zeros \in Seq(0..1) /\ Len(zeros) = Padding(bits)
  BY <1>3
<1>5. Bytes(v, bits).s = digits \o zeros
  BY DEF Bytes, Text
<1> HIDE DEF digits, zeros
<1>6. SubSeq(digits \o zeros, 1, bits) = digits
  <2>1. /\ digits \o zeros \in Seq(0..1) /\ Len(digits \o zeros) = bits + Padding(bits)
        /\ \A k \in 1..bits : (digits \o zeros)[k] = digits[k]
    BY <1>2, <1>3, <1>4
  <2>2. /\ SubSeq(digits \o zeros, 1, bits) \in Seq(0..1)
        /\ Len(SubSeq(digits \o zeros, 1, bits)) = bits
        /\ \A k \in 1..bits : SubSeq(digits \o zeros, 1, bits)[k] = digits[k]
    BY <1>3, <2>1
  <2> QED
    BY <1>2, <2>2, SeqEqual
<1> QED
  BY <1>2, <1>5, <1>6

(* The number of a value fits the width of its parameter, and tells it from    *)
(* the other values of the range.                                              *)
LEMMA NumberIsOwn ==
  ASSUME NEW p, IsParam(p), p.type \in Types, NEW v \in Whole(p)
  PROVE  /\ Number(p, v) \in Nat
         /\ ParamBits(p) > 0 => Number(p, v) < TwoTo[ParamBits(p)]
         /\ \A w \in Whole(p) : Number(p, w) = Number(p, v) => w = v
<1>1. p.bits \in Nat /\ p.choices \in Nat /\ ParamBits(p) \in Nat
  BY ParamBitsIs DEF IsParam
<1>2. \A n \in Nat : TwoTo[n] \in Nat \ {0}
  BY TwoToIs
<1>3. TwoTo[ParamBits(p)] \in Nat
  BY <1>1, <1>2
<1>4. CASE p.type \in IntTypes
  <2>1. Whole(p) = {Int_(n) : n \in 0..(TwoTo[ParamBits(p)] - 1)}
    BY <1>4 DEF Whole, IntTypes
  <2>2. \A w \in Whole(p) : \E n \in 0..(TwoTo[ParamBits(p)] - 1) : w = Int_(n)
    BY <2>1
  <2>3. \A n : Number(p, Int_(n)) = n
    BY <1>4 DEF Number, Int_, IntTypes
  <2> QED
    BY <1>3, <2>2, <2>3
<1>5. CASE p.type = "bytes"
  <2>1. p.type \notin IntTypes /\ ParamBits(p) = p.bits
    BY <1>5 DEF IntTypes, ParamBits, BITS_REQUIRED
  <2>2. \A w \in Whole(p) : \E n \in 0..(TwoTo[ParamBits(p)] - 1) : w = Bytes(n, ParamBits(p))
    BY <1>5, <2>1 DEF Whole
  <2>3. \A n \in 0..(TwoTo[ParamBits(p)] - 1) : Number(p, Bytes(n, ParamBits(p))) = n
    <3> TAKE n \in 0..(TwoTo[ParamBits(p)] - 1)
    <3>1. Number(p, Bytes(n, ParamBits(p))) = NumberOf(2, SubSeq(Bytes(n, ParamBits(p)).s, 1, p.bits))
      BY <1>5, <2>1 DEF Number
    <3> QED
      BY <1>1, <2>1, <3>1, BytesAre
  <2> QED
    BY <1>3, <2>2, <2>3
<1>6. CASE p.type = "enum"
  <2>1. p.type \notin IntTypes /\ ~(p.type \in {"bytes", "point"})
    BY <1>6 DEF IntTypes
  <2>2. \A w \in Whole(p) : \E x \in 1..p.choices :
           w = Text("str", <<x>>) /\ Number(p, w) = x - 1
    <3> TAKE w \in Whole(p)
    <3>1. PICK x \in 1..p.choices : w = Text("str", <<x>>)
      BY <1>6, <2>1 DEF Whole
    <3>2. w.s[1] = x
      BY <3>1 DEF Text
    <3>3. Number(p, w) = w.s[1] - 1
      BY <1>6, <2>1 DEF Number
    <3> QED
      BY <3>1, <3>2, <3>3
  <2>3. PICK y \in 1..p.choices : v = Text("str", <<y>>) /\ Number(p, v) = y - 1
    BY <2>2
  <2>4. p.choices \in Nat \ {0} /\ ParamBits(p) = IndexBits(p.choices)
    BY <1>1, <1>6 DEF ParamBits, BITS_REQUIRED, IntTypes
  <2>5. p.choices <= TwoTo[ParamBits(p)]
    BY <2>4, IndexBitsIs
  <2>6. ASSUME NEW w \in Whole(p), Number(p, w) = Number(p, v) PROVE w = v
    <3>1. PICK x \in 1..p.choices : w = Text("str", <<x>>) /\ Number(p, w) = x - 1
      BY <2>2
    <3>2. x = y
      BY <1>1, <2>3, <2>6, <3>1
    <3> QED
      BY <2>3, <3>1, <3>2
  <2> QED
    BY <1>1, <1>3, <2>3, <2>5, <2>6
<1>7. CASE p.type = "point"
  <2>1. p.type \notin IntTypes /\ ~(p.type \in {"bytes", "enum"})
    BY <1>7 DEF IntTypes
  <2>2. PICK size \in Nat \ {0} : size = TwoTo[p.bits]
    BY <1>1, <1>2
  <2>3. \A w \in Whole(p) : \E x \in 0..(size - 1), y \in 0..1 :
           w = Text("pair", <<x, y>>) /\ Number(p, w) = (2 + y) * size + x
    <3> TAKE w \in Whole(p)
    <3>1. PICK x \in 0..(size - 1), y \in 0..1 : w = Text("pair", <<x, y>>)
      BY <1>7, <2>1, <2>2 DEF Whole
    <3>2. w.s[1] = x /\ w.s[2] = y
      BY <3>1 DEF Text
    <3>3. Number(p, w) = (2 + w.s[2]) * TwoTo[p.bits] + w.s[1]
      BY <1>7, <2>1 DEF Number
    <3> QED
      BY <2>2, <3>1, <3>2, <3>3
  <2>4. \A x \in 0..(size - 1), y \in 0..1 :
           /\ (2 + y) * size + x \in Nat /\ (2 + y) * size + x < 4 * size
           /\ y = 0 => (2 + y) * size + x < 3 * size
           /\ y = 1 => (2 + y) * size + x >= 3 * size
    <3> TAKE x \in 0..(size - 1), y \in 0..1
    <3>1. CASE y = 0
      <4>1. (2 + y) * size = 2 * size
        BY <3>1
      <4> QED
        BY <3>1, <4>1
    <3>2. CASE y = 1
      <4>1. (2 + y) * size = 3 * size
        BY <3>2
      <4> QED
        BY <3>2, <4>1
    <3> QED
      BY <3>1, <3>2
  <2>5. ASSUME ParamBits(p) > 0 PROVE 4 * size <= TwoTo[ParamBits(p)]
    <3>1. ParamBits(p) = p.bits + POINT_PREFIX_BITS
      BY <1>7, <2>5 DEF ParamBits, BITS_REQUIRED, IntTypes
    <3>2. /\ p.bits + 1 \in Nat /\ p.bits + 2 = (p.bits + 1) + 1 /\ p.bits + 2 \in Nat
          /\ POINT_PREFIX_BITS - 2 \in Nat
          /\ (p.bits + 2) + (POINT_PREFIX_BITS - 2) = p.bits + POINT_PREFIX_BITS
      BY <1>1, SizesAssumption
    <3>3. TwoTo[p.bits + 1] = 2 * size /\ TwoTo[p.bits + 2] = 2 * TwoTo[p.bits + 1]
      BY <1>1, <2>2, <3>2, TwoToIs
    <3>4. TwoTo[p.bits + 2] = 4 * size
      BY <2>2, <3>3
    <3> QED
      BY <3>1, <3>2, <3>4, TwoToGrows
  <2>6. \A w \in Whole(p) : Number(p, w) = Number(p, v) => w = v
    <3> SUFFICES ASSUME NEW w \in Whole(p), Number(p, w) = Number(p, v) PROVE w = v
      OBVIOUS
    <3>1. PICK x \in 0..(size - 1), y \in 0..1 :
             v = Text("pair", <<x, y>>) /\ Number(p, v) = (2 + y) * size + x
      BY <2>3
    <3>2. PICK a \in 0..(size - 1), b \in 0..1 :
             w = Text("pair", <<a, b>>) /\ Number(p, w) = (2 + b) * size + a
      BY <2>3
    <3>3. b = y
      <4>1. y \in {0, 1} /\ b \in {0, 1} /\ (2 + b) * size + a = (2 + y) * size + x
        BY <3>1, <3>2
      <4>2. ~((2 + y) * size + x < 3 * size /\ (2 + y) * size + x >= 3 * size)
        BY <2>4
      <4> QED
        BY <2>4, <4>1, <4>2
    <3>4. PICK part \in Nat : part = (2 + y) * size
      BY <2>2
    <3>5. a = x
      BY <3>1, <3>2, <3>3, <3>4
    <3> QED
      BY <3>1, <3>2, <3>3, <3>5
  <2>7. Number(p, v) \in Nat /\ Number(p, v) < 4 * size
    BY <2>3, <2>4
  <2>8. ParamBits(p) > 0 => Number(p, v) < TwoTo[ParamBits(p)]
    BY <1>3, <2>5, <2>7
  <2> QED
    BY <2>6, <2>7, <2>8
<1> QED
  BY <1>4, <1>5, <1>6, <1>7 DEF Types, BITS_REQUIRED

(* What a public parameter has in the body is the number of its value.         *)
LEMMA NumberReadBack ==
  ASSUME NEW e, IsEntry(e), Conforms(e), ParamErrors(e) = {}, PayloadBits(e.params) <= BODY,
         NEW env \in RandomValues(e), NEW i \in Publics(e)
  PROVE  ReadNumber(e, i, Body(e, env)) = Number(e.params[i], env[e.params[i].name])
<1> DEFINE N == Len(e.params)
           sizes == Widths(e.params)
           num(k) == Number(e.params[k], env[e.params[k].name])
           w == [k \in DOMAIN e.params |-> DigitsTo(2, num(k), Width(e.params[k]))]
           written == FlattenSeq(w)
           zeros == [k \in 1..(BODY - Len(written)) |-> 0]
           Bits == 0..1
           end == Ends(sizes)
           total == Total(sizes)
<1>1. N \in Nat /\ DOMAIN e.params = 1..N /\ i \in 1..N /\ e.params[i].public
  BY EntryParts DEF Publics
<1>2. ASSUME NEW k \in 1..N
      PROVE  /\ IsParam(e.params[k]) /\ num(k) \in Nat
             /\ ParamBits(e.params[k]) > 0 => num(k) < TwoTo[ParamBits(e.params[k])]
             /\ sizes[k] = Width(e.params[k]) /\ sizes[k] \in Nat
  <2>1. IsParam(e.params[k]) /\ e.params[k].type \in Types
    BY <1>1, EntryParts DEF Conforms, FitsSchema
  <2>2. env[e.params[k].name] \in Whole(e.params[k])
    <3>1. e.params[k].name \in Names(e) /\ ParamOf(e, e.params[k].name) = e.params[k]
      BY NamesDistinct
    <3> QED
      BY <3>1, RandomValuesAre
  <2>3. ParamBits(e.params[k]) \in Nat
    BY <2>1, ParamBitsIs
  <2> QED
    BY <1>1, <2>1, <2>2, <2>3, NumberIsOwn DEF Widths, Width
<1>3. sizes \in Seq(Nat) /\ Len(sizes) = N
  <2>1. sizes \in [1..N -> Nat]
    BY <1>1, <1>2 DEF Widths
  <2> HIDE DEF sizes
  <2> QED
    BY <1>1, <2>1, ListIs
<1>4. num(i) < TwoTo[sizes[i]]
  <2>1. ParamBits(e.params[i]) # 0 /\ ParamBits(e.params[i]) \in Nat
    BY <1>1, <1>2, ParamBitsIs DEF ParamErrors
  <2>2. sizes[i] = ParamBits(e.params[i])
    BY <1>1, <1>2 DEF Width
  <2> HIDE DEF num, sizes
  <2> QED
    BY <1>1, <1>2, <2>1, <2>2
<1> HIDE DEF num
<1>5. \A k \in 1..N : /\ w[k] = DigitsTo(2, num(k), sizes[k])
                      /\ w[k] \in Seq(Bits) /\ Len(w[k]) = sizes[k]
  <2> TAKE k \in 1..N
  <2>1. w[k] = DigitsTo(2, num(k), sizes[k]) /\ num(k) \in Nat /\ sizes[k] \in Nat
    BY <1>1, <1>2
  <2> HIDE DEF w, sizes
  <2>2. PICK v \in Nat, z \in Nat : v = num(k) /\ z = sizes[k]
    BY <2>1
  <2>3. 2 \in Nat \ {0} /\ 0..(2 - 1) = Bits
    OBVIOUS
  <2> HIDE DEF Bits
  <2>4. DigitsTo(2, v, z) \in Seq(Bits) /\ Len(DigitsTo(2, v, z)) = z
    BY <2>3, DigitsToAre, Zenon
  <2> QED
    BY <2>1, <2>2, <2>4
<1>6. Body(e, env) = written \o zeros
  BY Zenon DEF Body, num
<1>7. DOMAIN w = 1..N
  BY <1>1
<1>8. \A k \in 1..N : w[k] = w[k] /\ w = [j \in 1..N |-> w[j]]
  BY <1>1
<1> HIDE DEF w, sizes
<1>9. w \in [1..N -> Seq(Bits)]
  BY <1>5, <1>8, <1>1
<1>10. LaidOut(Bits, written, w, sizes)
  BY <1>3, <1>5, <1>9, PiecesLie
<1> HIDE DEF written, Bits, end
<1>11. /\ written \in Seq(Bits) /\ Len(written) = total /\ total \in Nat /\ total <= BODY
       /\ \A j \in 1..sizes[i] : written[end[i - 1] + j] = w[i][j]
  BY <1>1, <1>3, <1>10, TotalIs DEF LaidOut, PayloadBits, sizes, end
<1>12. /\ end[i - 1] \in Nat /\ end[i] = end[i - 1] + sizes[i] /\ end[i] <= total
       /\ sizes[i] \in Nat
  BY <1>1, <1>2, <1>3, TotalIs, EndsAre DEF Sums, end
<1> HIDE DEF total
<1>13. zeros \in Seq(Bits)
  <2>1. BODY - Len(written) \in Nat
    BY <1>11, SizesAssumption
  <2>2. zeros \in [1..(BODY - Len(written)) -> Bits]
    BY DEF Bits
  <2> HIDE DEF zeros
  <2> QED
    BY <2>1, <2>2, ListIs
<1> HIDE DEF zeros
<1> DEFINE body == written \o zeros
           size == sizes[i]
           off == end[i - 1]
           m == off + 1
           n == off + size
           c == w[i]
<1>14. /\ body \in Seq(Bits) /\ Len(body) \in Nat /\ total <= Len(body)
       /\ \A j \in 1..total : body[j] = written[j]
  <2>1. /\ body \in Seq(Bits) /\ Len(body) = Len(written) + Len(zeros)
        /\ \A j \in 1..Len(written) : body[j] = written[j]
    <3>1. written \in Seq(Bits) /\ zeros \in Seq(Bits)
      BY <1>11, <1>13
    <3> HIDE DEF body
    <3>2. body = written \o zeros
      BY DEF body
    <3>3. /\ written \o zeros \in Seq(Bits) /\ Len(written \o zeros) = Len(written) + Len(zeros)
          /\ \A j \in 1..Len(written) : (written \o zeros)[j] = written[j]
      BY <3>1, ConcatAt
    <3> QED
      BY <3>2, <3>3
  <2>2. Len(zeros) \in Nat
    BY <1>13, LenProperties
  <2> HIDE DEF body
  <2> QED
    BY <1>11, <2>1, <2>2
<1> HIDE DEF body
<1>15. off \in Nat /\ size \in Nat /\ n <= total /\ c \in Seq(Bits) /\ Len(c) = size
  BY <1>1, <1>5, <1>12
<1>16. \A j \in 1..size : body[off + j] = c[j]
  <2> HIDE DEF off, size, c
  <2> TAKE j \in 1..size
  <2>1. off + j \in 1..total
    BY <1>11, <1>15
  <2> QED
    BY <1>11, <1>14, <2>1 DEF off, size, c
<1> HIDE DEF off, size, c
<1>17. SubSeq(body, m, n) = c
  <2>1. /\ m \in Int /\ n \in Int /\ n - m + 1 = size
        /\ (IF m <= n THEN n - m + 1 ELSE 0) = size
    BY <1>15
  <2>2. \A k \in m..n : body[k] \in Bits
    <3>1. \A k \in m..n : k \in 1..Len(body)
      BY <1>11, <1>14, <1>15
    <3> QED
      BY <1>14, <3>1, ElementOfSeq
  <2>3. /\ SubSeq(body, m, n) \in Seq(Bits)
        /\ Len(SubSeq(body, m, n)) = IF m <= n THEN n - m + 1 ELSE 0
        /\ \A j \in 1..(n - m + 1) : SubSeq(body, m, n)[j] = body[m + j - 1]
    <3> HIDE DEF m, n
    <3> QED
      BY <2>1, <2>2, SubSeqProperties
  <2>4. \A j \in 1..size : m + j - 1 = off + j
    BY <1>15
  <2>5. \A j \in 1..size : SubSeq(body, m, n)[j] = c[j]
    <3> HIDE DEF m, n
    <3> QED
      BY <1>16, <2>1, <2>3, <2>4
  <2>6. Len(SubSeq(body, m, n)) = Len(c)
    BY <1>15, <2>1, <2>3
  <2> DEFINE sub == SubSeq(body, m, n)
  <2>7. sub \in Seq(Bits) /\ c \in Seq(Bits) /\ Len(sub) = Len(c) /\ \A j \in 1..Len(c) : sub[j] = c[j]
    BY <1>15, <2>3, <2>5, <2>6
  <2> HIDE DEF sub
  <2>8. sub = c
    BY <2>7, SeqEqual
  <2> QED
    BY <2>8 DEF sub
<1>18. ReadNumber(e, i, Body(e, env)) = NumberOf(2, SubSeq(body, m, n))
  BY <1>6, <1>12 DEF ReadNumber, body, off, size, end, sizes
<1>19. NumberOf(2, c) = num(i)
  <2>1. c = DigitsTo(2, num(i), size) /\ num(i) < Powers(2)[size] /\ num(i) \in Nat
    BY <1>1, <1>2, <1>4, <1>5 DEF c, size, TwoTo, num
  <2>2. PICK v \in Nat : v = num(i)
    BY <2>1
  <2>3. 2 \in Nat \ {0} /\ v < Powers(2)[size]
    BY <2>1, <2>2
  <2>4. NumberOf(2, DigitsTo(2, v, size)) = v
    BY <1>15, <2>3, DigitsToAre, Zenon
  <2> QED
    BY <2>1, <2>2, <2>4
<1> QED
  BY <1>17, <1>18, <1>19 DEF num

(* The public values that are read back are those that were written, and the   *)
(* constraints find nothing else in them.                                      *)
LEMMA ReadBackIs ==
  ASSUME NEW e, IsEntry(e), Conforms(e), ParamErrors(e) = {}, PayloadBits(e.params) <= BODY,
         NEW env \in RandomValues(e)
  PROVE  /\ Readable(e, Body(e, env))
         /\ \A i \in Publics(e) : e.params[i].name \in DOMAIN ReadBack(e, Body(e, env))
         /\ \A n \in DOMAIN ReadBack(e, Body(e, env)) :
              n \in DOMAIN env /\ ReadBack(e, Body(e, env))[n] = env[n]
<1> DEFINE body == Body(e, env)
           names == {e.params[i].name : i \in Publics(e)}
           last(n) == Max({j \in Publics(e) : e.params[j].name = n})
           back == [n \in names |-> CHOOSE v \in Read(e, last(n), body) : TRUE]
<1>1. /\ Len(e.params) \in Nat /\ DOMAIN e.params = 1..Len(e.params)
      /\ Publics(e) \subseteq 1..Len(e.params)
  BY EntryParts DEF Publics
<1>2. ASSUME NEW i \in Publics(e)
      PROVE  /\ e.params[i].name \in DOMAIN env
             /\ Read(e, i, body) = {env[e.params[i].name]}
  <2> DEFINE p == e.params[i]
             v == env[p.name]
  <2>1. IsParam(p) /\ p.type \in Types
    BY <1>1, EntryParts DEF Conforms, FitsSchema
  <2>2. p.name \in Names(e) /\ ParamOf(e, p.name) = p
    BY <1>1, NamesDistinct
  <2>3. p.name \in DOMAIN env /\ v \in Whole(p)
    BY <2>2, RandomValuesAre
  <2>4. ReadNumber(e, i, body) = Number(p, v)
    BY NumberReadBack
  <2>5. Read(e, i, body) = {w \in Whole(p) : Number(p, w) = Number(p, v)}
    BY <2>4 DEF Read
  <2> HIDE DEF p, v
  <2>6. \A w \in Whole(p) : Number(p, w) = Number(p, v) => w = v
    BY <2>1, <2>3, NumberIsOwn
  <2> QED
    BY <2>3, <2>5, <2>6 DEF p, v
<1>3. ASSUME NEW i \in Publics(e) PROVE last(e.params[i].name) = i
  <2> DEFINE S == {j \in Publics(e) : e.params[j].name = e.params[i].name}
  <2>1. S = {i}
    BY <1>1, NamesDistinct
  <2>2. i \in Int
    BY <1>1
  <2> HIDE DEF S
  <2>3. S \subseteq Int /\ S # {} /\ \E b \in Int : \A n \in S : n <= b
    BY <2>1, <2>2
  <2>4. Max(S) \in S
    BY <2>3, GreatestIs
  <2> QED
    BY <2>1, <2>4 DEF S
<1>4. ReadBack(e, body) = back
  BY Zenon DEF ReadBack
<1> HIDE DEF last, body
<1>5. DOMAIN back = names
  OBVIOUS
<1>6. ASSUME NEW n \in names PROVE n \in DOMAIN env /\ back[n] = env[n]
  <2>1. PICK i \in Publics(e) : n = e.params[i].name
    BY <1>6
  <2>2. back[n] = CHOOSE v \in Read(e, i, body) : TRUE
    BY <1>3, <2>1
  <2>3. \A x : (CHOOSE v \in {x} : TRUE) = x
    OBVIOUS
  <2> HIDE DEF back, names
  <2> QED
    BY <1>2, <2>1, <2>2, <2>3
<1>7. \A i \in Publics(e) : e.params[i].name \in names
  OBVIOUS
<1> HIDE DEF back, names
<1>8. Readable(e, body)
  BY <1>2 DEF Readable
<1> QED
  BY <1>4, <1>5, <1>6, <1>7, <1>8 DEF body

(* A constraint that holds of values holds of some of them.                    *)
LEMMA VerdictBack ==
  ASSUME NEW c, IsConstraint(c), NEW env, NEW back, Verdict(c, env) = "ok",
         \A n \in DOMAIN back : n \in DOMAIN env /\ back[n] = env[n]
  PROVE  Verdict(c, back) = "ok"
<1>1. ~IsBad(c.expr)
  BY DEF Verdict, Judgement
<1>2. CASE ~(FreeNames(c.expr) \subseteq DOMAIN back)
  BY <1>1, <1>2 DEF Verdict, Judgement
<1>3. CASE FreeNames(c.expr) \subseteq DOMAIN back
  <2>1. FreeNames(c.expr) \subseteq DOMAIN env
    BY <1>3
  <2>2. Eval(c.expr, env) = Eval(c.expr, back)
    <3>1. IsExpr(c.expr)
      BY DEF IsConstraint
    <3> QED
      BY <1>3, <3>1, SameValues
  <2>3. Verdict(c, env) = Verdict(c, back)
    BY <1>1, <1>3, <2>1, <2>2 DEF Verdict, Judgement
  <2> QED
    BY <2>3
<1> QED
  BY <1>2, <1>3

(* An entry that fits, and that a corpus finds under its id, comes back from a *)
(* ciphertext with every value the sampler may have given it.                  *)
LEMMA ComesBack ==
  ASSUME NEW e, IsEntry(e), Conforms(e), ParamErrors(e) = {}, PayloadBits(e.params) <= BODY,
         e.status # "retired", NEW corpus, e \in corpus, \A f \in corpus : f.id = e.id => f = e,
         NEW s \in Sample(e), s.kind = "values"
  PROVE  RoundTrips(e, s.env, corpus)
<1> DEFINE env == s.env
           back == ReadBack(e, Body(e, env))
<1>1. env \in RandomValues(e) /\ CheckAll(e.constraints, env) = "ok"
  BY SampleIs
<1>2. /\ Readable(e, Body(e, env))
      /\ \A i \in Publics(e) : e.params[i].name \in DOMAIN back
      /\ \A n \in DOMAIN back : n \in DOMAIN env /\ back[n] = env[n]
  BY <1>1, ReadBackIs
<1> HIDE DEF back, env
<1>3. CheckAll(e.constraints, back) = "ok"
  <2>1. \A i \in DOMAIN e.constraints : Verdict(e.constraints[i], env) = "ok"
    BY <1>1, CheckAllIs
  <2>2. \A i \in DOMAIN e.constraints : IsConstraint(e.constraints[i])
    BY EntryParts
  <2>3. \A i \in DOMAIN e.constraints : Verdict(e.constraints[i], back) = "ok"
    BY <1>2, <2>1, <2>2, VerdictBack
  <2> QED
    BY <2>3, CheckAllIs
<1>4. Lookup(corpus, e.id) = e /\ e.id \in Ids(corpus)
  BY DEF Lookup, Ids
<1>5. \A i \in Publics(e) : LET n == e.params[i].name IN n \in DOMAIN back /\ back[n] = env[n]
  BY <1>2
<1> QED
  BY <1>1, <1>2, <1>3, <1>4, <1>5 DEF RoundTrips, env, back

---------------------------------------------------------------------------------
(* What an exam passed.                                                        *)

(* An entry that may pass has passed the first two gates, and some values of   *)
(* it have come back.                                                          *)
LEMMA PassedIs ==
  ASSUME NEW e, IsEntry(e), NEW real, NEW corpus, "passed" \in Outcomes(e, real, corpus)
  PROVE  /\ Conforms(e) /\ ParamErrors(e) = {} /\ e.id \notin Ids(real)
         /\ e.status # "retired" /\ PayloadBits(e.params) <= BODY /\ e.id \in Ids(corpus)
<1> DEFINE R(s) == CASE s.kind = "raises"  -> "raises"
                     [] s.kind = "gave up" -> "samplable"
                     [] s.kind = "values"  -> IF RoundTrips(e, s.env, corpus) THEN "passed"
                                              ELSE "round-trip"
<1>1. /\ Conforms(e) /\ Gate2(e, real)
      /\ "passed" \in {R(s) : s \in Sample(e)}
  <2>1. "passed" \in IF e.shape = "unreadable" THEN {"raises"}
                     ELSE IF ~Conforms(e) THEN {"schema"}
                     ELSE IF ~Gate2(e, real) THEN {"semantics"}
                     ELSE {R(s) : s \in Sample(e)}
    BY Zenon DEF Outcomes
  <2> HIDE DEF R
  <2> QED
    BY <2>1
<1> HIDE DEF R
<1>2. PICK s \in Sample(e) : R(s) = "passed"
  BY <1>1
<1>3. s.kind \in {"raises", "gave up", "values"}
  BY SampleIs
<1>4. RoundTrips(e, s.env, corpus)
  BY <1>2, <1>3 DEF R
<1> QED
  BY <1>1, <1>4 DEF Gate2, RoundTrips

(* What is to be shown of a verdict.                                           *)
Together(r) ==
  LET joined == r.real \cup r.passed
  IN  r.passed # {} =>
        /\ Accepted(joined)
        /\ Ids(r.real) \cap Ids(r.passed) = {}
        /\ \A e \in r.passed : \A s \in Sample(e) :
             s.kind = "values" => RoundTrips(e, s.env, joined)
LEMMA TogetherIs == PassedGoTogether <=> Together(report)
BY DEF PassedGoTogether, Together

(* The corpus that an entry was decoded with has it only if no other has its   *)
(* id, and then has whatever else passed.                                      *)
LEMMA VerdictTogether ==
  ASSUME NEW real, NEW files, \A e \in files : IsEntry(e), NEW r \in Verdicts(real, files)
  PROVE  Together(r)
<1> DEFINE corpus == Combined(real, files)
           entries == {e \in files : e.shape \in {"whole", "odd"}}
           joined == r.real \cup r.passed
<1>1. r \in Judged(real, EndsOf(files, real, corpus), ControlClean(real), ControlBroken(real))
  BY DEF Verdicts
<1> HIDE DEF corpus
<1> SUFFICES ASSUME r.passed # {}
             PROVE  /\ Accepted(joined)
                    /\ Ids(r.real) \cap Ids(r.passed) = {}
                    /\ \A e \in r.passed : \A s \in Sample(e) :
                         s.kind = "values" => RoundTrips(e, s.env, joined)
  BY DEF Together
<1>2. /\ r.real = real
      /\ \A e \in r.passed : \E f \in EndsOf(files, real, corpus) :
           f.entry = e /\ "passed" \in f.ends
  BY <1>1, JudgedIs
<1>3. ASSUME NEW e \in r.passed
      PROVE  /\ e \in files /\ IsEntry(e) /\ Conforms(e) /\ ParamErrors(e) = {}
             /\ e.id \notin Ids(real) /\ e.status # "retired"
             /\ PayloadBits(e.params) <= BODY /\ e.id \in Ids(corpus)
  <2>1. e \in files /\ "passed" \in Outcomes(e, real, corpus)
    BY <1>2 DEF EndsOf
  <2>2. IsEntry(e)
    BY <2>1
  <2> QED
    BY <2>1, <2>2, PassedIs
<1>4. /\ Accepted(real \cup entries) /\ Ids(real) \cap Ids(entries) = {}
      /\ r.passed \subseteq entries
  <2>1. corpus # real
    BY <1>3
  <2>2. Accepted(real \cup entries) /\ Ids(real) \cap Ids(entries) = {}
    BY <2>1 DEF Combined, corpus
  <2>3. \A e \in r.passed : e \in files /\ e.shape = "whole"
    BY <1>3 DEF Conforms, FitsSchema
  <2> QED
    BY <2>2, <2>3
<1> HIDE DEF entries
<1>5. joined \subseteq real \cup entries
  BY <1>2, <1>4
<1>6. Accepted(joined)
  BY <1>4, <1>5 DEF Accepted, Ids
<1>7. Ids(r.real) \cap Ids(r.passed) = {}
  BY <1>2, <1>4 DEF Ids
<1>8. ASSUME NEW e \in r.passed, NEW s \in Sample(e), s.kind = "values"
      PROVE  RoundTrips(e, s.env, joined)
  <2>1. e \in joined /\ \A f \in joined : f.id = e.id => f = e
    BY <1>6 DEF Accepted
  <2> HIDE DEF joined
  <2> QED
    BY <1>3, <1>8, <2>1, ComesBack
<1> QED
  BY <1>6, <1>7, <1>8

(* Only an exam changes the verdict.                                           *)
LEMMA StepTogether == TypeOK /\ PassedGoTogether /\ [Next]_vars => PassedGoTogether'
<1> SUFFICES ASSUME TypeOK, Together(report), [Next]_vars PROVE Together(report')
  BY TogetherIs DEF Together, PassedGoTogether
<1>1. CASE Exam
  <2>1. report' \in Verdicts(formulas, candidates)
    BY <1>1 DEF Exam
  <2>2. \A e \in candidates : IsEntry(e)
    BY DEF TypeOK
  <2> QED
    BY <2>1, <2>2, VerdictTogether
<1>2. CASE UNCHANGED report
  BY <1>2
<1>3. Exam \/ UNCHANGED report
  BY DEF Next, vars, Start, Try, Crash, LoopEnds, Write, Finish, Die, Promote, WriteByHand
<1> QED
  BY <1>1, <1>2, <1>3

---------------------------------------------------------------------------------
(* What always holds, for every corpus to begin with and every draft.          *)

(* The type invariant: files are entries, a run makes no more of them than it  *)
(* was asked for, and a report has the verdict that goes with what passed.     *)
THEOREM TypesKept == Spec => []TypeOK
<1>1. TypeOK /\ MadeAreCandidates => TypeOK
  OBVIOUS
<1> QED
  BY <1>1, AlwaysTyped, PTL

(* What the generator makes of a corpus that validates is refused only for its *)
(* constraints, for its size in a body, for a slug or a name the schema does   *)
(* not admit, or for a warning that a derivative has from its parent: the ids  *)
(* are free and distinct, references go backwards, widths are allowed, the     *)
(* ceiling is kept and constraints are over the entry's own parameters,        *)
(* whichever run is interrupted where.                                         *)
THEOREM MadeAreAlwaysCandidates == Spec => []MadeAreCandidates
<1>1. TypeOK /\ MadeAreCandidates => MadeAreCandidates
  OBVIOUS
<1> QED
  BY <1>1, AlwaysTyped, PTL

(* The bounds that the sampler reads off the constraints exclude no values     *)
(* that the constraints admit, for any entry whose parameters and names are in *)
(* order, among the formulas and among the candidates.                         *)
THEOREM BoundsAlwaysLoseNothing == Spec => []BoundsLoseNothing
  BY TypesKept, BoundsLoseNothingNow, PTL

(* A corpus that the validator calls clean is one that can be loaded and       *)
(* written from, and of an entry whose constraints calculate with numbers only *)
(* the sampler gives values or raises a SamplingError.                         *)
THEOREM CleanIsAlwaysUsable == Spec => []CleanIsUsable
  BY TypesKept, CleanIsUsableNow, PTL

(* The positive control of the exam judges the exam and not the corpus: it is  *)
(* satisfied for every corpus that leaves the ids it needs, and for no other.  *)
THEOREM ControlAlwaysWorks == Spec => []ControlWorks
  BY ControlWorksAlways, PTL

(* What an exam passed can go into the corpus it was examined beside, all of   *)
(* it together, and whatever values the sampler finds for an entry come back   *)
(* from its ciphertext, whatever the entries and whoever writes files between. *)
THEOREM PassedAlwaysGoTogether == Spec => []PassedGoTogether
<1>1. Init => PassedGoTogether
  BY DEF Init, NoReport, PassedGoTogether
<1>2. TypeOK /\ PassedGoTogether /\ [Next]_vars => PassedGoTogether'
  BY StepTogether
<1> QED
  BY <1>1, <1>2, TypesKept, PTL DEF Spec

=================================================================================
