------------------------------ MODULE MCAuthoring -------------------------------
(* Ids of four bits in blocks of four, bodies of four bits, and a payload      *)
(* ceiling one bit above them.  The corpus has a field with an equality and a  *)
(* number with a bound; blocks have one id left, or one and that of a sabotage.*)
EXTENDS Authoring

P(name, type, bits, mod) ==
  [name |-> name, type |-> type, bits |-> bits, mod |-> mod, curve |-> type = "point",
   public |-> TRUE, choices |-> 0]
C(expr) == [expr |-> expr, warning |-> FALSE]
Numbers == "modular-arithmetic"
E(id, word, domain, params, constraints) ==
  [id |-> id, slug |-> <<word>>, name |-> <<word>>, domain |-> domain, status |-> "active",
   shape |-> "whole", params |-> params, constraints |-> constraints]

Field  == E(4, "field", "fields",
            <<P("p", "prime", 2, {}), P("a", "field_element", 2, {"p"})>>,
            <<C(Compare(Bin("+", Var("a"), Var("p")), "==", Num(3)))>>)
Amount == E(8, "amount", Numbers, <<P("n", "uint", 2, {})>>,
            <<C(Compare(Var("n"), "<=", Num(2)))>>)
MCOriginals == {Field, Amount}
MCBlocked == {6, 7, 9, 10, 14, 15}

(* Files people write: the id of another entry and the reserved one; an        *)
(* expression nobody can read; a point, joined and repeated, for which there   *)
(* may be no room; a slug twice, with a secret; nothing but a domain that      *)
(* makes no good slug.                                                         *)
N == P("n", "uint", 2, {})
MCDrafts ==
  {E(8, "again", Numbers, <<N>>, <<>>),
   E(15, "reserved", Numbers, <<N>>, <<>>),
   E(12, "unread", Numbers, <<N>>, <<C(Bad)>>),
   E(12, "curve", "curves", <<P("q", "point", 1, {}), P("n", "uint", 1, {})>>,
     <<C(Compare(Bin("+", Var("q"), Var("q")), ">=",
                 Bin("*", Var("q"), Bin("*", Num(4), Var("n")))))>>),
   E(13, "puzzle", "Puzzles", <<>>, <<>>),
   E(11, "amount", Numbers, <<N, [P("k", "uint", 1, {}) EXCEPT !.public = FALSE]>>,
     <<C(Compare(Var("k"), "<", Var("n")))>>)}

(* One entry for each thing sabotage_entries() breaks.                         *)
MCSabotage ==
  {[gate |-> "schema", entry |-> E(13, "kind", Numbers, <<P("x", "quantum", 2, {})>>, <<>>)],
   [gate |-> "semantics", entry |-> E(9, "blocked", Numbers, <<P("x", "uint", 2, {})>>, <<>>)],
   [gate |-> "semantics", entry |-> E(13, "forward", Numbers,
      <<P("a", "field_element", 2, {"p"}), P("p", "prime", 2, {})>>, <<>>)],
   [gate |-> "semantics", entry |-> E(13, "wide", Numbers,
      <<P("x", "uint", 4, {}), P("y", "uint", 4, {})>>, <<>>)],
   [gate |-> "samplable", entry |-> E(11, "contradiction", Numbers, <<P("x", "uint", 2, {})>>,
      <<C(Compare(Var("x"), ">", Num(2))), C(Compare(Var("x"), "<", Num(1)))>>)]}

MCSlots == <<"X", "Y", "Z">>

=================================================================================
