----------------------------- MODULE NetworkProofs ------------------------------
(* Theorems about networks: who can derive what, for every set of objects,     *)
(* labels and members, and what the calendar promises ends whose clocks differ,*)
(* for every length of an epoch; and what the canary of crypto/canary.py       *)
(* promises a group, for every list of members, every seed, every number of    *)
(* rounds and every way two traitors may leak.                                 *)
EXTENDS Network, Canary, LayoutProofs

---------------------------------------------------------------------------------
(* The calendar.                                                               *)

(* An epoch begins at a multiple of its length and lasts that long.            *)
LEMMA EpochIs ==
  ASSUME NEW d \in Nat, NEW n \in Nat \ {0}
  PROVE  /\ EpochNumber(d, n) \in Nat
         /\ n * EpochNumber(d, n) <= d
         /\ d < n * EpochNumber(d, n) + n
BY Quotient DEF EpochNumber

(* Of two clocks apart by no more than an epoch, the one behind is in the      *)
(* epoch of the other or in the one before.                                    *)
LEMMA BehindIs ==
  ASSUME NEW behind \in Nat, NEW ahead \in Nat, NEW n \in Nat \ {0},
         behind <= ahead, ahead - behind <= n
  PROVE  EpochNumber(behind, n) \in
           {EpochNumber(ahead, n), EpochNumber(ahead, n) - 1}
<1> DEFINE p == EpochNumber(behind, n)
           q == EpochNumber(ahead, n)
<1>1. /\ p \in Nat /\ n * p <= behind /\ behind < n * p + n
      /\ q \in Nat /\ n * q <= ahead /\ ahead < n * q + n
  BY EpochIs
<1> HIDE DEF p, q
<1>2. p < q + 1
  <2> SUFFICES ASSUME p >= q + 1 PROVE FALSE
    BY <1>1
  <2>1. n * p >= n * (q + 1)
    BY <1>1, SMT
  <2> QED
    BY <1>1, <2>1, SMT
<1>3. q < p + 2
  <2> SUFFICES ASSUME q >= p + 2 PROVE FALSE
    BY <1>1
  <2>1. n * q >= n * (p + 2)
    BY <1>1, SMT
  <2> QED
    BY <1>1, <2>1, SMT
<1>4. p \in {q, q - 1}
  BY <1>1, <1>2, <1>3
<1> QED
  BY <1>4 DEF p, q

(* Clocks apart by no more than an epoch: the sender's epoch is the receiver's *)
(* or a neighbour of it, the previous one for a receiver whose clock is ahead  *)
(* and the next one for a receiver who is behind.                              *)
(* The docstring of epoch_number leaves this to the caller and names only the  *)
(* previous epoch; a receiver who is one day behind at a boundary does not     *)
(* meet the sender there, whatever the length of an epoch.                     *)
THEOREM NeighboursAreEnough ==
  ASSUME NEW n \in Nat \ {0}
  PROVE  /\ \A sender, receiver \in Nat :
              LET q == EpochNumber(receiver, n) IN
                /\ sender <= receiver /\ receiver - sender <= n
                     => EpochNumber(sender, n) \in {q - 1, q}
                /\ receiver <= sender /\ sender - receiver <= n
                     => EpochNumber(sender, n) \in {q, q + 1}
         /\ \E receiver \in Nat :
              LET q == EpochNumber(receiver, n) IN
                EpochNumber(receiver + 1, n) \notin {q - 1, q}
<1>1. ASSUME NEW sender \in Nat, NEW receiver \in Nat, sender <= receiver,
             receiver - sender <= n
      PROVE  EpochNumber(sender, n) \in
               {EpochNumber(receiver, n) - 1, EpochNumber(receiver, n)}
  BY <1>1, BehindIs
<1>2. ASSUME NEW sender \in Nat, NEW receiver \in Nat, receiver <= sender,
             sender - receiver <= n
      PROVE  EpochNumber(sender, n) \in
               {EpochNumber(receiver, n), EpochNumber(receiver, n) + 1}
  <2>1. EpochNumber(receiver, n) \in {EpochNumber(sender, n), EpochNumber(sender, n) - 1}
    BY <1>2, BehindIs
  <2>2. EpochNumber(sender, n) \in Nat /\ EpochNumber(receiver, n) \in Nat
    BY EpochIs
  <2> QED
    BY <2>1, <2>2
<1>3. EpochNumber(n, n) \notin {EpochNumber(n - 1, n) - 1, EpochNumber(n - 1, n)}
  <2> DEFINE p == EpochNumber(n - 1, n)
             q == EpochNumber(n, n)
  <2>1. /\ p \in Nat /\ n * p <= n - 1
        /\ q \in Nat /\ n < n * q + n
    <3>1. n - 1 \in Nat /\ n \in Nat
      OBVIOUS
    <3> QED
      BY <3>1, EpochIs
  <2> HIDE DEF p, q
  <2>2. p = 0
    <3> SUFFICES ASSUME p >= 1 PROVE FALSE
      BY <2>1
    <3>1. n * p >= n * 1
      BY SMT, <2>1
    <3> QED
      BY <2>1, <3>1
  <2>3. q # 0
    <3> SUFFICES ASSUME q = 0 PROVE FALSE
      OBVIOUS
    <3>1. n * q = 0
      BY SMT
    <3> QED
      BY <2>1, <3>1
  <2> QED
    BY <2>1, <2>2, <2>3 DEF p, q
<1>4. n - 1 \in Nat /\ (n - 1) + 1 = n
  OBVIOUS
<1> QED
  BY <1>1, <1>2, <1>3, <1>4

---------------------------------------------------------------------------------
(* Roots.                                                                      *)

Infos == {"epoch", "child", "descriptor"}
Salts == Labels \cup {0} \cup {EpochNumber(d, DaysPerEpoch) : d \in Days}
Roots == [draw : 0..(MaxDraws - 1), size : Sizes \cup {"exact"},
          path : Seq(Infos \X Salts)]

(* A step of the kind that makes children.                                     *)
HasChild(r) == \E i \in 1..Len(r.path) : r.path[i][1] = "child"

LEMMA DrawnType ==
  ASSUME NEW k \in 0..(MaxDraws - 1), NEW size \in Sizes \cup {"exact"}
  PROVE  /\ Drawn(k, size) \in Roots /\ Drawn(k, size).draw = k
         /\ Drawn(k, size).path = << >> /\ ~HasChild(Drawn(k, size))
<1>1. << >> \in Seq(Infos \X Salts) /\ Len(<< >>) = 0
  BY EmptySeq
<1> QED
  BY <1>1 DEF Drawn, Roots, HasChild

LEMMA DerivedIs ==
  ASSUME NEW r \in Roots, NEW info, NEW label
  PROVE  Derived(r, info, label) =
           [draw |-> r.draw, size |-> "exact", path |-> Append(r.path, <<info, label>>)]
<1> DEFINE p == Append(r.path, <<info, label>>)
           q == [r EXCEPT !.path = p]
<1>1. r = [draw |-> r.draw, size |-> r.size, path |-> r.path]
  BY DEF Roots
<1>2. q = [draw |-> r.draw, size |-> r.size, path |-> p]
  <2> HIDE DEF p
  <2> QED
    BY <1>1
<1>3. [q EXCEPT !.size = "exact"] = [draw |-> r.draw, size |-> "exact", path |-> p]
  <2> HIDE DEF p, q
  <2> QED
    BY <1>2
<1> QED
  BY <1>3 DEF Derived

LEMMA DerivedType ==
  ASSUME NEW r \in Roots, NEW info \in Infos, NEW label \in Salts
  PROVE  /\ Derived(r, info, label) \in Roots
         /\ Derived(r, info, label).draw = r.draw
         /\ Derived(r, info, label).size = "exact"
         /\ Derived(r, info, label).path = Append(r.path, <<info, label>>)
         /\ Derived(r, info, label).path # << >>
         /\ HasChild(Derived(r, info, label)) <=> HasChild(r) \/ info = "child"
<1> DEFINE p == Append(r.path, <<info, label>>)
<1>1. r.path \in Seq(Infos \X Salts) /\ <<info, label>> \in Infos \X Salts
  BY DEF Roots
<1>2. /\ p \in Seq(Infos \X Salts) /\ Len(p) = Len(r.path) + 1 /\ Len(r.path) \in Nat
      /\ \A i \in 1..Len(r.path) : p[i] = r.path[i]
      /\ p[Len(r.path) + 1] = <<info, label>>
  BY <1>1, AppendProperties
<1>3. p # << >>
  <2>1. Len(<< >>) = 0
    BY EmptySeq
  <2> QED
    BY <1>2, <2>1
<1>4. Derived(r, info, label) = [draw |-> r.draw, size |-> "exact", path |-> p]
  BY DerivedIs
<1> HIDE DEF p
<1>5. (\E i \in 1..Len(p) : p[i][1] = "child") <=> HasChild(r) \/ info = "child"
  BY <1>2, SMTT(30) DEF HasChild
<1> QED
  BY <1>2, <1>3, <1>4, <1>5 DEF HasChild, Roots, p

(* IsPrefix, element by element.                                               *)
LEMMA PrefixIs ==
  ASSUME NEW S, NEW s \in Seq(S), NEW t \in Seq(S)
  PROVE  IsPrefix(s, t) <=> /\ Len(s) <= Len(t)
                            /\ \A i \in 1..Len(s) : s[i] = t[i]
<1>1. Len(s) \in Nat /\ Len(t) \in Nat
  BY LenProperties
<1>2. SubSeq(s, 1, Len(s)) = s
  BY SubSeqFull
<1>3. ASSUME Len(s) <= Len(t)
      PROVE  SubSeq(t, 1, Len(s)) = s <=> \A i \in 1..Len(s) : s[i] = t[i]
  <2>1. \A i \in 1..Len(s) : t[i] \in S
    BY <1>1, <1>3, ElementOfSeq
  <2>2. /\ SubSeq(t, 1, Len(s)) \in Seq(S)
        /\ Len(SubSeq(t, 1, Len(s))) = Len(s)
        /\ \A i \in 1..Len(s) : SubSeq(t, 1, Len(s))[i] = t[i]
    <3>1. /\ SubSeq(t, 1, Len(s)) \in Seq(S)
          /\ Len(SubSeq(t, 1, Len(s))) = IF 1 <= Len(s) THEN Len(s) - 1 + 1 ELSE 0
          /\ \A i \in 1..(Len(s) - 1 + 1) : SubSeq(t, 1, Len(s))[i] = t[1 + i - 1]
      BY <1>1, <2>1, SubSeqProperties
    <3> QED
      BY <1>1, <3>1
  <2>3. (\A i \in 1..Len(s) : s[i] = t[i]) => SubSeq(t, 1, Len(s)) = s
    BY <2>2, SeqEqual
  <2> QED
    BY <2>2, <2>3
<1> QED
  BY <1>1, <1>2, <1>3 DEF IsPrefix

(* Prefixes: of itself, of what is one longer, and between them.               *)
LEMMA PrefixFacts ==
  ASSUME NEW S, NEW s \in Seq(S), NEW t \in Seq(S), NEW u \in Seq(S), NEW e \in S
  PROVE  /\ IsPrefix(s, s)
         /\ IsPrefix(s, Append(s, e))
         /\ IsPrefix(s, Append(t, e)) <=> IsPrefix(s, t) \/ s = Append(t, e)
         /\ IsPrefix(s, t) /\ IsPrefix(t, u) => IsPrefix(s, u)
         /\ IsPrefix(Append(s, e), t) => Len(s) < Len(t) /\ t[Len(s) + 1] = e
<1> DEFINE se == Append(s, e)
           te == Append(t, e)
<1>1. /\ se \in Seq(S) /\ Len(se) = Len(s) + 1
      /\ \A i \in 1..Len(s) : se[i] = s[i]
      /\ se[Len(s) + 1] = e
  BY AppendProperties
<1>2. /\ te \in Seq(S) /\ Len(te) = Len(t) + 1
      /\ \A i \in 1..Len(t) : te[i] = t[i]
      /\ te[Len(t) + 1] = e
  BY AppendProperties
<1> HIDE DEF se, te
<1>3. Len(s) \in Nat /\ Len(t) \in Nat /\ Len(u) \in Nat
  BY LenProperties
<1>0. \A a, b \in Seq(S) : IsPrefix(a, b) <=> /\ Len(a) <= Len(b)
                                              /\ \A i \in 1..Len(a) : a[i] = b[i]
  BY PrefixIs
<1>4. IsPrefix(s, s) /\ IsPrefix(s, se)
  BY <1>1, <1>3, <1>0
<1>5. IsPrefix(s, te) => IsPrefix(s, t) \/ s = te
  <2> SUFFICES ASSUME IsPrefix(s, te) PROVE IsPrefix(s, t) \/ s = te
    OBVIOUS
  <2>1. Len(s) <= Len(t) + 1 /\ \A i \in 1..Len(s) : s[i] = te[i]
    BY <1>2, <1>0
  <2>2. CASE Len(s) = Len(t) + 1
    BY <1>2, <2>1, <2>2, SeqEqual
  <2>3. CASE Len(s) <= Len(t)
    <3>1. \A i \in 1..Len(s) : s[i] = t[i]
      BY <1>2, <1>3, <2>1, <2>3
    <3> QED
      BY <2>3, <3>1, <1>0
  <2> QED
    BY <1>3, <2>1, <2>2, <2>3
<1>6. IsPrefix(s, t) \/ s = te => IsPrefix(s, te)
  <2>1. IsPrefix(s, t) => IsPrefix(s, te)
    <3> SUFFICES ASSUME IsPrefix(s, t) PROVE IsPrefix(s, te)
      OBVIOUS
    <3>1. Len(s) <= Len(t) /\ \A i \in 1..Len(s) : s[i] = t[i]
      BY <1>0
    <3>2. Len(s) <= Len(t) + 1 /\ \A i \in 1..Len(s) : s[i] = te[i]
      BY <1>2, <1>3, <3>1
    <3> QED
      BY <1>2, <3>2, <1>0
  <2>2. s = te => IsPrefix(s, te)
    BY <1>3, <1>2, <1>0
  <2> QED
    BY <2>1, <2>2
<1>7. IsPrefix(s, t) /\ IsPrefix(t, u) => IsPrefix(s, u)
  BY <1>3, <1>0
<1>8. IsPrefix(se, t) => Len(s) < Len(t) /\ t[Len(s) + 1] = e
  BY <1>1, <1>3, <1>0
<1> QED
  BY <1>4, <1>5, <1>6, <1>7, <1>8 DEF se, te

LEMMA ReachesChild ==
  ASSUME NEW r \in Roots, NEW t \in Roots, Reaches(r, t), HasChild(r)
  PROVE  HasChild(t)
<1>1. r.path \in Seq(Infos \X Salts) /\ t.path \in Seq(Infos \X Salts)
  BY DEF Roots
<1>2. /\ Len(r.path) <= Len(t.path) /\ Len(r.path) \in Nat /\ Len(t.path) \in Nat
      /\ \A i \in 1..Len(r.path) : r.path[i] = t.path[i]
  BY <1>1, PrefixIs, LenProperties DEF Reaches
<1> QED
  BY <1>2 DEF HasChild

LEMMA ReachesSelf ==
  ASSUME NEW r \in Roots
  PROVE  /\ Reaches(r, r)
         /\ \A info \in Infos, label \in Salts : Reaches(r, Derived(r, info, label))
<1>1. r.path \in Seq(Infos \X Salts)
  BY DEF Roots
<1>2. Reaches(r, r)
  BY <1>1, PrefixIs, LenProperties DEF Reaches
<1>3. ASSUME NEW info \in Infos, NEW label \in Salts
      PROVE  Reaches(r, Derived(r, info, label))
  <2>1. IsPrefix(r.path, Append(r.path, <<info, label>>))
    BY <1>1, PrefixFacts
  <2>2. /\ Derived(r, info, label).draw = r.draw
        /\ Derived(r, info, label).path = Append(r.path, <<info, label>>)
    BY DerivedType
  <2> QED
    BY <2>1, <2>2 DEF Reaches
<1> QED
  BY <1>2, <1>3

---------------------------------------------------------------------------------
(* The inductive invariant.                                                    *)

(* The roots that exist, in network objects, closed ones included, and in      *)
(* descriptors, each with its mode.                                            *)
Known == {[root |-> nets[n].root, mode |-> nets[n].mode] : n \in {o \in Objects : Exists(o)}}
           \cup {[root |-> d.root, mode |-> d.mode] : d \in exported}

(* Every root comes from a draw that was made, has the length of a derived     *)
(* secret once something was derived, and is not a child's when its network is *)
(* covert. Of one draw, all roots above the children are covert if one is.     *)
Sound(K, drawn) ==
  \A x \in K : /\ x.root \in Roots /\ x.mode \in Modes /\ x.root.draw < drawn
               /\ x.root.path # << >> => x.root.size = "exact"
               /\ x.mode = "COVERT" => ~HasChild(x.root)
Alike(K) ==
  \A x, y \in K : x.root.draw = y.root.draw =>
    /\ y.mode = "COVERT" => x.mode = "COVERT" \/ HasChild(x.root)
    /\ x.root.path = << >> /\ y.root.path = << >> => x.root.size = y.root.size

(* A covert parent's child is derived from it; an open parent's child is the   *)
(* only thing that its draw was made for.                                      *)
Honest(C, K, drawn) ==
  \A x \in C :
    /\ [root |-> x.parent, mode |-> x.mode] \in K
    /\ x.root \in Roots /\ x.root.size = "exact" /\ x.root.draw < drawn
    /\ x.label \in Labels /\ x.mode # "RESTRICTED"
    /\ x.mode = "COVERT" => x.root = Observed(x.parent, x.label)
    /\ x.mode # "COVERT" => /\ x.root.path = << <<"child", x.label>> >>
                            /\ \A k \in K : k.root.draw = x.root.draw => HasChild(k.root)

(* A descriptor is what export() makes of a root, and a covert one its owner's.*)
Backups(D, K) ==
  \A d \in D : /\ [root |-> d.from, mode |-> d.mode] \in K
               /\ d.root = Carried(d.from)
               /\ d.owner \/ d.mode # "COVERT"

Nets == [root : Roots, mode : Modes, open : BOOLEAN]

Tables == /\ authorised \in BOOLEAN /\ draws \in 0..MaxDraws /\ password \in Passwords
          /\ nets \in [Objects -> Nets \cup {None}]

IInv == /\ Tables
        /\ Sound(Known, draws) /\ Alike(Known)
        /\ Honest(children, Known, draws) /\ Backups(exported, Known)

LEMMA InitInvariant == Init => IInv
<1> SUFFICES ASSUME Init PROVE IInv
  OBVIOUS
<1>1. Known = {}
  BY DEF Init, Known, Exists
<1>2. Tables
  <2>1. draws \in 0..MaxDraws /\ password \in Passwords
    BY BoundsAssumption DEF Init, Passwords
  <2>3. authorised \in BOOLEAN
    BY Zenon DEF Init
  <2>2. nets \in [Objects -> Nets \cup {None}]
    BY DEF Init
  <2> QED
    BY <2>1, <2>2, <2>3 DEF Tables
<1> QED
  BY <1>1, <1>2 DEF Init, IInv, Sound, Alike, Honest, Backups

LEMMA NetIs ==
  ASSUME Tables, NEW n \in Objects
  PROVE  Exists(n) <=> nets[n] \in Nets
BY DEF Tables, Exists, Nets, None, Modes

(* What exists is sound.                                                       *)
LEMMA KnownNet ==
  ASSUME IInv, NEW n \in Objects, Exists(n)
  PROVE  /\ [root |-> nets[n].root, mode |-> nets[n].mode] \in Known
         /\ nets[n].root \in Roots /\ nets[n].mode \in Modes /\ nets[n].root.draw < draws
         /\ nets[n].root.path # << >> => nets[n].root.size = "exact"
         /\ nets[n].mode = "COVERT" => ~HasChild(nets[n].root)
<1>1. [root |-> nets[n].root, mode |-> nets[n].mode] \in Known
  BY DEF Known
<1> QED
  BY <1>1 DEF IInv, Sound

LEMMA HonestDraws ==
  ASSUME NEW C, NEW K, NEW drawn, Honest(C, K, drawn)
  PROVE  \A z \in C : z.root.draw \in Int /\ z.root.draw < drawn
<1>1. \A z \in C : z.root \in Roots /\ z.root.draw < drawn
  BY DEF Honest
<1>2. \A r \in Roots : r.draw \in Int
  BY DEF Roots
<1> QED
  BY <1>1, <1>2

(* One more root of a draw that was made, derived from a known one.            *)
LEMMA AddDerived ==
  ASSUME NEW K, NEW drawn, NEW C, NEW D, Sound(K, drawn), Alike(K),
         Honest(C, K, drawn), Backups(D, K),
         NEW y \in K, NEW info \in Infos, NEW label \in Salts, NEW mode,
         (info # "child" /\ mode = y.mode) \/ (info = "child" /\ mode = "OPEN"),
         NEW x, x = [root |-> Derived(y.root, info, label), mode |-> mode]
  PROVE  /\ Sound(K \cup {x}, drawn) /\ Alike(K \cup {x})
         /\ Honest(C, K \cup {x}, drawn) /\ Backups(D, K \cup {x})
<1>1. y.root \in Roots /\ y.mode \in Modes /\ y.root.draw < drawn
  BY DEF Sound
<1>2. /\ x.root \in Roots /\ x.root.draw = y.root.draw /\ x.root.size = "exact"
      /\ x.root.path # << >> /\ x.mode = mode
      /\ HasChild(x.root) <=> HasChild(y.root) \/ info = "child"
  BY <1>1, DerivedType
<1>3. Sound(K \cup {x}, drawn)
  BY <1>1, <1>2 DEF Sound, Modes
<1>4. Alike(K \cup {x})
  BY <1>2 DEF Alike, Sound
<1>5. Honest(C, K \cup {x}, drawn)
  BY <1>2 DEF Honest
<1>6. Backups(D, K \cup {x})
  BY DEF Backups
<1> QED
  BY <1>3, <1>4, <1>5, <1>6

(* One more root of a new draw: the draw itself, or an open child made of it.  *)
LEMMA AddDrawn ==
  ASSUME NEW K, NEW drawn \in Nat, NEW C, NEW D, Sound(K, drawn), Alike(K),
         Honest(C, K, drawn), Backups(D, K),
         NEW root \in Roots, root.draw = drawn, NEW mode \in Modes,
         \/ root.path = << >> /\ ~HasChild(root)
         \/ root.size = "exact" /\ HasChild(root) /\ mode # "COVERT",
         NEW x, x = [root |-> root, mode |-> mode]
  PROVE  /\ Sound(K \cup {x}, drawn + 1) /\ Alike(K \cup {x})
         /\ Honest(C, K \cup {x}, drawn + 1) /\ Backups(D, K \cup {x})
<1>1. x.root = root /\ x.mode = mode
  OBVIOUS
<1>2. \A y \in K : y.root.draw < drawn /\ y.root.draw \in Int
  BY DEF Sound, Roots
<1>3. Sound(K \cup {x}, drawn + 1)
  BY <1>1, <1>2 DEF Sound
<1>4. Alike(K \cup {x})
  <2>1. \A y \in K : y.root.draw # x.root.draw
    BY <1>1, <1>2
  <2> QED
    BY <1>1, <2>1 DEF Alike
<1>5. Honest(C, K \cup {x}, drawn + 1)
  <2>1. \A z \in C : z.root.draw \in Int /\ z.root.draw < drawn
    BY HonestDraws
  <2>2. \A z \in C : z.root.draw # x.root.draw /\ z.root.draw < drawn + 1
    BY <1>1, <2>1
  <2> QED
    BY <2>2 DEF Honest
<1>6. Backups(D, K \cup {x})
  BY DEF Backups
<1> QED
  BY <1>3, <1>4, <1>5, <1>6

(* What a new object adds to what is known.                                    *)
LEMMA BornAdds ==
  ASSUME Tables, NEW n \in Objects, ~Exists(n), NEW root \in Roots, NEW mode \in Modes,
         Born(n, root, mode), exported' = exported
  PROVE  /\ Known' = Known \cup {[root |-> root, mode |-> mode]}
         /\ nets' \in [Objects -> Nets \cup {None}]
<1>1. /\ nets'[n] = [root |-> root, mode |-> mode, open |-> TRUE]
      /\ \A m \in Objects \ {n} : nets'[m] = nets[m]
  BY DEF Born, Tables
<1>2. nets' \in [Objects -> Nets \cup {None}]
  BY DEF Born, Tables, Nets
<1>3. Exists(n)' /\ \A m \in Objects \ {n} : Exists(m)' <=> Exists(m)
  BY <1>1 DEF Exists, None, Modes
<1> QED
  BY <1>1, <1>2, <1>3 DEF Known

LEMMA CreateKeeps ==
  ASSUME IInv, NEW n \in Objects, NEW mode \in Modes, NEW size \in Sizes,
         NEW pw \in Passwords, Create(n, mode, size, pw)
  PROVE  IInv'
<1>1. draws \in 0..(MaxDraws - 1) /\ draws + 1 \in 0..MaxDraws /\ draws \in Nat
  BY BoundsAssumption DEF IInv, Tables, Create
<1>2. /\ Drawn(draws, size) \in Roots /\ Drawn(draws, size).draw = draws
      /\ Drawn(draws, size).path = << >> /\ ~HasChild(Drawn(draws, size))
  BY <1>1, DrawnType
<1>3. /\ Known' = Known \cup {[root |-> Drawn(draws, size), mode |-> mode]}
      /\ nets' \in [Objects -> Nets \cup {None}]
  BY <1>2, BornAdds DEF IInv, Create
<1>4. Tables'
  BY <1>1, <1>3 DEF IInv, Tables, Create
<1>5. /\ Sound(Known', draws + 1) /\ Alike(Known')
      /\ Honest(children, Known', draws + 1) /\ Backups(exported, Known')
  BY <1>1, <1>2, <1>3, AddDrawn DEF IInv
<1>6. draws' = draws + 1 /\ children' = children /\ exported' = exported
  BY DEF Create
<1> QED
  BY <1>4, <1>5, <1>6 DEF IInv, Sound, Alike, Honest, Backups

LEMMA FromDescriptorKeeps ==
  ASSUME IInv, NEW n \in Objects, NEW d \in exported, NEW pw \in Passwords,
         FromDescriptor(n, d, pw)
  PROVE  IInv'
<1>1. [root |-> d.root, mode |-> d.mode] \in Known
  BY DEF Known
<1>2. d.root \in Roots /\ d.mode \in Modes
  BY <1>1 DEF IInv, Sound
<1>3. Known' = Known /\ nets' \in [Objects -> Nets \cup {None}]
  BY <1>1, <1>2, BornAdds DEF IInv, FromDescriptor
<1> QED
  BY <1>3 DEF IInv, Tables, FromDescriptor, Sound, Alike, Honest, Backups

(* An object with a root derived from another object's.                        *)
LEMMA BornDerived ==
  ASSUME IInv, NEW n \in Objects, NEW m \in Objects, ~Exists(n), Exists(m),
         NEW info \in Infos, NEW label \in Salts, NEW mode,
         \/ info # "child" /\ mode = nets[m].mode
         \/ info = "child" /\ mode = "OPEN",
         Born(n, Derived(nets[m].root, info, label), mode), exported' = exported
  PROVE  /\ nets' \in [Objects -> Nets \cup {None}]
         /\ Known' = Known \cup {[root |-> Derived(nets[m].root, info, label), mode |-> mode]}
         /\ Sound(Known', draws) /\ Alike(Known')
         /\ Honest(children, Known', draws) /\ Backups(exported, Known')
<1> DEFINE y == [root |-> nets[m].root, mode |-> nets[m].mode]
<1>1. y \in Known /\ y.root = nets[m].root /\ y.mode = nets[m].mode
  BY KnownNet
<1>2. nets[m].root \in Roots /\ mode \in Modes
  BY KnownNet DEF Modes
<1>3. Derived(nets[m].root, info, label) \in Roots
  BY <1>2, DerivedType
<1>4. /\ nets' \in [Objects -> Nets \cup {None}]
      /\ Known' = Known \cup {[root |-> Derived(nets[m].root, info, label), mode |-> mode]}
  BY <1>2, <1>3, BornAdds DEF IInv
<1> HIDE DEF y
<1>5. /\ Sound(Known, draws) /\ Alike(Known)
      /\ Honest(children, Known, draws) /\ Backups(exported, Known)
  BY DEF IInv
<1>6. \A x : x = [root |-> Derived(y.root, info, label), mode |-> mode] =>
        /\ Sound(Known \cup {x}, draws) /\ Alike(Known \cup {x})
        /\ Honest(children, Known \cup {x}, draws) /\ Backups(exported, Known \cup {x})
  BY <1>1, <1>5, AddDerived
<1> QED
  BY <1>1, <1>4, <1>6

LEMMA EpochKeeps ==
  ASSUME IInv, NEW n \in Objects, NEW m \in Objects, NEW day \in Days,
         Epoch(n, m, EpochNumber(day, DaysPerEpoch))
  PROVE  IInv'
<1>1. Exists(m) /\ EpochNumber(day, DaysPerEpoch) \in Salts
  BY DEF Epoch, IsOpen, Salts
<1>2. /\ nets' \in [Objects -> Nets \cup {None}]
      /\ Sound(Known', draws) /\ Alike(Known')
      /\ Honest(children, Known', draws) /\ Backups(exported, Known')
  BY <1>1, BornDerived DEF Epoch, Infos
<1> QED
  BY <1>2 DEF IInv, Tables, Epoch, Passwords, Sound, Alike, Honest, Backups

LEMMA ObserveKeeps ==
  ASSUME IInv, NEW n \in Objects, NEW m \in Objects, NEW label \in Labels,
         Observe(n, m, label)
  PROVE  IInv'
<1>1. Exists(m) /\ label \in Salts
  BY DEF Observe, IsOpen, Salts
<1>2. /\ nets' \in [Objects -> Nets \cup {None}]
      /\ Sound(Known', draws) /\ Alike(Known')
      /\ Honest(children, Known', draws) /\ Backups(exported, Known')
  BY <1>1, BornDerived DEF Observe, Observed, Infos
<1> QED
  BY <1>2 DEF IInv, Tables, Observe, Passwords, Sound, Alike, Honest, Backups

(* A child of a covert network.                                                *)
LEMMA CovertChildKeeps ==
  ASSUME IInv, NEW n \in Objects, NEW m \in Objects, NEW label \in Labels,
         Child(n, m, label), Covert(m)
  PROVE  IInv'
<1> DEFINE root == Derived(nets[m].root, "child", label)
           x == [parent |-> nets[m].root, mode |-> nets[m].mode,
                 label |-> label, root |-> root]
<1>1. Exists(m) /\ label \in Salts /\ ChildRoot(m, label) = root /\ ChildMode(m) = "OPEN"
  BY DEF Child, MayHaveChildren, IsOpen, Salts, ChildRoot, ChildMode
<1>2. /\ nets' \in [Objects -> Nets \cup {None}]
      /\ Known' = Known \cup {[root |-> root, mode |-> "OPEN"]}
      /\ Sound(Known', draws) /\ Alike(Known')
      /\ Honest(children, Known', draws) /\ Backups(exported, Known')
  BY <1>1, BornDerived DEF Child, Infos
<1>3. /\ [root |-> nets[m].root, mode |-> nets[m].mode] \in Known
      /\ nets[m].root \in Roots /\ nets[m].root.draw < draws
  BY <1>1, KnownNet
<1>4. root \in Roots /\ root.size = "exact" /\ root.draw = nets[m].root.draw
  BY <1>1, <1>3, DerivedType DEF Infos
<1>5. draws \in Nat /\ draws + 1 \in 0..MaxDraws /\ draws' = draws + 1
  BY BoundsAssumption DEF IInv, Tables, Child
<1>6. Sound(Known', draws')
  BY <1>2, <1>5 DEF Sound, Roots
<1>7. Honest(children, Known', draws')
  <2>1. \A z \in children : z.root.draw \in Int /\ z.root.draw < draws
    BY <1>2, HonestDraws
  <2>2. \A z \in children : z.root.draw < draws'
    BY <1>5, <2>1
  <2> QED
    BY <1>2, <2>2 DEF Honest
<1>8. Honest({x}, Known', draws')
  <2>1. x.parent = nets[m].root /\ x.mode = "COVERT" /\ x.label = label /\ x.root = root
    BY DEF Covert
  <2>2. [root |-> x.parent, mode |-> x.mode] \in Known'
    BY <1>2, <1>3
  <2>3. x.root = Observed(x.parent, x.label)
    BY <2>1 DEF Observed
  <2>4. x.root.draw < draws'
    BY <1>3, <1>4, <1>5, <2>1 DEF Roots
  <2> HIDE DEF x, root
  <2> QED
    BY <1>4, <2>1, <2>2, <2>3, <2>4 DEF Honest
<1>9. children' = children \cup {x} /\ exported' = exported
  BY <1>1 DEF Child
<1>10. Honest(children', Known', draws')
  <2> HIDE DEF x
  <2> QED
    BY <1>7, <1>8, <1>9 DEF Honest
<1>11. Tables'
  BY <1>2, <1>5 DEF IInv, Tables, Child, Passwords
<1> QED
  BY <1>2, <1>6, <1>9, <1>10, <1>11 DEF IInv, Sound, Alike, Honest, Backups

(* A child of an open network: its draw is new, and everything later that comes*)
(* of this draw comes of the child.                                            *)
LEMMA OpenChildKeeps ==
  ASSUME IInv, NEW n \in Objects, NEW m \in Objects, NEW label \in Labels,
         Child(n, m, label), ~Covert(m)
  PROVE  IInv'
<1> DEFINE root == Derived(Drawn(draws, "exact"), "child", label)
           x == [parent |-> nets[m].root, mode |-> nets[m].mode,
                 label |-> label, root |-> root]
<1>1. /\ Exists(m) /\ ~Exists(n) /\ label \in Salts
      /\ nets[m].mode # "COVERT" /\ nets[m].mode # "RESTRICTED"
      /\ ChildRoot(m, label) = root /\ ChildMode(m) = "OPEN"
  BY DEF Child, MayHaveChildren, IsOpen, Salts, ChildRoot, ChildMode, Covert
<1>2. /\ draws \in Nat /\ draws \in 0..(MaxDraws - 1)
      /\ draws + 1 \in 0..MaxDraws /\ draws' = draws + 1
  BY BoundsAssumption DEF IInv, Tables, Child
<1>3. Drawn(draws, "exact") \in Roots /\ Drawn(draws, "exact").draw = draws
  BY <1>2, DrawnType
<1>4. /\ root \in Roots /\ root.size = "exact" /\ root.draw = draws /\ HasChild(root)
      /\ root.path = << <<"child", label>> >>
  <2>1. /\ root \in Roots /\ root.size = "exact" /\ root.draw = draws /\ HasChild(root)
        /\ root.path = Append(<< >>, <<"child", label>>)
    BY <1>1, <1>3, DerivedType DEF Infos, Drawn
  <2> QED
    BY <2>1
<1>5. /\ Known' = Known \cup {[root |-> root, mode |-> "OPEN"]}
      /\ nets' \in [Objects -> Nets \cup {None}]
  <2>1. Born(n, root, "OPEN") /\ exported' = exported
    BY <1>1 DEF Child
  <2> HIDE DEF root
  <2> QED
    BY <1>1, <1>4, <2>1, BornAdds DEF IInv, Modes
<1> HIDE DEF root
<1>6. \A k : k = [root |-> root, mode |-> "OPEN"] =>
        /\ Sound(Known \cup {k}, draws + 1) /\ Alike(Known \cup {k})
        /\ Honest(children, Known \cup {k}, draws + 1) /\ Backups(exported, Known \cup {k})
  BY <1>2, <1>4, AddDrawn DEF IInv, Modes
<1>7. [root |-> nets[m].root, mode |-> nets[m].mode] \in Known
  BY <1>1, KnownNet
<1>8. Honest({x}, Known', draws')
  <2>1. /\ x.parent = nets[m].root /\ x.mode = nets[m].mode
        /\ x.label = label /\ x.root = root
    OBVIOUS
  <2>2. [root |-> x.parent, mode |-> x.mode] \in Known'
    BY <1>5, <1>7
  <2>3. \A k \in Known' : k.root.draw = root.draw => HasChild(k.root)
    <3>1. \A k \in Known : k.root.draw \in Int /\ k.root.draw < draws
      BY DEF IInv, Sound, Roots
    <3>2. \A k \in Known : k.root.draw # root.draw
      BY <1>2, <1>4, <3>1
    <3> QED
      BY <1>4, <1>5, <3>2
  <2>4. x.root.draw < draws'
    BY <1>2, <1>4, <2>1
  <2> HIDE DEF x
  <2> QED
    BY <1>1, <1>4, <2>1, <2>2, <2>3, <2>4 DEF Honest
<1>9. children' = children \cup {x} /\ exported' = exported
  BY <1>1 DEF Child
<1>10. Honest(children', Known', draws')
  <2> HIDE DEF x
  <2> QED
    BY <1>2, <1>5, <1>6, <1>8, <1>9, ZenonT(40) DEF Honest
<1>11. Tables'
  BY <1>2, <1>5 DEF IInv, Tables, Child, Passwords
<1> QED
  BY <1>2, <1>5, <1>6, <1>9, <1>10, <1>11 DEF IInv, Sound, Alike, Honest, Backups

LEMMA ExportKeeps ==
  ASSUME IInv, NEW m \in Objects, NEW owner \in BOOLEAN, Export(m, owner)
  PROVE  IInv'
<1> DEFINE d == [from |-> nets[m].root, mode |-> nets[m].mode,
                 root |-> Carried(nets[m].root), owner |-> owner]
           y == [root |-> nets[m].root, mode |-> nets[m].mode]
           z == [root |-> Carried(nets[m].root), mode |-> nets[m].mode]
<1>1. Exists(m) /\ (nets[m].mode = "COVERT" => owner)
  BY DEF Export, MayExport, IsOpen, Covert
<1>2. y \in Known /\ nets[m].root \in Roots
  BY <1>1, KnownNet
<1>3. exported' = exported \cup {d} /\ nets' = nets
  BY DEF Export
<1>4. Known' = Known \cup {z}
  <2>1. d.root = z.root /\ d.mode = z.mode /\ z = [root |-> d.root, mode |-> d.mode]
    OBVIOUS
  <2>2. \A o \in Objects : Exists(o)' <=> Exists(o)
    BY <1>3 DEF Exists
  <2> HIDE DEF d, z
  <2> QED
    BY <1>3, <2>1, <2>2 DEF Known
<1>5. /\ Sound(Known', draws) /\ Alike(Known')
      /\ Honest(children, Known', draws) /\ Backups(exported, Known')
  <2>1. CASE nets[m].root.size = "exact"
    <3>1. z = y
      BY <2>1 DEF Carried
    <3>2. Known' = Known
      BY <1>2, <1>4, <3>1
    <3> QED
      BY <3>2 DEF IInv
  <2>2. CASE nets[m].root.size # "exact"
    <3>1. y.root = nets[m].root /\ y.mode = nets[m].mode
      OBVIOUS
    <3>2. z = [root |-> Derived(y.root, "descriptor", 0), mode |-> y.mode]
      BY <2>2 DEF Carried
    <3>3. "descriptor" \in Infos /\ "descriptor" # "child" /\ 0 \in Salts
      BY DEF Infos, Salts
    <3> HIDE DEF y, z
    <3> QED
      BY <1>2, <1>4, <3>2, <3>3, AddDerived DEF IInv
  <2> QED
    BY <2>1, <2>2
<1>6. Backups({d}, Known')
  <2>1. /\ d.from = nets[m].root /\ d.mode = nets[m].mode
        /\ d.root = Carried(nets[m].root) /\ d.owner = owner
    OBVIOUS
  <2>2. [root |-> d.from, mode |-> d.mode] \in Known'
    BY <1>2, <1>4
  <2> HIDE DEF d
  <2> QED
    BY <1>1, <2>1, <2>2 DEF Backups
<1>7. Backups(exported', Known')
  <2> HIDE DEF d
  <2> QED
    BY <1>3, <1>5, <1>6 DEF Backups
<1> QED
  BY <1>5, <1>7 DEF IInv, Tables, Export, Passwords, Sound, Alike, Honest, Backups

LEMMA CloseKeeps ==
  ASSUME IInv, NEW m \in Objects, Close(m)
  PROVE  IInv'
<1>1. Exists(m) /\ nets[m] \in Nets
  BY NetIs DEF IInv, Close, IsOpen
<1>2. /\ nets'[m] \in Nets
      /\ nets'[m].root = nets[m].root /\ nets'[m].mode = nets[m].mode
      /\ \A n \in Objects \ {m} : nets'[n] = nets[n]
      /\ nets' \in [Objects -> Nets \cup {None}]
  BY <1>1 DEF IInv, Tables, Close, Nets
<1>3. Exists(m)' /\ \A n \in Objects : Exists(n)' <=> Exists(n)
  BY <1>1, <1>2 DEF Exists, Nets, None, Modes
<1>4. Known' = Known
  BY <1>2, <1>3 DEF Known, Close
<1> QED
  BY <1>2, <1>4 DEF IInv, Tables, Close, Passwords, Sound, Alike, Honest, Backups

LEMMA NextInvariant == IInv /\ [Next]_vars => IInv'
<1> SUFFICES ASSUME IInv, [Next]_vars PROVE IInv'
  OBVIOUS
<1>1. ASSUME UNCHANGED <<nets, draws, children, exported>>,
             authorised' \in BOOLEAN, password' \in Passwords
      PROVE  IInv'
  <2>1. Known' = Known
    BY <1>1 DEF Known, Exists
  <2> QED
    BY <1>1, <2>1 DEF IInv, Tables, Sound, Alike, Honest, Backups
<1>2. ASSUME NEW pw \in Passwords, Authorise(pw) PROVE IInv'
  BY <1>1, <1>2 DEF Authorise, IInv, Tables
<1>3. CASE Deauthorise
  BY <1>1, <1>3 DEF Deauthorise, Passwords
<1>4. CASE UNCHANGED vars
  BY <1>1, <1>4 DEF vars, IInv, Tables
<1>5. ASSUME NEW n \in Objects, NEW m \in Objects, NEW label \in Labels, Child(n, m, label)
      PROVE  IInv'
  BY <1>5, CovertChildKeeps, OpenChildKeeps
<1> QED
  BY <1>2, <1>3, <1>4, <1>5, CreateKeeps, FromDescriptorKeeps, EpochKeeps, ObserveKeeps,
     ExportKeeps, CloseKeeps DEF Next

LEMMA AlwaysIInv == Spec => []IInv
<1> QED
  BY InitInvariant, NextInvariant, PTL DEF Spec

---------------------------------------------------------------------------------
(* The properties.                                                             *)

(* Objects, descriptors and children carry roots that were drawn, for every set*)
(* of objects, labels and days.                                                *)
THEOREM TypeCorrect == Spec => []TypeOK
<1>1. ASSUME IInv PROVE TypeOK
  <2>1. \A r \in Roots : IsRoot(r)
    BY DEF Roots, IsRoot, Infos, Salts
  <2>2. \A n \in Objects : Exists(n) =>
          nets[n].mode \in Modes /\ nets[n].open \in BOOLEAN /\ IsRoot(nets[n].root)
    BY <1>1, <2>1, NetIs DEF IInv, Nets
  <2>3. ASSUME NEW x \in children
        PROVE  x.mode \in Modes /\ IsRoot(x.root) /\ x.root.size = "exact"
    <3>1. [root |-> x.parent, mode |-> x.mode].mode \in Modes
      BY <1>1 DEF IInv, Honest, Sound
    <3> QED
      BY <1>1, <2>1, <3>1 DEF IInv, Honest
  <2>4. ASSUME NEW x \in exported
        PROVE  x.mode \in Modes /\ IsRoot(x.root) /\ x.root.size = "exact"
    <3>1. [root |-> x.root, mode |-> x.mode] \in Known
      BY DEF Known
    <3>2. x.mode \in Modes /\ x.root \in Roots
      BY <1>1, <3>1 DEF IInv, Sound
    <3>3. [root |-> x.from, mode |-> x.mode].root \in Roots /\ x.root = Carried(x.from)
      BY <1>1 DEF IInv, Backups, Sound
    <3>4. x.root.size = "exact"
      BY <3>3, DerivedType DEF Carried, Infos, Salts
    <3> QED
      BY <2>1, <3>2, <3>4
  <2>5. \A x \in children : x.mode # "RESTRICTED"
    BY <1>1 DEF IInv, Honest
  <2> QED
    BY <1>1, <2>2, <2>3, <2>4, <2>5 DEF IInv, Tables, TypeOK
<1> QED
  BY <1>1, AlwaysIInv, PTL

(* Without authorisation and without the right password no step makes a covert *)
(* network that no covert network leads to: only epoch() makes one unasked.    *)
THEOREM GateHolds == Spec => NoCovertByTheBack
<1>1. IInv /\ [Next]_vars =>
        [~authorised /\ password' # "right" =>
           \A n \in Objects : nets'[n] # nets[n] /\ nets'[n].mode = "COVERT" =>
             \E m \in Objects : Covert(m) /\ Reaches(nets[m].root, nets'[n].root)]_vars
  <2> SUFFICES ASSUME IInv, Next, ~authorised, password' # "right", NEW n \in Objects,
                      nets'[n] # nets[n], nets'[n].mode = "COVERT"
               PROVE  \E m \in Objects : Covert(m) /\ Reaches(nets[m].root, nets'[n].root)
    OBVIOUS
  <2>1. ASSUME NEW o \in Objects, NEW root, NEW mode, Born(o, root, mode), n # o PROVE FALSE
    BY <2>1 DEF IInv, Tables, Born
  <2>2. ASSUME NEW root, NEW mode, Born(n, root, mode)
        PROVE  nets'[n].root = root /\ nets'[n].mode = mode
    BY <2>2 DEF IInv, Tables, Born
  <2>3. ASSUME NEW o \in Objects, NEW mode \in Modes, NEW size \in Sizes,
               NEW pw \in Passwords, Create(o, mode, size, pw)
        PROVE  FALSE
    <3>1. Born(o, Drawn(draws, size), mode) /\ Gate(mode, pw) /\ password' = pw
      BY <2>3 DEF Create
    <3> QED
      BY <2>1, <2>2, <3>1 DEF Gate
  <2>4. ASSUME NEW o \in Objects, NEW d \in exported, NEW pw \in Passwords,
               FromDescriptor(o, d, pw)
        PROVE  FALSE
    <3>1. Born(o, d.root, d.mode) /\ Gate(d.mode, pw) /\ password' = pw
      BY <2>4 DEF FromDescriptor
    <3> QED
      BY <2>1, <2>2, <3>1 DEF Gate
  <2>5. ASSUME NEW o \in Objects, NEW m \in Objects, NEW day \in Days,
               Epoch(o, m, EpochNumber(day, DaysPerEpoch))
        PROVE  Covert(m) /\ Reaches(nets[m].root, nets'[n].root)
    <3>1. Exists(m) /\ EpochNumber(day, DaysPerEpoch) \in Salts /\ "epoch" \in Infos
      BY <2>5 DEF Epoch, IsOpen, Salts, Infos
    <3>2. nets[m].root \in Roots
      BY <3>1, KnownNet
    <3>3. Reaches(nets[m].root, Derived(nets[m].root, "epoch", EpochNumber(day, DaysPerEpoch)))
      BY <3>1, <3>2, ReachesSelf
    <3>4. Born(o, Derived(nets[m].root, "epoch", EpochNumber(day, DaysPerEpoch)), nets[m].mode)
      BY <2>5 DEF Epoch
    <3>5. /\ nets'[n].root = Derived(nets[m].root, "epoch", EpochNumber(day, DaysPerEpoch))
          /\ nets'[n].mode = nets[m].mode
      BY <2>1, <2>2, <3>4
    <3> QED
      BY <3>1, <3>3, <3>5 DEF Covert
  <2>6. ASSUME NEW o \in Objects, NEW m \in Objects, NEW label \in Labels,
               Child(o, m, label) \/ Observe(o, m, label)
        PROVE  FALSE
    BY <2>1, <2>2, <2>6 DEF Child, Observe, ChildMode
  <2>7. ASSUME NEW m \in Objects, Close(m)
        PROVE  Covert(n) /\ Reaches(nets[n].root, nets'[n].root)
    <3>1. Exists(m) /\ nets[m] \in Nets
      BY <2>7, NetIs DEF IInv, Close, IsOpen
    <3>2. n = m /\ nets'[n].root = nets[n].root /\ nets'[n].mode = nets[n].mode
      BY <2>7, <3>1 DEF IInv, Tables, Close, Nets
    <3> QED
      BY <3>1, <3>2, ReachesSelf DEF Covert, Nets
  <2>8. ASSUME nets' = nets PROVE FALSE
    BY <2>8
  <2> QED
    BY <2>3, <2>4, <2>5, <2>6, <2>7, <2>8 DEF Next, Authorise, Deauthorise, Export
<1> QED
  BY <1>1, AlwaysIInv, PTL DEF Spec, NoCovertByTheBack

(* A covert network's child is what the owner computes, from the network or    *)
(* from a backup of it that has the right length.                              *)
LEMMA Observable == IInv => CovertChildrenObservable
<1> SUFFICES ASSUME IInv, NEW x \in children, x.mode = "COVERT"
             PROVE  /\ Observed(x.parent, x.label) = x.root
                    /\ \A d \in exported : d.from = x.parent =>
                         (Observed(d.root, x.label) = x.root <=> x.parent.size = "exact")
  BY DEF CovertChildrenObservable
<1>1. /\ x.root = Observed(x.parent, x.label) /\ x.label \in Labels
      /\ [root |-> x.parent, mode |-> x.mode] \in Known
  BY DEF IInv, Honest
<1>2. x.parent \in Roots
  <2>1. [root |-> x.parent, mode |-> x.mode].root \in Roots
    BY <1>1 DEF IInv, Sound
  <2> QED
    BY <2>1
<1>3. ASSUME NEW d \in exported, d.from = x.parent
      PROVE  Observed(d.root, x.label) = x.root <=> x.parent.size = "exact"
  <2>1. d.root = Carried(x.parent)
    BY <1>3 DEF IInv, Backups
  <2>2. CASE x.parent.size = "exact"
    BY <1>1, <2>1, <2>2 DEF Carried
  <2>3. CASE x.parent.size # "exact"
    <3> DEFINE e == <<"descriptor", 0>>
               f == <<"child", x.label>>
               far  == Derived(d.root, "child", x.label)
               near == Derived(x.parent, "child", x.label)
    <3>1. d.root = Derived(x.parent, "descriptor", 0)
      BY <2>1, <2>3 DEF Carried
    <3>2. d.root \in Roots /\ d.root.path = Append(x.parent.path, e)
      BY <1>2, <3>1, DerivedType DEF Infos, Salts
    <3>3. far.path = Append(d.root.path, f) /\ near.path = Append(x.parent.path, f)
      BY <1>1, <1>2, <3>2, DerivedType DEF Infos, Salts
    <3>4. /\ x.parent.path \in Seq(Infos \X Salts) /\ d.root.path \in Seq(Infos \X Salts)
          /\ e \in Infos \X Salts /\ f \in Infos \X Salts
      BY <1>1, <1>2, <3>2 DEF Roots, Infos, Salts
    <3> HIDE DEF e, f, far, near
    <3>5. /\ Len(far.path) = Len(d.root.path) + 1
          /\ Len(near.path) = Len(x.parent.path) + 1
          /\ Len(d.root.path) = Len(x.parent.path) + 1
          /\ Len(x.parent.path) \in Nat
      BY <3>2, <3>3, <3>4, AppendProperties, LenProperties
    <3>6. far # near
      BY <3>5
    <3> QED
      BY <1>1, <2>3, <3>6 DEF Observed, far, near
  <2> QED
    BY <2>2, <2>3
<1> QED
  BY <1>1, <1>3

(* Nothing leads to an open network's child but the child.                     *)
LEMMA Independent == IInv => OpenChildrenIndependent
<1> SUFFICES ASSUME IInv, NEW x \in children, NEW n \in Objects, x.mode # "COVERT",
                    Exists(n), Reaches(nets[n].root, x.root)
             PROVE  nets[n].root = x.root
  BY DEF OpenChildrenIndependent
<1> DEFINE r == nets[n].root
<1>1. /\ [root |-> r, mode |-> nets[n].mode] \in Known
      /\ r \in Roots /\ (r.path # << >> => r.size = "exact")
  BY KnownNet
<1> HIDE DEF r
<1>2. /\ x.root \in Roots /\ x.root.size = "exact"
      /\ x.root.path = << <<"child", x.label>> >>
      /\ \A k \in Known : k.root.draw = x.root.draw => HasChild(k.root)
  BY DEF IInv, Honest
<1>3. r.draw = x.root.draw /\ IsPrefix(r.path, x.root.path)
  BY DEF Reaches, r
<1>4. HasChild(r)
  <2>1. \A k : k = [root |-> r, mode |-> nets[n].mode] => k.root = r
    OBVIOUS
  <2> QED
    BY <1>1, <1>2, <1>3, <2>1
<1>5. r.path \in Seq(Infos \X Salts) /\ x.root.path \in Seq(Infos \X Salts)
  BY <1>1, <1>2 DEF Roots
<1>6. /\ Len(r.path) <= Len(x.root.path) /\ Len(r.path) \in Nat
      /\ \A i \in 1..Len(r.path) : r.path[i] = x.root.path[i]
  BY <1>3, <1>5, PrefixIs, LenProperties
<1>7. Len(x.root.path) = 1
  BY <1>2
<1>8. Len(r.path) = 1
  <2> DEFINE length == Len(r.path)
  <2>1. \E i \in 1..length : r.path[i][1] = "child"
    BY <1>4 DEF HasChild
  <2>2. length <= 1 /\ length \in Nat
    BY <1>6, <1>7
  <2> HIDE DEF length
  <2>3. length = 1
    BY <2>1, <2>2
  <2> QED
    BY <2>3 DEF length
<1>9. r.path = x.root.path
  BY <1>5, <1>6, <1>7, <1>8, SeqEqual
<1>10. r.path # << >>
  BY <1>8, SMTT(30)
<1> QED
  BY <1>1, <1>2, <1>3, <1>9, <1>10 DEF Roots, r

(* A covert network has no child's root, so no member's descriptor leads to it,*)
(* and nothing derived from its child is covert again.                         *)
LEMMA Blind == IInv => MembersStayBlind
<1> SUFFICES ASSUME IInv, NEW d \in exported, NEW n \in Objects, ~d.owner, Covert(n),
                    Reaches(d.root, nets[n].root)
             PROVE  FALSE
  BY DEF MembersStayBlind
<1> DEFINE x == [root |-> d.root, mode |-> d.mode]
           y == [root |-> nets[n].root, mode |-> nets[n].mode]
<1>1. y \in Known /\ nets[n].root \in Roots /\ ~HasChild(nets[n].root)
  BY KnownNet DEF Covert
<1>2. x \in Known
  BY DEF Known
<1>3. x.root = d.root /\ y.root = nets[n].root /\ x.mode = d.mode /\ y.mode = "COVERT"
  BY DEF Covert
<1>4. d.mode # "COVERT" /\ d.root.draw = nets[n].root.draw
  BY DEF IInv, Backups, Reaches
<1> HIDE DEF x, y
<1>5. x.mode = "COVERT" \/ HasChild(x.root)
  BY <1>1, <1>2, <1>3, <1>4 DEF IInv, Alike
<1>6. x.root \in Roots
  BY <1>2 DEF IInv, Sound
<1> QED
  BY <1>1, <1>3, <1>4, <1>5, <1>6, ReachesChild

LEMMA FirstDegree == IInv => FirstDegreeOnly
<1> SUFFICES ASSUME IInv, NEW x \in children, NEW d \in children, x.mode = "COVERT",
                    Reaches(x.root, d.parent), Reaches(x.parent, d.root)
             PROVE  FALSE
  BY DEF FirstDegreeOnly
<1> DEFINE p == [root |-> x.parent, mode |-> x.mode]
           q == [root |-> d.parent, mode |-> d.mode]
<1>1. /\ p \in Known /\ q \in Known
      /\ x.root = Observed(x.parent, x.label) /\ x.label \in Labels /\ x.root \in Roots
      /\ d.mode # "COVERT" =>
           \A k \in Known : k.root.draw = d.root.draw => HasChild(k.root)
  BY DEF IInv, Honest
<1>2. p.root = x.parent /\ p.mode = "COVERT" /\ q.root = d.parent /\ q.mode = d.mode
  OBVIOUS
<1> HIDE DEF p, q
<1>3. /\ p.root \in Roots /\ ~HasChild(p.root) /\ q.root \in Roots
      /\ q.mode = "COVERT" => ~HasChild(q.root)
  BY <1>1, <1>2 DEF IInv, Sound
<1>4. HasChild(x.root)
  BY <1>1, <1>2, <1>3, DerivedType DEF Observed, Infos, Salts
<1>5. d.mode # "COVERT"
  BY <1>1, <1>2, <1>3, <1>4, ReachesChild
<1>6. p.root.draw = d.root.draw
  BY <1>2 DEF Reaches
<1> QED
  BY <1>1, <1>3, <1>5, <1>6

(* Of two known roots, the draw and the path tell everything.                  *)
LEMMA RootsEqual ==
  ASSUME IInv, NEW n \in Objects, NEW m \in Objects, Exists(n), Exists(m)
  PROVE  nets[n].root = nets[m].root <=> /\ nets[n].root.draw = nets[m].root.draw
                                         /\ nets[n].root.path = nets[m].root.path
<1> DEFINE x == [root |-> nets[n].root, mode |-> nets[n].mode]
           y == [root |-> nets[m].root, mode |-> nets[m].mode]
<1>1. x \in Known /\ y \in Known
  BY KnownNet
<1>2. x.root = nets[n].root /\ y.root = nets[m].root
  OBVIOUS
<1> HIDE DEF x, y
<1>3. /\ x.root \in Roots /\ (x.root.path # << >> => x.root.size = "exact")
      /\ y.root \in Roots /\ (y.root.path # << >> => y.root.size = "exact")
  BY <1>1 DEF IInv, Sound
<1>4. /\ x.root.draw = y.root.draw /\ x.root.path = << >> /\ y.root.path = << >>
      => x.root.size = y.root.size
  BY <1>1 DEF IInv, Alike
<1>5. x.root.draw = y.root.draw /\ x.root.path = y.root.path => x.root.size = y.root.size
  BY <1>3, <1>4
<1>6. \A a, b \in Roots : a.draw = b.draw /\ a.size = b.size /\ a.path = b.path => a = b
  BY DEF Roots
<1> QED
  BY <1>2, <1>3, <1>5, <1>6

LEMMA AppendsEqual ==
  ASSUME NEW S, NEW s \in Seq(S), NEW t \in Seq(S), NEW e \in S, NEW f \in S
  PROVE  Append(s, e) = Append(t, f) <=> s = t /\ e = f
<1> DEFINE se == Append(s, e)
           tf == Append(t, f)
<1>1. /\ Len(se) = Len(s) + 1 /\ se[Len(s) + 1] = e
      /\ \A i \in 1..Len(s) : se[i] = s[i]
  BY AppendProperties
<1>2. /\ Len(tf) = Len(t) + 1 /\ tf[Len(t) + 1] = f
      /\ \A i \in 1..Len(t) : tf[i] = t[i]
  BY AppendProperties
<1>3. Len(s) \in Nat /\ Len(t) \in Nat
  BY LenProperties
<1> HIDE DEF se, tf
<1>4. se = tf => s = t /\ e = f
  <2> SUFFICES ASSUME se = tf PROVE s = t /\ e = f
    OBVIOUS
  <2>1. Len(s) = Len(t) /\ \A i \in 1..Len(s) : s[i] = t[i]
    BY <1>1, <1>2, <1>3
  <2> QED
    BY <1>1, <1>2, <2>1, SeqEqual
<1>5. s = t /\ e = f => se = tf
  BY DEF se, tf
<1> QED
  BY <1>4, <1>5 DEF se, tf

(* The last step of what a member is given is of a kind no root has.           *)
Outward == {"prekey", "corpus", "member"}
Steps   == (Infos \cup Outward) \X (Salts \cup Members)

LEMMA OutwardSteps ==
  ASSUME NEW r \in Roots, NEW q \in Roots, NEW info \in Outward, NEW a \in Salts \cup Members,
         NEW other \in Outward, NEW b \in Salts \cup Members
  PROVE  /\ ~Reaches(Derived(r, info, a), q)
         /\ Derived(r, info, a) = Derived(q, other, b) <=>
              r.draw = q.draw /\ r.path = q.path /\ info = other /\ a = b
         /\ Reaches(Derived(r, info, a), Derived(q, other, b)) =>
              r.draw = q.draw /\ r.path = q.path /\ info = other /\ a = b
<1> DEFINE e == <<info, a>>
           f == <<other, b>>
           re == Append(r.path, e)
           qf == Append(q.path, f)
<1>1. /\ r.path \in Seq(Infos \X Salts) /\ q.path \in Seq(Infos \X Salts)
      /\ r.path \in Seq(Steps) /\ q.path \in Seq(Steps)
  <2>1. r.path \in Seq(Infos \X Salts) /\ q.path \in Seq(Infos \X Salts)
    BY DEF Roots
  <2>2. Infos \X Salts \subseteq Steps
    BY DEF Steps
  <2> QED
    BY <2>1, <2>2, SeqMonotonic
<1>2. e \in Steps /\ f \in Steps
  BY DEF Steps
<1>3. e = f <=> info = other /\ a = b
  OBVIOUS
<1>4. re = qf <=> r.path = q.path /\ e = f
  <2> HIDE DEF e, f
  <2> DEFINE s == r.path
             t == q.path
  <2>1. s \in Seq(Steps) /\ t \in Seq(Steps)
    BY <1>1
  <2> HIDE DEF s, t
  <2>2. Append(s, e) = Append(t, f) <=> s = t /\ e = f
    BY <1>2, <2>1, AppendsEqual
  <2> QED
    BY <2>2 DEF s, t
<1>5. ~IsPrefix(re, q.path)
  <2>1. e[1] \notin Infos
    BY DEF Infos, Outward
  <2> HIDE DEF e, f
  <2>2. IsPrefix(re, q.path) => Len(r.path) < Len(q.path) /\ q.path[Len(r.path) + 1] = e
    BY <1>1, <1>2, PrefixFacts
  <2>3. \A i \in 1..Len(q.path) : q.path[i][1] \in Infos
    <3>1. \A i \in 1..Len(q.path) : q.path[i] \in Infos \X Salts
      BY <1>1, ElementOfSeq
    <3> QED
      BY <3>1
  <2>4. Len(r.path) \in Nat /\ Len(q.path) \in Nat
    BY <1>1, LenProperties
  <2> QED
    BY <2>1, <2>2, <2>3, <2>4
<1>6. IsPrefix(re, qf) => re = qf
  <2> HIDE DEF e, f
  <2>1. re \in Seq(Steps)
    BY <1>1, <1>2, AppendProperties
  <2> HIDE DEF re
  <2> QED
    BY <1>1, <1>2, <1>5, <2>1, PrefixFacts
<1>7. /\ Derived(r, info, a) = [draw |-> r.draw, size |-> "exact", path |-> re]
      /\ Derived(q, other, b) = [draw |-> q.draw, size |-> "exact", path |-> qf]
  BY DerivedIs
<1> HIDE DEF e, f, re, qf
<1>8. /\ Derived(r, info, a).draw = r.draw /\ Derived(r, info, a).path = re
      /\ Derived(q, other, b).draw = q.draw /\ Derived(q, other, b).path = qf
  BY <1>7
<1>9. Derived(r, info, a) = Derived(q, other, b) <=> r.draw = q.draw /\ re = qf
  BY <1>7, <1>8
<1> QED
  BY <1>3, <1>4, <1>5, <1>6, <1>8, <1>9 DEF Reaches

LEMMA Apart == IInv => MembersApart
<1> SUFFICES ASSUME IInv, NEW n \in Objects, NEW m \in Objects, IsOpen(n), IsOpen(m)
             PROVE  /\ PrekeyOf(nets[n].root) = PrekeyOf(nets[m].root) <=> SameAs(n, m)
                    /\ \A a, b \in Members :
                         /\ MemberKey(nets[n].root, a) = MemberKey(nets[m].root, b)
                              <=> SameAs(n, m) /\ a = b
                         /\ \A s \in Given(nets[n].root, a) :
                              /\ ~Reaches(s, nets[m].root)
                              /\ Reaches(s, MemberKey(nets[m].root, b)) => SameAs(n, m) /\ a = b
  BY DEF MembersApart
<1> DEFINE r == nets[n].root
           q == nets[m].root
<1>1. Exists(n) /\ Exists(m)
  BY DEF IsOpen
<1>2. r \in Roots /\ q \in Roots
  BY <1>1, KnownNet
<1>3. SameAs(n, m) <=> r.draw = q.draw /\ r.path = q.path
  BY <1>1, RootsEqual DEF SameAs
<1> HIDE DEF r, q
<1>4. 0 \in Salts \cup Members /\ Members \subseteq Salts \cup Members
      /\ "prekey" \in Outward /\ "corpus" \in Outward /\ "member" \in Outward
  BY DEF Salts, Outward
<1>5. PrekeyOf(r) = PrekeyOf(q) <=> SameAs(n, m)
  BY <1>2, <1>3, <1>4, OutwardSteps DEF PrekeyOf
<1>6. ASSUME NEW a \in Members, NEW b \in Members
      PROVE  MemberKey(r, a) = MemberKey(q, b) <=> SameAs(n, m) /\ a = b
  BY <1>2, <1>3, <1>4, OutwardSteps DEF MemberKey
<1>7. ASSUME NEW a \in Members, NEW b \in Members, NEW s \in Given(r, a)
      PROVE  ~Reaches(s, q) /\ (Reaches(s, MemberKey(q, b)) => SameAs(n, m) /\ a = b)
  <2>1. PICK info \in Outward, label \in Salts \cup Members :
          s = Derived(r, info, label) /\ (info = "member" => label = a)
    BY <1>4 DEF Given, PrekeyOf, CorpusSeed, MemberKey
  <2>2. /\ ~Reaches(s, q)
        /\ Reaches(s, Derived(q, "member", b)) =>
             r.draw = q.draw /\ r.path = q.path /\ info = "member" /\ label = b
    BY <1>2, <1>4, <2>1, OutwardSteps
  <2> QED
    BY <1>3, <2>1, <2>2 DEF MemberKey
<1> QED
  BY <1>5, <1>6, <1>7 DEF r, q

(* Who can derive what, for every set of objects, labels, members, sizes and   *)
(* days: open children are independent, covert ones observable in the first    *)
(* degree only, members' descriptors lead to no covert network, and members    *)
(* stay apart.                                                                 *)
THEOREM DerivationHolds == Spec => []WhoCanDerive
<1>1. IInv => WhoCanDerive
  BY Independent, Blind, Observable, FirstDegree, Apart DEF WhoCanDerive
<1> QED
  BY <1>1, AlwaysIInv, PTL

---------------------------------------------------------------------------------
(* The canary: its codes.                                                      *)

(* _make_bits reads as many bits as there are rounds and never past the bytes  *)
(* that were derived.                                                          *)
LEMMA MakeBitsType ==
  ASSUME stream \in Streams,
         NEW m \in Names, NEW k \in Counters, NEW r \in 1..MAX_ROUNDS
  PROVE  MakeBits(m, k, r) \in [0..(r - 1) -> {0, 1}]
<1> DEFINE q == (r + ByteBits - 1) \div ByteBits
           p == (MAX_ROUNDS + ByteBits - 1) \div ByteBits
           size == q * ByteBits
<1>1. /\ ByteBits \in Nat \ {0} /\ MAX_ROUNDS \in Nat
      /\ r \in Nat /\ 1 <= r /\ r <= MAX_ROUNDS
  BY RoundsAssumption
<1>2. /\ q \in Nat /\ ByteBits * q <= r + ByteBits - 1
      /\ r + ByteBits - 1 < ByteBits * q + ByteBits
      /\ p \in Nat /\ MAX_ROUNDS + ByteBits - 1 < ByteBits * p + ByteBits
  <2>1. r + ByteBits - 1 \in Nat /\ MAX_ROUNDS + ByteBits - 1 \in Nat
    BY <1>1
  <2> QED
    BY <1>1, <2>1, Quotient
<1>3. MaxBits = p * ByteBits
  BY DEF MaxBits
<1> HIDE DEF q, p
<1>4. q <= p
  <2> SUFFICES ASSUME q >= p + 1 PROVE FALSE
    BY <1>2
  <2>1. ByteBits * q >= ByteBits * (p + 1)
    BY <1>1, <1>2, SMT
  <2> QED
    BY <1>1, <1>2, <2>1, SMT
<1>5. size \in Nat /\ r <= size /\ size <= MaxBits
  <2>1. q * ByteBits <= p * ByteBits
    BY <1>1, <1>2, <1>4, SMT
  <2> QED
    BY <1>1, <1>2, <1>3, <2>1, SMT
<1>6. MaxBits \in Nat
  BY <1>1, <1>2, <1>3, SMT
<1> HIDE DEF size
<1>7. \A t \in 0..(r - 1) : size - t \in 1..MaxBits
  BY <1>1, <1>5, <1>6
<1>8. stream \in [Names \X Counters -> [1..MaxBits -> {0, 1}]]
  BY StreamAssumption
<1>9. stream[m, k] \in [1..MaxBits -> {0, 1}]
  BY <1>8
<1>10. MakeBits(m, k, r) = [t \in 0..(r - 1) |-> stream[m, k][size - t]]
  BY DEF MakeBits, size, q
<1> QED
  BY <1>7, <1>9, <1>10

(* No two members have the same code.                                          *)
Distinct == \A a, b \in members : codes[a] = codes[b] => a = b

(* What every object that the constructor returns is like.                     *)
LEMMA ObjectIsSound ==
  ASSUME stream \in Streams, NEW ms \in SUBSET Names, NEW r, Object(ms, r)
  PROVE  /\ members' = ms /\ rounds' = r /\ r \in 1..MAX_ROUNDS
         /\ codes' \in [ms -> [0..(r - 1) -> {0, 1}]]
         /\ Distinct'
<1>1. /\ members' = ms /\ rounds' = r /\ r \in 1..MAX_ROUNDS
      /\ codes' \in Codes(ms, r) /\ Assigned(ms, r, codes')
  BY DEF Object, Acceptable
<1>2. codes' \in [ms -> [0..(r - 1) -> {0, 1}]]
  <2>1. {MakeBits(m, k, r) : m \in ms, k \in Counters} \subseteq [0..(r - 1) -> {0, 1}]
    BY <1>1, MakeBitsType
  <2> QED
    BY <1>1, <2>1 DEF Codes
<1>3. ASSUME NEW a \in ms, NEW b \in ms, a < b PROVE codes'[a] # codes'[b]
  BY <1>1, <1>3 DEF Assigned
<1>4. \A a, b \in ms : a < b \/ b < a \/ a = b
  BY NamesAssumption
<1>5. Distinct'
  BY <1>1, <1>3, <1>4 DEF Distinct
<1> QED
  BY <1>1, <1>2, <1>5
---------------------------------------------------------------------------------
(* What build_safe was asked for.                                              *)
CallTyped == /\ built \in BOOLEAN
             /\ step \in StepsAsked \cup {0} /\ limit \in LimitsAsked \cup {0}

(* The invariant.  The observations come from the traitors, all of whom are    *)
(* members; before an object is ready there are none; what build_safe returned *)
(* was found safe.                                                             *)
CanaryInv == /\ CanaryTypeOK
             /\ Distinct
             /\ phase # "ready" => DOMAIN seen = {}
             /\ phase # "failed" => traitors \subseteq members
             /\ phase = "none" => ~built
             /\ \A t \in DOMAIN seen : \E w \in traitors : seen[t] = codes[w][t]
             /\ phase = "ready" /\ built => IsSafe

LEMMA CanaryInvInit == CanaryInit => CanaryInv
<1> SUFFICES ASSUME CanaryInit PROVE CanaryInv
  OBVIOUS
<1>1. members = {} /\ rounds = 0 /\ DOMAIN codes = {} /\ DOMAIN seen = {}
  BY DEF CanaryInit, Nothing
<1>2. codes \in [members -> [Rounds -> {0, 1}]]
  BY <1>1 DEF CanaryInit, Nothing
<1>3. stream \in Streams /\ phase = "none" /\ CallTyped /\ traitors = {}
  BY DEF CanaryInit, CallTyped
<1>4. 0 \in 0..MAX_ROUNDS
  BY RoundsAssumption
<1>5. CanaryTypeOK
  BY <1>1, <1>2, <1>3, <1>4 DEF CanaryTypeOK, CallTyped
<1> QED
  BY <1>1, <1>3, <1>5 DEF CanaryInit, CanaryInv, Distinct

(* A new object, by the constructor or a turn of build_safe.                   *)
LEMMA NewObject ==
  ASSUME stream \in Streams, UNCHANGED stream, NEW ms \in SUBSET Names, NEW r, Object(ms, r),
         phase' \in {"building", "ready"}, CallTyped', built' => phase' = "building",
         traitors' \in SUBSET ms, DOMAIN seen' = {}
  PROVE  CanaryInv'
<1>1. /\ members' = ms /\ rounds' = r /\ r \in 1..MAX_ROUNDS
      /\ codes' \in [ms -> [0..(r - 1) -> {0, 1}]] /\ Distinct'
  BY ObjectIsSound
<1>2. CanaryTypeOK'
  BY <1>1, RoundsAssumption DEF CanaryTypeOK, CallTyped, Rounds
<1> QED
  BY <1>1, <1>2 DEF CanaryInv

(* No object: CanaryError.                                                     *)
LEMMA Failure ==
  ASSUME CanaryInv, UNCHANGED <<stream, members, rounds, codes, seen>>, DOMAIN seen = {},
         phase' = "failed", CallTyped', traitors' \in SUBSET Names
  PROVE  CanaryInv'
<1>1. CanaryTypeOK' /\ Distinct'
  BY DEF CanaryInv, CanaryTypeOK, CallTyped, Rounds, Distinct
<1> QED
  BY <1>1 DEF CanaryInv

LEMMA CanaryInvNext == CanaryInv /\ [CanaryNext]_canaryVars => CanaryInv'
<1> SUFFICES ASSUME CanaryInv, [CanaryNext]_canaryVars PROVE CanaryInv'
  OBVIOUS
<1> USE DEF CanaryInv
<1>0. /\ stream \in Streams /\ members \in SUBSET Names /\ CallTyped
      /\ traitors \in SUBSET Names
  BY DEF CanaryTypeOK, CallTyped
<1>a. UNCHANGED call => CallTyped' /\ built' = built
  BY <1>0 DEF call, CallTyped
<1>1. ASSUME NEW ms \in SUBSET Names, NEW r \in 0..MAX_ROUNDS, Construct(ms, r)
      PROVE  CanaryInv'
  <2>1. /\ DOMAIN seen = {} /\ UNCHANGED <<stream, call, seen>> /\ ~built
        /\ traitors' \in SUBSET ms
    BY <1>1 DEF Construct
  <2>2. CASE Object(ms, r) /\ phase' = "ready"
    BY <1>0, <1>a, <2>1, <2>2, NewObject
  <2>3. CASE phase' = "failed" /\ UNCHANGED <<members, rounds, codes>>
    BY <1>0, <1>a, <2>1, <2>3, Failure
  <2> QED
    BY <1>1, <2>2, <2>3 DEF Construct
<1>2. ASSUME NEW ms \in SUBSET Names, NEW s \in StepsAsked, NEW l \in LimitsAsked,
             BuildSafe(ms, s, l)
      PROVE  CanaryInv'
  <2> DEFINE r == SuggestedRounds(Cardinality(ms))
  <2>1. /\ DOMAIN seen = {} /\ UNCHANGED <<stream, seen>> /\ built' = TRUE
        /\ CallTyped' /\ traitors' \in SUBSET ms
        /\ \/ Object(ms, r) /\ phase' = "building"
           \/ phase' = "failed" /\ UNCHANGED <<members, rounds, codes>>
    BY <1>2 DEF BuildSafe, CallTyped
  <2> HIDE DEF r
  <2>2. CASE Object(ms, r) /\ phase' = "building"
    BY <1>0, <2>1, <2>2, NewObject
  <2>3. CASE phase' = "failed" /\ UNCHANGED <<members, rounds, codes>>
    BY <1>0, <2>1, <2>3, Failure
  <2> QED
    BY <2>1, <2>2, <2>3
<1>3. CASE BuildDone
  <2>1. /\ phase = "building" /\ phase' = "ready" /\ IsSafe
        /\ UNCHANGED <<stream, call, members, rounds, codes, traitors, seen>>
    BY <1>3 DEF BuildDone
  <2>2. IsSafe' = IsSafe
    BY <2>1 DEF IsSafe, Exposure, Rounds
  <2> QED
    BY <1>a, <2>1, <2>2 DEF CanaryTypeOK, CallTyped, Rounds, Distinct
<1>4. CASE BuildMore
  <2>1. /\ phase = "building" /\ phase' = "building" /\ Object(members, rounds + step)
        /\ UNCHANGED <<stream, call, traitors, seen>>
    BY <1>4 DEF BuildMore
  <2> QED
    BY <1>0, <1>a, <2>1, NewObject
<1>5. CASE BuildGivesUp
  BY <1>0, <1>a, <1>5, Failure DEF BuildGivesUp
<1>6. ASSUME NEW t \in Rounds, Leak(t) PROVE CanaryInv'
  <2>1. /\ phase = "ready" /\ t \notin DOMAIN seen
        /\ UNCHANGED <<stream, phase, call, members, rounds, codes, traitors>>
    BY <1>6 DEF Leak
  <2>2. PICK w \in traitors :
          seen' = [u \in DOMAIN seen \cup {t} |-> IF u = t THEN codes[w][t] ELSE seen[u]]
    BY <1>6 DEF Leak
  <2>3. DOMAIN seen' = DOMAIN seen \cup {t} /\ seen'[t] = codes[w][t]
    BY <2>2
  <2>4. \A u \in DOMAIN seen : seen'[u] = seen[u]
    BY <2>1, <2>2
  <2>5. codes[w][t] \in {0, 1}
    BY <2>1 DEF CanaryTypeOK
  <2>6. CanaryTypeOK'
    BY <1>a, <2>1, <2>3, <2>4, <2>5 DEF CanaryTypeOK, CallTyped, Rounds
  <2>7. \A u \in DOMAIN seen' : \E x \in traitors' : seen'[u] = codes'[x][u]
    BY <2>1, <2>3, <2>4
  <2>8. IsSafe' = IsSafe
    BY <2>1 DEF IsSafe, Exposure, Rounds
  <2> QED
    BY <1>a, <2>1, <2>6, <2>7, <2>8 DEF Distinct
<1>7. CASE Discard
  <2>1. /\ phase' = "none" /\ built' = FALSE /\ CallTyped' /\ members' = {} /\ rounds' = 0
        /\ traitors' = {} /\ DOMAIN seen' = {} /\ UNCHANGED stream
        /\ codes' = [t \in {} |-> 0]
    BY <1>7 DEF Discard, CallTyped, Nothing
  <2>2. codes' \in [members' -> [Rounds' -> {0, 1}]]
    BY <2>1
  <2>3. built' \in BOOLEAN
    BY <2>1
  <2>4. 0 \in 0..MAX_ROUNDS
    BY RoundsAssumption
  <2>5. CanaryTypeOK'
    BY <2>1, <2>2, <2>3, <2>4, <1>0 DEF CanaryTypeOK, CallTyped
  <2> QED
    BY <2>1, <2>5 DEF Distinct
<1>8. CASE UNCHANGED canaryVars
  <2>1. IsSafe' = IsSafe
    BY <1>8 DEF canaryVars, IsSafe, Exposure, Rounds
  <2> QED
    BY <1>8, <2>1 DEF canaryVars, CanaryTypeOK, CallTyped, Rounds, Distinct
<1> QED
  BY <1>1, <1>2, <1>3, <1>4, <1>5, <1>6, <1>7, <1>8 DEF CanaryNext, BuildStep
---------------------------------------------------------------------------------
(* What follows from the invariant.                                            *)

LEMMA AlwaysCanaryInv == CanarySpec => []CanaryInv
<1> QED
  BY CanaryInvInit, CanaryInvNext, PTL DEF CanarySpec

(* A traitor's code agrees with what was seen if he was the only one to leak.  *)
LEMMA LoneIsSuspect ==
  ASSUME CanaryInv, phase = "ready", NEW w \in members, traitors = {w}
  PROVE  w \in Suspects
BY DEF CanaryInv, Suspects

(* When every round was seen, all suspects have the same code.                 *)
LEMMA SuspectsAgree ==
  ASSUME CanaryInv, DOMAIN seen = Rounds, NEW m \in Suspects, NEW w \in Suspects
  PROVE  m = w
<1>1. m \in members /\ w \in members
  BY DEF Suspects
<1>2. \A t \in Rounds : codes[m][t] = codes[w][t]
  BY DEF Suspects
<1>3. codes[m] \in [Rounds -> {0, 1}] /\ codes[w] \in [Rounds -> {0, 1}]
  BY <1>1 DEF CanaryInv, CanaryTypeOK
<1>4. codes[m] = codes[w]
  BY <1>2, <1>3
<1> QED
  BY <1>1, <1>4 DEF CanaryInv, Distinct

LEMMA LoneIsFound == CanaryInv => LoneTraitorFound
<1> SUFFICES ASSUME CanaryInv, NEW w \in members, phase = "ready", traitors = {w}
             PROVE  /\ w \in Suspects
                    /\ Consistent
                    /\ DOMAIN seen = Rounds => Identified
  BY DEF LoneTraitorFound
<1>1. w \in Suspects
  BY LoneIsSuspect
<1>2. Consistent
  BY <1>1 DEF Consistent
<1>3. ASSUME DOMAIN seen = Rounds PROVE Identified
  <2>1. Suspects = {w}
    BY <1>1, <1>3, SuspectsAgree
  <2>2. Cardinality(Suspects) = 1
    BY <2>1, FS_Singleton
  <2> QED
    BY <2>2 DEF Identified
<1> QED
  BY <1>1, <1>2, <1>3

(* Whom two traitors who leak in every round make the suspect, their exposure  *)
(* lists: in a round in which they share a variant, that one was seen.         *)
LEMMA FramedIsExposed ==
  ASSUME CanaryInv, NEW a \in members, NEW b \in members, traitors = {a, b},
         DOMAIN seen = Rounds, NEW m \in Suspects \ {a, b}
  PROVE  m \in Exposure(a, b)
<1>1. \A t \in Rounds : codes[m][t] = seen[t]
  BY DEF Suspects
<1>2. \A t \in Rounds : seen[t] = codes[a][t] \/ seen[t] = codes[b][t]
  BY DEF CanaryInv
<1>3. \A t \in Rounds : codes[a][t] = codes[b][t] => codes[m][t] = codes[a][t]
  BY <1>1, <1>2
<1>4. m \in members \ {a, b}
  BY DEF Suspects
<1> QED
  BY <1>3, <1>4 DEF Exposure

(* worst_collusion is the largest of the sizes: there is a largest one.        *)
LEMMA WorstIsWorst ==
  ASSUME CanaryInv, NEW a \in members, NEW b \in members
  PROVE  /\ IsFiniteSet(Exposure(a, b))
         /\ WorstCollusion \in Nat
         /\ Cardinality(Exposure(a, b)) <= WorstCollusion
<1> DEFINE sizes == {0} \cup {Cardinality(Exposure(x, y)) : x, y \in members}
<1>1. IsFiniteSet(members)
  BY NamesAssumption, FS_Subset DEF CanaryInv, CanaryTypeOK
<1>2. Cardinality(members) \in Nat
  BY <1>1, FS_CardinalityType
<1>3. \A x, y \in members :
        /\ IsFiniteSet(Exposure(x, y))
        /\ Cardinality(Exposure(x, y)) \in Nat
        /\ Cardinality(Exposure(x, y)) <= Cardinality(members)
  <2> SUFFICES ASSUME NEW x \in members, NEW y \in members
               PROVE  /\ IsFiniteSet(Exposure(x, y))
                      /\ Cardinality(Exposure(x, y)) \in Nat
                      /\ Cardinality(Exposure(x, y)) <= Cardinality(members)
    OBVIOUS
  <2>1. Exposure(x, y) \subseteq members
    BY DEF Exposure
  <2>2. /\ IsFiniteSet(Exposure(x, y))
        /\ Cardinality(Exposure(x, y)) <= Cardinality(members)
    BY <1>1, <2>1, FS_Subset
  <2> QED
    BY <2>2, FS_CardinalityType
<1>4. /\ sizes \in SUBSET Nat
      /\ sizes # {}
      /\ \A n \in sizes : n <= Cardinality(members)
  BY <1>2, <1>3
<1>5. Cardinality(Exposure(a, b)) \in sizes
  OBVIOUS
<1>6. WorstCollusion = CHOOSE n \in sizes : \A k \in sizes : k <= n
  BY DEF WorstCollusion
<1> HIDE DEF sizes
<1>7. \E n \in sizes : \A k \in sizes : k <= n
  BY <1>2, <1>4, LargestOfBounded
<1>8. WorstCollusion \in Nat /\ Cardinality(Exposure(a, b)) <= WorstCollusion
  BY <1>4, <1>5, <1>6, <1>7
<1> QED
  BY <1>3, <1>8

LEMMA FramesListed == CanaryInv => FramesAreListed
<1> SUFFICES ASSUME CanaryInv, NEW a \in members, NEW b \in members, phase = "ready",
                    traitors = {a, b}, a < b,
                    NEW m \in Suspects \ {a, b}, DOMAIN seen = Rounds
             PROVE  /\ <<a, b>> \in PossibleFramers(m)
                    /\ Cardinality(Suspects \ {a, b}) <= WorstCollusion
                    /\ ~IsSafe
                    /\ ~built
  BY DEF FramesAreListed
<1>1. m \in Exposure(a, b)
  BY FramedIsExposed
<1>2. <<a, b>> \in PossibleFramers(m)
  BY <1>1 DEF PossibleFramers, Exposure
<1>3. Cardinality(Suspects \ {a, b}) <= WorstCollusion
  <2>1. Suspects \ {a, b} \subseteq Exposure(a, b)
    BY FramedIsExposed
  <2>2. /\ IsFiniteSet(Exposure(a, b))
        /\ Cardinality(Exposure(a, b)) <= WorstCollusion
    BY WorstIsWorst
  <2>3. Suspects \ {a, b} = {m}
    BY SuspectsAgree
  <2>4. /\ Cardinality(Suspects \ {a, b}) <= Cardinality(Exposure(a, b))
        /\ Cardinality(Suspects \ {a, b}) = 1 /\ Cardinality(Exposure(a, b)) \in Nat
    BY <2>1, <2>2, <2>3, FS_Subset, FS_Singleton, FS_CardinalityType
  <2>5. WorstCollusion \in Nat
    BY WorstIsWorst
  <2> QED
    BY <2>2, <2>4, <2>5
<1>4. ~IsSafe
  BY <1>1 DEF IsSafe
<1>5. ~built
  BY <1>4 DEF CanaryInv
<1> QED
  BY <1>2, <1>3, <1>4, <1>5

---------------------------------------------------------------------------------
(* Every object the constructor or build_safe returns has one code per member, *)
(* of one bit per round, read from within the bytes that were derived.         *)
THEOREM CanaryTyped == CanarySpec => []CanaryTypeOK
<1>1. CanaryInv => CanaryTypeOK
  BY DEF CanaryInv
<1> QED
  BY <1>1, AlwaysCanaryInv, PTL

(* narrow() never clears a traitor who leaks alone, and finds him when every   *)
(* round was observed.                                                         *)
THEOREM LoneTraitorIsFound == CanarySpec => []LoneTraitorFound
<1> QED
  BY LoneIsFound, AlwaysCanaryInv, PTL

(* Whom two traitors can frame, possible_framers, worst_collusion and is_safe  *)
(* have announced, and no layout of build_safe lets them frame anybody.        *)
THEOREM FramesAreAnnounced == CanarySpec => []FramesAreListed
<1> QED
  BY FramesListed, AlwaysCanaryInv, PTL

=================================================================================
