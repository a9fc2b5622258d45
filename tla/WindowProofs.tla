------------------------------ MODULE WindowProofs ------------------------------
(* Lemmas about the operators of Window, for every width: the ones the theorems*)
(* about a ReplayWindow object and about sessions rest on.                     *)
EXTENDS Window, TLAPS

AnyWindow == [width : Nat \ {0}, top : 0..MaxSeq, mask : SUBSET Nat]

(* What the operators of Window compute.                                       *)

(* A verdict of accept() is one of five, and it is "ok" exactly when the       *)
(* number is in range and is new, or is inside the window with its bit clear.  *)
LEMMA VerdictCases ==
  ASSUME NEW w \in AnyWindow, NEW seq \in Int
  PROVE  /\ Verdict(w, seq) \in {"ok", "unsequenced", "range", "outside", "replay"}
         /\ Verdict(w, seq) = "ok" <=>
              /\ seq \in Numbers
              /\ \/ seq > w.top
                 \/ w.top - seq < w.width /\ (w.top - seq) \notin w.mask
         /\ Verdict(w, seq) = "replay" =>
              /\ seq \in Numbers /\ seq <= w.top
              /\ w.top - seq < w.width /\ (w.top - seq) \in w.mask
         /\ Verdict(w, seq) = "outside" =>
              seq \in Numbers /\ seq <= w.top /\ w.top - seq >= w.width
<1>1. w.top \in 0..MaxSeq /\ w.width \in Nat \ {0}
  BY DEF AnyWindow
<1>2. CASE seq = UNSEQUENCED
  BY <1>1, <1>2 DEF Verdict, UNSEQUENCED, Numbers
<1>3. CASE seq # UNSEQUENCED /\ seq \notin Numbers
  BY <1>1, <1>3 DEF Verdict, UNSEQUENCED, Numbers
<1>4. CASE seq \in Numbers
  BY <1>1, <1>4, MaxSeqAssumption DEF Verdict, UNSEQUENCED, Numbers
<1> QED
  BY <1>2, <1>3, <1>4

(* Marking a granted number keeps the window a window of the same width, and   *)
(* top the larger of the two.                                                  *)
LEMMA MarkedType ==
  ASSUME NEW w \in AnyWindow, w.mask \subseteq Positions(w.width),
         NEW seq \in Numbers, seq > w.top \/ w.top - seq < w.width
  PROVE  /\ Marked(w, seq) \in AnyWindow
         /\ Marked(w, seq).mask \subseteq Positions(w.width)
         /\ Marked(w, seq).width = w.width
         /\ Marked(w, seq).top = IF seq > w.top THEN seq ELSE w.top
<1>1. w.top \in 0..MaxSeq /\ w.width \in Nat \ {0}
  BY DEF AnyWindow
<1>2. 0 \in Positions(w.width)
  BY <1>1 DEF Positions
<1>3. w = [width |-> w.width, top |-> w.top, mask |-> w.mask]
  BY DEF AnyWindow
<1>4. CASE seq > w.top
  <2> DEFINE m == IF seq - w.top >= w.width
                    THEN {0}
                    ELSE (Shifted(w.mask, seq - w.top) \cup {0})
                           \cap Positions(w.width)
  <2>1. m \subseteq Positions(w.width)
    BY <1>2
  <2>2. m \in SUBSET Nat
    BY <2>1, <1>1 DEF Positions
  <2>3. Marked(w, seq) = [width |-> w.width, top |-> seq, mask |-> m]
    BY <1>3, <1>4 DEF Marked
  <2> HIDE DEF m
  <2> QED
    BY <2>1, <2>2, <2>3, <1>1, <1>4, MaxSeqAssumption DEF AnyWindow, Numbers
<1>5. CASE ~(seq > w.top)
  <2>1. w.top - seq \in Positions(w.width)
    BY <1>1, <1>5, MaxSeqAssumption DEF Positions, Numbers
  <2>2. Marked(w, seq) = [width |-> w.width, top |-> w.top,
                          mask |-> w.mask \cup {w.top - seq}]
    BY <1>3, <1>5 DEF Marked
  <2>3. w.mask \cup {w.top - seq} \subseteq Positions(w.width)
    BY <2>1
  <2>4. w.mask \cup {w.top - seq} \in SUBSET Nat
    BY <2>3, <1>1 DEF Positions
  <2> QED
    BY <2>2, <2>3, <2>4, <1>1, <1>5 DEF AnyWindow
<1> QED
  BY <1>4, <1>5

(* A bit of the marked window is the bit of the same number before, or the     *)
(* number just marked: the shift moves bits with their numbers.                *)
LEMMA MarkedBits ==
  ASSUME NEW w \in AnyWindow, w.mask \subseteq Positions(w.width),
         NEW seq \in Numbers, seq > w.top \/ w.top - seq < w.width,
         NEW n \in Numbers,
         n <= Marked(w, seq).top, Marked(w, seq).top - n < w.width
  PROVE  (Marked(w, seq).top - n) \in Marked(w, seq).mask <=>
           \/ n = seq
           \/ n <= w.top /\ (w.top - n) \in w.mask
<1>1. w.top \in 0..MaxSeq /\ w.width \in Nat \ {0}
  BY DEF AnyWindow
<1>2. w = [width |-> w.width, top |-> w.top, mask |-> w.mask]
  BY DEF AnyWindow
<1>3. w.mask \subseteq 0..(w.width - 1)
  BY DEF Positions
<1>4. CASE seq > w.top /\ seq - w.top >= w.width
  <2>1. Marked(w, seq) = [width |-> w.width, top |-> seq, mask |-> {0}]
    BY <1>2, <1>4 DEF Marked
  <2>2. n > w.top
    BY <2>1, <1>1, <1>4 DEF Numbers
  <2> QED
    BY <2>1, <2>2, <1>1 DEF Numbers
<1>5. CASE seq > w.top /\ ~(seq - w.top >= w.width)
  <2> DEFINE k == seq - w.top
             g == seq - n
  <2>1. Marked(w, seq) =
          [width |-> w.width, top |-> seq,
           mask |-> (Shifted(w.mask, k) \cup {0}) \cap Positions(w.width)]
    BY <1>2, <1>5 DEF Marked
  <2>2. g \in Positions(w.width)
    BY <2>1, <1>1 DEF Positions, Numbers
  <2>3. g \in Shifted(w.mask, k) <=> (w.top - n) \in w.mask
    <3>1. ASSUME g \in Shifted(w.mask, k) PROVE (w.top - n) \in w.mask
      <4>1. PICK i \in w.mask : g = i + k
        BY <3>1 DEF Shifted
      <4>2. i = w.top - n
        BY <4>1, <1>1, <1>3 DEF Numbers
      <4> QED BY <4>1, <4>2
    <3>2. ASSUME (w.top - n) \in w.mask PROVE g \in Shifted(w.mask, k)
      <4>1. g = (w.top - n) + k
        BY <1>1 DEF Numbers
      <4> QED BY <3>2, <4>1 DEF Shifted
    <3> QED BY <3>1, <3>2
  <2>4. (w.top - n) \in w.mask => n <= w.top
    BY <1>1, <1>3 DEF Numbers
  <2>5. g = 0 <=> n = seq
    BY DEF Numbers
  <2>6. (Marked(w, seq).top - n) \in Marked(w, seq).mask
          <=> g \in Shifted(w.mask, k) \/ g = 0
    BY <2>1, <2>2
  <2> QED
    BY <2>3, <2>4, <2>5, <2>6
<1>6. CASE ~(seq > w.top)
  <2>1. Marked(w, seq) = [width |-> w.width, top |-> w.top,
                          mask |-> w.mask \cup {w.top - seq}]
    BY <1>2, <1>6 DEF Marked
  <2>2. w.top - n = w.top - seq <=> n = seq
    BY <1>1 DEF Numbers
  <2> QED
    BY <2>1, <2>2
<1> QED
  BY <1>4, <1>5, <1>6

(* Loading what state() wrote gives back the same window.                      *)
LEMMA RoundTrip ==
  ASSUME NEW d \in AnyWindow, d.mask \subseteq Positions(d.width)
  PROVE  FromState(d) = d
<1>1. d = [width |-> d.width, top |-> d.top, mask |-> d.mask]
  BY DEF AnyWindow
<1>2. d.mask \cap Positions(d.width) = d.mask
  OBVIOUS
<1> QED
  BY <1>1, <1>2 DEF FromState

(* A new window is a window and remembers nothing.                             *)
LEMMA NewType ==
  ASSUME NEW width \in Nat \ {0}
  PROVE  /\ NewWindow(width) \in AnyWindow
         /\ NewWindow(width).mask \subseteq Positions(NewWindow(width).width)
         /\ Remembers(NewWindow(width), {})
  BY MaxSeqAssumption
     DEF NewWindow, AnyWindow, Remembers, Numbers, Positions

(* The step that matters: marking a granted number keeps mask and history      *)
(* equal below the width.                                                      *)
LEMMA MarkedRemembers ==
  ASSUME NEW w \in AnyWindow, w.mask \subseteq Positions(w.width),
         NEW granted, Remembers(w, granted),
         NEW seq \in Numbers, seq > w.top \/ w.top - seq < w.width
  PROVE  Remembers(Marked(w, seq), granted \cup {seq})
<1> DEFINE v == Marked(w, seq)
<1>1. w.top \in 0..MaxSeq /\ w.width \in Nat \ {0} /\ granted \subseteq 0..w.top
  BY DEF AnyWindow, Remembers
<1>2. v.width = w.width /\ v.top = IF seq > w.top THEN seq ELSE w.top
  BY MarkedType
<1>3. granted \cup {seq} \subseteq 0..v.top
  BY <1>1, <1>2 DEF Numbers
<1>4. v.top \in granted \cup {seq}
  <2>1. CASE seq > w.top
    BY <2>1, <1>2
  <2>2. CASE ~(seq > w.top)
    <3>1. w.top # 0
      BY <2>2, <1>1 DEF Numbers
    <3> QED BY <2>2, <3>1, <1>2 DEF Remembers
  <2> QED BY <2>1, <2>2
<1>5. ASSUME NEW n \in Numbers, n <= v.top, v.top - n < v.width
      PROVE  (v.top - n) \in v.mask <=> n \in granted \cup {seq}
  <2>1. (v.top - n) \in v.mask <=>
          n = seq \/ (n <= w.top /\ (w.top - n) \in w.mask)
    BY <1>2, <1>5, MarkedBits
  <2>2. CASE n <= w.top
    <3>1. w.top - n < w.width
      BY <2>2, <1>1, <1>2, <1>5 DEF Numbers
    <3> QED BY <2>1, <2>2, <3>1 DEF Remembers
  <2>3. CASE ~(n <= w.top)
    <3>1. n \notin granted
      BY <2>3, <1>1 DEF Numbers
    <3> QED BY <2>1, <2>3, <3>1
  <2> QED BY <2>2, <2>3
<1> QED
  BY <1>3, <1>4, <1>5 DEF Remembers

(* What accept() grants was not granted before.                                *)
LEMMA GrantedIsNew ==
  ASSUME NEW w \in AnyWindow, NEW granted, Remembers(w, granted),
         NEW seq \in Int, Verdict(w, seq) = "ok"
  PROVE  /\ seq \in Numbers
         /\ seq > w.top \/ w.top - seq < w.width
         /\ seq \notin granted
<1>1. w.top \in 0..MaxSeq
  BY DEF AnyWindow
<1>2. /\ seq \in Numbers
      /\ \/ seq > w.top
         \/ w.top - seq < w.width /\ (w.top - seq) \notin w.mask
  BY VerdictCases
<1>3. CASE seq > w.top
  BY <1>1, <1>2, <1>3 DEF Remembers, Numbers
<1>4. CASE ~(seq > w.top)
  <2>1. seq <= w.top
    BY <1>1, <1>2, <1>4 DEF Numbers
  <2> QED
    BY <1>2, <1>4, <2>1 DEF Remembers
<1> QED
  BY <1>2, <1>3, <1>4

(* And what was not granted before accept() grants, inside the window.         *)
LEMMA NewIsGranted ==
  ASSUME NEW w \in AnyWindow, NEW granted, Remembers(w, granted),
         NEW n \in Numbers, n \notin granted, n + w.width > w.top
  PROVE  Verdict(w, n) = "ok"
<1>1. w.top \in 0..MaxSeq /\ w.width \in Nat \ {0} /\ n \in 1..MaxSeq
  BY DEF AnyWindow, Numbers
<1>2. CASE n > w.top
  BY <1>1, <1>2, VerdictCases
<1>3. CASE ~(n > w.top)
  <2>1. n <= w.top /\ w.top - n < w.width
    BY <1>1, <1>3
  <2>2. (w.top - n) \notin w.mask
    BY <2>1 DEF Remembers
  <2> QED
    BY <1>1, <2>1, <2>2, VerdictCases
<1> QED
  BY <1>2, <1>3

=================================================================================
