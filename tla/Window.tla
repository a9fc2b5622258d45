--------------------------------- MODULE Window ---------------------------------
(* The sliding window of crypto/session.py as a value: the record a            *)
(* ReplayWindow object holds and what its methods compute from it.  The bit    *)
(* mask is the set of its one bits, so a left shift by k adds k to each        *)
(* member and "& ((1 << width) - 1)" keeps the members below width.            *)
EXTENDS Integers

CONSTANT MaxSeq             \* MAX_SEQ, the largest number the frame can carry

ASSUME MaxSeqAssumption == MaxSeq \in Nat \ {0}

UNSEQUENCED == 0            \* a message encrypted outside a session

(* The numbers a session may issue and a window may accept.                    *)
Numbers == 1..MaxSeq

Positions(width) == 0..(width - 1)

NewWindow(width) == [width |-> width, top |-> 0, mask |-> {}]

(* Mistake, for the runs: a number that left the window counts as unseen.      *)
SeenForgetful(w, seq) ==
  seq <= w.top /\ w.top - seq < w.width /\ (w.top - seq) \in w.mask

(* ReplayWindow.seen: a number above top is new, one that fell out of the      *)
(* window counts as seen, and between the two the mask decides.                *)
Seen(w, seq) ==
  /\ seq <= w.top
  /\ w.top - seq < w.width => (w.top - seq) \in w.mask

(* Mistake, for the runs: the window is one number too wide, or too narrow.    *)
VerdictTooWide(w, seq) ==
  IF seq = UNSEQUENCED THEN "unsequenced"
  ELSE IF seq \notin Numbers THEN "range"
  ELSE IF w.top - seq > w.width THEN "outside"
  ELSE IF (w.top - seq) \in w.mask THEN "replay" ELSE "ok"
VerdictTooNarrow(w, seq) ==
  IF seq = UNSEQUENCED THEN "unsequenced"
  ELSE IF seq \notin Numbers THEN "range"
  ELSE IF w.top - seq >= w.width - 1 THEN "outside"
  ELSE IF (w.top - seq) \in w.mask THEN "replay" ELSE "ok"

(* What ReplayWindow.accept answers; every answer but "ok" is an exception.    *)
Verdict(w, seq) ==
  CASE seq = UNSEQUENCED                          -> "unsequenced"
    [] seq # UNSEQUENCED /\ seq \notin Numbers    -> "range"
    [] seq \in Numbers /\ seq > w.top             -> "ok"
    [] seq \in Numbers /\ seq <= w.top /\ w.top - seq >= w.width -> "outside"
    [] seq \in Numbers /\ seq <= w.top /\ w.top - seq < w.width  ->
         IF (w.top - seq) \in w.mask THEN "replay" ELSE "ok"

Shifted(mask, k) == {i + k : i \in mask}

(* Mistakes, for the runs: the mask is not cut to the width; every advance     *)
(* resets it.                                                                  *)
MarkedUncut(w, seq) ==
  IF seq > w.top
    THEN [w EXCEPT !.top = seq, !.mask = Shifted(w.mask, seq - w.top) \cup {0}]
    ELSE [w EXCEPT !.mask = w.mask \cup {w.top - seq}]
MarkedReset(w, seq) ==
  IF seq > w.top THEN [w EXCEPT !.top = seq, !.mask = {0}]
                 ELSE [w EXCEPT !.mask = w.mask \cup {w.top - seq}]

(* The window after accept returned; a refused number changes nothing.         *)
Marked(w, seq) ==
  IF seq > w.top
    THEN [w EXCEPT !.top  = seq,
                   !.mask = IF seq - w.top >= w.width
                              THEN {0}
                              ELSE (Shifted(w.mask, seq - w.top) \cup {0})
                                     \cap Positions(w.width)]
    ELSE [w EXCEPT !.mask = w.mask \cup {w.top - seq}]

(* ReplayWindow.state and from_state: the dictionary has the record's fields,  *)
(* and loading clips the mask to the width stored beside it.                   *)
ToState(w)   == w
FromState(d) == [d EXCEPT !.mask = d.mask \cap Positions(d.width)]

---------------------------------------------------------------------------------
(* A window w remembers a set of granted numbers: below its width the mask is  *)
(* exactly that set, and top is its largest member.                            *)
Remembers(w, granted) ==
  /\ granted \subseteq 0..w.top
  /\ w.top # 0 => w.top \in granted
  /\ \A n \in Numbers : n <= w.top /\ w.top - n < w.width =>
       ((w.top - n) \in w.mask <=> n \in granted)

=================================================================================
