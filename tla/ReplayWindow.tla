------------------------------ MODULE ReplayWindow ------------------------------
(* One ReplayWindow object of crypto/session.py, called with any integers in   *)
(* any order, whose owner writes state() down from time to time and may, after *)
(* a restart, either restore what was written or begin with a new window.      *)
EXTENDS Window

CONSTANT Widths             \* the widths a caller asks for, within 1..MAX_WIDTH

ASSUME WidthsAssumption == Widths \subseteq Nat \ {0}

VARIABLES win,              \* the object: width, _top and _mask
          stored,           \* the last state() that was written down
          accepted,         \* history: the numbers this window's past granted
          acceptedAtSave,   \* history: the accepted when stored was written
          call              \* the last accept() call and its outcome

windowVars == <<win, stored, accepted, acceptedAtSave, call>>

NoCall == [seq |-> 0, verdict |-> "none"]

(* What callers pass: every number of the frame, the unsequenced 0, and the    *)
(* integers on either side of the range.                                       *)
Inputs == -1..(MaxSeq + 1)

WindowInit == /\ win \in {NewWindow(w) : w \in Widths}
              /\ stored = ToState(win)
              /\ accepted = {}
              /\ acceptedAtSave = {}
              /\ call = NoCall

(* accept() that returns.                                                      *)
Accept(seq) ==
  /\ Verdict(win, seq) = "ok"
  /\ win' = Marked(win, seq)
  /\ accepted' = accepted \cup {seq}
  /\ call' = [seq |-> seq, verdict |-> "ok"]
  /\ UNCHANGED <<stored, acceptedAtSave>>

(* accept() that raises: nothing is recorded.                                  *)
Refuse(seq) ==
  /\ Verdict(win, seq) # "ok"
  /\ call' = [seq |-> seq, verdict |-> Verdict(win, seq)]
  /\ UNCHANGED <<win, stored, accepted, acceptedAtSave>>

(* state() written down.                                                       *)
WriteDown == /\ stored' = ToState(win)
             /\ acceptedAtSave' = accepted
             /\ UNCHANGED <<win, accepted, call>>

(* A restart that loads the file back.                                         *)
Restore == /\ win' = FromState(stored)
           /\ accepted' = acceptedAtSave
           /\ call' = NoCall
           /\ UNCHANGED <<stored, acceptedAtSave>>

(* A restart whose file is lost: the constructor runs with some width.         *)
StartAfresh(width) == /\ win' = NewWindow(width)
                      /\ accepted' = {}
                      /\ call' = NoCall
                      /\ UNCHANGED <<stored, acceptedAtSave>>

WindowNext == \/ \E seq \in Inputs : Accept(seq) \/ Refuse(seq)
              \/ WriteDown
              \/ Restore
              \/ \E width \in Widths : StartAfresh(width)

WindowSpec == WindowInit /\ [][WindowNext]_windowVars

---------------------------------------------------------------------------------
WindowStates == [width : Widths, top : 0..MaxSeq, mask : SUBSET Nat]

(* Type invariant of the window object, the stored state and the histories.    *)
WindowTypeOK == /\ win \in WindowStates /\ win.mask \subseteq Positions(win.width)
                /\ stored \in WindowStates /\ stored.mask \subseteq Positions(stored.width)
                /\ accepted \subseteq Numbers
                /\ acceptedAtSave \subseteq Numbers
                /\ call \in [seq : Int,
                             verdict : {"none", "ok", "unsequenced", "range",
                                        "outside", "replay"}]

(* The numbers a window will refuse because they are used or too old.          *)
Closed(w) == {n \in Numbers : Seen(w, n)}

(* The mask and top say exactly which numbers were granted, however the window *)
(* slid, jumped past its own width or was reloaded: the shift-or-reset in      *)
(* accept() and the clipping in from_state() neither lose nor invent a bit.    *)
MaskIsMemory == Remembers(win, accepted) /\ Remembers(stored, acceptedAtSave)

(* Within one life of the window no number is granted twice: whatever was      *)
(* granted is refused from then on, also after it left the mask.               *)
NeverTwice == \A n \in accepted : Verdict(win, n) # "ok"

(* A number not granted before and less than width below top is always still   *)
(* accepted: losing and reordering messages inside the window costs nothing.   *)
NoneLostInside ==
  \A n \in Numbers \ accepted : n + win.width > win.top => Verdict(win, n) = "ok"

(* The texts of the two replay errors are true of the history: "already seen"  *)
(* only for a granted number, "fell outside" only for one width or more below  *)
(* the largest granted.                                                        *)
VerdictsAreTrue ==
  /\ call.verdict = "replay"  => call.seq \in accepted
  /\ call.verdict = "outside" => \E n \in accepted : n - call.seq >= win.width

(* seen(), which never changes the window, and accept(), which does, agree on  *)
(* every number a frame can carry.                                             *)
SeenAgreesWithAccept ==
  \A n \in Numbers : Seen(win, n) <=> Verdict(win, n) \in {"replay", "outside"}

(* What accept() answers is exact: granted once and never again, never refused *)
(* while it is inside the window and new, for the reason it gives, and seen()  *)
(* says the same beforehand.                                                   *)
AcceptIsExact == NeverTwice /\ NoneLostInside /\ VerdictsAreTrue /\ SeenAgreesWithAccept

(* The window implements the abstract promise, seen() being the mapping.       *)
Promise == INSTANCE OnceOnly
             WITH Reaches <- Widths, Last <- MaxSeq,
                  closed <- Closed(win), reach <- win.width,
                  checkpoint <- [closed |-> Closed(stored), reach |-> stored.width]
KeepsPromise == Promise!Spec

=================================================================================
