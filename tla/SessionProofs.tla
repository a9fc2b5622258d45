----------------------------- MODULE SessionProofs ------------------------------
(* Theorems about one ReplayWindow object and about the sessions of a channel, *)
(* both in crypto/session.py: for every MaxSeq and every width, and for every  *)
(* set of endpoints and of senders and every assignment of keys; and about the *)
(* handshakes that make such channels, for every set of devices and of objects.*)
EXTENDS Session, ReplayWindow, Handshake, WindowProofs, SequenceTheorems

---------------------------------------------------------------------------------
(* One ReplayWindow object, for every MaxSeq and every set of widths.          *)

(* The inductive invariant.  MaskIsMemory alone is not inductive: the shift    *)
(* keeps it only for a mask inside the width, so the type invariant is part.   *)
WInv == WindowTypeOK /\ MaskIsMemory

(* The windows of an object are those whose width is one of its widths.        *)
LEMMA StatesAre == \A w : w \in WindowStates <=> w \in AnyWindow /\ w.width \in Widths
<1>1. ASSUME NEW w \in WindowStates PROVE w \in AnyWindow /\ w.width \in Widths
  BY WidthsAssumption DEF WindowStates, AnyWindow
<1>2. ASSUME NEW w \in AnyWindow, w.width \in Widths PROVE w \in WindowStates
  BY <1>2 DEF WindowStates, AnyWindow
<1> QED
  BY <1>1, <1>2

(* What one Accept does to the invariant's facts about the live window.        *)
LEMMA AcceptFacts ==
  ASSUME WInv, NEW seq \in Int, Verdict(win, seq) = "ok"
  PROVE  /\ seq \in Numbers
         /\ seq > win.top \/ win.top - seq < win.width
         /\ seq \notin accepted
BY StatesAre, GrantedIsNew DEF WInv, WindowTypeOK, MaskIsMemory

LEMMA WInvInit == WindowInit => WInv
<1> SUFFICES ASSUME WindowInit PROVE WInv
  OBVIOUS
<1>1. PICK width \in Widths : win = NewWindow(width)
  BY DEF WindowInit
<1>2. /\ win \in WindowStates /\ win.mask \subseteq Positions(win.width)
      /\ Remembers(win, {})
  BY <1>1, NewType, StatesAre, WidthsAssumption DEF NewWindow
<1> QED
  BY <1>2 DEF WindowInit, WInv, WindowTypeOK, MaskIsMemory, ToState, NoCall

LEMMA WInvNext == WInv /\ [WindowNext]_windowVars => WInv'
<1> SUFFICES ASSUME WInv, [WindowNext]_windowVars PROVE WInv'
  OBVIOUS
<1> USE DEF WInv, WindowTypeOK, MaskIsMemory
<1>1. ASSUME NEW seq \in Inputs, Accept(seq) PROVE WInv'
  <2>1. seq \in Int /\ Verdict(win, seq) = "ok"
    BY <1>1, MaxSeqAssumption DEF Inputs, Accept
  <2>2. seq \in Numbers /\ (seq > win.top \/ win.top - seq < win.width)
    BY <2>1, AcceptFacts
  <2>3. win' \in WindowStates /\ win'.mask \subseteq Positions(win'.width)
    BY <1>1, <2>2, MarkedType, StatesAre DEF Accept
  <2>4. Remembers(win', accepted')
    BY <1>1, <2>2, MarkedRemembers, StatesAre DEF Accept
  <2> QED
    BY <1>1, <2>1, <2>2, <2>3, <2>4 DEF Accept
<1>2. ASSUME NEW seq \in Inputs, Refuse(seq) PROVE WInv'
  <2>1. seq \in Int
    BY MaxSeqAssumption DEF Inputs
  <2>2. Verdict(win, seq) \in {"ok", "unsequenced", "range", "outside", "replay"}
    BY <2>1, VerdictCases, StatesAre
  <2> QED
    BY <1>2, <2>1, <2>2 DEF Refuse
<1>3. ASSUME WriteDown PROVE WInv'
  BY <1>3 DEF WriteDown, ToState
<1>4. ASSUME Restore PROVE WInv'
  <2>1. win' = stored
    BY <1>4, RoundTrip, StatesAre DEF Restore
  <2> QED
    BY <1>4, <2>1 DEF Restore, NoCall
<1>5. ASSUME NEW width \in Widths, StartAfresh(width) PROVE WInv'
  <2>1. /\ win' \in WindowStates /\ win'.mask \subseteq Positions(win'.width)
        /\ Remembers(win', {})
    BY <1>5, NewType, StatesAre, WidthsAssumption DEF StartAfresh, NewWindow
  <2> QED
    BY <1>5, <2>1 DEF StartAfresh, NoCall
<1>6. CASE UNCHANGED windowVars
  BY <1>6 DEF windowVars
<1> QED
  BY <1>1, <1>2, <1>3, <1>4, <1>5, <1>6 DEF WindowNext

(* The window, its stored state and its history always have their types, and   *)
(* the mask always is the history below the width.                             *)
THEOREM Invariance == WindowSpec => []WInv
<1>1. WindowInit => WInv
  BY WInvInit
<1>2. WInv /\ [WindowNext]_windowVars => WInv'
  BY WInvNext
<1> QED
  BY <1>1, <1>2, PTL DEF WindowSpec

(* The type invariant, for every MaxSeq and every set of widths.               *)
THEOREM WindowTyped == WindowSpec => []WindowTypeOK
<1>1. WInv => WindowTypeOK
  BY DEF WInv
<1> QED
  BY Invariance, <1>1, PTL

(* Mask and top are the history below the width.                               *)
THEOREM MaskCorrect == WindowSpec => []MaskIsMemory
<1>1. WInv => MaskIsMemory
  BY DEF WInv
<1> QED
  BY Invariance, <1>1, PTL

(* No number is granted twice in one life of the window: the replay            *)
(* protection of accept().                                                     *)
THEOREM NoNumberTwice == WindowSpec => []NeverTwice
<1>1. WInv => NeverTwice
  <2> SUFFICES ASSUME WInv, NEW n \in accepted, Verdict(win, n) = "ok" PROVE FALSE
    BY DEF NeverTwice
  <2>1. n \in Int
    BY DEF WInv, WindowTypeOK, Numbers
  <2> QED
    BY <2>1, AcceptFacts
<1> QED
  BY Invariance, <1>1, PTL

(* A number never granted and less than width below top is still accepted.     *)
THEOREM NoLossInside == WindowSpec => []NoneLostInside
<1>1. WInv => NoneLostInside
  <2> SUFFICES ASSUME WInv, NEW n \in Numbers, n \notin accepted,
                      n + win.width > win.top
               PROVE  Verdict(win, n) = "ok"
    BY DEF NoneLostInside
  <2>1. win \in AnyWindow /\ Remembers(win, accepted)
    BY StatesAre DEF WInv, WindowTypeOK, MaskIsMemory
  <2> QED
    BY <2>1, NewIsGranted
<1> QED
  BY Invariance, <1>1, PTL

(* seen() answers for every number of the frame what accept() would do with    *)
(* it.                                                                         *)
THEOREM AlwaysAgrees == WindowSpec => []SeenAgreesWithAccept
<1>1. WindowTypeOK => SeenAgreesWithAccept
  <2> SUFFICES ASSUME WindowTypeOK, NEW n \in Numbers
               PROVE  Seen(win, n) <=> Verdict(win, n) \in {"replay", "outside"}
    BY DEF SeenAgreesWithAccept
  <2>1. win \in WindowStates
    BY DEF WindowTypeOK
  <2>2. win.top \in 0..MaxSeq /\ win.width \in Nat \ {0} /\ n \in 1..MaxSeq
    BY <2>1, WidthsAssumption DEF WindowStates, Numbers
  <2>3. Verdict(win, n) \in {"ok", "replay", "outside"}
    BY <2>2 DEF Verdict, UNSEQUENCED, Numbers
  <2>4. Verdict(win, n) = "ok" <=> ~Seen(win, n)
    BY <2>1, <2>2, VerdictCases, StatesAre DEF Seen
  <2> QED
    BY <2>3, <2>4
<1> QED
  BY WindowTyped, <1>1, PTL

(* The verdicts a caller is shown are true of the history: one more conjunct,  *)
(* inductive together with WInv.                                               *)
THEOREM TruthfulVerdicts == WindowSpec => []VerdictsAreTrue
<1>1. WindowInit => VerdictsAreTrue
  BY DEF WindowInit, NoCall, VerdictsAreTrue
<1>2. WInv /\ VerdictsAreTrue /\ [WindowNext]_windowVars => VerdictsAreTrue'
  <2> SUFFICES ASSUME WInv, VerdictsAreTrue, [WindowNext]_windowVars
               PROVE  VerdictsAreTrue'
    OBVIOUS
  <2>1. ASSUME NEW seq \in Inputs, Accept(seq) PROVE VerdictsAreTrue'
    BY <2>1 DEF Accept, VerdictsAreTrue
  <2>2. ASSUME NEW seq \in Inputs, Refuse(seq) PROVE VerdictsAreTrue'
    <3>a. win \in WindowStates /\ Remembers(win, accepted)
      BY DEF WInv, WindowTypeOK, MaskIsMemory
    <3>b. win.top \in 0..MaxSeq /\ win.width \in Nat \ {0}
      BY <3>a, WidthsAssumption DEF WindowStates
    <3>c. seq \in Int
      BY MaxSeqAssumption DEF Inputs
    <3>1. /\ win \in AnyWindow /\ Remembers(win, accepted) /\ seq \in Int
          /\ win.top \in 0..MaxSeq /\ win.width \in Nat \ {0}
      BY <3>a, <3>b, <3>c, StatesAre
    <3>2. Verdict(win, seq) = "replay" => seq \in accepted
      BY <3>1, VerdictCases DEF Remembers
    <3>3. Verdict(win, seq) = "outside" =>
            win.top \in accepted /\ win.top - seq >= win.width
      <4> SUFFICES ASSUME Verdict(win, seq) = "outside"
                   PROVE  win.top \in accepted /\ win.top - seq >= win.width
        OBVIOUS
      <4>1. seq \in Numbers /\ seq <= win.top /\ win.top - seq >= win.width
        BY <3>1, VerdictCases
      <4>2. win.top # 0
        BY <3>1, <4>1 DEF Numbers
      <4> QED
        BY <3>1, <4>1, <4>2 DEF Remembers
    <3>4. /\ call' = [seq |-> seq, verdict |-> Verdict(win, seq)]
          /\ accepted' = accepted /\ win' = win
      BY <2>2 DEF Refuse
    <3> QED
      BY <3>2, <3>3, <3>4 DEF VerdictsAreTrue
  <2>3. ASSUME WriteDown PROVE VerdictsAreTrue'
    BY <2>3 DEF WriteDown, VerdictsAreTrue
  <2>4. ASSUME Restore PROVE VerdictsAreTrue'
    BY <2>4 DEF Restore, NoCall, VerdictsAreTrue
  <2>5. ASSUME NEW width \in Widths, StartAfresh(width) PROVE VerdictsAreTrue'
    BY <2>5 DEF StartAfresh, NoCall, VerdictsAreTrue
  <2>6. CASE UNCHANGED windowVars
    BY <2>6 DEF windowVars, VerdictsAreTrue
  <2> QED
    BY <2>1, <2>2, <2>3, <2>4, <2>5, <2>6 DEF WindowNext
<1> QED
  BY Invariance, <1>1, <1>2, PTL DEF WindowSpec

(* Every answer of accept() is exact in all four respects, for every width and *)
(* every MAX_SEQ.                                                              *)
THEOREM ExactAnswers == WindowSpec => []AcceptIsExact
<1>1. NeverTwice /\ NoneLostInside /\ VerdictsAreTrue /\ SeenAgreesWithAccept
        => AcceptIsExact
  BY DEF AcceptIsExact
<1> QED
  BY NoNumberTwice, NoLossInside, TruthfulVerdicts, AlwaysAgrees, <1>1, PTL

---------------------------------------------------------------------------------
(* The refinement.  seen() answers, for every number of the frame, whether the *)
(* abstract promise has closed it.                                             *)

(* Granting a number closes it and everything width or more below it, and      *)
(* opens nothing.                                                              *)
LEMMA MarkedCloses ==
  ASSUME NEW w \in WindowStates, w.mask \subseteq Positions(w.width),
         NEW seq \in Numbers, seq > w.top \/ w.top - seq < w.width
  PROVE  Closed(Marked(w, seq)) =
           Closed(w) \cup {seq} \cup {m \in 1..MaxSeq : m + w.width <= seq}
<1> DEFINE v == Marked(w, seq)
<1>1. w.top \in 0..MaxSeq /\ w.width \in Nat \ {0}
  BY WidthsAssumption DEF WindowStates
<1>2. v.width = w.width /\ v.top = IF seq > w.top THEN seq ELSE w.top
  BY MarkedType, StatesAre
<1>3. ASSUME NEW m \in Numbers
      PROVE  Seen(v, m) <=> Seen(w, m) \/ m = seq \/ m + w.width <= seq
  <2>1. m \in Int /\ seq \in Int
    BY DEF Numbers
  <2>2. CASE m > v.top
    BY <2>1, <2>2, <1>1, <1>2 DEF Seen
  <2>3. CASE m <= v.top /\ v.top - m >= v.width
    BY <2>1, <2>3, <1>1, <1>2 DEF Seen
  <2>4. CASE m <= v.top /\ v.top - m < v.width
    <3>1. (v.top - m) \in v.mask <=>
            m = seq \/ (m <= w.top /\ (w.top - m) \in w.mask)
      BY <2>4, <1>2, MarkedBits, StatesAre
    <3>2. ~(m + w.width <= seq)
      BY <2>1, <2>4, <1>1, <1>2
    <3>3. m <= w.top => w.top - m < w.width
      BY <2>1, <2>4, <1>1, <1>2
    <3> QED
      BY <2>4, <3>1, <3>2, <3>3 DEF Seen
  <2> QED
    BY <2>1, <2>2, <2>3, <2>4, <1>1, <1>2
<1> QED
  BY <1>3 DEF Closed, Numbers

(* The detailed window implements the abstract promise of OnceOnly.            *)
THEOREM Refinement == WindowSpec => KeepsPromise
<1>1. WindowInit => Promise!Init
  <2> SUFFICES ASSUME WindowInit PROVE Promise!Init
    OBVIOUS
  <2>1. PICK width \in Widths : win = NewWindow(width) /\ stored = win
    BY DEF WindowInit, ToState
  <2>2. Closed(win) = {} /\ win.width = width
    BY <2>1 DEF Closed, Seen, NewWindow, Numbers
  <2> QED
    BY <2>1, <2>2 DEF Promise!Init
<1>2. WInv /\ [WindowNext]_windowVars => [Promise!Next]_(Promise!vars)
  <2> SUFFICES ASSUME WInv, [WindowNext]_windowVars
               PROVE  Promise!Next \/ UNCHANGED Promise!vars
    BY DEF Promise!vars
  <2> USE DEF Promise!vars
  <2>1. ASSUME NEW seq \in Inputs, Accept(seq) PROVE Promise!Next
    <3>1. seq \in Int /\ Verdict(win, seq) = "ok"
      BY <2>1, MaxSeqAssumption DEF Inputs, Accept
    <3>2. win \in WindowStates /\ win.mask \subseteq Positions(win.width)
      BY DEF WInv, WindowTypeOK
    <3>3. seq \in Numbers /\ (seq > win.top \/ win.top - seq < win.width)
      BY <3>1, AcceptFacts
    <3>4. win' = Marked(win, seq) /\ stored' = stored
      BY <2>1 DEF Accept
    <3>5. seq \notin Closed(win)
      <4>1. \/ seq > win.top
            \/ win.top - seq < win.width /\ (win.top - seq) \notin win.mask
        BY <3>1, <3>2, VerdictCases, StatesAre
      <4>2. win.top \in 0..MaxSeq /\ seq \in 1..MaxSeq
        BY <3>2, <3>3 DEF WindowStates, Numbers
      <4> QED
        BY <4>1, <4>2 DEF Closed, Seen
    <3>6. Closed(win') =
            Closed(win) \cup {seq} \cup {m \in 1..MaxSeq : m + win.width <= seq}
      BY <3>2, <3>3, <3>4, MarkedCloses
    <3>7. win'.width = win.width
      BY <3>2, <3>3, <3>4, MarkedType, StatesAre
    <3>8. Promise!Grant(seq)
      BY <3>4, <3>5, <3>6, <3>7 DEF Promise!Grant, Promise!Range
    <3> QED
      BY <3>3, <3>8 DEF Promise!Next, Promise!Range, Numbers
  <2>2. ASSUME NEW seq \in Inputs, Refuse(seq) PROVE UNCHANGED Promise!vars
    BY <2>2 DEF Refuse
  <2>3. ASSUME WriteDown PROVE Promise!Checkpoint
    BY <2>3 DEF WriteDown, ToState, Promise!Checkpoint
  <2>4. ASSUME Restore PROVE Promise!GoBack
    <3>1. win' = stored /\ stored' = stored
      BY <2>4, RoundTrip, StatesAre DEF Restore, WInv, WindowTypeOK
    <3> QED
      BY <3>1 DEF Promise!GoBack
  <2>5. ASSUME NEW width \in Widths, StartAfresh(width) PROVE Promise!StartOver
    <3>1. win' = NewWindow(width) /\ stored' = stored
      BY <2>5 DEF StartAfresh
    <3>2. Closed(win') = {} /\ win'.width = width
      BY <3>1 DEF Closed, Seen, NewWindow, Numbers
    <3> QED
      BY <3>1, <3>2 DEF Promise!StartOver
  <2>6. CASE UNCHANGED windowVars
    BY <2>6 DEF windowVars
  <2> QED
    BY <2>1, <2>2, <2>3, <2>4, <2>5, <2>6 DEF WindowNext, Promise!Next
<1> QED
  BY Invariance, <1>1, <1>2, PTL DEF WindowSpec, KeepsPromise, Promise!Spec

---------------------------------------------------------------------------------
(* The windows of sessions.                                                    *)

LEMMA WindowsAre ==
  \A w : w \in Windows <=> /\ w \in AnyWindow /\ w.width = Width
                           /\ w.mask \subseteq Positions(w.width)
<1>1. ASSUME NEW w \in Windows
      PROVE  w \in AnyWindow /\ w.width = Width /\ w.mask \subseteq Positions(w.width)
  <2>1. w.mask \subseteq Nat
    BY WidthAssumption DEF Windows, Positions
  <2> QED
    BY <2>1, WidthAssumption DEF Windows, AnyWindow
<1>2. ASSUME NEW w \in AnyWindow, w.width = Width, w.mask \subseteq Positions(w.width)
      PROVE  w \in Windows
  BY <1>2 DEF Windows, AnyWindow
<1> QED
  BY <1>1, <1>2

(* A stored session that is loaded is the session that was stored.             *)
LEMMA LoadedIs ==
  ASSUME NEW d \in Sessions
  PROVE  Loaded(d) = d
<1>1. d.win \in Windows
  BY DEF Sessions
<1>2. FromState(d.win) = d.win
  BY <1>1, WindowsAre, RoundTrip
<1> QED
  BY <1>2 DEF Loaded, Sessions

(* A new session has its type, and remembers nothing.                          *)
LEMMA NewSessionType ==
  /\ NewSession \in Sessions
  /\ Remembers(NewSession.win, {})
<1>1. /\ NewWindow(Width) \in Windows
      /\ Remembers(NewWindow(Width), {})
  BY NewType, WindowsAre, WidthAssumption DEF NewWindow
<1> QED
  BY <1>1, MaxSeqAssumption DEF NewSession, Sessions

---------------------------------------------------------------------------------
(* The inductive invariant.                                                    *)

(* The numbers of the blobs an endpoint let through.                           *)
Taken(e) == {blobs[i].seq : i \in passed[e]}

(* Blobs carry the key and a number of their maker; until an end is restarted  *)
(* from an outdated state, its window remembers what it let through, and its   *)
(* counter has passed every number it issued, each on one blob.                *)
WindowsRemember ==
  \A e \in Endpoints : ~inBack[e] => /\ Remembers(sess[e].win, Taken(e))
                                     /\ repeated[e] = {}
MadeBySender == \A i \in Ids : blobs[i].key = SendKey[blobs[i].from]
PassedIsRight ==
  \A e \in Endpoints : \A i \in passed[e] : /\ InSession(i)
                                            /\ blobs[i].key = RecvKey[e]
CounterAhead ==
  \A i \in Ids : InSession(i) /\ ~outBack[blobs[i].from] =>
    blobs[i].seq <= sess[blobs[i].from].out
OneBlobEach ==
  \A i, j \in Ids : /\ InSession(i) /\ InSession(j) /\ ~outBack[blobs[i].from]
                    /\ blobs[j].from = blobs[i].from /\ blobs[j].seq = blobs[i].seq
                    => i = j

IInv == /\ TypeOK
        /\ WindowsRemember
        /\ MadeBySender
        /\ PassedIsRight
        /\ CounterAhead
        /\ OneBlobEach

LEMMA InitInvariant == Init => IInv
<1> SUFFICES ASSUME Init PROVE IInv
  OBVIOUS
<1>1. Ids = {} /\ Len(blobs) = 0
  BY DEF Init, Ids
<1>2. \A e \in Endpoints : sess[e] = NewSession /\ passed[e] = {} /\ repeated[e] = {}
  BY DEF Init
<1>3. TypeOK
  <2>1. sess \in [Endpoints -> Sessions] /\ disk \in [Endpoints -> Sessions]
    BY NewSessionType DEF Init
  <2>2. blobs \in Seq(Blobs)
    BY DEF Init
  <2>3. \A f \in {passed, repeated, opened} : f \in [Endpoints -> SUBSET Ids]
    BY DEF Init
  <2>4. outBack \in [Endpoints -> BOOLEAN] /\ inBack \in [Endpoints -> BOOLEAN]
    BY DEF Init
  <2> QED
    BY <2>1, <2>2, <2>3, <2>4 DEF TypeOK
<1>4. WindowsRemember
  <2>1. \A e \in Endpoints : Taken(e) = {}
    BY <1>2 DEF Taken
  <2> QED
    BY <1>2, <2>1, NewSessionType DEF WindowsRemember
<1> QED
  BY <1>1, <1>2, <1>3, <1>4 DEF IInv, MadeBySender, PassedIsRight,
                                     CounterAhead, OneBlobEach

(* One more blob.                                                              *)
LEMMA MadeFacts ==
  ASSUME TypeOK, NEW b \in Blobs, Made(b)
  PROVE  /\ blobs' \in Seq(Blobs)
         /\ \E n : /\ Ids' = Ids \cup {n} /\ n \notin Ids
                   /\ \A i \in Ids : blobs'[i] = blobs[i]
                   /\ blobs'[n] = b
<1>1. blobs \in Seq(Blobs) /\ Len(blobs) \in Nat
  BY DEF TypeOK
<1>2. /\ blobs' \in Seq(Blobs)
      /\ Len(blobs') = Len(blobs) + 1
      /\ \A i \in 1..Len(blobs) : blobs'[i] = blobs[i]
      /\ blobs'[Len(blobs) + 1] = b
  BY <1>1, AppendProperties DEF Made
<1>3. /\ Ids' = Ids \cup {Len(blobs) + 1} /\ Len(blobs) + 1 \notin Ids
      /\ \A i \in Ids : blobs'[i] = blobs[i]
  BY <1>1, <1>2 DEF Ids
<1> QED
  BY <1>2, <1>3

LEMMA BlobType ==
  ASSUME TypeOK, NEW i \in Ids
  PROVE  /\ blobs[i] \in Blobs /\ blobs[i].seq \in Int /\ blobs[i].from \in Endpoints
         /\ sess[blobs[i].from].out \in Int
<1>1. blobs[i] \in Blobs
  BY ElementOfSeq DEF TypeOK, Ids
<1>2. blobs[i].seq \in Int /\ blobs[i].from \in Endpoints
  BY <1>1, MaxSeqAssumption DEF Blobs
<1>3. sess[blobs[i].from] \in Sessions
  BY <1>2 DEF TypeOK
<1> QED
  BY <1>1, <1>2, <1>3, MaxSeqAssumption DEF Sessions

(* What is known of a blob that is let through.                                *)
LEMMA PassFacts ==
  ASSUME IInv, NEW e \in Endpoints, NEW i \in Ids, Pass(e, i)
  PROVE  /\ blobs[i].seq \in Numbers /\ InSession(i) /\ blobs[i].key = RecvKey[e]
         /\ \/ blobs[i].seq > sess[e].win.top
            \/ sess[e].win.top - blobs[i].seq < sess[e].win.width
         /\ ~inBack[e] => i \notin passed[e]
<1>1. blobs[i] \in Blobs /\ blobs[i].seq \in Int
  BY BlobType DEF IInv
<1>2. sess[e].win \in AnyWindow
  BY WindowsAre DEF IInv, TypeOK, Sessions
<1>3. /\ blobs[i].key = RecvKey[e] /\ blobs[i].version = VERSION
      /\ Verdict(sess[e].win, blobs[i].seq) = "ok"
  BY DEF Pass, VerifyOutcome
<1>4. /\ blobs[i].seq \in Numbers
      /\ \/ blobs[i].seq > sess[e].win.top
         \/ sess[e].win.top - blobs[i].seq < sess[e].win.width
  BY <1>1, <1>2, <1>3, VerdictCases
<1>5. InSession(i)
  BY <1>3, <1>4 DEF InSession, Numbers, UNSEQUENCED
<1>6. ASSUME ~inBack[e] PROVE i \notin passed[e]
  <2>1. blobs[i].seq \notin Taken(e)
    BY <1>1, <1>2, <1>3, <1>6, GrantedIsNew DEF IInv, WindowsRemember
  <2> QED
    BY <2>1 DEF Taken
<1> QED
  BY <1>3, <1>4, <1>5, <1>6

---------------------------------------------------------------------------------
(* The steps.                                                                  *)

(* A number is spent, on a blob or on none.                                    *)
LEMMA NumberedType ==
  ASSUME TypeOK, NEW e \in Endpoints, ~Exhausted(sess[e])
  PROVE  /\ Numbered(sess[e]) \in Sessions
         /\ Numbered(sess[e]).out = sess[e].out + 1
         /\ Numbered(sess[e]).win = sess[e].win
         /\ sess[e].out \in Nat
<1>1. sess[e] \in Sessions
  BY DEF TypeOK
<1>2. sess[e].out \in 0..MaxSeq /\ sess[e].out + 1 \in 0..MaxSeq
  BY <1>1, MaxSeqAssumption DEF Sessions, Exhausted
<1> QED
  BY <1>1, <1>2 DEF Sessions, Numbered

(* A blob is made, under a new number of its maker or under none.              *)
LEMMA MadeKeeps ==
  ASSUME IInv, NEW e \in Endpoints, NEW b \in Blobs, Made(b),
         b.key = SendKey[e], b.from = e,
         UNCHANGED <<disk, outBack, passed, repeated, opened, inBack>>,
         sess' \in [Endpoints -> Sessions],
         \A f \in Endpoints : sess'[f].win = sess[f].win /\ sess'[f].out >= sess[f].out,
         \/ b.version # VERSION \/ b.seq = UNSEQUENCED
         \/ b.seq = sess[e].out + 1 /\ sess'[e].out = b.seq
  PROVE  IInv'
<1>0. blobs' \in Seq(Blobs)
  BY MadeFacts, Zenon DEF IInv
<1>n. \E n : /\ Ids' = Ids \cup {n} /\ n \notin Ids
             /\ \A i \in Ids : blobs'[i] = blobs[i]
             /\ blobs'[n] = b
  BY MadeFacts, Zenon DEF IInv
<1>1. PICK n : /\ Ids' = Ids \cup {n} /\ n \notin Ids
               /\ \A i \in Ids : blobs'[i] = blobs[i]
               /\ blobs'[n] = b
  BY <1>n, Zenon
<1>2. TypeOK'
  BY <1>0, <1>1 DEF IInv, TypeOK
<1>3. \A f \in Endpoints : Taken(f)' = Taken(f)
  BY <1>1 DEF IInv, TypeOK, Taken
<1>4. WindowsRemember'
  BY <1>3 DEF IInv, WindowsRemember
<1>5. MadeBySender'
  BY <1>1 DEF IInv, MadeBySender
<1>6. \A i \in Ids : InSession(i)' <=> InSession(i)
  BY <1>1 DEF InSession
<1>7. PassedIsRight'
  BY <1>1, <1>6 DEF IInv, TypeOK, PassedIsRight
<1>8. ASSUME NEW i \in Ids, InSession(i), ~outBack[blobs[i].from]
      PROVE  /\ blobs[i].seq <= sess'[blobs[i].from].out
             /\ blobs[i].from = e /\ InSession(n)' => blobs[i].seq # b.seq
  <2>1. /\ blobs[i].seq \in Int /\ blobs[i].from \in Endpoints
        /\ sess[blobs[i].from].out \in Int
    BY BlobType DEF IInv
  <2>2. sess'[blobs[i].from].out \in Int
    BY <2>1 DEF Sessions
  <2>3. blobs[i].seq <= sess[blobs[i].from].out
    BY <1>8 DEF IInv, CounterAhead
  <2>4. InSession(n)' => b.seq = sess[e].out + 1
    BY <1>1 DEF InSession
  <2> QED
    BY <2>1, <2>2, <2>3, <2>4
<1>9. CounterAhead'
  <2> SUFFICES ASSUME NEW i \in Ids', InSession(i)', ~outBack'[blobs'[i].from]
               PROVE  blobs'[i].seq <= sess'[blobs'[i].from].out
    BY DEF CounterAhead
  <2>1. CASE i = n
    <3>1. b.seq = sess'[e].out /\ sess'[e].out \in Int
      BY <1>1, <2>1, MaxSeqAssumption DEF InSession, Sessions
    <3> QED
      BY <1>1, <2>1, <3>1
  <2>2. CASE i \in Ids
    BY <1>1, <1>6, <1>8, <2>2
  <2> QED
    BY <1>1, <2>1, <2>2
<1>10. OneBlobEach'
  <2> SUFFICES ASSUME NEW i \in Ids', NEW j \in Ids', InSession(i)', InSession(j)',
                      ~outBack'[blobs'[i].from], blobs'[j].from = blobs'[i].from,
                      blobs'[j].seq = blobs'[i].seq
               PROVE  i = j
    BY DEF OneBlobEach
  <2>1. CASE i \in Ids /\ j \in Ids
    BY <1>1, <1>6, <2>1 DEF IInv, OneBlobEach
  <2>2. CASE i \in Ids /\ j = n
    BY <1>1, <1>6, <1>8, <2>2 DEF InSession
  <2>3. CASE i = n /\ j \in Ids
    BY <1>1, <1>6, <1>8, <2>3 DEF InSession
  <2> QED
    BY <1>1, <2>1, <2>2, <2>3
<1> QED
  BY <1>2, <1>4, <1>5, <1>7, <1>9, <1>10 DEF IInv

LEMMA EncryptKeeps ==
  ASSUME IInv, NEW e \in Endpoints, NEW kind \in Kinds, Encrypt(e, kind)
  PROVE  IInv'
<1> DEFINE b == [key |-> SendKey[e], version |-> VERSION, seq |-> Numbered(sess[e]).out,
                 kind |-> kind, from |-> e]
<1>1. /\ TypeOK /\ ~Exhausted(sess[e]) /\ Made(b)
      /\ sess' = [sess EXCEPT ![e] = Numbered(sess[e])]
      /\ UNCHANGED <<disk, outBack, passed, repeated, opened, inBack>>
  BY DEF Encrypt, IInv, received
<1>2. /\ Numbered(sess[e]) \in Sessions /\ Numbered(sess[e]).win = sess[e].win
      /\ Numbered(sess[e]).out = sess[e].out + 1 /\ sess[e].out \in Nat
  BY <1>1, NumberedType
<1>3. b \in Blobs
  BY <1>2, KeysAssumption DEF Blobs, Sessions
<1>4. b.key = SendKey[e] /\ b.from = e /\ b.seq = sess[e].out + 1
  BY <1>2
<1> HIDE DEF b
<1>5. /\ sess' \in [Endpoints -> Sessions] /\ sess'[e] = Numbered(sess[e])
      /\ \A f \in Endpoints \ {e} : sess'[f] = sess[f]
  BY <1>1, <1>2 DEF TypeOK
<1>6. \A f \in Endpoints : sess'[f].win = sess[f].win /\ sess'[f].out >= sess[f].out
  <2>1. \A f \in Endpoints : sess[f].out \in Int
    BY <1>1, MaxSeqAssumption DEF TypeOK, Sessions
  <2> QED
    BY <1>2, <1>5, <2>1
<1> QED
  BY <1>1, <1>2, <1>3, <1>4, <1>5, <1>6, MadeKeeps

LEMMA EncryptOutsideKeeps ==
  ASSUME IInv, NEW e \in Endpoints, NEW version, NEW seq, EncryptOutside(e, version, seq),
         \/ version = VERSION /\ seq = UNSEQUENCED
         \/ version = VERSION - 1 /\ seq = 1
  PROVE  IInv'
<1> DEFINE b == [key |-> SendKey[e], version |-> version, seq |-> seq,
                 kind |-> CHOOSE k \in Kinds : TRUE, from |-> e]
<1>1. /\ TypeOK /\ Made(b)
      /\ UNCHANGED <<sess, disk, outBack, passed, repeated, opened, inBack>>
  BY DEF EncryptOutside, IInv, received
<1>2. (CHOOSE k \in Kinds : TRUE) \in Kinds
  BY KindsAssumption
<1>3. seq \in 0..MaxSeq
  BY MaxSeqAssumption DEF UNSEQUENCED
<1>4. b \in Blobs
  BY <1>2, <1>3, KeysAssumption DEF Blobs
<1>5. /\ b.key = SendKey[e] /\ b.from = e
      /\ b.version # VERSION \/ b.seq = UNSEQUENCED
  BY DEF VERSION
<1> HIDE DEF b
<1>6. \A f \in Endpoints : sess'[f].win = sess[f].win /\ sess'[f].out >= sess[f].out
  BY <1>1, MaxSeqAssumption DEF TypeOK, Sessions
<1> QED
  BY <1>1, <1>4, <1>5, <1>6, MadeKeeps DEF TypeOK

(* Nothing but the sessions changes, and of them only counters, upwards, unless*)
(* the owner goes back to an older counter.                                    *)
LEMMA SessionsKeep ==
  ASSUME IInv, UNCHANGED <<blobs, passed, repeated, opened>>, TypeOK',
         \A e \in Endpoints :
           /\ ~inBack'[e]  => ~inBack[e] /\ sess'[e].win = sess[e].win
           /\ ~outBack'[e] => ~outBack[e] /\ sess'[e].out >= sess[e].out
  PROVE  IInv'
<1>1. \A e \in Endpoints : Taken(e)' = Taken(e)
  BY DEF Taken
<1>2. WindowsRemember'
  BY <1>1 DEF IInv, WindowsRemember
<1>3. \A i \in Ids : InSession(i)' <=> InSession(i)
  BY DEF InSession
<1>4. Ids' = Ids
  BY DEF Ids
<1>5. MadeBySender' /\ PassedIsRight'
  BY <1>3, <1>4 DEF IInv, MadeBySender, PassedIsRight, InSession
<1>6. CounterAhead'
  <2> SUFFICES ASSUME NEW i \in Ids, InSession(i)', ~outBack'[blobs[i].from]
               PROVE  blobs[i].seq <= sess'[blobs[i].from].out
    BY <1>4 DEF CounterAhead
  <2>1. /\ blobs[i].seq \in Int /\ blobs[i].from \in Endpoints
        /\ sess[blobs[i].from].out \in Int
    BY BlobType DEF IInv
  <2>2. sess'[blobs[i].from].out \in Int
    BY <2>1, MaxSeqAssumption DEF TypeOK, Sessions
  <2>3. blobs[i].seq <= sess[blobs[i].from].out
    BY <1>3, <2>1 DEF IInv, CounterAhead
  <2> QED
    BY <2>1, <2>2, <2>3
<1>7. OneBlobEach'
  <2>1. \A i \in Ids : blobs[i].from \in Endpoints
    BY BlobType DEF IInv
  <2> QED
    BY <1>3, <1>4, <2>1 DEF IInv, OneBlobEach, InSession
<1> QED
  BY <1>2, <1>5, <1>6, <1>7 DEF IInv

(* A number is spent on a call that raises.                                    *)
LEMMA RefusedKeeps ==
  ASSUME IInv, NEW e \in Endpoints, EncryptRefused(e)
  PROVE  IInv'
<1>1. /\ TypeOK /\ ~Exhausted(sess[e])
      /\ sess' = [sess EXCEPT ![e] = Numbered(sess[e])]
      /\ UNCHANGED <<disk, blobs, outBack, passed, repeated, opened, inBack>>
  BY DEF EncryptRefused, IInv, received
<1>2. /\ Numbered(sess[e]) \in Sessions /\ Numbered(sess[e]).win = sess[e].win
      /\ Numbered(sess[e]).out = sess[e].out + 1 /\ sess[e].out \in Nat
  BY <1>1, NumberedType
<1>3. /\ sess' \in [Endpoints -> Sessions] /\ sess'[e] = Numbered(sess[e])
      /\ \A f \in Endpoints \ {e} : sess'[f] = sess[f]
  BY <1>1, <1>2 DEF TypeOK
<1>4. TypeOK'
  BY <1>1, <1>3 DEF TypeOK, Ids
<1>5. \A f \in Endpoints : sess'[f].win = sess[f].win /\ sess'[f].out >= sess[f].out
  <2>1. \A f \in Endpoints : sess[f].out \in Int
    BY <1>1, MaxSeqAssumption DEF TypeOK, Sessions
  <2> QED
    BY <1>2, <1>3, <2>1
<1> QED
  BY <1>1, <1>4, <1>5, SessionsKeep

(* A blob is let through; its number is in the window from then on.            *)
LEMMA PassKeeps ==
  ASSUME IInv, NEW e \in Endpoints, NEW i \in Ids, Pass(e, i),
         UNCHANGED <<disk, blobs, outBack, inBack>>,
         opened' \in [Endpoints -> SUBSET Ids]
  PROVE  IInv'
<1> DEFINE w == sess[e].win
           v == Marked(w, blobs[i].seq)
<1>1. /\ blobs[i].seq \in Numbers /\ InSession(i) /\ blobs[i].key = RecvKey[e]
      /\ blobs[i].seq > w.top \/ w.top - blobs[i].seq < w.width
      /\ ~inBack[e] => i \notin passed[e]
  BY PassFacts
<1>2. /\ w \in AnyWindow /\ w.width = Width /\ w.mask \subseteq Positions(w.width)
  BY WindowsAre DEF IInv, TypeOK, Sessions
<1>3. v \in Windows
  BY <1>1, <1>2, MarkedType, WindowsAre
<1>4. sess' = [sess EXCEPT ![e].win = v]
  BY DEF Pass
<1>5. ~inBack[e] => Remembers(v, Taken(e) \cup {blobs[i].seq})
  BY <1>1, <1>2, MarkedRemembers DEF IInv, WindowsRemember
<1> HIDE DEF v, w
<1>6. /\ sess' \in [Endpoints -> Sessions] /\ sess'[e].win = v
      /\ \A f \in Endpoints : sess'[f].out = sess[f].out
      /\ \A f \in Endpoints \ {e} : sess'[f] = sess[f]
  BY <1>3, <1>4 DEF IInv, TypeOK, Sessions
<1>7. /\ passed' = [passed EXCEPT ![e] = @ \cup {i}]
      /\ repeated' = [repeated EXCEPT ![e] = IF i \in passed[e] THEN @ \cup {i} ELSE @]
  BY DEF Pass
<1>8. Ids' = Ids
  BY DEF Ids
<1>9. TypeOK'
  BY <1>6, <1>7, <1>8 DEF IInv, TypeOK
<1>10. WindowsRemember'
  <2>1. Taken(e)' = Taken(e) \cup {blobs[i].seq}
    BY <1>7 DEF IInv, TypeOK, Taken
  <2>2. \A f \in Endpoints \ {e} : Taken(f)' = Taken(f) /\ repeated'[f] = repeated[f]
    BY <1>7 DEF IInv, TypeOK, Taken
  <2>3. ~inBack[e] => Remembers(sess'[e].win, Taken(e)') /\ repeated'[e] = {}
    BY <1>1, <1>5, <1>6, <1>7, <2>1 DEF IInv, TypeOK, WindowsRemember
  <2> QED
    BY <1>6, <2>2, <2>3 DEF IInv, WindowsRemember
<1>11. \A j \in Ids : InSession(j)' <=> InSession(j)
  BY DEF InSession
<1>12. PassedIsRight'
  BY <1>1, <1>7, <1>11 DEF IInv, TypeOK, PassedIsRight
<1>13. MadeBySender' /\ CounterAhead' /\ OneBlobEach'
  <2>1. \A j \in Ids : blobs[j].from \in Endpoints
    BY BlobType DEF IInv
  <2> QED
    BY <1>6, <1>8, <1>11, <2>1
       DEF IInv, MadeBySender, CounterAhead, OneBlobEach, InSession
<1> QED
  BY <1>9, <1>10, <1>12, <1>13 DEF IInv

LEMMA RestartKeeps ==
  ASSUME IInv, NEW e \in Endpoints, Restart(e)
  PROVE  IInv'
<1>1. disk[e] \in Sessions /\ sess[e] \in Sessions
  BY DEF IInv, TypeOK
<1>2. /\ sess' = [sess EXCEPT ![e] = disk[e]]
      /\ outBack' = [outBack EXCEPT ![e] = @ \/ disk[e].out # sess[e].out]
      /\ inBack' = [inBack EXCEPT ![e] = @ \/ disk[e].win # sess[e].win]
      /\ UNCHANGED <<disk, blobs, passed, repeated, opened>>
  BY <1>1, LoadedIs DEF Restart
<1>3. TypeOK'
  BY <1>1, <1>2 DEF IInv, TypeOK, Ids
<1>4. ASSUME NEW f \in Endpoints
      PROVE  /\ ~inBack'[f]  => ~inBack[f] /\ sess'[f].win = sess[f].win
             /\ ~outBack'[f] => ~outBack[f] /\ sess'[f].out >= sess[f].out
  <2>1. sess[f].out \in Int
    BY MaxSeqAssumption DEF IInv, TypeOK, Sessions
  <2>2. CASE f = e
    <3>1. ~inBack'[f]  => ~inBack[f] /\ sess'[f].win = sess[f].win
      BY <1>2, <2>2 DEF IInv, TypeOK
    <3>2. ~outBack'[f] => ~outBack[f] /\ sess'[f].out = sess[f].out
      BY <1>2, <2>2 DEF IInv, TypeOK
    <3> QED
      BY <2>1, <3>1, <3>2
  <2>3. CASE f # e
    BY <1>2, <2>1, <2>3 DEF IInv, TypeOK
  <2> QED
    BY <2>2, <2>3
<1> QED
  BY <1>2, <1>3, <1>4, SessionsKeep

LEMMA NextInvariant == IInv /\ [Next]_vars => IInv'
<1> SUFFICES ASSUME IInv, [Next]_vars PROVE IInv'
  OBVIOUS
<1>1. ASSUME NEW e \in Senders, Send(e) PROVE IInv'
  <2>1. e \in Endpoints
    BY KeysAssumption
  <2> QED
    BY <1>1, <2>1, EncryptKeeps, RefusedKeeps, EncryptOutsideKeeps DEF Send
<1>2. ASSUME NEW e \in Endpoints, NEW i \in Ids, Verify(e, i) PROVE IInv'
  <2>1. Pass(e, i) /\ UNCHANGED <<disk, blobs, opened, outBack, inBack>>
    BY <1>2 DEF Verify
  <2>2. opened' \in [Endpoints -> SUBSET Ids]
    BY <2>1 DEF IInv, TypeOK
  <2> QED
    BY <2>1, <2>2, PassKeeps
<1>3. ASSUME NEW e \in Endpoints, NEW i \in Ids, NEW how \in Kinds, Decode(e, i, how)
      PROVE  IInv'
  <2>1. /\ Pass(e, i) /\ UNCHANGED <<disk, blobs, outBack, inBack>>
        /\ opened' \in {[opened EXCEPT ![e] = @ \cup {i}], opened}
    BY <1>3 DEF Decode
  <2>2. opened' \in [Endpoints -> SUBSET Ids]
    BY <2>1 DEF IInv, TypeOK
  <2> QED
    BY <2>1, <2>2, PassKeeps
<1>4. ASSUME NEW e \in Endpoints, Save(e) PROVE IInv'
  <2>1. /\ disk' = [disk EXCEPT ![e] = sess[e]]
        /\ UNCHANGED <<sess, blobs, outBack, passed, repeated, opened, inBack>>
    <3>1. sess[e] = [out |-> sess[e].out, win |-> sess[e].win]
      BY DEF IInv, TypeOK, Sessions
    <3> QED
      BY <1>4, <3>1 DEF Save, ToState, received
  <2>2. TypeOK'
    BY <2>1 DEF IInv, TypeOK, Ids
  <2>3. \A f \in Endpoints : sess[f].out \in Int
    BY MaxSeqAssumption DEF IInv, TypeOK, Sessions
  <2> QED
    BY <2>1, <2>2, <2>3, SessionsKeep
<1>5. ASSUME NEW e \in Endpoints, Restart(e) PROVE IInv'
  BY <1>5, RestartKeeps
<1>6. CASE UNCHANGED vars
  <2>1. TypeOK'
    BY <1>6 DEF IInv, TypeOK, vars, Ids
  <2>2. \A f \in Endpoints : sess[f].out \in Int
    BY MaxSeqAssumption DEF IInv, TypeOK, Sessions
  <2> QED
    BY <1>6, <2>1, <2>2, SessionsKeep DEF vars
<1>7. ASSUME NEW e \in Endpoints, Receive(e) PROVE IInv'
  BY <1>2, <1>3, <1>6, <1>7 DEF Receive, Reject
<1> QED
  BY <1>1, <1>4, <1>5, <1>6, <1>7 DEF Next

LEMMA AlwaysIInv == Spec => []IInv
<1> QED
  BY InitInvariant, NextInvariant, PTL DEF Spec

---------------------------------------------------------------------------------
(* The properties.                                                             *)

(* Counters and windows stay in range, for every number of endpoints, width and*)
(* MaxSeq: the counter stops before it would leave the frame's field.          *)
THEOREM TypeCorrect == Spec => []TypeOK
<1>1. IInv => TypeOK
  BY DEF IInv
<1> QED
  BY <1>1, AlwaysIInv, PTL

(* Under separate keys, a blob's key names who made it.                        *)
LEMMA KeyNamesSender ==
  ASSUME IInv, SeparateKeys, NEW i \in Ids, NEW j \in Ids, blobs[i].key = blobs[j].key
  PROVE  blobs[i].from = blobs[j].from
<1>1. blobs[i].from \in Endpoints /\ blobs[j].from \in Endpoints
  BY BlobType DEF IInv
<1> QED
  BY <1>1 DEF IInv, MadeBySender, SeparateKeys

LEMMA Unique == IInv => NumbersUnique
<1> SUFFICES ASSUME IInv, SeparateKeys, NEW i \in Ids, NEW j \in Ids,
                    InSession(i), InSession(j), blobs[i].key = blobs[j].key,
                    blobs[i].seq = blobs[j].seq, ~outBack[blobs[i].from]
             PROVE  i = j
  BY DEF NumbersUnique
<1>1. blobs[i].from = blobs[j].from
  BY KeyNamesSender
<1> QED
  BY <1>1 DEF IInv, OneBlobEach

(* The replay protection of a channel: no number is put on two blobs and no    *)
(* blob is let through twice, whatever the transport does and whichever calls  *)
(* fail, until an end goes back to an outdated state.                          *)
THEOREM ReplayProtection == Spec => []NothingTwice
<1>1. IInv => NothingTwice
  BY Unique DEF IInv, WindowsRemember, AtMostOnce, NothingTwice
<1> QED
  BY <1>1, AlwaysIInv, PTL

(* What an end has let through under a number is the one blob with that number:*)
(* a fresh one inside the window is never refused.                             *)
THEOREM NoLoss == Spec => []FreshIsAccepted
<1>1. IInv => FreshIsAccepted
  <2> SUFFICES ASSUME IInv, SeparateKeys, NEW e \in Endpoints, NEW i \in Ids,
                      InSession(i), blobs[i].key = RecvKey[e], ~inBack[e],
                      ~outBack[blobs[i].from], i \notin passed[e],
                      blobs[i].seq + Width > sess[e].win.top
               PROVE  VerifyOutcome(e, blobs[i]) = "ok"
    BY DEF FreshIsAccepted
  <2>1. blobs[i].seq \notin Taken(e)
    <3> SUFFICES ASSUME NEW j \in passed[e], blobs[j].seq = blobs[i].seq PROVE FALSE
      BY DEF Taken
    <3>1. j \in Ids /\ InSession(j) /\ blobs[j].key = blobs[i].key
      BY DEF IInv, TypeOK, PassedIsRight
    <3>2. i = j
      BY <3>1, Unique DEF NumbersUnique
    <3> QED
      BY <3>2
  <2>2. sess[e].win \in AnyWindow /\ sess[e].win.width = Width
    BY WindowsAre DEF IInv, TypeOK, Sessions
  <2>3. blobs[i].seq \in Numbers
    <3>1. blobs[i].seq \in 0..MaxSeq
      BY BlobType DEF IInv, Blobs
    <3> QED
      BY <3>1, MaxSeqAssumption DEF InSession, Numbers, UNSEQUENCED
  <2>4. Verdict(sess[e].win, blobs[i].seq) = "ok"
    BY <2>1, <2>2, <2>3, NewIsGranted DEF IInv, WindowsRemember
  <2> QED
    BY <2>4 DEF VerifyOutcome, InSession
<1> QED
  BY <1>1, AlwaysIInv, PTL

(* A blob whose decode raised has used up its number: no later call opens it.  *)
THEOREM FailedIsFinal == Spec => RetryNeverOpens
<1>1. IInv /\ [Next]_vars =>
        [\A e \in Endpoints : ~inBack[e] /\ ~inBack'[e] =>
           (passed[e] \ opened[e]) \cap opened'[e] = {}]_vars
  <2> SUFFICES ASSUME IInv, Next, NEW e \in Endpoints, ~inBack[e]
               PROVE  (passed[e] \ opened[e]) \cap opened'[e] = {}
    OBVIOUS
  <2>1. ASSUME NEW f \in Endpoints, NEW i \in Ids, NEW how \in Kinds, Decode(f, i, how)
        PROVE  (passed[e] \ opened[e]) \cap opened'[e] = {}
    <3>1. opened' \in {[opened EXCEPT ![f] = @ \cup {i}], opened} /\ Pass(f, i)
      BY <2>1 DEF Decode
    <3>2. f = e => i \notin passed[e]
      BY <3>1, PassFacts
    <3>3. opened'[e] \subseteq opened[e] \cup (IF f = e THEN {i} ELSE {})
      BY <3>1 DEF IInv, TypeOK
    <3> QED
      BY <3>2, <3>3
  <2>2. ASSUME opened' = opened
        PROVE  (passed[e] \ opened[e]) \cap opened'[e] = {}
    BY <2>2
  <2>3. ASSUME NEW f \in Endpoints, Receive(f)
        PROVE  (passed[e] \ opened[e]) \cap opened'[e] = {}
    BY <2>1, <2>2, <2>3 DEF Receive, Verify, Reject, vars
  <2>4. ASSUME NEW f \in Senders, Send(f) PROVE opened' = opened
    BY <2>4 DEF Send, Encrypt, EncryptRefused, EncryptOutside, received
  <2>5. ASSUME NEW f \in Endpoints, Save(f) \/ Restart(f) PROVE opened' = opened
    BY <2>5 DEF Save, Restart, received
  <2> QED
    BY <2>2, <2>3, <2>4, <2>5 DEF Next
<1> QED
  BY <1>1, AlwaysIInv, PTL DEF Spec, RetryNeverOpens

---------------------------------------------------------------------------------
(* Handshakes.                                                                 *)

(* The inductive invariant: a completed object heard an ephemeral, not the bad *)
(* point, and holds the keys derived from it; its fields are still those it was*)
(* started with, which is what Material and Transcript read.                   *)

KeysOf(h) ==
  Derived(Material(h, hs[h].heard), Transcript(h, hs[h].heard), hs[h].initiator)

Fresh(h) == hs[h] = None /\ eph[h] = "none"
Begun(h) == hs[h] \in Fields /\ eph[h] = "open"
Ended(h) == /\ hs[h].life = "done" /\ eph[h] = "closed"
            /\ hs[h].dev \in Devices /\ hs[h].peer \in Devices
            /\ hs[h].initiator \in BOOLEAN /\ hs[h].heard \in Ephemerals
            /\ hs[h].keys = KeysOf(h)

Tables   == /\ hs = [h \in Objects |-> hs[h]]
            /\ eph = [h \in Objects |-> eph[h]]
            /\ identity \in [Devices -> BOOLEAN]
Shapes   == \A h \in Objects : Fresh(h) \/ Begun(h) \/ Ended(h)
WireType == wire \subseteq [rol : BOOLEAN, efemer : Ephemerals, kimlik_izi : Devices]

HandshakeInv == Tables /\ Shapes /\ WireType

LEMMA HandshakeInvInit == HandshakeInit => HandshakeInv
BY DEF HandshakeInit, HandshakeInv, Tables, Shapes, WireType, Fresh

(* The three shapes of an object exclude each other.                           *)
LEMMA Shape ==
  ASSUME HandshakeInv, NEW h \in Objects
  PROVE  /\ hs[h] = None => Fresh(h)
         /\ hs[h] # None => hs[h].dev \in Devices /\ hs[h].initiator \in BOOLEAN
         /\ h \in Live  => Begun(h)
         /\ h \in Done  => Ended(h)
<1>1. None.life = "none"
  BY DEF None
<1> QED
  BY <1>1 DEF HandshakeInv, Shapes, Fresh, Begun, Ended, Fields, Live, Done

(* An object that a step leaves alone keeps its shape.                         *)
LEMMA ShapeStays ==
  ASSUME NEW h \in Objects, hs'[h] = hs[h], eph'[h] = eph[h],
         Fresh(h) \/ Begun(h) \/ Ended(h)
  PROVE  (Fresh(h) \/ Begun(h) \/ Ended(h))'
BY DEF Fresh, Begun, Ended, KeysOf, Material, Transcript

LEMMA StartKeeps ==
  ASSUME HandshakeInv, NEW h \in Objects, NEW d \in Devices, NEW p \in Devices,
         NEW initiator \in BOOLEAN, Start(h, d, p, initiator)
  PROVE  HandshakeInv'
<1>1. Tables' /\ WireType'
  BY DEF HandshakeInv, Tables, WireType, Start
<1>2. Begun(h)'
  BY DEF HandshakeInv, Tables, Start, Begun, Fields
<1>3. \A g \in Objects \ {h} : hs'[g] = hs[g] /\ eph'[g] = eph[g]
  BY DEF HandshakeInv, Tables, Start
<1> QED
  BY <1>1, <1>2, <1>3, ShapeStays DEF HandshakeInv, Shapes

LEMMA PackKeeps ==
  ASSUME HandshakeInv, NEW h \in Objects, Pack(h)
  PROVE  HandshakeInv'
<1>1. hs[h].dev \in Devices /\ hs[h].initiator \in BOOLEAN
  BY Shape DEF Pack
<1>2. WireType'
  BY <1>1 DEF HandshakeInv, WireType, Pack, Ephemerals, Trace, Static
<1> QED
  BY <1>2, ShapeStays DEF HandshakeInv, Tables, Shapes, Pack

(* What complete() accepts is somebody's ephemeral: a packet's, and never the  *)
(* bad point, whose result with the own ephemeral is zero.                     *)
LEMMA HeardIsEphemeral ==
  ASSUME HandshakeInv, NEW h \in Objects, NEW heard \in Heard,
         ZERO_RESULT \notin {Material(h, heard)[i] : i \in 1..4}
  PROVE  heard \in Ephemerals
<1>1. Material(h, BadPoint)[1] = ZERO_RESULT
  BY DEF Material, DH
<1>2. heard # BadPoint
  BY <1>1
<1> QED
  BY <1>2 DEF Heard, HandshakeInv, WireType

LEMMA CompleteKeeps ==
  ASSUME HandshakeInv, NEW h \in Objects, NEW heard \in Heard, Complete(h, heard)
  PROVE  HandshakeInv'
<1>1. Begun(h)
  BY Shape DEF Complete
<1>2. heard \in Ephemerals
  BY HeardIsEphemeral DEF Complete
<1>3. /\ hs'[h].life = "done" /\ eph'[h] = "closed"
      /\ hs'[h].dev = hs[h].dev /\ hs'[h].peer = hs[h].peer
      /\ hs'[h].initiator = hs[h].initiator /\ hs'[h].heard = heard
      /\ hs'[h].keys = Derived(Material(h, heard), Transcript(h, heard), hs[h].initiator)
  BY DEF HandshakeInv, Tables, Complete
<1>4. KeysOf(h)' = Derived(Material(h, heard), Transcript(h, heard), hs[h].initiator)
  BY <1>3 DEF KeysOf, Derived, Material, Transcript
<1>5. Ended(h)'
  BY <1>1, <1>2, <1>3, <1>4 DEF Ended, Begun, Fields
<1>6. \A g \in Objects \ {h} : hs'[g] = hs[g] /\ eph'[g] = eph[g]
  BY DEF HandshakeInv, Tables, Complete
<1>7. Tables' /\ WireType'
  BY DEF HandshakeInv, Tables, WireType, Complete
<1> QED
  BY <1>5, <1>6, <1>7, ShapeStays DEF HandshakeInv, Shapes

LEMMA HandshakeInvNext == HandshakeInv /\ [HandshakeNext]_handshakeVars => HandshakeInv'
<1> SUFFICES ASSUME HandshakeInv, [HandshakeNext]_handshakeVars PROVE HandshakeInv'
  OBVIOUS
<1>1. ASSUME UNCHANGED <<hs, eph, wire>>, identity' \in [Devices -> BOOLEAN] PROVE HandshakeInv'
  BY <1>1, ShapeStays DEF HandshakeInv, Tables, Shapes, WireType
<1>2. CASE UNCHANGED handshakeVars
  BY <1>1, <1>2 DEF handshakeVars, HandshakeInv, Tables
<1>3. ASSUME NEW h \in Objects, NEW heard \in Heard, CompleteRefused(h, heard) PROVE HandshakeInv'
  BY <1>2, <1>3 DEF CompleteRefused
<1>4. ASSUME NEW d \in Devices, CloseIdentity(d) PROVE HandshakeInv'
  BY <1>1, <1>4 DEF CloseIdentity, HandshakeInv, Tables
<1> QED
  BY <1>2, <1>3, <1>4, StartKeeps, PackKeeps, CompleteKeeps DEF HandshakeNext

LEMMA AlwaysHandshakeInv == HandshakeSpec => []HandshakeInv
<1> QED
  BY HandshakeInvInit, HandshakeInvNext, PTL DEF HandshakeSpec

---------------------------------------------------------------------------------
(* The properties.                                                             *)

(* An object has an ephemeral buffer exactly until it completed, for every set *)
(* of devices and objects.                                                     *)
THEOREM HandshakeTyped == HandshakeSpec => []HandshakeTypeOK
<1>1. HandshakeInv => HandshakeTypeOK
  BY DEF HandshakeInv, Tables, Shapes, WireType, Fresh, Begun, Ended, HandshakeTypeOK
<1> QED
  BY <1>1, AlwaysHandshakeInv, PTL

(* Equal transcripts: in equal roles they are the same object's, in opposite   *)
(* roles those of partners.                                                    *)
Prk(h) == <<Material(h, hs[h].heard), Transcript(h, hs[h].heard)>>

LEMMA SameRole ==
  ASSUME HandshakeInv, NEW h \in Done, NEW g \in Done,
         Prk(h) = Prk(g), hs[h].initiator = hs[g].initiator
  PROVE  h = g
<1>1. Transcript(h, hs[h].heard) = Transcript(g, hs[g].heard)
  BY DEF Prk
<1>2. CASE hs[h].initiator
  <2>1. Transcript(h, hs[h].heard)[1] = Transcript(g, hs[g].heard)[1]
    BY <1>1
  <2>2. Ephemeral(h) = Ephemeral(g)
    BY <1>2, <2>1 DEF Transcript
  <2> QED
    BY <2>2 DEF Ephemeral
<1>3. CASE ~hs[h].initiator
  <2>1. Transcript(h, hs[h].heard)[2] = Transcript(g, hs[g].heard)[2]
    BY <1>1
  <2>2. Ephemeral(h) = Ephemeral(g)
    BY <1>3, <2>1 DEF Transcript
  <2> QED
    BY <2>2 DEF Ephemeral
<1> QED
  BY <1>2, <1>3

LEMMA StaticIsInjective ==
  \A d, p : Static(d) = Static(p) => d = p
BY DEF Static

LEMMA OppositeRoles ==
  ASSUME HandshakeInv, NEW h \in Done, NEW g \in Done, hs[h].initiator # hs[g].initiator
  PROVE  Prk(h) = Prk(g) <=> Partners(h, g)
<1> DEFINE E(o) == Ephemeral(o)
           S(o) == Static(hs[o].dev)
           P(o) == Static(hs[o].peer)
           H(o) == hs[o].heard
<1>1. Ended(h) /\ Ended(g)
  BY Shape DEF Done
<1>2. Transcript(h, H(h)) = Transcript(g, H(g)) <=>
        E(h) = H(g) /\ H(h) = E(g) /\ S(h) = P(g) /\ P(h) = S(g)
  <2>1. CASE hs[h].initiator
    <3>1. /\ Transcript(h, H(h)) = <<E(h), H(h), S(h), P(h)>>
          /\ Transcript(g, H(g)) = <<H(g), E(g), P(g), S(g)>>
      BY <1>1, <2>1 DEF Transcript, Ended
    <3> QED
      BY <3>1
  <2>2. CASE ~hs[h].initiator
    <3>1. /\ Transcript(h, H(h)) = <<H(h), E(h), P(h), S(h)>>
          /\ Transcript(g, H(g)) = <<E(g), H(g), S(g), P(g)>>
      BY <1>1, <2>2 DEF Transcript, Ended
    <3> QED
      BY <3>1
  <2> QED
    BY <2>1, <2>2
<1>3. Partners(h, g) <=> E(h) = H(g) /\ H(h) = E(g) /\ S(h) = P(g) /\ P(h) = S(g)
  BY <1>1, StaticIsInjective DEF Partners, Ended
<1>4. ASSUME E(h) = H(g), H(h) = E(g), S(h) = P(g), P(h) = S(g)
      PROVE  Material(h, H(h)) = Material(g, H(g))
  <2>1. \A x, y : DH(x, y) = IF y = BadPoint THEN {} ELSE {x, y}
    BY DEF DH, ZERO_RESULT
  <2>2. /\ E(h) # BadPoint /\ E(g) # BadPoint /\ S(h) # BadPoint /\ S(g) # BadPoint
    BY DEF Ephemeral, Static, BadPoint
  <2>3. /\ DH(E(h), E(g)) = DH(E(g), E(h)) /\ DH(E(h), S(g)) = DH(S(g), E(h))
        /\ DH(S(h), E(g)) = DH(E(g), S(h)) /\ DH(S(h), S(g)) = DH(S(g), S(h))
    BY <2>1, <2>2
  <2>4. CASE hs[h].initiator
    <3>1. /\ Material(h, H(h)) = <<DH(E(h), E(g)), DH(E(h), S(g)),
                                   DH(S(h), E(g)), DH(S(h), S(g))>>
          /\ Material(g, H(g)) = <<DH(E(g), E(h)), DH(S(g), E(h)),
                                   DH(E(g), S(h)), DH(S(g), S(h))>>
      BY <1>1, <1>4, <2>4 DEF Material, Ended
    <3> QED
      BY <3>1, <2>3
  <2>5. CASE ~hs[h].initiator
    <3>1. /\ Material(h, H(h)) = <<DH(E(h), E(g)), DH(S(h), E(g)),
                                   DH(E(h), S(g)), DH(S(h), S(g))>>
          /\ Material(g, H(g)) = <<DH(E(g), E(h)), DH(E(g), S(h)),
                                   DH(S(g), E(h)), DH(S(g), S(h))>>
      BY <1>1, <1>4, <2>5 DEF Material, Ended
    <3> QED
      BY <3>1, <2>3
  <2> QED
    BY <2>4, <2>5
<1>5. Prk(h) = Prk(g) <=> /\ Material(h, H(h)) = Material(g, H(g))
                          /\ Transcript(h, H(h)) = Transcript(g, H(g))
  BY DEF Prk
<1> QED
  BY <1>2, <1>3, <1>4, <1>5

(* What the keys of a completed object are.                                    *)
LEMMA KeysAre ==
  ASSUME HandshakeInv, NEW h \in Done
  PROVE  /\ hs[h].initiator \in BOOLEAN
         /\ hs[h].keys.sending =
              <<Prk(h), IF hs[h].initiator THEN "forward" ELSE "backward">>
         /\ hs[h].keys.receiving =
              <<Prk(h), IF hs[h].initiator THEN "backward" ELSE "forward">>
         /\ hs[h].keys.code = Prk(h)
<1>1. Ended(h)
  BY Shape DEF Done
<1> QED
  BY <1>1 DEF Ended, KeysOf, Derived, Prk

(* Completed handshakes share a key with their one partner and with nobody     *)
(* else, use each key in one direction, and show the same code to partners     *)
(* only.                                                                       *)
THEOREM PartnersOnly == HandshakeSpec => []OnlyPartnersShare
<1>1. ASSUME HandshakeInv, NEW h \in Done, NEW g \in Done
      PROVE  /\ hs[h].keys.sending = hs[g].keys.receiving <=>
                  Prk(h) = Prk(g) /\ hs[h].initiator # hs[g].initiator
             /\ hs[h].keys.sending = hs[g].keys.sending <=>
                  Prk(h) = Prk(g) /\ hs[h].initiator = hs[g].initiator
             /\ hs[h].keys.code = hs[g].keys.code <=> Prk(h) = Prk(g)
             /\ hs[h].keys.sending # hs[h].keys.receiving
  <2> DEFINE Way(o) == IF hs[o].initiator THEN "forward" ELSE "backward"
             Back(o) == IF hs[o].initiator THEN "backward" ELSE "forward"
  <2>1. \A a, b, x, y : <<a, x>> = <<b, y>> <=> a = b /\ x = y
    OBVIOUS
  <2>2. /\ Way(h) = Back(g) <=> hs[h].initiator # hs[g].initiator
        /\ Way(h) = Way(g) <=> hs[h].initiator = hs[g].initiator
        /\ Way(h) # Back(h)
    BY <1>1, KeysAre
  <2>3. /\ hs[h].keys.sending = <<Prk(h), Way(h)>> /\ hs[g].keys.sending = <<Prk(g), Way(g)>>
        /\ hs[h].keys.receiving = <<Prk(h), Back(h)>> /\ hs[g].keys.receiving = <<Prk(g), Back(g)>>
        /\ hs[h].keys.code = Prk(h) /\ hs[g].keys.code = Prk(g)
    BY <1>1, KeysAre
  <2> HIDE DEF Way, Back
  <2> QED
    BY <2>1, <2>2, <2>3
<1>2. HandshakeInv => NoStrangers
  BY <1>1, OppositeRoles DEF NoStrangers, Partners
<1>3. HandshakeInv => DirectionsSeparate
  BY <1>1, SameRole DEF DirectionsSeparate
<1>4. HandshakeInv => CodeTellsTheTruth
  BY <1>1, SameRole DEF CodeTellsTheTruth
<1>5. HandshakeInv => OnlyPartnersShare
  BY <1>2, <1>3, <1>4 DEF OnlyPartnersShare
<1> QED
  BY <1>5, AlwaysHandshakeInv, PTL

(* Once both ephemerals are gone, what remains does not give the keys again: of*)
(* the first result neither private key is left.                               *)
THEOREM Forward == HandshakeSpec => []ForwardSecrecy
<1>1. ASSUME HandshakeInv, NEW h \in Done, Repeatable(h, Remaining)
      PROVE  \E g \in Live : hs[h].heard = Ephemeral(g)
  <2>1. Ended(h)
    BY <1>1, Shape DEF Done
  <2>2. PICK g \in Objects : hs[h].heard = Ephemeral(g)
    BY <2>1 DEF Ended, Ephemerals
  <2>3. Material(h, hs[h].heard)[1] = {Ephemeral(h), Ephemeral(g)}
    BY <2>2 DEF Material, DH, Ephemeral, BadPoint
  <2>4. Ephemeral(h) \notin Remaining
    BY <2>1 DEF Remaining, Statics, Ephemeral, Static, Ended
  <2>5. Ephemeral(g) \in Remaining
    BY <1>1, <2>3, <2>4 DEF Repeatable
  <2>6. eph[g] = "open"
    BY <2>5 DEF Remaining, Statics, Ephemeral, Static
  <2>7. g \in Live
    BY <1>1, <2>6 DEF HandshakeInv, Shapes, Fresh, Begun, Ended, Fields, Live
  <2> QED
    BY <2>2, <2>7
<1>2. HandshakeInv => ForwardSecrecy
  BY <1>1 DEF ForwardSecrecy
<1> QED
  BY <1>2, AlwaysHandshakeInv, PTL

=================================================================================
