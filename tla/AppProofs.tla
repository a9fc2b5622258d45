------------------------------- MODULE AppProofs --------------------------------
(* Theorems about the windows of the program and their sessions, for every set *)
(* of windows and of keys, every width, MaxSeq and number of messages.         *)
EXTENDS App, WindowProofs, SequenceTheorems

---------------------------------------------------------------------------------
(* The inductive invariant, window by window.                                  *)

(* A session is its key's; its window remembers what was taken in it, and its  *)
(* counter has passed every number issued in it, each on one blob.             *)
Remembering(s, T, B) == Remembers(s.win, {B[i].seq : i \in T})
Counting(s, I, B) ==
  /\ \A i \in I : B[i].seq \in Numbers /\ B[i].seq <= s.out
  /\ \A i, j \in I : B[i].seq = B[j].seq => i = j
Faithful(s, k) == /\ s \in Sessions \cup {NoSession} /\ s.key = k
                  /\ k = NoKey => s = NoSession

(* What is shown was encrypted under the key it was asked with.                *)
Told(x, B) == /\ x \in [id : 0..Len(B), key : Fields]
              /\ x.id # 0 => B[x.id].key = x.key

Tables == /\ field \in [Windows -> Fields] /\ raw \in [Windows -> Fields]
          /\ engine \in [Windows -> Fields]
          /\ session \in [Windows -> Sessions \cup {NoSession}]
          /\ shown = [w \in Windows |-> shown[w]]
          /\ issued \in [Windows -> SUBSET Ids] /\ taken \in [Windows -> SUBSET Ids]
          /\ drawn \subseteq Keys /\ changes \in 0..MaxChanges
Switches == on \in [Windows -> BOOLEAN] /\ again = [w \in Windows |-> FALSE]
Written == blobs \in Seq(Blobs) /\ \A i \in Ids : blobs[i].key = blobs[i].asked
Screens == Told(answer, blobs) /\ \A w \in Windows : Told(shown[w], blobs)
Sound(w) == /\ engine[w] = raw[w] /\ Faithful(session[w], raw[w])
            /\ Remembering(session[w], taken[w], blobs)
            /\ Counting(session[w], issued[w], blobs)

IInv == Tables /\ Switches /\ Written /\ Screens /\ \A w \in Windows : Sound(w)

LEMMA WinIs ==
  ASSUME NEW s \in Sessions \cup {NoSession}
  PROVE  /\ s.win \in AnyWindow /\ s.win.width = Width
         /\ s.win.mask \subseteq Positions(s.win.width)
<1>1. CASE s \in Sessions
  <2>1. s.win.mask \subseteq Positions(Width) /\ Positions(Width) \subseteq Nat
    BY <1>1 DEF Sessions, Positions
  <2> QED
    BY <1>1, <2>1, WidthAssumption DEF Sessions, AnyWindow
<1>2. CASE s = NoSession
  <2>1. s.win = NewWindow(Width)
    BY <1>2 DEF NoSession, SessionOf
  <2> QED
    BY <2>1, NewType, WidthAssumption DEF NewWindow
<1> QED
  BY <1>1, <1>2

(* A new session is faithful to its key, and nothing happened in it.           *)
LEMMA NewIs ==
  ASSUME NEW k \in Fields, NEW B
  PROVE  /\ Faithful(SessionOf(k), k) /\ SessionOf(k) \in Sessions \cup {NoSession}
         /\ Remembering(SessionOf(k), {}, B) /\ Counting(SessionOf(k), {}, B)
<1>1. /\ NewWindow(Width) \in [width : {Width}, top : 0..MaxSeq,
                               mask : SUBSET Positions(Width)]
      /\ Remembers(NewWindow(Width), {})
  BY NewType, WidthAssumption, MaxSeqAssumption DEF NewWindow
<1>2. SessionOf(k).key = k /\ SessionOf(k).win = NewWindow(Width)
  BY DEF SessionOf
<1>3. SessionOf(k) \in Sessions \cup {NoSession}
  <2>1. CASE k \in Keys
    BY <1>1, <2>1, MaxSeqAssumption DEF SessionOf, Sessions
  <2>2. CASE k = NoKey
    BY <2>2 DEF NoSession
  <2> QED
    BY <2>1, <2>2 DEF Fields
<1>4. {B[i].seq : i \in {}} = {}
  OBVIOUS
<1> QED
  BY <1>1, <1>2, <1>3, <1>4 DEF Faithful, NoSession, Remembering, Counting

LEMMA InitInvariant == Init => IInv
<1> SUFFICES ASSUME Init PROVE IInv
  OBVIOUS
<1>1. /\ field \in [Windows -> Keys] /\ raw = field /\ engine = field
      /\ session = [w \in Windows |-> SessionOf(field[w])]
      /\ shown = [w \in Windows |-> Blank] /\ answer = Blank /\ blobs = <<>>
      /\ drawn = {field[w] : w \in Windows} /\ changes = 0
      /\ issued = [w \in Windows |-> {}] /\ taken = issued
  BY DEF Init
<1>2. Switches
  BY Zenon DEF Init, Switches
<1>3. \A w \in Windows : field[w] \in Fields
  BY <1>1 DEF Fields
<1>4. Tables
  <2>1. /\ field \in [Windows -> Fields] /\ raw \in [Windows -> Fields]
        /\ engine \in [Windows -> Fields]
    BY <1>1 DEF Fields
  <2>2. session \in [Windows -> Sessions \cup {NoSession}]
    BY <1>1, <1>3, NewIs
  <2>3. /\ shown = [w \in Windows |-> shown[w]]
        /\ issued \in [Windows -> SUBSET Ids] /\ taken \in [Windows -> SUBSET Ids]
    BY <1>1
  <2>4. drawn \subseteq Keys /\ changes \in 0..MaxChanges
    BY <1>1, BoundAssumption
  <2> QED
    BY <2>1, <2>2, <2>3, <2>4 DEF Tables
<1>5. Written
  BY <1>1 DEF Written, Ids
<1>6. Told(Blank, blobs)
  BY <1>1 DEF Told, Blank, Fields
<1>7. ASSUME NEW w \in Windows PROVE Sound(w)
  <2>1. session[w] = SessionOf(field[w]) /\ taken[w] = {} /\ issued[w] = {}
    BY <1>1
  <2> QED
    BY <1>1, <1>3, <2>1, NewIs DEF Sound
<1> QED
  BY <1>1, <1>2, <1>4, <1>5, <1>6, <1>7 DEF IInv, Screens

---------------------------------------------------------------------------------
(* Blobs are made and never changed.                                           *)

More == /\ blobs' \in Seq(Blobs) /\ Ids \subseteq Ids'
        /\ \A i \in Ids : blobs'[i] = blobs[i]

LEMMA NoMore == IInv /\ blobs' = blobs => More /\ Written' /\ Ids' = Ids
BY DEF IInv, Written, More, Ids

LEMMA OneMore ==
  ASSUME IInv, NEW b \in Blobs, b.key = b.asked, blobs' = Append(blobs, b)
  PROVE  /\ More /\ Written' /\ Ids' = Ids \cup {Len(blobs) + 1}
         /\ Len(blobs) + 1 \notin Ids /\ blobs'[Len(blobs) + 1] = b
<1>1. blobs \in Seq(Blobs) /\ Len(blobs) \in Nat
  BY DEF IInv, Written
<1>2. /\ blobs' \in Seq(Blobs) /\ Len(blobs') = Len(blobs) + 1
      /\ \A i \in 1..Len(blobs) : blobs'[i] = blobs[i]
      /\ blobs'[Len(blobs) + 1] = b
  BY <1>1, AppendProperties
<1>3. Ids' = Ids \cup {Len(blobs) + 1} /\ Len(blobs) + 1 \notin Ids
  BY <1>1, <1>2 DEF Ids
<1>4. \A i \in Ids : blobs'[i] = blobs[i]
  BY <1>2 DEF Ids
<1> QED
  BY <1>2, <1>3, <1>4 DEF IInv, More, Written

LEMMA BlobIs ==
  ASSUME IInv, NEW i \in Ids
  PROVE  blobs[i] \in Blobs /\ blobs[i].seq \in Int /\ blobs[i].key \in Keys
<1>1. blobs[i] \in Blobs
  BY ElementOfSeq DEF IInv, Written, Ids
<1> QED
  BY <1>1, MaxSeqAssumption DEF Blobs

(* What was true of some blobs and a session, or a screen, stays true.         *)
LEMMA Lasting ==
  ASSUME IInv, More
  PROVE  /\ \A s : \A T \in SUBSET Ids : Remembering(s, T, blobs) => Remembering(s, T, blobs')
         /\ \A s : \A I \in SUBSET Ids : Counting(s, I, blobs) => Counting(s, I, blobs')
         /\ \A x : Told(x, blobs) => Told(x, blobs')
<1>1. ASSUME NEW T \in SUBSET Ids
      PROVE  {blobs'[i].seq : i \in T} = {blobs[i].seq : i \in T}
  BY DEF More
<1>2. ASSUME NEW I \in SUBSET Ids PROVE \A i \in I : blobs'[i] = blobs[i]
  BY DEF More
<1>3. ASSUME NEW x, Told(x, blobs) PROVE Told(x, blobs')
  <2>1. x.id \in Nat /\ Len(blobs) \in Nat /\ Len(blobs') \in Nat
    BY <1>3 DEF Told, IInv, Written, More
  <2>2. 0..Len(blobs) \subseteq 0..Len(blobs')
    BY <2>1 DEF More, Ids
  <2>3. x.id # 0 => x.id \in Ids
    BY <1>3, <2>1 DEF Told, Ids
  <2> QED
    BY <1>3, <2>2, <2>3 DEF Told, More
<1>4. \A s : \A T \in SUBSET Ids : Remembering(s, T, blobs) => Remembering(s, T, blobs')
  BY <1>1 DEF Remembering
<1>5. \A s : \A I \in SUBSET Ids : Counting(s, I, blobs) => Counting(s, I, blobs')
  BY <1>2 DEF Counting
<1> QED
  BY <1>3, <1>4, <1>5

---------------------------------------------------------------------------------
(* The step of one window: its session, what it issued and took, may change;   *)
(* the rest is as it was.                                                      *)

Rest(w) == /\ \A v \in Windows \ {w} : /\ raw'[v] = raw[v] /\ engine'[v] = engine[v]
                                       /\ session'[v] = session[v]
                                       /\ issued'[v] = issued[v] /\ taken'[v] = taken[v]
           /\ raw' \in [Windows -> Fields] /\ engine' \in [Windows -> Fields]
           /\ session' \in [Windows -> Sessions \cup {NoSession}]
           /\ issued' \in [Windows -> SUBSET Ids'] /\ taken' \in [Windows -> SUBSET Ids']

LEMMA OthersSound ==
  ASSUME IInv, More, NEW v \in Windows,
         raw'[v] = raw[v], engine'[v] = engine[v], session'[v] = session[v],
         issued'[v] = issued[v], taken'[v] = taken[v]
  PROVE  Sound(v)'
<1>1. Sound(v) /\ issued[v] \in SUBSET Ids /\ taken[v] \in SUBSET Ids
  BY DEF IInv, Tables
<1>2. /\ Remembering(session[v], taken[v], blobs')
      /\ Counting(session[v], issued[v], blobs')
  BY <1>1, Lasting DEF Sound
<1> QED
  BY <1>1, <1>2 DEF Sound

LEMMA StepKeeps ==
  ASSUME IInv, More, Written', NEW w \in Windows, Rest(w), Sound(w)',
         field' \in [Windows -> Fields], Switches', Screens',
         shown' = [v \in Windows |-> shown'[v]],
         drawn' \subseteq Keys, changes' \in 0..MaxChanges
  PROVE  IInv'
<1>1. ASSUME NEW v \in Windows \ {w} PROVE Sound(v)'
  BY OthersSound DEF Rest
<1>2. Tables'
  BY DEF Tables, Rest
<1> QED
  BY <1>1, <1>2 DEF IInv

(* A step that touches no window's key or session.                             *)
LEMMA OutsideKeeps ==
  ASSUME IInv, More, Written', field' \in [Windows -> Fields], Screens',
         shown' = [v \in Windows |-> shown'[v]],
         UNCHANGED <<raw, engine, session, on, drawn, issued, taken, again>>,
         changes' \in 0..MaxChanges
  PROVE  IInv'
<1>1. ASSUME NEW v \in Windows PROVE Sound(v)'
  BY OthersSound
<1>2. issued' \in [Windows -> SUBSET Ids'] /\ taken' \in [Windows -> SUBSET Ids']
  <2>1. SUBSET Ids \subseteq SUBSET Ids'
    BY DEF More
  <2> QED
    BY <2>1 DEF IInv, Tables
<1>3. Tables'
  BY <1>2 DEF IInv, Tables
<1>4. Switches'
  BY Zenon DEF IInv, Switches
<1> QED
  BY <1>1, <1>3, <1>4 DEF IInv

LEMMA ScreensStay ==
  ASSUME IInv, More, UNCHANGED shown, answer' = answer
  PROVE  Screens' /\ shown' = [v \in Windows |-> shown'[v]]
<1>1. Told(answer, blobs') /\ \A w \in Windows : Told(shown[w], blobs')
  BY Lasting DEF IInv, Screens
<1>2. shown = [v \in Windows |-> shown[v]]
  BY DEF IInv, Tables
<1> QED
  BY <1>1, <1>2 DEF Screens

LEMMA OneScreen ==
  ASSUME IInv, More, NEW w \in Windows, NEW x, Told(x, blobs'),
         shown' = [shown EXCEPT ![w] = x], answer' = answer
  PROVE  Screens' /\ shown' = [v \in Windows |-> shown'[v]]
<1>1. Told(answer, blobs') /\ \A v \in Windows : Told(shown[v], blobs')
  BY Lasting DEF IInv, Screens
<1>2. shown = [v \in Windows |-> shown[v]]
  BY DEF IInv, Tables
<1>3. shown'[w] = x /\ \A v \in Windows \ {w} : shown'[v] = shown[v]
  BY <1>2
<1> QED
  BY <1>1, <1>2, <1>3 DEF Screens

LEMMA SwitchesStay == IInv /\ on' = on /\ again' = again => Switches'
BY Zenon DEF IInv, Switches

(* check_key leaves an engine and a session of the key in the field, and the   *)
(* histories of just that session.                                             *)
LEMMA CheckedIs ==
  ASSUME IInv, NEW w \in Windows
  PROVE  /\ CheckedEngine(w) = field[w] /\ field[w] \in Fields
         /\ Faithful(CheckedSession(w), field[w])
         /\ Remembering(CheckedSession(w), Kept(taken, w)[w], blobs)
         /\ Counting(CheckedSession(w), Kept(issued, w)[w], blobs)
         /\ Kept(issued, w) \in [Windows -> SUBSET Ids]
         /\ Kept(taken, w) \in [Windows -> SUBSET Ids]
         /\ \A v \in Windows \ {w} : /\ Kept(issued, w)[v] = issued[v]
                                     /\ Kept(taken, w)[v] = taken[v]
<1>1. /\ field[w] \in Fields /\ Sound(w)
      /\ issued \in [Windows -> SUBSET Ids] /\ taken \in [Windows -> SUBSET Ids]
  BY DEF IInv, Tables
<1>2. CASE Differs(w)
  <2>1. /\ CheckedEngine(w) = field[w] /\ CheckedSession(w) = SessionOf(field[w])
        /\ Kept(taken, w) = [taken EXCEPT ![w] = {}]
        /\ Kept(issued, w) = [issued EXCEPT ![w] = {}]
    BY <1>2 DEF CheckedEngine, CheckedSession, Kept
  <2>2. Kept(taken, w)[w] = {} /\ Kept(issued, w)[w] = {}
    BY <1>1, <2>1
  <2>3. /\ Kept(issued, w) \in [Windows -> SUBSET Ids]
        /\ Kept(taken, w) \in [Windows -> SUBSET Ids]
        /\ \A v \in Windows \ {w} : /\ Kept(issued, w)[v] = issued[v]
                                    /\ Kept(taken, w)[v] = taken[v]
    BY <1>1, <2>1
  <2> QED
    BY <1>1, <2>1, <2>2, <2>3, NewIs
<1>3. CASE ~Differs(w)
  <2>1. /\ CheckedEngine(w) = engine[w] /\ CheckedSession(w) = session[w]
        /\ Kept(taken, w) = taken /\ Kept(issued, w) = issued /\ field[w] = raw[w]
    BY <1>3 DEF CheckedEngine, CheckedSession, Kept, Differs
  <2> QED
    BY <1>1, <2>1 DEF Sound
<1> QED
  BY <1>2, <1>3

(* A step that checks the key first and leaves a session of it.                *)
LEMMA CheckedKeeps ==
  ASSUME IInv, More, Written', NEW w \in Windows, NEW s,
         NEW I \in SUBSET Ids', NEW T \in SUBSET Ids',
         raw' = [raw EXCEPT ![w] = field[w]],
         engine' = [engine EXCEPT ![w] = CheckedEngine(w)],
         session' = [session EXCEPT ![w] = s],
         issued' = [Kept(issued, w) EXCEPT ![w] = I],
         taken' = [Kept(taken, w) EXCEPT ![w] = T],
         Faithful(s, field[w]), Remembering(s, T, blobs'), Counting(s, I, blobs'),
         UNCHANGED <<field, on, drawn, changes, again>>,
         Screens', shown' = [v \in Windows |-> shown'[v]]
  PROVE  IInv'
<1>1. /\ CheckedEngine(w) = field[w] /\ field[w] \in Fields
      /\ Kept(issued, w) \in [Windows -> SUBSET Ids']
      /\ Kept(taken, w) \in [Windows -> SUBSET Ids']
      /\ \A v \in Windows \ {w} : /\ Kept(issued, w)[v] = issued[v]
                                  /\ Kept(taken, w)[v] = taken[v]
  <2>1. SUBSET Ids \subseteq SUBSET Ids'
    BY DEF More
  <2> QED
    BY <2>1, CheckedIs
<1>2. s \in Sessions \cup {NoSession}
  BY DEF Faithful
<1>3. /\ raw \in [Windows -> Fields] /\ engine \in [Windows -> Fields]
      /\ session \in [Windows -> Sessions \cup {NoSession}]
      /\ field \in [Windows -> Fields] /\ drawn \subseteq Keys
      /\ changes \in 0..MaxChanges
  BY DEF IInv, Tables
<1>4. Rest(w)
  <2>1. /\ raw' \in [Windows -> Fields] /\ engine' \in [Windows -> Fields]
        /\ \A v \in Windows \ {w} : raw'[v] = raw[v] /\ engine'[v] = engine[v]
    BY <1>1, <1>3
  <2>2. /\ session' \in [Windows -> Sessions \cup {NoSession}]
        /\ \A v \in Windows \ {w} : session'[v] = session[v]
    BY <1>2, <1>3
  <2>3. /\ issued' \in [Windows -> SUBSET Ids'] /\ taken' \in [Windows -> SUBSET Ids']
        /\ \A v \in Windows \ {w} : issued'[v] = issued[v] /\ taken'[v] = taken[v]
    BY <1>1
  <2> QED
    BY <2>1, <2>2, <2>3 DEF Rest
<1>5. /\ raw'[w] = field[w] /\ engine'[w] = field[w] /\ session'[w] = s
      /\ issued'[w] = I /\ taken'[w] = T
  BY <1>1, <1>3
<1>6. Sound(w)'
  BY <1>5 DEF Sound
<1>7. Switches'
  BY SwitchesStay
<1> QED
  BY <1>3, <1>4, <1>6, <1>7, StepKeeps

(* check_key and nothing else, whatever is shown then.                         *)
LEMMA CheckKeeps ==
  ASSUME IInv, NEW w \in Windows, CheckKey(w), blobs' = blobs,
         UNCHANGED <<elsewhere, again>>,
         Screens', shown' = [v \in Windows |-> shown'[v]]
  PROVE  IInv'
<1>1. /\ Faithful(CheckedSession(w), field[w])
      /\ Remembering(CheckedSession(w), Kept(taken, w)[w], blobs)
      /\ Counting(CheckedSession(w), Kept(issued, w)[w], blobs)
      /\ Kept(issued, w) \in [Windows -> SUBSET Ids]
      /\ Kept(taken, w) \in [Windows -> SUBSET Ids]
  BY CheckedIs
<1>2. More /\ Written' /\ Ids' = Ids
  BY NoMore
<1>3. /\ issued' = [Kept(issued, w) EXCEPT ![w] = Kept(issued, w)[w]]
      /\ taken' = [Kept(taken, w) EXCEPT ![w] = Kept(taken, w)[w]]
  BY <1>1 DEF CheckKey
<1>4. Kept(issued, w)[w] \in SUBSET Ids' /\ Kept(taken, w)[w] \in SUBSET Ids'
  BY <1>1, <1>2
<1>5. /\ raw' = [raw EXCEPT ![w] = field[w]]
      /\ engine' = [engine EXCEPT ![w] = CheckedEngine(w)]
      /\ session' = [session EXCEPT ![w] = CheckedSession(w)]
      /\ UNCHANGED <<field, on, drawn, changes, again>>
  BY DEF CheckKey, elsewhere
<1> QED
  BY <1>1, <1>2, <1>3, <1>4, <1>5, CheckedKeeps

---------------------------------------------------------------------------------
(* The actions.                                                                *)

LEMMA GenerateKeyKeeps ==
  ASSUME IInv, NEW w \in Windows, GenerateKey(w)
  PROVE  IInv'
<1>1. PICK k \in Keys \ drawn :
        /\ field' = [field EXCEPT ![w] = k] /\ raw' = [raw EXCEPT ![w] = k]
        /\ engine' = [engine EXCEPT ![w] = k]
        /\ session' = [session EXCEPT ![w] = SessionOf(k)]
        /\ drawn' = drawn \cup {k}
  BY DEF GenerateKey
<1>2. /\ issued' = [issued EXCEPT ![w] = {}] /\ taken' = [taken EXCEPT ![w] = {}]
      /\ UNCHANGED <<on, shown, answer, blobs, again>>
      /\ changes < MaxChanges /\ changes' = changes + 1
  BY DEF GenerateKey, MayChange
<1>3. Tables /\ k \in Fields
  BY DEF IInv, Fields
<1>4. More /\ Written' /\ Ids' = Ids
  BY <1>2, NoMore
<1>5. Screens' /\ shown' = [v \in Windows |-> shown'[v]]
  BY <1>2, <1>4, ScreensStay
<1>6. SessionOf(k) \in Sessions \cup {NoSession}
  BY <1>3, NewIs
<1>7. Rest(w)
  <2>1. /\ raw' \in [Windows -> Fields] /\ engine' \in [Windows -> Fields]
        /\ \A v \in Windows \ {w} : raw'[v] = raw[v] /\ engine'[v] = engine[v]
    BY <1>1, <1>3 DEF Tables
  <2>2. /\ session' \in [Windows -> Sessions \cup {NoSession}]
        /\ \A v \in Windows \ {w} : session'[v] = session[v]
    BY <1>1, <1>3, <1>6 DEF Tables
  <2>3. /\ issued' \in [Windows -> SUBSET Ids'] /\ taken' \in [Windows -> SUBSET Ids']
        /\ \A v \in Windows \ {w} : issued'[v] = issued[v] /\ taken'[v] = taken[v]
    BY <1>2, <1>3, <1>4 DEF Tables
  <2> QED
    BY <2>1, <2>2, <2>3 DEF Rest
<1>8. /\ raw'[w] = k /\ engine'[w] = k /\ session'[w] = SessionOf(k)
      /\ issued'[w] = {} /\ taken'[w] = {}
  BY <1>1, <1>2, <1>3 DEF Tables
<1>9. Sound(w)'
  BY <1>3, <1>8, NewIs DEF Sound
<1>10. /\ field' \in [Windows -> Fields] /\ drawn' \subseteq Keys
       /\ changes' \in 0..MaxChanges
  BY <1>1, <1>2, <1>3, BoundAssumption DEF Tables
<1>11. Switches'
  BY <1>2, SwitchesStay
<1> QED
  BY <1>4, <1>5, <1>7, <1>9, <1>10, <1>11, StepKeeps

LEMMA EditKeyKeeps ==
  ASSUME IInv, NEW w \in Windows, NEW f \in Fields, EditKey(w, f)
  PROVE  IInv'
<1>1. /\ field' = [field EXCEPT ![w] = f] /\ changes < MaxChanges
      /\ changes' = changes + 1
      /\ UNCHANGED <<raw, engine, session, on, shown, answer, blobs,
                     drawn, issued, taken, again>>
  BY DEF EditKey, MayChange
<1>2. More /\ Written'
  BY <1>1, NoMore
<1>3. Screens' /\ shown' = [v \in Windows |-> shown'[v]]
  BY <1>1, <1>2, ScreensStay
<1>4. field' \in [Windows -> Fields] /\ changes' \in 0..MaxChanges
  BY <1>1, BoundAssumption DEF IInv, Tables
<1> QED
  BY <1>1, <1>2, <1>3, <1>4, OutsideKeeps

LEMMA KeyReleaseKeeps ==
  ASSUME IInv, NEW w \in Windows, KeyRelease(w)
  PROVE  IInv'
<1>1. CheckKey(w) /\ UNCHANGED <<elsewhere, shown, blobs, again>>
  BY DEF KeyRelease
<1>2. More
  BY <1>1, NoMore
<1>3. Screens' /\ shown' = [v \in Windows |-> shown'[v]]
  BY <1>1, <1>2, ScreensStay DEF elsewhere
<1> QED
  BY <1>1, <1>3, CheckKeeps

LEMMA SessionChangedKeeps ==
  ASSUME IInv, NEW w \in Windows, SessionChanged(w)
  PROVE  IInv'
<1> DEFINE s == IF engine[w] # NoKey THEN SessionOf(engine[w]) ELSE session[w]
<1>1. /\ session' = [session EXCEPT ![w] = s]
      /\ issued' = [issued EXCEPT ![w] = {}] /\ taken' = [taken EXCEPT ![w] = {}]
      /\ UNCHANGED <<field, raw, engine, shown, answer, blobs, drawn>>
      /\ changes < MaxChanges /\ changes' = changes + 1
  BY DEF SessionChanged, MayChange
<1>2. Switches'
  <2>1. on' \in [Windows -> BOOLEAN]
    <3>1. on' = [on EXCEPT ![w] = ~on[w]] /\ on \in [Windows -> BOOLEAN]
      BY Zenon DEF SessionChanged, IInv, Switches
    <3> QED
      BY <3>1, Zenon
  <2>2. again' = [v \in Windows |-> FALSE]
    BY Zenon DEF SessionChanged, IInv, Switches
  <2> QED
    BY <2>1, <2>2 DEF Switches
<1>3. Tables /\ Sound(w) /\ engine[w] \in Fields
  BY DEF IInv, Tables
<1>4. s = SessionOf(engine[w])
  BY <1>3 DEF Sound, Faithful, NoSession
<1> HIDE DEF s
<1>5. More /\ Written' /\ Ids' = Ids
  BY <1>1, NoMore
<1>6. Screens' /\ shown' = [v \in Windows |-> shown'[v]]
  BY <1>1, <1>5, ScreensStay
<1>7. s \in Sessions \cup {NoSession}
  BY <1>3, <1>4, NewIs
<1>8. Rest(w)
  <2>1. /\ raw' \in [Windows -> Fields] /\ engine' \in [Windows -> Fields]
        /\ \A v \in Windows \ {w} : raw'[v] = raw[v] /\ engine'[v] = engine[v]
    BY <1>1, <1>3 DEF Tables
  <2>2. /\ session' \in [Windows -> Sessions \cup {NoSession}]
        /\ \A v \in Windows \ {w} : session'[v] = session[v]
    BY <1>1, <1>3, <1>7 DEF Tables
  <2>3. /\ issued' \in [Windows -> SUBSET Ids'] /\ taken' \in [Windows -> SUBSET Ids']
        /\ \A v \in Windows \ {w} : issued'[v] = issued[v] /\ taken'[v] = taken[v]
    BY <1>1, <1>3, <1>5 DEF Tables
  <2> QED
    BY <2>1, <2>2, <2>3 DEF Rest
<1>9. session'[w] = s /\ issued'[w] = {} /\ taken'[w] = {}
  BY <1>1, <1>3 DEF Tables
<1>10. Sound(w)'
  BY <1>1, <1>3, <1>4, <1>9, NewIs DEF Sound
<1>11. /\ field' \in [Windows -> Fields] /\ drawn' \subseteq Keys
       /\ changes' \in 0..MaxChanges
  BY <1>1, <1>3, BoundAssumption DEF Tables
<1> QED
  BY <1>2, <1>5, <1>6, <1>8, <1>10, <1>11, StepKeeps

(* A number is spent: one that no blob of the session has.                     *)
LEMMA SpentIs ==
  ASSUME IInv, NEW w \in Windows, Valid(field[w]), CheckedSession(w).out < MaxSeq
  PROVE  /\ Faithful(Spent(w), field[w]) /\ Spent(w).win = CheckedSession(w).win
         /\ Spent(w).key = field[w] /\ Spent(w).out = CheckedSession(w).out + 1
         /\ Spent(w).out \in Numbers
<1> DEFINE s == CheckedSession(w)
<1>1. field[w] # NoKey /\ s.key = field[w] /\ s \in Sessions \cup {NoSession}
  BY CheckedIs, KeysAssumption DEF Valid, Faithful
<1>2. s \in Sessions
  BY <1>1 DEF NoSession, SessionOf
<1>3. Spent(w) = [s EXCEPT !.out = s.out + 1]
  BY DEF Spent
<1> HIDE DEF s
<1>4. s.out \in 0..MaxSeq /\ s.out < MaxSeq
  BY <1>2 DEF Sessions, s
<1>5. s.out + 1 \in 0..MaxSeq /\ s.out + 1 \in Numbers
  BY <1>4, MaxSeqAssumption DEF Numbers
<1>6. /\ Spent(w) \in Sessions /\ Spent(w).win = s.win
      /\ Spent(w).key = s.key /\ Spent(w).out = s.out + 1
  BY <1>2, <1>3, <1>5 DEF Sessions
<1> QED
  BY <1>1, <1>5, <1>6 DEF Faithful, s

(* The numbers issued before are still behind the counter, the new one is no   *)
(* other blob's.                                                               *)
LEMMA CountingOn ==
  ASSUME IInv, NEW w \in Windows, Valid(field[w]), CheckedSession(w).out < MaxSeq
  PROVE  /\ Remembering(Spent(w), Kept(taken, w)[w], blobs)
         /\ Counting(Spent(w), Kept(issued, w)[w], blobs)
         /\ \A i \in Kept(issued, w)[w] : blobs[i].seq # Spent(w).out
<1>1. /\ Remembering(CheckedSession(w), Kept(taken, w)[w], blobs)
      /\ Counting(CheckedSession(w), Kept(issued, w)[w], blobs)
  BY CheckedIs
<1>2. /\ Spent(w).win = CheckedSession(w).win /\ Spent(w).out \in Nat
      /\ Spent(w).out = CheckedSession(w).out + 1
  BY SpentIs DEF Numbers
<1>3. CheckedSession(w).out \in Int
  <2>1. CheckedSession(w) \in Sessions \cup {NoSession}
    BY CheckedIs DEF Faithful
  <2> QED
    BY <2>1, MaxSeqAssumption DEF Sessions, NoSession, SessionOf
<1>4. ASSUME NEW i \in Kept(issued, w)[w]
      PROVE  blobs[i].seq <= Spent(w).out /\ blobs[i].seq # Spent(w).out
  <2>1. blobs[i].seq \in Int /\ blobs[i].seq <= CheckedSession(w).out
    BY <1>1 DEF Counting, Numbers
  <2> QED
    BY <1>2, <1>3, <2>1
<1>5. Remembering(Spent(w), Kept(taken, w)[w], blobs)
  BY <1>1, <1>2 DEF Remembering
<1> QED
  BY <1>1, <1>4, <1>5 DEF Counting

LEMMA EncryptRefusedKeeps ==
  ASSUME IInv, NEW w \in Windows, NEW plain, EncryptRefused(w, plain)
  PROVE  IInv'
<1>1. /\ Valid(field[w])
      /\ raw' = [raw EXCEPT ![w] = field[w]]
      /\ engine' = [engine EXCEPT ![w] = CheckedEngine(w)]
      /\ session' = [session EXCEPT ![w] =
           IF on[w] /\ CheckedSession(w).out < MaxSeq THEN Spent(w)
                                                      ELSE CheckedSession(w)]
      /\ issued' = Kept(issued, w) /\ taken' = Kept(taken, w)
      /\ UNCHANGED <<elsewhere, shown, blobs, again>>
  BY DEF EncryptRefused
<1>2. More /\ Written' /\ Ids' = Ids
  BY <1>1, NoMore
<1>3. Screens' /\ shown' = [v \in Windows |-> shown'[v]]
  BY <1>1, <1>2, ScreensStay DEF elsewhere
<1>4. CASE on[w] /\ CheckedSession(w).out < MaxSeq
  <2>1. session' = [session EXCEPT ![w] = Spent(w)]
    BY <1>1, <1>4
  <2>2. Kept(issued, w)[w] \in SUBSET Ids' /\ Kept(taken, w)[w] \in SUBSET Ids'
    BY <1>2, CheckedIs
  <2>3. /\ issued' = [Kept(issued, w) EXCEPT ![w] = Kept(issued, w)[w]]
        /\ taken' = [Kept(taken, w) EXCEPT ![w] = Kept(taken, w)[w]]
    BY <1>1, CheckedIs
  <2>4. /\ Faithful(Spent(w), field[w])
        /\ Remembering(Spent(w), Kept(taken, w)[w], blobs')
        /\ Counting(Spent(w), Kept(issued, w)[w], blobs')
    BY <1>1, <1>4, SpentIs, CountingOn
  <2>5. UNCHANGED <<field, on, drawn, changes, again>>
    BY <1>1 DEF elsewhere
  <2> QED
    BY <1>1, <1>2, <1>3, <2>1, <2>2, <2>3, <2>4, <2>5, CheckedKeeps
<1>5. CASE ~(on[w] /\ CheckedSession(w).out < MaxSeq)
  <2>1. CheckKey(w)
    BY <1>1, <1>5 DEF CheckKey
  <2> QED
    BY <1>1, <1>3, <2>1, CheckKeeps
<1> QED
  BY <1>4, <1>5

LEMMA EncryptKeeps ==
  ASSUME IInv, NEW w \in Windows, NEW kind \in {"hidden", "text"}, Encrypt(w, kind)
  PROVE  IInv'
<1> DEFINE I == Kept(issued, w)[w]
           T == Kept(taken, w)[w]
           n == Len(blobs) + 1
<1>1. /\ Valid(field[w]) /\ (on[w] => CheckedSession(w).out < MaxSeq)
      /\ raw' = [raw EXCEPT ![w] = field[w]]
      /\ engine' = [engine EXCEPT ![w] = CheckedEngine(w)]
      /\ taken' = Kept(taken, w)
      /\ UNCHANGED <<field, on, drawn, changes, again>>
      /\ UNCHANGED <<shown, answer>>
  BY DEF Encrypt, elsewhere
<1>2. /\ CheckedEngine(w) = field[w] /\ Faithful(CheckedSession(w), field[w])
      /\ Kept(issued, w) \in [Windows -> SUBSET Ids]
      /\ Kept(taken, w) \in [Windows -> SUBSET Ids]
      /\ field[w] \in Fields /\ I \in SUBSET Ids /\ T \in SUBSET Ids
  BY CheckedIs
<1>3. taken' = [Kept(taken, w) EXCEPT ![w] = T]
  BY <1>1, <1>2
<1>4. CASE on[w]
  <2> DEFINE b == [key |-> CheckedSession(w).key, seq |-> Spent(w).out, kind |-> kind,
                   asked |-> field[w]]
  <2>1. blobs' = Append(blobs, b) /\ session' = [session EXCEPT ![w] = Spent(w)]
    BY <1>4 DEF Encrypt
  <2>2. /\ Faithful(Spent(w), field[w]) /\ Spent(w).out \in Numbers
        /\ Remembering(Spent(w), T, blobs) /\ Counting(Spent(w), I, blobs)
        /\ \A i \in I : blobs[i].seq # Spent(w).out
    BY <1>1, <1>4, SpentIs, CountingOn
  <2>3. b \in Blobs /\ b.key = b.asked /\ b.seq = Spent(w).out
    BY <1>1, <1>2, <2>2 DEF Blobs, Faithful, Valid, Numbers
  <2> HIDE DEF b
  <2>4. /\ More /\ Written' /\ Ids' = Ids \cup {n} /\ n \notin Ids /\ blobs'[n] = b
    BY <2>1, <2>3, OneMore
  <2>5. issued' = [Kept(issued, w) EXCEPT ![w] = I \cup {n}]
    BY <1>4 DEF Encrypt
  <2> HIDE DEF n, I, T
  <2>6. Screens' /\ shown' = [v \in Windows |-> shown'[v]]
    BY <1>1, <2>4, ScreensStay
  <2>7. Remembering(Spent(w), T, blobs')
    BY <1>2, <2>2, <2>4, Lasting
  <2>8. Counting(Spent(w), I \cup {n}, blobs')
    <3>1. \A i \in I : blobs'[i] = blobs[i]
      BY <1>2, <2>4 DEF More
    <3>2. Spent(w).out <= Spent(w).out
      BY <2>2 DEF Numbers
    <3> QED
      BY <2>2, <2>3, <2>4, <3>1, <3>2 DEF Counting
  <2>9. I \cup {n} \in SUBSET Ids' /\ T \in SUBSET Ids'
    BY <1>2, <2>4
  <2> QED
    BY <1>1, <1>3, <2>1, <2>2, <2>4, <2>5, <2>6, <2>7, <2>8, <2>9, CheckedKeeps
<1>5. CASE ~on[w]
  <2> DEFINE b == [key |-> CheckedEngine(w), seq |-> UNSEQUENCED, kind |-> kind,
                   asked |-> field[w]]
  <2>1. /\ blobs' = Append(blobs, b)
        /\ session' = [session EXCEPT ![w] = CheckedSession(w)]
        /\ issued' = Kept(issued, w)
    BY <1>5 DEF Encrypt
  <2>2. b \in Blobs /\ b.key = b.asked
    BY <1>1, <1>2, MaxSeqAssumption DEF Blobs, Valid, UNSEQUENCED
  <2> HIDE DEF b
  <2>3. /\ More /\ Written' /\ Ids' = Ids \cup {n}
    BY <2>1, <2>2, OneMore
  <2>4. Screens' /\ shown' = [v \in Windows |-> shown'[v]]
    BY <1>1, <2>3, ScreensStay
  <2>5. issued' = [Kept(issued, w) EXCEPT ![w] = I]
    BY <1>2, <2>1
  <2>6. Remembering(CheckedSession(w), T, blobs) /\ Counting(CheckedSession(w), I, blobs)
    BY CheckedIs
  <2> HIDE DEF n, I, T
  <2>7. Remembering(CheckedSession(w), T, blobs') /\ Counting(CheckedSession(w), I, blobs')
    BY <1>2, <2>3, <2>6, Lasting
  <2>8. I \in SUBSET Ids' /\ T \in SUBSET Ids'
    BY <1>2, <2>3
  <2> QED
    BY <1>1, <1>2, <1>3, <2>1, <2>3, <2>4, <2>5, <2>7, <2>8, CheckedKeeps
<1> QED
  BY <1>4, <1>5

LEMMA EncryptElsewhereKeeps ==
  ASSUME IInv, NEW k \in Keys, EncryptElsewhere(k)
  PROVE  IInv'
<1> DEFINE b == [key |-> k, seq |-> 1, kind |-> "formula", asked |-> k]
<1>1. /\ blobs' = Append(blobs, b)
      /\ UNCHANGED <<field, on, answer, drawn, changes, raw, engine, session, shown,
                     issued, taken, again>>
  BY DEF EncryptElsewhere, elsewhere
<1>2. b \in Blobs /\ b.key = b.asked
  BY MaxSeqAssumption DEF Blobs, Fields
<1> HIDE DEF b
<1>3. More /\ Written'
  BY <1>1, <1>2, OneMore
<1>4. Screens' /\ shown' = [v \in Windows |-> shown'[v]]
  BY <1>1, <1>3, ScreensStay
<1>5. field' \in [Windows -> Fields] /\ changes' \in 0..MaxChanges
  BY <1>1 DEF IInv, Tables
<1> QED
  BY <1>1, <1>3, <1>4, <1>5, OutsideKeeps

LEMMA DecryptRejectedKeeps ==
  ASSUME IInv, NEW w \in Windows, NEW i \in Ids, DecryptRejected(w, i)
  PROVE  IInv'
<1>1. /\ CheckKey(w) /\ shown' = [shown EXCEPT ![w] = Blank]
      /\ UNCHANGED <<elsewhere, blobs, again>>
  BY DEF DecryptRejected
<1>2. More
  BY <1>1, NoMore
<1>3. Told(Blank, blobs')
  BY <1>2 DEF Told, Blank, Fields, More
<1>4. Screens' /\ shown' = [v \in Windows |-> shown'[v]]
  BY <1>1, <1>2, <1>3, OneScreen DEF elsewhere
<1> QED
  BY <1>1, <1>4, CheckKeeps

(* What verify let through is new to the session.                              *)
LEMMA LetThrough ==
  ASSUME IInv, NEW w \in Windows, NEW i \in Ids, Valid(field[w]), on[w],
         VerifyOutcome(w, blobs[i]) \in {"off", "ok"}
  PROVE  /\ i \notin Kept(taken, w)[w]
         /\ blobs[i].seq \in Numbers
         /\ \/ blobs[i].seq > CheckedSession(w).win.top
            \/ CheckedSession(w).win.top - blobs[i].seq < CheckedSession(w).win.width
<1>1. blobs[i].seq \in Int
  BY BlobIs
<1>2. /\ CheckedSession(w).win \in AnyWindow
      /\ Remembering(CheckedSession(w), Kept(taken, w)[w], blobs)
  BY CheckedIs, WinIs DEF Faithful
<1>3. Verdict(CheckedSession(w).win, blobs[i].seq) = "ok"
  <2>1. CASE blobs[i].key # CheckedSession(w).key
    BY <2>1 DEF VerifyOutcome
  <2>2. CASE blobs[i].key = CheckedSession(w).key
    <3>1. VerifyOutcome(w, blobs[i]) = Verdict(CheckedSession(w).win, blobs[i].seq)
      BY <2>2 DEF VerifyOutcome
    <3>2. Verdict(CheckedSession(w).win, blobs[i].seq) # "off"
      BY <1>1, <1>2, VerdictCases
    <3> QED
      BY <3>1, <3>2
  <2> QED
    BY <2>1, <2>2
<1>4. /\ blobs[i].seq \in Numbers
      /\ \/ blobs[i].seq > CheckedSession(w).win.top
         \/ CheckedSession(w).win.top - blobs[i].seq < CheckedSession(w).win.width
      /\ blobs[i].seq \notin {blobs[j].seq : j \in Kept(taken, w)[w]}
  BY <1>1, <1>2, <1>3, GrantedIsNew DEF Remembering
<1> QED
  BY <1>4

(* The session after its window recorded a number.                             *)
LEMMA RecordedIs ==
  ASSUME IInv, NEW w \in Windows, NEW i \in Ids, Valid(field[w]), on[w],
         VerifyOutcome(w, blobs[i]) \in {"off", "ok"},
         NEW s, s = [CheckedSession(w) EXCEPT !.win = Marked(@, blobs[i].seq)]
  PROVE  /\ Faithful(s, field[w])
         /\ Remembering(s, Kept(taken, w)[w] \cup {i}, blobs)
         /\ Counting(s, Kept(issued, w)[w], blobs)
<1> DEFINE x == CheckedSession(w)
           T == Kept(taken, w)[w]
           new == Marked(x.win, blobs[i].seq)
<1>1. /\ field[w] # NoKey /\ x.key = field[w] /\ x \in Sessions \cup {NoSession}
      /\ Remembering(x, T, blobs) /\ Counting(x, Kept(issued, w)[w], blobs)
  BY CheckedIs, KeysAssumption DEF Valid, Faithful
<1>2. x \in Sessions
  BY <1>1 DEF NoSession, SessionOf
<1>3. /\ x.win \in AnyWindow /\ x.win.width = Width
      /\ x.win.mask \subseteq Positions(x.win.width)
  BY <1>1, WinIs
<1>4. /\ blobs[i].seq \in Numbers
      /\ blobs[i].seq > x.win.top \/ x.win.top - blobs[i].seq < x.win.width
  BY LetThrough
<1>5. s = [x EXCEPT !.win = new]
  OBVIOUS
<1> HIDE DEF x, T
<1>6. /\ new \in AnyWindow /\ new.mask \subseteq Positions(new.width)
      /\ new.width = Width
      /\ Remembers(new, {blobs[j].seq : j \in T} \cup {blobs[i].seq})
  BY <1>1, <1>3, <1>4, MarkedType, MarkedRemembers DEF Remembering
<1>7. {blobs[j].seq : j \in T \cup {i}} = {blobs[j].seq : j \in T} \cup {blobs[i].seq}
  OBVIOUS
<1>8. new \in [width : {Width}, top : 0..MaxSeq, mask : SUBSET Positions(Width)]
  BY <1>6 DEF AnyWindow
<1> HIDE DEF new
<1>9. s \in Sessions /\ s.key = x.key /\ s.out = x.out /\ s.win = new
  BY <1>2, <1>5, <1>8 DEF Sessions
<1>10. Remembering(s, T \cup {i}, blobs)
  BY <1>6, <1>7, <1>9 DEF Remembering
<1>11. Counting(s, Kept(issued, w)[w], blobs)
  BY <1>1, <1>9 DEF Counting
<1>12. Faithful(s, field[w])
  BY <1>1, <1>9 DEF Faithful
<1> QED
  BY <1>10, <1>11, <1>12 DEF T

LEMMA DecryptKeeps ==
  ASSUME IInv, NEW w \in Windows, NEW i \in Ids, Decrypt(w, i)
  PROVE  IInv'
<1> DEFINE I == Kept(issued, w)[w]
           T == Kept(taken, w)[w]
           x == IF Opens(w, blobs[i]) THEN [id |-> i, key |-> field[w]] ELSE Blank
<1>1. /\ Valid(field[w]) /\ VerifyOutcome(w, blobs[i]) \in {"off", "ok"}
      /\ raw' = [raw EXCEPT ![w] = field[w]]
      /\ engine' = [engine EXCEPT ![w] = CheckedEngine(w)]
      /\ issued' = Kept(issued, w)
      /\ shown' = [shown EXCEPT ![w] = x]
      /\ UNCHANGED <<field, on, drawn, changes>> /\ UNCHANGED <<answer, blobs>>
  BY DEF Decrypt, elsewhere
<1>2. /\ CheckedEngine(w) = field[w] /\ Faithful(CheckedSession(w), field[w])
      /\ Kept(issued, w) \in [Windows -> SUBSET Ids]
      /\ Kept(taken, w) \in [Windows -> SUBSET Ids]
      /\ field[w] \in Fields /\ I \in SUBSET Ids /\ T \in SUBSET Ids
  BY CheckedIs
<1>3. More /\ Written' /\ Ids' = Ids
  BY <1>1, NoMore
<1>4. Told(x, blobs')
  <2>1. CASE Opens(w, blobs[i])
    <3>1. x = [id |-> i, key |-> field[w]] /\ blobs[i].key = field[w] /\ i \in 0..Len(blobs)
      BY <1>2, <2>1 DEF Opens, Ids
    <3> HIDE DEF x
    <3> QED
      BY <1>1, <1>2, <3>1 DEF Told
  <2>2. CASE ~Opens(w, blobs[i])
    <3>1. x = Blank /\ Len(blobs') \in Nat
      BY <1>3, <2>2 DEF More
    <3> HIDE DEF x
    <3> QED
      BY <3>1 DEF Told, Blank, Fields
  <2> QED
    BY <2>1, <2>2
<1> HIDE DEF x
<1>5. Screens' /\ shown' = [v \in Windows |-> shown'[v]]
  BY <1>1, <1>3, <1>4, OneScreen
<1>6. again' = again
  <2>1. ~(on[w] /\ i \in T)
    BY <1>1, LetThrough
  <2>2. again' = [again EXCEPT ![w] = again[w] \/ (on[w] /\ i \in T)]
    BY Zenon DEF Decrypt
  <2>3. again = [v \in Windows |-> FALSE]
    BY DEF IInv, Switches
  <2>4. again[w] = FALSE
    BY <2>3
  <2>5. (again[w] \/ (on[w] /\ i \in T)) = FALSE
    BY <2>1, <2>4, Zenon
  <2>6. again' = [again EXCEPT ![w] = FALSE]
    BY <2>2, <2>5, Zenon
  <2> QED
    BY <2>3, <2>6
<1>7. issued' = [Kept(issued, w) EXCEPT ![w] = I]
  BY <1>1, <1>2
<1>8. CASE on[w]
  <2> DEFINE s == [CheckedSession(w) EXCEPT !.win = Marked(@, blobs[i].seq)]
  <2>1. /\ session' = [session EXCEPT ![w] = s]
        /\ taken' = [Kept(taken, w) EXCEPT ![w] = T \cup {i}]
    BY <1>8 DEF Decrypt
  <2>2. /\ Faithful(s, field[w]) /\ Remembering(s, T \cup {i}, blobs)
        /\ Counting(s, I, blobs)
    BY <1>1, <1>8, RecordedIs
  <2> HIDE DEF s, I, T
  <2>3. I \in SUBSET Ids' /\ T \cup {i} \in SUBSET Ids'
    BY <1>2, <1>3
  <2>4. Remembering(s, T \cup {i}, blobs') /\ Counting(s, I, blobs')
    BY <1>1, <2>2
  <2> QED
    BY <1>1, <1>3, <1>5, <1>6, <1>7, <2>1, <2>2, <2>3, <2>4, CheckedKeeps
<1>9. CASE ~on[w]
  <2>1. CheckKey(w)
    BY <1>9 DEF Decrypt, CheckKey
  <2> QED
    BY <1>1, <1>5, <1>6, <2>1, CheckKeeps DEF elsewhere
<1> QED
  BY <1>8, <1>9

LEMMA WebKeeps ==
  ASSUME IInv, More, Written', UNCHANGED web, Told(answer', blobs')
  PROVE  IInv'
<1>1. UNCHANGED <<field, on, drawn, changes, raw, engine, session, shown, issued, taken,
                  again>>
  BY DEF web
<1>2. /\ \A w \in Windows : Told(shown[w], blobs')
      /\ shown = [v \in Windows |-> shown[v]]
  BY Lasting DEF IInv, Screens, Tables
<1>3. Screens' /\ shown' = [v \in Windows |-> shown'[v]]
  BY <1>1, <1>2 DEF Screens
<1>4. field' \in [Windows -> Fields] /\ changes' \in 0..MaxChanges
  BY <1>1 DEF IInv, Tables
<1> QED
  BY <1>1, <1>3, <1>4, OutsideKeeps

LEMMA WebStepKeeps ==
  ASSUME IInv,
         \/ \E h \in Hosts, f \in drawn :
              WebEncrypt(h, f) \/ \E i \in Ids : WebDecrypt(h, f, i)
         \/ WebError
  PROVE  IInv'
<1>1. ASSUME NEW h \in Hosts, NEW f \in drawn, WebEncrypt(h, f) PROVE IInv'
  <2> DEFINE b == [key |-> f, seq |-> UNSEQUENCED, kind |-> "text", asked |-> f]
  <2>1. /\ blobs' = Append(blobs, b) /\ UNCHANGED web
        /\ answer' = [id |-> Len(blobs) + 1, key |-> f]
    BY <1>1 DEF WebEncrypt
  <2>2. b \in Blobs /\ b.key = f /\ b.asked = f /\ f \in Fields
    BY MaxSeqAssumption DEF Blobs, Fields, UNSEQUENCED, IInv, Tables
  <2> HIDE DEF b
  <2>3. /\ More /\ Written' /\ Ids' = Ids \cup {Len(blobs) + 1}
        /\ blobs'[Len(blobs) + 1] = b
    BY <2>1, <2>2, OneMore
  <2>4. Len(blobs) + 1 \in 0..Len(blobs')
    BY <2>3 DEF Ids
  <2>5. Told(answer', blobs')
    BY <2>1, <2>2, <2>3, <2>4 DEF Told
  <2> QED
    BY <2>1, <2>3, <2>5, WebKeeps
<1>2. ASSUME NEW h \in Hosts, NEW f \in drawn, NEW i \in Ids, WebDecrypt(h, f, i)
      PROVE  IInv'
  <2>1. /\ blobs' = blobs /\ UNCHANGED web /\ answer' = [id |-> i, key |-> f]
        /\ blobs[i].key = f
    BY <1>2 DEF WebDecrypt
  <2>2. i \in 0..Len(blobs) /\ f \in Fields
    BY DEF Ids, Fields, IInv, Tables
  <2>3. Told(answer', blobs')
    BY <2>1, <2>2 DEF Told
  <2> QED
    BY <2>1, <2>3, NoMore, WebKeeps
<1>3. ASSUME WebError PROVE IInv'
  <2>1. answer' = Blank /\ blobs' = blobs /\ UNCHANGED web
    BY <1>3 DEF WebError
  <2>2. More /\ Written'
    BY <2>1, NoMore
  <2>3. Told(answer', blobs')
    BY <2>1, <2>2 DEF Told, Blank, Fields, More
  <2> QED
    BY <2>1, <2>2, <2>3, WebKeeps
<1> QED
  BY <1>1, <1>2, <1>3

LEMMA NextInvariant == IInv /\ [Next]_vars => IInv'
<1> SUFFICES ASSUME IInv, [Next]_vars PROVE IInv'
  OBVIOUS
<1>1. CASE UNCHANGED vars
  <2>1. More /\ Written' /\ Screens' /\ shown' = [v \in Windows |-> shown'[v]]
    BY <1>1, NoMore, ScreensStay DEF vars
  <2>2. field' \in [Windows -> Fields] /\ changes' \in 0..MaxChanges
    BY <1>1 DEF IInv, Tables, vars
  <2> QED
    BY <1>1, <2>1, <2>2, OutsideKeeps DEF vars
<1> QED
  BY <1>1, GenerateKeyKeeps, EditKeyKeeps, KeyReleaseKeeps, SessionChangedKeeps,
     EncryptRefusedKeeps, EncryptKeeps, DecryptRejectedKeeps, DecryptKeeps,
     EncryptElsewhereKeeps, WebStepKeeps DEF Next

LEMMA AlwaysIInv == Spec => []IInv
<1> QED
  BY InitInvariant, NextInvariant, PTL DEF Spec

---------------------------------------------------------------------------------
(* The properties.                                                             *)

(* A window has an engine and a session of the key it checked last, for every  *)
(* set of windows and keys.                                                    *)
THEOREM TypeCorrect == Spec => []TypeOK
<1> SUFFICES ASSUME IInv PROVE TypeOK
  BY AlwaysIInv, PTL
<1>1. /\ field \in [Windows -> Fields] /\ raw \in [Windows -> Fields]
      /\ session \in [Windows -> Sessions \cup {NoSession}] /\ blobs \in Seq(Blobs)
      /\ issued \in [Windows -> SUBSET Ids] /\ taken \in [Windows -> SUBSET Ids]
      /\ drawn \subseteq Keys /\ changes \in 0..MaxChanges
  BY DEF IInv, Tables, Written
<1>2. on \in [Windows -> BOOLEAN] /\ again \in [Windows -> BOOLEAN]
  BY Zenon DEF IInv, Switches
<1>3. ASSUME NEW w \in Windows
      PROVE  /\ engine[w] = IF Valid(raw[w]) THEN raw[w] ELSE NoKey
             /\ session[w].key = engine[w]
             /\ session[w].key = NoKey => session[w] = NoSession
  <2>1. engine[w] = raw[w] /\ Faithful(session[w], raw[w]) /\ raw[w] \in Fields
    BY <1>1 DEF IInv, Sound
  <2> QED
    BY <2>1 DEF Faithful, Valid, Fields
<1>4. /\ shown \in [Windows -> [id : 0..Len(blobs), key : Keys \cup {NoKey}]]
      /\ answer.id \in 0..Len(blobs)
  BY DEF IInv, Screens, Told, Tables, Fields
<1> QED
  BY <1>1, <1>2, <1>3, <1>4 DEF TypeOK

(* The key in the field is the key in force, however it came there.            *)
THEOREM FieldRules == Spec => []KeyInForce
<1>1. IInv => KeyInForce
  BY DEF IInv, Written, Screens, Told, KeyInForce
<1> QED
  BY <1>1, AlwaysIInv, PTL

(* No session shows a ciphertext twice, for every width, MaxSeq and number of  *)
(* presses.                                                                    *)
THEOREM OnlyOnce == Spec => []OncePerSession
<1>1. IInv => OncePerSession
  BY DEF IInv, Switches, OncePerSession
<1> QED
  BY <1>1, AlwaysIInv, PTL

(* A message of the other window's present session arrives, if the window still*)
(* holds its number.                                                           *)
THEOREM OthersArrive == Spec => []FreshArrives
<1> SUFFICES ASSUME IInv PROVE FreshArrives
  BY AlwaysIInv, PTL
<1> SUFFICES ASSUME NEW v \in Windows, NEW w \in Windows, on[w], ~Differs(w),
                    NEW i \in issued[v] \ taken[w],
                    blobs[i].key = engine[w], taken[w] \subseteq issued[v],
                    blobs[i].seq + Width > session[w].win.top
             PROVE  VerifyOutcome(w, blobs[i]) = "ok"
  BY DEF FreshArrives
<1>1. /\ session[w] \in Sessions \cup {NoSession} /\ session[w].key = engine[w]
      /\ Remembering(session[w], taken[w], blobs)
      /\ CheckedSession(w) = session[w]
  BY DEF IInv, Sound, Faithful, CheckedSession
<1>2. Counting(session[v], issued[v], blobs)
  BY DEF IInv, Sound
<1>3. blobs[i].seq \in Numbers /\ blobs[i].seq \notin {blobs[j].seq : j \in taken[w]}
  BY <1>2 DEF Counting
<1>4. session[w].win \in AnyWindow /\ session[w].win.width = Width
  BY <1>1, WinIs
<1>5. Verdict(session[w].win, blobs[i].seq) = "ok"
  BY <1>1, <1>3, <1>4, NewIsGranted DEF Remembering
<1> QED
  BY <1>1, <1>5 DEF VerifyOutcome

=================================================================================
