-------------------------------- MODULE Session ---------------------------------
(* The Session objects of crypto/session.py at the endpoints of a channel, the *)
(* blobs in flight between them and the restarts that load a saved state.      *)
(* The transport may lose, repeat, reorder and reflect blobs: a blob once made *)
(* can reach any endpoint any number of times, or never.  An endpoint is one   *)
(* Session, or a SecureChannel of crypto/handshake.py: the counter of its      *)
(* outgoing Session and the window of its incoming one, which are saved and    *)
(* loaded together and whose other halves are never used.                      *)
EXTENDS Window, Sequences

CONSTANTS Endpoints,
          Senders,          \* the endpoints that encrypt in this configuration
          Keys,
          SendKey,          \* the key of an endpoint's outgoing engine
          RecvKey,          \* the key of its incoming engine
          Width,            \* the window width every session is built with
          Kinds,            \* which encrypt method made a blob, of AllKinds
          MaxBlobs          \* bound: blobs made in a behaviour

AllKinds == {"single", "chain", "text", "hidden"}

ASSUME KeysAssumption  == /\ Senders \subseteq Endpoints
                          /\ SendKey \in [Endpoints -> Keys]
                          /\ RecvKey \in [Endpoints -> Keys]
ASSUME WidthAssumption == Width \in Nat \ {0}
ASSUME KindsAssumption == Kinds \subseteq AllKinds /\ Kinds # {}
ASSUME BoundAssumption == MaxBlobs \in Nat

VERSION == 2                \* the frame version this engine reads and writes

VARIABLES sess,             \* per endpoint: _outgoing and window
          disk,             \* per endpoint: the last state() written down
          blobs,            \* every blob made so far, in order
          passed,           \* history, per endpoint: blobs verify() let through
          repeated,         \* history: blobs it let through more than once
          opened,           \* history: blobs whose content was returned
          outBack, inBack   \* history: a restart went back to an older counter, window

vars == <<sess, disk, blobs, passed, repeated, opened, outBack, inBack>>

Ids == 1..Len(blobs)
NewSession == [out |-> 0, win |-> NewWindow(Width)]

Init == /\ sess = [e \in Endpoints |-> NewSession]
        /\ disk = sess
        /\ blobs = <<>>
        /\ passed = [e \in Endpoints |-> {}]
        /\ repeated = passed
        /\ opened = passed
        /\ outBack = [e \in Endpoints |-> FALSE]
        /\ inBack = outBack

---------------------------------------------------------------------------------
(* Sending.                                                                    *)

(* Mistake, for the runs: the counter wraps.                                   *)
NumberedWrapping(s) == [s EXCEPT !.out = IF s.out + 1 >= MaxSeq THEN 1 ELSE s.out + 1]

(* Mistake, for the runs: one number too many is issued.                       *)
ExhaustedLate(s) == s.out > MaxSeq

(* _next: the counter moves, or the call raises because it is exhausted.       *)
Exhausted(s) == s.out >= MaxSeq
Numbered(s)  == [s EXCEPT !.out = s.out + 1]

Made(b) == blobs' = Append(blobs, b)
CanMake == Len(blobs) < MaxBlobs

received == <<passed, repeated, opened, inBack>>

(* encrypt, encrypt_chain, encrypt_text, encrypt_hidden: the number is issued  *)
(* before the engine runs, and the engine returns a blob.                      *)
Encrypt(e, kind) ==
  /\ ~Exhausted(sess[e]) /\ CanMake
  /\ sess' = [sess EXCEPT ![e] = Numbered(sess[e])]
  /\ Made([key |-> SendKey[e], version |-> VERSION, seq |-> Numbered(sess[e]).out,
           kind |-> kind, from |-> e])
  /\ UNCHANGED <<disk, outBack, received>>

(* The same calls when the engine raises (text too long, a constraint, a       *)
(* retired entry): no blob, but the number is spent.                           *)
EncryptRefused(e) ==
  /\ ~Exhausted(sess[e])
  /\ sess' = [sess EXCEPT ![e] = Numbered(sess[e])]
  /\ UNCHANGED <<disk, blobs, outBack, received>>

(* Blobs under a channel key that no session made: Engine.encrypt called       *)
(* without one leaves seq at UNSEQUENCED, and an engine of another format      *)
(* version writes another version byte.                                        *)
EncryptOutside(e, version, seq) ==
  /\ CanMake
  /\ Made([key |-> SendKey[e], version |-> version, seq |-> seq,
           kind |-> CHOOSE k \in Kinds : TRUE, from |-> e])
  /\ UNCHANGED <<sess, disk, outBack, received>>

---------------------------------------------------------------------------------
(* Receiving.                                                                  *)

(* Mistake, for the runs: the window answers for the newest number only.       *)
VerifyInOrder(e, b) ==
  IF b.key # RecvKey[e] THEN "VerificationError"
  ELSE IF b.version # VERSION THEN "VersionError"
  ELSE IF b.seq > sess[e].win.top THEN "ok" ELSE "replay"

(* What Engine.read_frame and then window.accept answer: the tag first, the    *)
(* version next, the sequence number last.                                     *)
VerifyOutcome(e, b) ==
  IF b.key # RecvKey[e] THEN "VerificationError"
  ELSE IF b.version # VERSION THEN "VersionError"
  ELSE Verdict(sess[e].win, b.seq)

(* Whether a blob opens with a decode method: the outcomes possible.  Text and *)
(* hidden text open with their own method and as what they are on the wire; a  *)
(* chain holds a text record or not, a checked record may violate its          *)
(* constraints (decoys do), a formula entry may be the text entry or not.      *)
Outcomes(kind, how) ==
  CASE kind = how /\ kind \in {"text", "hidden"}            -> {TRUE}
    [] kind = "text" /\ how = "single"                      -> {TRUE}
    [] kind = "single" /\ how \in {"single", "text"}        -> BOOLEAN
    [] kind \in {"chain", "hidden"} /\ how = "chain"        -> BOOLEAN
    [] kind = "chain" /\ how = "hidden"                     -> BOOLEAN
    [] OTHER                                                -> {FALSE}

(* Mistake, for the runs: the number is recorded only when it moves the top.   *)
PassLazily(e, i) ==
  /\ VerifyOutcome(e, blobs[i]) = "ok"
  /\ sess' = IF blobs[i].seq > sess[e].win.top
               THEN [sess EXCEPT ![e].win = Marked(sess[e].win, blobs[i].seq)]
               ELSE sess
  /\ passed' = [passed EXCEPT ![e] = @ \cup {i}]
  /\ repeated' = [repeated EXCEPT ![e] = IF i \in passed[e] THEN @ \cup {i} ELSE @]

(* verify: accepted, so the number is in the window from here on.              *)
Pass(e, i) ==
  /\ VerifyOutcome(e, blobs[i]) = "ok"
  /\ sess' = [sess EXCEPT ![e].win = Marked(sess[e].win, blobs[i].seq)]
  /\ passed' = [passed EXCEPT ![e] = @ \cup {i}]
  /\ repeated' = [repeated EXCEPT ![e] = IF i \in passed[e] THEN @ \cup {i} ELSE @]

(* Session.verify on its own: the frame is returned, nothing is decrypted.     *)
Verify(e, i) ==
  /\ Pass(e, i)
  /\ UNCHANGED <<disk, blobs, opened, outBack, inBack>>

(* Mistake, for the runs: a decode that raised takes its number back out.      *)
DecodeGivingBack(e, i, how) ==
  /\ VerifyOutcome(e, blobs[i]) = "ok"
  /\ passed' = [passed EXCEPT ![e] = @ \cup {i}]
  /\ repeated' = [repeated EXCEPT ![e] = IF i \in passed[e] THEN @ \cup {i} ELSE @]
  /\ \E opens \in Outcomes(blobs[i].kind, how) :
       IF opens THEN /\ opened' = [opened EXCEPT ![e] = @ \cup {i}]
                     /\ sess' = [sess EXCEPT ![e].win = Marked(@, blobs[i].seq)]
                ELSE UNCHANGED <<opened, sess>>
  /\ UNCHANGED <<disk, blobs, outBack, inBack>>

(* decode, decode_chain, decrypt_text, decrypt_hidden: verify, then the        *)
(* engine's decode, which may still raise although the number is recorded.     *)
Decode(e, i, how) ==
  /\ Pass(e, i)
  /\ \E opens \in Outcomes(blobs[i].kind, how) :
       opened' = IF opens THEN [opened EXCEPT ![e] = @ \cup {i}] ELSE opened
  /\ UNCHANGED <<disk, blobs, outBack, inBack>>

(* Any receiving call whose verify raises: nothing is recorded.                *)
Reject(e, i) ==
  /\ VerifyOutcome(e, blobs[i]) # "ok"
  /\ UNCHANGED vars

---------------------------------------------------------------------------------
(* Persistence.                                                                *)

(* state() written to disk, whenever the owner chooses to.                     *)
Save(e) == /\ disk' = [disk EXCEPT ![e] = [out |-> sess[e].out,
                                           win |-> ToState(sess[e].win)]]
           /\ UNCHANGED <<sess, blobs, outBack, received>>

Loaded(d) == [out |-> d.out, win |-> FromState(d.win)]

(* The process dies and a new Session loads the state: whatever happened since *)
(* the last Save is forgotten.  With no Save the state is the constructor's.   *)
Restart(e) ==
  /\ sess' = [sess EXCEPT ![e] = Loaded(disk[e])]
  /\ outBack' = [outBack EXCEPT ![e] = @ \/ Loaded(disk[e]).out # sess[e].out]
  /\ inBack' = [inBack EXCEPT ![e] = @ \/ Loaded(disk[e]).win # sess[e].win]
  /\ UNCHANGED <<disk, blobs, passed, repeated, opened>>

(* What an endpoint sends, each method of a channel with its outgoing session; *)
(* and what it does with a blob that comes, with its incoming one.             *)
Send(e)    == \/ \E kind \in Kinds : Encrypt(e, kind)
              \/ EncryptRefused(e)
              \/ EncryptOutside(e, VERSION, UNSEQUENCED)
              \/ EncryptOutside(e, VERSION - 1, 1)
Receive(e) == \E i \in Ids : \/ Verify(e, i)
                             \/ \E how \in Kinds : Decode(e, i, how)
                             \/ Reject(e, i)

Next == \/ \E e \in Senders : Send(e)
        \/ \E e \in Endpoints : Receive(e) \/ Save(e) \/ Restart(e)

Spec == Init /\ [][Next]_vars

---------------------------------------------------------------------------------
Windows  == [width : {Width}, top : 0..MaxSeq, mask : SUBSET Positions(Width)]
Sessions == [out : 0..MaxSeq, win : Windows]
Blobs    == [key : Keys, version : {VERSION, VERSION - 1}, seq : 0..MaxSeq,
             kind : Kinds, from : Endpoints]

(* Type invariant: counters and windows stay in range, histories name blobs.   *)
TypeOK == /\ sess \in [Endpoints -> Sessions]
          /\ disk \in [Endpoints -> Sessions]
          /\ blobs \in Seq(Blobs)
          /\ \A f \in {passed, repeated, opened} :
               f \in [Endpoints -> SUBSET Ids]
          /\ outBack \in [Endpoints -> BOOLEAN]
          /\ inBack \in [Endpoints -> BOOLEAN]

(* SecureChannel's arrangement: every direction has a key of its own.          *)
SeparateKeys == /\ \A e, f \in Endpoints : SendKey[e] = SendKey[f] => e = f
                /\ \A e \in Endpoints : RecvKey[e] # SendKey[e]

InSession(i) == blobs[i].version = VERSION /\ blobs[i].seq # UNSEQUENCED

(* No blob is let through twice by an endpoint that was never restarted from   *)
(* an outdated window, whatever the transport repeats, reorders or reflects,   *)
(* whichever receiving call is used, and also when its decode failed.          *)
AtMostOnce == \A e \in Endpoints : ~inBack[e] => repeated[e] = {}

(* A sender never restarted from an outdated counter puts each number on at    *)
(* most one blob, also when the engine refused in between.                     *)
NumbersUnique ==
  SeparateKeys =>
    \A i, j \in Ids : /\ InSession(i) /\ InSession(j)
                      /\ blobs[i].key = blobs[j].key /\ blobs[i].seq = blobs[j].seq
                      /\ ~outBack[blobs[i].from]
                      => i = j

(* Nothing is used twice: no number by a sender, no blob by a receiver, until  *)
(* that end is restarted from an outdated state.                               *)
NothingTwice == AtMostOnce /\ NumbersUnique

(* Losses, refused encryptions, failed decodes, saves and faithful restarts    *)
(* never cost a fresh message: a blob not let through before, whose number is  *)
(* within the window's width of the newest, is always let through.             *)
FreshIsAccepted ==
  SeparateKeys =>
    \A e \in Endpoints, i \in Ids :
      /\ InSession(i) /\ blobs[i].key = RecvKey[e]
      /\ ~inBack[e] /\ ~outBack[blobs[i].from]
      /\ i \notin passed[e]
      /\ blobs[i].seq + Width > sess[e].win.top
      => VerifyOutcome(e, blobs[i]) = "ok"

(* The number is recorded before the content is decoded: a blob whose decode   *)
(* raised stays refused, so a retry with the right method never opens it.      *)
RetryNeverOpens ==
  [][\A e \in Endpoints : ~inBack[e] /\ ~inBack'[e] =>
       (passed[e] \ opened[e]) \cap opened'[e] = {}]_vars

=================================================================================
