---------------------------------- MODULE App -----------------------------------
(* app.py and webui.py over one engine and its sessions.  Every window of the  *)
(* desktop program keeps a key field, the engine and session made from it and  *)
(* the session switch; the web page keeps nothing.  Ciphertexts travel between *)
(* windows by copy and paste, any of them any number of times.                 *)
EXTENDS Window, Sequences

CONSTANTS Windows,          \* running copies of app.py
          Keys,             \* what os.urandom(32) may give
          Width,            \* DEFAULT_WIDTH
          MaxBlobs,         \* bound: ciphertexts made in a behaviour
          MaxChanges        \* bound: changes of the fields and switches

ASSUME WidthAssumption == Width \in Nat \ {0}
ASSUME BoundAssumption == MaxBlobs \in Nat /\ MaxChanges \in Nat

NoKey  == "no key"          \* the bytes of a field that holds no key: not hex, or
                            \*   fewer than 16 of them, which makes no difference
Fields == Keys \cup {NoKey}

ASSUME KeysAssumption == NoKey \notin Keys

VARIABLES field,            \* the text in the key field
          raw,              \* _key_raw
          engine,           \* the key of self.engine, or NoKey
          session,          \* self.session: its engine's key, counter and window
          on,               \* session_open
          shown,            \* out_decrypted: the blob whose text it shows, 0 if blank,
                            \*   and the field when the text was written
          answer,           \* the same for the web server's last answer
          blobs,            \* every ciphertext made
          drawn,            \* the keys generated so far
          issued, taken,    \* history: blobs made and let through by this session
          again,            \* history: a session showed a blob it had taken before
          changes           \* how often a user changed a field or a switch

vars == <<field, raw, engine, session, on, shown, answer, blobs, drawn,
          issued, taken, again, changes>>

Ids == 1..Len(blobs)
SessionOf(k) == [key |-> k, out |-> 0, win |-> NewWindow(Width)]
NoSession == SessionOf(NoKey)
Blank == [id |-> 0, key |-> NoKey]

---------------------------------------------------------------------------------
(* check_key.                                                                  *)

Valid(b) == b \in Keys

(* The field holds other bytes than the engine and the session were made from. *)
Differs(w) == field[w] # raw[w]

(* Mistakes, for the runs: the session is rebuilt at every check; it survives  *)
(* the new key.                                                                *)
SessionAlwaysNew(w) == SessionOf(field[w])
SessionKept(w) == IF session[w] = NoSession THEN SessionOf(field[w]) ELSE session[w]

(* What check_key leaves: both are made anew only when the bytes differ, and   *)
(* without a valid key both are None.                                          *)
CheckedEngine(w)  == IF Differs(w) THEN field[w] ELSE engine[w]
CheckedSession(w) == IF Differs(w) THEN SessionOf(field[w]) ELSE session[w]

(* The histories belong to a session of the user: they start again when the    *)
(* field's bytes changed between two checks, and when he switches.             *)
Kept(h, w) == IF Differs(w) THEN [h EXCEPT ![w] = {}] ELSE h

(* check_key and nothing else that changes state.                              *)
CheckKey(w) == /\ raw' = [raw EXCEPT ![w] = field[w]]
               /\ engine' = [engine EXCEPT ![w] = CheckedEngine(w)]
               /\ session' = [session EXCEPT ![w] = CheckedSession(w)]
               /\ issued' = Kept(issued, w) /\ taken' = Kept(taken, w)

elsewhere == <<field, on, answer, drawn, changes>>

MayChange == changes < MaxChanges /\ changes' = changes + 1

Init == /\ field \in [Windows -> Keys]
        /\ \A v, w \in Windows : field[v] = field[w] => v = w
        /\ raw = field /\ engine = field
        /\ session = [w \in Windows |-> SessionOf(field[w])]
        /\ on = [w \in Windows |-> TRUE]
        /\ shown = [w \in Windows |-> Blank]
        /\ answer = Blank /\ blobs = <<>>
        /\ drawn = {field[w] : w \in Windows}
        /\ issued = [w \in Windows |-> {}] /\ taken = issued
        /\ again = [w \in Windows |-> FALSE]
        /\ changes = 0

---------------------------------------------------------------------------------
(* The key field and the switch.                                               *)

(* generate_key: the key is new, so engine and session are too.                *)
GenerateKey(w) ==
  /\ MayChange
  /\ \E k \in Keys \ drawn :
       /\ field' = [field EXCEPT ![w] = k] /\ raw' = [raw EXCEPT ![w] = k]
       /\ engine' = [engine EXCEPT ![w] = k]
       /\ session' = [session EXCEPT ![w] = SessionOf(k)]
       /\ drawn' = drawn \cup {k}
  /\ issued' = [issued EXCEPT ![w] = {}] /\ taken' = [taken EXCEPT ![w] = {}]
  /\ UNCHANGED <<on, shown, answer, blobs, again>>

(* The user changes the field: keys that somebody generated, or rubbish.  No   *)
(* check runs when it is the mouse that pastes.                                *)
EditKey(w, f) == /\ MayChange
                 /\ f \in (drawn \cup {NoKey}) \ {field[w]}
                 /\ field' = [field EXCEPT ![w] = f]
                 /\ UNCHANGED <<raw, engine, session, on, shown, answer, blobs,
                                drawn, issued, taken, again>>

(* KeyRelease, at once or after other keys; encrypt without a valid key or a   *)
(* text; decrypt without a valid key or with nothing or no hex in the field:   *)
(* what was shown stays shown.                                                 *)
KeyRelease(w) == CheckKey(w) /\ UNCHANGED <<elsewhere, shown, blobs, again>>

(* session_changed: a new session of the same engine, in both directions.      *)
SessionChanged(w) ==
  /\ MayChange
  /\ on' = [on EXCEPT ![w] = ~on[w]]
  /\ session' = [session EXCEPT ![w] = IF engine[w] # NoKey THEN SessionOf(engine[w])
                                                            ELSE @]
  /\ issued' = [issued EXCEPT ![w] = {}] /\ taken' = [taken EXCEPT ![w] = {}]
  /\ UNCHANGED <<field, raw, engine, shown, answer, blobs, drawn, again>>

---------------------------------------------------------------------------------
(* encrypt: a text that fits, or is too long.                                  *)

CanMake == Len(blobs) < MaxBlobs
(* Mistake, for the runs: the sender's window takes its own number.            *)
SpentAndMarked(w) == LET s == CheckedSession(w) IN
  [s EXCEPT !.out = s.out + 1, !.win = Marked(s.win, s.out + 1)]

(* Session._next: the number is issued before the engine runs.                 *)
Spent(w) == [CheckedSession(w) EXCEPT !.out = @ + 1]

(* CryptoError: no number is left, or the engine refuses the text after the    *)
(* session has issued one.                                                     *)
EncryptRefused(w, plain) ==
  /\ Valid(field[w])
  /\ \/ on[w] /\ CheckedSession(w).out >= MaxSeq
     \/ plain = "long"
  /\ raw' = [raw EXCEPT ![w] = field[w]]
  /\ engine' = [engine EXCEPT ![w] = CheckedEngine(w)]
  /\ session' = [session EXCEPT ![w] =
       IF on[w] /\ CheckedSession(w).out < MaxSeq THEN Spent(w) ELSE CheckedSession(w)]
  /\ issued' = Kept(issued, w) /\ taken' = Kept(taken, w)
  /\ UNCHANGED <<elsewhere, shown, blobs, again>>

(* Mistake, for the runs: the button trusts the last check.                    *)
EncryptUnchecked(w, kind) ==
  /\ Valid(engine[w]) /\ CanMake
  /\ on[w] => session[w].out < MaxSeq
  /\ session' = [session EXCEPT ![w].out = IF on[w] THEN @ + 1 ELSE @]
  /\ blobs' = Append(blobs, [key |-> engine[w], kind |-> kind, asked |-> field[w],
                             seq |-> IF on[w] THEN session[w].out + 1 ELSE UNSEQUENCED])
  /\ issued' = IF on[w] THEN [issued EXCEPT ![w] = @ \cup {Len(blobs) + 1}] ELSE issued
  /\ UNCHANGED <<elsewhere, raw, engine, shown, taken, again>>

(* Through the session when the switch is on, else through the engine; as a    *)
(* chain with decoys or as a single record.                                    *)
Encrypt(w, kind) ==
  /\ Valid(field[w]) /\ CanMake
  /\ on[w] => CheckedSession(w).out < MaxSeq
  /\ raw' = [raw EXCEPT ![w] = field[w]]
  /\ engine' = [engine EXCEPT ![w] = CheckedEngine(w)]
  /\ session' = [session EXCEPT ![w] = IF on[w] THEN Spent(w) ELSE CheckedSession(w)]
  /\ blobs' = Append(blobs,
       [key   |-> IF on[w] THEN CheckedSession(w).key ELSE CheckedEngine(w),
        seq   |-> IF on[w] THEN Spent(w).out ELSE UNSEQUENCED,
        kind  |-> kind,
        asked |-> field[w]])
  /\ issued' = IF on[w] THEN [Kept(issued, w) EXCEPT ![w] = @ \cup {Len(blobs) + 1}]
                        ELSE Kept(issued, w)
  /\ taken' = Kept(taken, w)
  /\ UNCHANGED <<elsewhere, shown, again>>

(* Another program with one of the keys sends a formula inside a session of    *)
(* its own.                                                                    *)
EncryptElsewhere(k) ==
  /\ k \in drawn /\ CanMake
  /\ blobs' = Append(blobs, [key |-> k, seq |-> 1, kind |-> "formula", asked |-> k])
  /\ UNCHANGED <<elsewhere, raw, engine, session, shown, issued, taken, again>>

---------------------------------------------------------------------------------
(* decrypt: anything may be in the field, by transfer, copy and paste, or      *)
(* typed in.                                                                   *)

(* What Session.verify answers, when the switch is on.                         *)
VerifyOutcome(w, b) ==
  CASE ~on[w]                                      -> "off"
    [] on[w] /\ b.key # CheckedSession(w).key      -> "VerificationError"
    [] on[w] /\ b.key = CheckedSession(w).key      -> Verdict(CheckedSession(w).win, b.seq)

(* decrypt_hidden, then decrypt_text: a formula opens with neither.            *)
Opens(w, b) == b.key = CheckedEngine(w) /\ b.kind \in {"hidden", "text"}

(* verify raised: the text is cleared, no number is recorded.                  *)
DecryptRejected(w, i) ==
  /\ Valid(field[w])
  /\ VerifyOutcome(w, blobs[i]) \notin {"off", "ok"}
  /\ CheckKey(w)
  /\ shown' = [shown EXCEPT ![w] = Blank]
  /\ UNCHANGED <<elsewhere, blobs, again>>

(* verify passed, or was not asked: the number is recorded whether or not the  *)
(* blob opens.                                                                 *)
Decrypt(w, i) ==
  /\ Valid(field[w])
  /\ VerifyOutcome(w, blobs[i]) \in {"off", "ok"}
  /\ raw' = [raw EXCEPT ![w] = field[w]]
  /\ engine' = [engine EXCEPT ![w] = CheckedEngine(w)]
  /\ session' = [session EXCEPT ![w] =
       IF on[w] THEN [CheckedSession(w) EXCEPT !.win = Marked(@, blobs[i].seq)]
                ELSE CheckedSession(w)]
  /\ shown' = [shown EXCEPT ![w] =
       IF Opens(w, blobs[i]) THEN [id |-> i, key |-> field[w]] ELSE Blank]
  /\ issued' = Kept(issued, w)
  /\ taken' = IF on[w] THEN [Kept(taken, w) EXCEPT ![w] = @ \cup {i}] ELSE Kept(taken, w)
  /\ again' = [again EXCEPT ![w] = @ \/ (on[w] /\ i \in Kept(taken, w)[w])]
  /\ UNCHANGED <<elsewhere, blobs>>

---------------------------------------------------------------------------------
(* webui.py: every request brings its key and gets an engine of its own, never *)
(* a session.                                                                  *)

web == <<field, on, drawn, changes, raw, engine, session, shown, issued, taken, again>>

(* _guard and host_allowed: a Host header that is this machine's name, with    *)
(* this server's port or none.                                                 *)
HostAllowed(host) == host.name \in {"localhost", "127.0.0.1", "[::1]"}
                     /\ host.port \in {"none", "ours"}
Hosts == [name : {"localhost", "elsewhere"}, port : {"ours", "other"}]

(* /api/decrypt opens single records; /api/encrypt makes them, without number. *)
WebDecrypt(host, f, i) ==
  /\ HostAllowed(host) /\ Valid(f)
  /\ blobs[i].key = f /\ blobs[i].kind = "text"
  /\ answer' = [id |-> i, key |-> f]
  /\ UNCHANGED <<web, blobs>>
WebEncrypt(host, f) ==
  /\ HostAllowed(host) /\ Valid(f) /\ CanMake
  /\ answer' = [id |-> Len(blobs) + 1, key |-> f]
  /\ blobs' = Append(blobs, [key |-> f, seq |-> UNSEQUENCED, kind |-> "text", asked |-> f])
  /\ UNCHANGED web

(* Every other request: forbidden, a bad key, an unknown endpoint, a text that *)
(* is empty or too long, a ciphertext that does not open.                      *)
WebError == answer' = Blank /\ UNCHANGED <<web, blobs>>

Next ==
  \/ \E w \in Windows :
       \/ GenerateKey(w) \/ KeyRelease(w) \/ SessionChanged(w)
       \/ \E f \in Fields : EditKey(w, f)
       \/ EncryptRefused(w, "fits") \/ EncryptRefused(w, "long")
       \/ \E kind \in {"hidden", "text"} : Encrypt(w, kind)
       \/ \E i \in Ids : DecryptRejected(w, i) \/ Decrypt(w, i)
  \/ \E k \in Keys : EncryptElsewhere(k)
  \/ \E h \in Hosts, f \in drawn : WebEncrypt(h, f) \/ \E i \in Ids : WebDecrypt(h, f, i)
  \/ WebError

Spec == Init /\ [][Next]_vars

---------------------------------------------------------------------------------
Sessions == [key : Keys, out : 0..MaxSeq,
             win : [width : {Width}, top : 0..MaxSeq, mask : SUBSET Positions(Width)]]
Blobs == [key : Keys, seq : 0..MaxSeq, kind : {"hidden", "text", "formula"}, asked : Fields]

(* Type invariant: a window has an engine and a session exactly when the last  *)
(* key it checked was a valid one, and both are made from that key.            *)
TypeOK == /\ field \in [Windows -> Fields]
          /\ raw \in [Windows -> Fields]
          /\ session \in [Windows -> Sessions \cup {NoSession}]
          /\ \A w \in Windows :
               /\ engine[w] = IF Valid(raw[w]) THEN raw[w] ELSE NoKey
               /\ session[w].key = engine[w]
               /\ session[w].key = NoKey => session[w] = NoSession
          /\ on \in [Windows -> BOOLEAN]
          /\ shown \in [Windows -> [id : 0..Len(blobs), key : Keys \cup {NoKey}]]
          /\ answer.id \in 0..Len(blobs)
          /\ blobs \in Seq(Blobs)
          /\ drawn \subseteq Keys
          /\ issued \in [Windows -> SUBSET Ids] /\ taken \in [Windows -> SUBSET Ids]
          /\ again \in [Windows -> BOOLEAN]
          /\ changes \in 0..MaxChanges

(* Whatever way the key came into the field, what the button makes is under    *)
(* the key in the field at that moment, and a text that is shown, by a window  *)
(* or by the web server, was encrypted under the key it was asked with.        *)
KeyInForce == /\ \A i \in Ids : blobs[i].key = blobs[i].asked
              /\ \A w \in Windows :
                   shown[w].id # 0 => blobs[shown[w].id].key = shown[w].key
              /\ answer.id # 0 => blobs[answer.id].key = answer.key

(* With the switch on, no ciphertext is shown a second time unless its user    *)
(* switched or changed the key between: checking the key again, failed decodes *)
(* and whatever else is pressed never opens the door again.                    *)
OncePerSession == \A w \in Windows : ~again[w]

(* A message of the other window's present session is let through if all that  *)
(* this window took in its own present session came from there, its own        *)
(* messages never standing in the way.                                         *)
FreshArrives ==
  \A v, w \in Windows : v # w /\ on[w] /\ ~Differs(w) =>
    \A i \in issued[v] \ taken[w] :
      /\ blobs[i].key = engine[w]
      /\ taken[w] \subseteq issued[v]
      /\ blobs[i].seq + Width > session[w].win.top
      => VerifyOutcome(w, blobs[i]) = "ok"

=================================================================================
