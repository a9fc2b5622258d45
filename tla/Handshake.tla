------------------------------- MODULE Handshake --------------------------------
(* The handshakes of crypto/handshake.py between devices that know each        *)
(* other's static public keys and share a symmetric engine.  Cryptography is   *)
(* symbolic: a Diffie-Hellman result is the set of the two keys it was made    *)
(* of, HKDF is injective.  The transport repeats, delays, loses and reflects   *)
(* packets, and neither complete() nor unpack() looks at the role or the       *)
(* identity trace a packet carries.                                            *)
EXTENDS Integers, Sequences

CONSTANTS Devices,
          Objects           \* Handshake objects; each has its own ephemeral key

VARIABLES hs,               \* per object: its fields and, when done, its keys
          eph,              \* per object: the buffer of its ephemeral private key
          identity,         \* per device: whether its Identity is open
          wire              \* the handshake packets ever packed

handshakeVars == <<hs, eph, identity, wire>>

(* A key pair is named by its owner.  BadPoint is a point of small order.      *)
Ephemeral(h) == <<"ephemeral", h>>
Static(d)    == <<"static", d>>
BadPoint     == <<"small order", "nobody">>
Trace(public) == public[2]  \* identity_trace: collisions are left out
Ephemerals   == {Ephemeral(h) : h \in Objects}
Statics      == {Static(d) : d \in Devices}

ZERO_RESULT == {}
DH(own, other) == IF other = BadPoint THEN ZERO_RESULT ELSE {own, other}

None   == [life |-> "none"]
Live   == {h \in Objects : hs[h].life = "open"}
Done   == {h \in Objects : hs[h].life = "done"}

HandshakeInit == /\ hs = [h \in Objects |-> None]
                 /\ eph = [h \in Objects |-> "none"]
                 /\ identity = [d \in Devices |-> TRUE]
                 /\ wire = {}

---------------------------------------------------------------------------------
(* Mistake, for the runs: the ephemerals' result is left out.                  *)
MaterialNoEphemerals(h, heard) ==
  LET e == Ephemeral(h)  s == Static(hs[h].dev)  S == Static(hs[h].peer)
  IN  IF hs[h].initiator THEN <<DH(e, S), DH(e, S), DH(s, heard), DH(s, S)>>
                         ELSE <<DH(s, heard), DH(s, heard), DH(e, S), DH(s, S)>>

(* The four results in the order of the roles: ee, es, se, ss.                 *)
Material(h, heard) ==
  LET e == Ephemeral(h)  s == Static(hs[h].dev)  S == Static(hs[h].peer)
  IN  IF hs[h].initiator THEN <<DH(e, heard), DH(e, S), DH(s, heard), DH(s, S)>>
                         ELSE <<DH(e, heard), DH(s, heard), DH(e, S), DH(s, S)>>

(* The four public keys, initiator's before responder's.                       *)
Transcript(h, heard) ==
  LET E == Ephemeral(h)  S == Static(hs[h].dev)  P == Static(hs[h].peer)
  IN  IF hs[h].initiator THEN <<E, heard, S, P>> ELSE <<heard, E, P, S>>

(* Mistakes, for the runs: only the ephemerals count; the roles share a key.   *)
DerivedAnonymous(material, transcript, initiator) ==
  LET prk == <<material[1], transcript[1], transcript[2]>>
  IN  [sending   |-> <<prk, IF initiator THEN "forward" ELSE "backward">>,
       receiving |-> <<prk, IF initiator THEN "backward" ELSE "forward">>,
       code      |-> prk]
DerivedOneWay(material, transcript, initiator) ==
  [sending   |-> <<<<material, transcript>>, "forward">>,
   receiving |-> <<<<material, transcript>>, "backward">>,
   code      |-> <<material, transcript>>]

(* _derive: the transcript is the salt, the material the input, and each       *)
(* direction a key of its own.  The confirmation code stands for all of it.    *)
Derived(material, transcript, initiator) ==
  LET prk == <<material, transcript>>
  IN  [sending   |-> <<prk, IF initiator THEN "forward" ELSE "backward">>,
       receiving |-> <<prk, IF initiator THEN "backward" ELSE "forward">>,
       code      |-> prk]

(* Handshake(identity, peer_public, initiator=...): a fresh ephemeral, held in *)
(* a secure buffer.                                                            *)
Start(h, d, p, initiator) ==
  /\ hs[h] = None /\ identity[d] /\ d # p
  /\ hs' = [hs EXCEPT ![h] = [life |-> "open", dev |-> d, peer |-> p,
                              initiator |-> initiator]]
  /\ eph' = [eph EXCEPT ![h] = "open"]
  /\ UNCHANGED <<identity, wire>>

(* pack: the packet names the role, the ephemeral and the sender's identity,   *)
(* which Identity.public computes from its open buffer.                        *)
Pack(h) ==
  /\ hs[h] # None /\ identity[hs[h].dev]
  /\ wire' = wire \cup {[rol |-> hs[h].initiator, efemer |-> Ephemeral(h),
                         kimlik_izi |-> Trace(Static(hs[h].dev))]}
  /\ UNCHANGED <<hs, eph, identity>>

(* The ephemerals complete() is called with: unpacked from any packet, old or  *)
(* new, its own included, and what a broken peer computes.                     *)
Heard == {p.efemer : p \in wire} \cup {BadPoint}

(* Mistake, for the runs: the ephemeral outlives complete().                   *)
CompleteKeeping(h, heard) ==
  /\ h \in Live /\ identity[hs[h].dev]
  /\ ZERO_RESULT \notin {Material(h, heard)[i] : i \in 1..4}
  /\ hs' = [hs EXCEPT ![h] =
              [life |-> "done", dev |-> @.dev, peer |-> @.peer,
               initiator |-> @.initiator, heard |-> heard,
               keys |-> Derived(Material(h, heard), Transcript(h, heard), @.initiator)]]
  /\ UNCHANGED <<eph, identity, wire>>

(* complete() that returns the keys: the ephemeral is wiped and released.      *)
Complete(h, heard) ==
  /\ h \in Live /\ identity[hs[h].dev]
  /\ ZERO_RESULT \notin {Material(h, heard)[i] : i \in 1..4}
  /\ hs' = [hs EXCEPT ![h] =
              [life |-> "done", dev |-> @.dev, peer |-> @.peer,
               initiator |-> @.initiator, heard |-> heard,
               keys |-> Derived(Material(h, heard), Transcript(h, heard), @.initiator)]]
  /\ eph' = [eph EXCEPT ![h] = "closed"]
  /\ UNCHANGED <<identity, wire>>

(* complete() that raises: already complete, the identity is closed, or a      *)
(* result is zero.  Nothing changed: the ephemeral stays, the call may be      *)
(* repeated with another packet.                                               *)
CompleteRefused(h, heard) ==
  /\ hs[h] # None
  /\ \/ h \in Done
     \/ ~identity[hs[h].dev]
     \/ ZERO_RESULT \in {Material(h, heard)[i] : i \in 1..4}
  /\ UNCHANGED handshakeVars

(* Identity.close().                                                           *)
CloseIdentity(d) ==
  /\ identity[d]
  /\ identity' = [identity EXCEPT ![d] = FALSE]
  /\ UNCHANGED <<hs, eph, wire>>

HandshakeNext == \/ \E h \in Objects :
                      \/ \E d, p \in Devices, initiator \in BOOLEAN : Start(h, d, p, initiator)
                      \/ Pack(h)
                      \/ \E heard \in Heard : Complete(h, heard) \/ CompleteRefused(h, heard)
                 \/ \E d \in Devices : CloseIdentity(d)

HandshakeSpec == HandshakeInit /\ [][HandshakeNext]_handshakeVars

---------------------------------------------------------------------------------
Fields == [life : {"open"}, dev : Devices, peer : Devices, initiator : BOOLEAN]

(* Type invariant: an object's fields; its ephemeral buffer is there exactly   *)
(* while the object has not completed.                                         *)
HandshakeTypeOK == /\ \A h \in Objects :
                        \/ hs[h] = None /\ eph[h] = "none"
                        \/ hs[h] \in Fields /\ eph[h] = "open"
                        \/ /\ hs[h].life = "done" /\ eph[h] = "closed"
                           /\ hs[h].dev \in Devices /\ hs[h].peer \in Devices
                           /\ hs[h].initiator \in BOOLEAN /\ hs[h].heard \in Ephemerals
                   /\ identity \in [Devices -> BOOLEAN]
                   /\ wire \subseteq [rol : BOOLEAN, efemer : Ephemerals, kimlik_izi : Devices]

(* Two objects of two devices that mean each other, in opposite roles, and     *)
(* heard each other's ephemerals.                                              *)
Partners(h, g) ==
  /\ hs[h].peer = hs[g].dev /\ hs[g].peer = hs[h].dev
  /\ hs[h].initiator # hs[g].initiator
  /\ hs[h].heard = Ephemeral(g) /\ hs[g].heard = Ephemeral(h)

(* A handshake gives a shared key to exactly the two partners: they end up     *)
(* with each other's keys, and nobody else holds one of them, not a device     *)
(* that answered for another, a second initiator, an object that completed     *)
(* with a packet of an older handshake or with its own packet come back.       *)
NoStrangers ==
  \A h, g \in Done :
    hs[h].keys.sending = hs[g].keys.receiving <=> Partners(h, g)

(* A key is used for sending by one object only, and never for receiving by    *)
(* the same: what SecureChannel's two sessions rely on for their numbers.      *)
DirectionsSeparate ==
  \A h, g \in Done :
    /\ hs[h].keys.sending = hs[g].keys.sending => h = g
    /\ hs[h].keys.sending # hs[h].keys.receiving

(* Two ends that read the same code to each other have a channel both ways;    *)
(* two that crossed roles, peers or packets read different codes.              *)
CodeTellsTheTruth ==
  \A h, g \in Done : h # g =>
    (hs[h].keys.code = hs[g].keys.code
       <=> /\ hs[h].keys.sending = hs[g].keys.receiving
           /\ hs[g].keys.sending = hs[h].keys.receiving)

(* What a completed handshake may be taken for: a channel with the one partner *)
(* it was held with, a key for each direction, and a code that tells partners  *)
(* from everybody else.                                                        *)
OnlyPartnersShare == NoStrangers /\ DirectionsSeparate /\ CodeTellsTheTruth

(* The private keys that exist: identities, also closed ones, which are stored *)
(* elsewhere, and the ephemerals still in their buffers.                       *)
Remaining == Statics \cup {Ephemeral(h) : h \in {g \in Objects : eph[g] = "open"}}

(* Whether somebody holding these private keys can repeat an object's          *)
(* derivation: each of the four results needs one private key of its two.      *)
Repeatable(h, private) == \A i \in 1..4 : Material(h, hs[h].heard)[i] \cap private # {}

(* Forward secrecy: once an object completed and the ephemeral it heard is     *)
(* gone as well, its keys cannot be derived again from all that remains.       *)
ForwardSecrecy ==
  \A h \in Done : Repeatable(h, Remaining) =>
    \E g \in Live : hs[h].heard = Ephemeral(g)

=================================================================================
