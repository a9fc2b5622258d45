-------------------------------- MODULE Network ---------------------------------
(* The networks of crypto/network.py in one process, and the descriptors that  *)
(* leave it and come back.  A root secret is symbolic: a random draw and the   *)
(* HKDF steps taken from it, so that one root leads to another exactly when    *)
(* its path is a prefix of the other's.                                        *)
EXTENDS Integers, SequencesExt

CONSTANTS Objects,          \* Network objects
          Sizes,            \* lengths of root secrets: "short", "exact", "long"
          Labels,           \* of children; none ends in a NUL byte
          Members,          \* identities members are known by
          Days,             \* bound: what clocks show, from CALENDAR_START on
          DaysPerEpoch,
          MaxDraws,         \* bound: draws from the system's generator
          MaxDepth          \* bound: derivations from one draw

(* "short" is 16 to 31 bytes, "exact" 32, "long" more.                         *)
ASSUME SizesAssumption == Sizes \subseteq {"short", "exact", "long"} /\ Sizes # {}
ASSUME CalendarAssumption == Days \subseteq Int /\ DaysPerEpoch \in Nat \ {0}
ASSUME BoundsAssumption == MaxDraws \in Nat /\ MaxDepth \in Nat

Modes == {"OPEN", "RESTRICTED", "COVERT"}
Passwords == {"none", "wrong", "right"}

VARIABLES authorised,       \* _authorised
          nets,             \* per object: root, mode, and whether it is open
          draws,            \* history: how many random roots were drawn
          children,         \* history: what child_network returned, to whom
          exported,         \* history: the descriptors export() returned
          password          \* history: the password the last call was given

vars == <<authorised, nets, draws, children, exported, password>>

None == [mode |-> "none"]
Exists(n) == nets[n] # None
IsOpen(n) == Exists(n) /\ nets[n].open
Covert(n) == Exists(n) /\ nets[n].mode = "COVERT"

Init == /\ authorised = FALSE
        /\ nets = [n \in Objects |-> None]
        /\ draws = 0
        /\ children = {} /\ exported = {}
        /\ password = "none"

---------------------------------------------------------------------------------
(* Roots.                                                                      *)

Drawn(no, size) == [draw |-> no, size |-> size, path |-> <<>>]

(* _derive and the two lines of child_network that do the same.                *)
Derived(root, info, label) ==
  [root EXCEPT !.path = Append(@, <<info, label>>), !.size = "exact"]

Shallow(root) == Len(root.path) < MaxDepth

(* What 32 bytes of a descriptor carry: a short root is filled up with zeros   *)
(* and a long one is cut, which makes another secret of it.                    *)
Carried(root) ==
  IF root.size = "exact" THEN root ELSE Derived(root, "descriptor", 0)

(* Whoever holds the first secret can compute the second.                      *)
Reaches(from, to) == from.draw = to.draw /\ IsPrefix(from.path, to.path)

(* What a network hands out: the pre-key and the corpus seed are one for all   *)
(* its members, the key is the member's own.                                   *)
PrekeyOf(root)        == Derived(root, "prekey", 0)
CorpusSeed(root)      == Derived(root, "corpus", 0)
MemberKey(root, name) == Derived(root, "member", name)
Given(root, name) == {PrekeyOf(root), CorpusSeed(root), MemberKey(root, name)}

---------------------------------------------------------------------------------
(* Authorisation: the process's flag, and the constructor's gate.              *)

(* authorise: a wrong or an absent password changes nothing.                   *)
Authorise(pw) ==
  /\ authorised' = (authorised \/ pw = "right")
  /\ password' = pw
  /\ UNCHANGED <<nets, draws, children, exported>>

Deauthorise ==
  /\ authorised' = FALSE
  /\ password' = "none"
  /\ UNCHANGED <<nets, draws, children, exported>>

(* Mistake, for the runs: only a wrong password is refused.                    *)
GateUnasked(mode, pw) == mode = "COVERT" => pw # "wrong"

Gate(mode, pw) ==
  mode = "COVERT" => pw = "right" \/ (pw = "none" /\ authorised)

Born(n, root, mode) ==
  nets' = [nets EXCEPT ![n] = [root |-> root, mode |-> mode, open |-> TRUE]]

(* Network.create, and Network() on bytes of the caller's.                     *)
Create(n, mode, size, pw) ==
  /\ ~Exists(n) /\ Gate(mode, pw)
  /\ draws < MaxDraws /\ draws' = draws + 1
  /\ Born(n, Drawn(draws, size), mode)
  /\ password' = pw
  /\ UNCHANGED <<authorised, children, exported>>

(* from_descriptor: the mode is the descriptor's, and the gate is asked again. *)
FromDescriptor(n, d, pw) ==
  /\ ~Exists(n) /\ Gate(d.mode, pw)
  /\ Born(n, d.root, d.mode)
  /\ password' = pw
  /\ UNCHANGED <<authorised, draws, children, exported>>

---------------------------------------------------------------------------------
(* What an open network derives.                                               *)

(* epoch_number: whole slices since CALENDAR_START; there is none before.      *)
EpochNumber(day, days) == day \div days
OnCalendar(day) == day >= 0

(* epoch, of the number the holder's clock gives: the mode is kept and nobody  *)
(* is asked for a password.                                                    *)
Epoch(n, m, no) ==
  /\ ~Exists(n) /\ IsOpen(m) /\ Shallow(nets[m].root)
  /\ Born(n, Derived(nets[m].root, "epoch", no), nets[m].mode)
  /\ password' = "none"
  /\ UNCHANGED <<authorised, draws, children, exported>>

(* Mistakes, for the runs: a child's root comes from the parent's in any mode; *)
(* it is random in any mode.                                                   *)
ChildRootEscrowed(m, label) == Derived(nets[m].root, "child", label)
ChildRootRandom(m, label)   == Derived(Drawn(draws, "exact"), "child", label)

(* Both modes draw, and both derive: from the parent's root or from the draw.  *)
ChildRoot(m, label) ==
  Derived(IF Covert(m) THEN nets[m].root ELSE Drawn(draws, "exact"), "child", label)

(* Mistake, for the runs: the child is made in its parent's mode.              *)
ChildModeKept(m) == nets[m].mode

(* A child is open whatever its parent is.                                     *)
ChildMode(m) == "OPEN"

(* Mistake, for the runs: any open network may have children.                  *)
MayHaveAny(m) == IsOpen(m)

(* A restricted network has no children.                                       *)
MayHaveChildren(m) == IsOpen(m) /\ nets[m].mode # "RESTRICTED"

(* child_network.                                                              *)
Child(n, m, label) ==
  /\ ~Exists(n) /\ MayHaveChildren(m)
  /\ Shallow(nets[m].root)
  /\ draws < MaxDraws /\ draws' = draws + 1
  /\ Born(n, ChildRoot(m, label), ChildMode(m))
  /\ children' = children \cup {[parent |-> nets[m].root, mode |-> nets[m].mode,
                                 label |-> label, root |-> ChildRoot(m, label)]}
  /\ password' = "none"
  /\ UNCHANGED <<authorised, exported>>

Observed(root, label) == Derived(root, "child", label)

(* observe, and each step of scan: covert networks only.                       *)
Observe(n, m, label) ==
  /\ ~Exists(n) /\ IsOpen(m) /\ Covert(m) /\ Shallow(nets[m].root)
  /\ Born(n, Observed(nets[m].root, label), "OPEN")
  /\ password' = "none"
  /\ UNCHANGED <<authorised, draws, children, exported>>

(* Mistake, for the runs: export does not ask who the descriptor is for.       *)
MayExportAny(m, owner) == IsOpen(m)

(* A covert network's descriptor is for its owner only.                        *)
MayExport(m, owner) == IsOpen(m) /\ (Covert(m) => owner)

(* export: the descriptor holds the mode and the root.                         *)
Export(m, owner) ==
  /\ MayExport(m, owner)
  /\ exported' = exported \cup {[from |-> nets[m].root, mode |-> nets[m].mode,
                                 root |-> Carried(nets[m].root), owner |-> owner]}
  /\ password' = "none"
  /\ UNCHANGED <<authorised, nets, draws, children>>

Close(m) ==
  /\ IsOpen(m)
  /\ nets' = [nets EXCEPT ![m].open = FALSE]
  /\ password' = "none"
  /\ UNCHANGED <<authorised, draws, children, exported>>

Next == \/ \E pw \in Passwords : Authorise(pw)
        \/ Deauthorise
        \/ \E n \in Objects :
             \/ \E mode \in Modes, size \in Sizes, pw \in Passwords : Create(n, mode, size, pw)
             \/ \E d \in exported, pw \in Passwords : FromDescriptor(n, d, pw)
             \/ \E m \in Objects, day \in {d \in Days : OnCalendar(d)} :
                  Epoch(n, m, EpochNumber(day, DaysPerEpoch))
             \/ \E m \in Objects, label \in Labels : Child(n, m, label) \/ Observe(n, m, label)
             \/ \E owner \in BOOLEAN : Export(n, owner)
             \/ Close(n)

Spec == Init /\ [][Next]_vars

(* same_as of two open networks, and what equal fingerprints tell.             *)
SameAs(n, m) == IsOpen(n) /\ IsOpen(m) /\ nets[n].root = nets[m].root

---------------------------------------------------------------------------------
IsRoot(r) == /\ r.draw \in 0..(MaxDraws - 1)
             /\ r.size \in Sizes \cup {"exact"}
             /\ r.path \in Seq({"epoch", "child", "descriptor"}
                                 \X (Labels \cup {0} \cup
                                     {EpochNumber(d, DaysPerEpoch) : d \in Days}))

(* Type invariant: objects, descriptors and children carry roots that were     *)
(* drawn, what a descriptor or a child carries is 32 bytes long, and the       *)
(* parent of a child is not restricted.                                        *)
TypeOK == /\ authorised \in BOOLEAN
          /\ draws \in 0..MaxDraws
          /\ password \in Passwords
          /\ \A n \in Objects : Exists(n) =>
               nets[n].mode \in Modes /\ nets[n].open \in BOOLEAN /\ IsRoot(nets[n].root)
          /\ \A x \in children \cup exported :
               x.mode \in Modes /\ IsRoot(x.root) /\ x.root.size = "exact"
          /\ \A c \in children : c.mode # "RESTRICTED"

(* In a process that is not authorised, no call without the right password     *)
(* gives a covert network that no covert network already there leads to:       *)
(* create, from_descriptor, child_network and epoch have no way round the gate.*)
NoCovertByTheBack ==
  [][~authorised /\ password' # "right" =>
       \A n \in Objects : nets'[n] # nets[n] /\ nets'[n].mode = "COVERT" =>
         \E m \in Objects : Covert(m) /\ Reaches(nets[m].root, nets'[n].root)]_vars

(* The child of an open network is its holder's alone: no network object, the  *)
(* parent included, has a root from which the child's follows.                 *)
OpenChildrenIndependent ==
  \A c \in children, n \in Objects :
    c.mode # "COVERT" /\ Exists(n) /\ Reaches(nets[n].root, c.root)
      => nets[n].root = c.root

(* A covert parent re-derives each of its children from the label, and so does *)
(* the network read back from the owner's backup of it, provided its root has  *)
(* the length descriptors are made for: of any other the backup is useless.    *)
CovertChildrenObservable ==
  \A c \in children : c.mode = "COVERT" =>
    /\ Observed(c.parent, c.label) = c.root
    /\ \A d \in exported : d.from = c.parent =>
         (Observed(d.root, c.label) = c.root <=> c.parent.size = "exact")

(* Only the first degree is visible: no root of a covert network leads to the  *)
(* child of one of its children, nor of an epoch of one.                       *)
FirstDegreeOnly ==
  \A c, d \in children :
    c.mode = "COVERT" /\ Reaches(c.root, d.parent) => ~Reaches(c.parent, d.root)

(* A descriptor given to a member leads to no covert network's root, so the    *)
(* member can derive neither the network nor its other children.               *)
MembersStayBlind ==
  \A d \in exported, n \in Objects :
    ~d.owner /\ Covert(n) => ~Reaches(d.root, nets[n].root)

(* Two networks talk exactly when they are the same: a member's key opens only *)
(* that member's messages in that network, also when a child, an epoch and a   *)
(* member have the same name, and what a member was given leads to no root.    *)
MembersApart ==
  \A n, m \in {o \in Objects : IsOpen(o)} :
    /\ PrekeyOf(nets[n].root) = PrekeyOf(nets[m].root) <=> SameAs(n, m)
    /\ \A a, b \in Members :
         /\ MemberKey(nets[n].root, a) = MemberKey(nets[m].root, b)
              <=> SameAs(n, m) /\ a = b
         /\ \A s \in Given(nets[n].root, a) :
              /\ ~Reaches(s, nets[m].root)
              /\ Reaches(s, MemberKey(nets[m].root, b)) => SameAs(n, m) /\ a = b

(* Who can derive what: nobody an open child's root, a covert network and its  *)
(* owner's backup those of its own children and no others, a member's          *)
(* descriptor no covert network's, and a member nobody else's key.             *)
WhoCanDerive == /\ OpenChildrenIndependent /\ MembersStayBlind
                /\ CovertChildrenObservable /\ FirstDegreeOnly
                /\ MembersApart

=================================================================================
