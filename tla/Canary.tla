--------------------------------- MODULE Canary ---------------------------------
(* crypto/canary.py: keyed codewords for the members of a group, rounds in     *)
(* which every member receives the variant its code says, the variants that    *)
(* leak, and what narrow() and the honesty tools make of them.                 *)
EXTENDS Integers, FiniteSets

CONSTANTS Names,            \* member names, numbered in their sorted order
          Counters,         \* tries per member, 0..255
          MAX_ROUNDS,
          Margin,           \* COLLISION_MARGIN
          StepsAsked,       \* what callers give build_safe for step,
          LimitsAsked,      \* and for limit
          ByteBits,         \* bits per byte of the derived code material
          Streams           \* what HKDF may give for each name and counter

MaxBits == ((MAX_ROUNDS + ByteBits - 1) \div ByteBits) * ByteBits

ASSUME NamesAssumption   == Names \subseteq Nat /\ IsFiniteSet(Names)
ASSUME CounterAssumption == Counters \subseteq Nat
ASSUME RoundsAssumption  == /\ MAX_ROUNDS \in Nat \ {0}
                            /\ Margin \in Int
                            /\ StepsAsked \subseteq Int /\ LimitsAsked \subseteq Int
                            /\ ByteBits \in Nat \ {0}
ASSUME StreamAssumption  ==
  Streams \subseteq [Names \X Counters -> [1..MaxBits -> {0, 1}]]

VARIABLES stream,           \* the key material of this seed
          phase,            \* of the object: none, building, ready or failed
          built,            \* it came out of build_safe
          step, limit,      \* of that call
          members, rounds, codes,
          traitors,         \* who leaks what he received
          seen              \* the observations: round -> variant

canaryVars == <<stream, phase, built, step, limit, members, rounds, codes,
                traitors, seen>>
call == <<built, step, limit>>

Rounds == 0..(rounds - 1)
Nothing == [t \in {} |-> 0]

CanaryInit == /\ stream \in Streams
              /\ phase = "none" /\ built = FALSE /\ step = 0 /\ limit = 0
              /\ members = {} /\ rounds = 0 /\ codes = Nothing
              /\ traitors = {} /\ seen = Nothing

---------------------------------------------------------------------------------
(* The codes.                                                                  *)

(* _make_bits: as many bytes as the rounds need, read as one big-endian number *)
(* whose lowest bit is round 0: more rounds put new bits below the old ones.   *)
MakeBits(m, k, r) ==
  LET size == ((r + ByteBits - 1) \div ByteBits) * ByteBits
  IN  [t \in 0..(r - 1) |-> stream[m, k][size - t]]

(* Mistake, for the runs: the first try is taken, collision or not.            *)
AssignedBlindly(ms, r, c) ==
  /\ DOMAIN c = ms
  /\ \A m \in ms : c[m] = MakeBits(m, 0, r)

(* _assign_codes, in sorted order: the first try nobody before m has taken.    *)
Assigned(ms, r, c) ==
  /\ DOMAIN c = ms
  /\ \A m \in ms : LET taken == {c[x] : x \in {y \in ms : y < m}} IN
       \E k \in Counters :
         /\ c[m] = MakeBits(m, k, r)
         /\ c[m] \notin taken
         /\ \A j \in Counters : j < k => MakeBits(m, j, r) \in taken

Codes(ms, r) == [ms -> {MakeBits(m, k, r) : m \in ms, k \in Counters}]

MinRounds(n) == CHOOSE r \in 1..n : /\ 2^r >= n
                                    /\ \A q \in 1..(r - 1) : 2^q < n
SuggestedRounds(n) == IF 2 * MinRounds(n) + Margin < MAX_ROUNDS
                        THEN 2 * MinRounds(n) + Margin ELSE MAX_ROUNDS

(* What the constructor asks of its arguments.                                 *)
Acceptable(ms, r) == /\ Cardinality(ms) >= 2
                     /\ r \in 1..MAX_ROUNDS
                     /\ 2^r >= Cardinality(ms)

(* The constructor: an object whose codes are all assigned, or CanaryError.    *)
Object(ms, r) == /\ Acceptable(ms, r)
                 /\ members' = ms /\ rounds' = r
                 /\ \E c \in Codes(ms, r) : Assigned(ms, r, c) /\ codes' = c
NoObject(ms, r) == ~ (Acceptable(ms, r) /\ \E c \in Codes(ms, r) : Assigned(ms, r, c))

---------------------------------------------------------------------------------
(* What can be asked of an object.                                             *)

(* narrow: the members whose code has every observed variant.                  *)
Suspects   == {m \in members : \A t \in DOMAIN seen : codes[m][t] = seen[t]}
Consistent == Suspects # {}
Identified == Cardinality(Suspects) = 1

(* Mistake, for the runs: the rounds where the pair differs are compared.      *)
ExposureInverted(a, b) ==
  {m \in members \ {a, b} :
     \A t \in Rounds : codes[a][t] # codes[b][t] => codes[m][t] = codes[a][t]}

(* collusion_exposure: who holds the value in every round the pair shares.     *)
Exposure(a, b) ==
  {m \in members \ {a, b} :
     \A t \in Rounds : codes[a][t] = codes[b][t] => codes[m][t] = codes[a][t]}

(* worst_collusion: how many the most dangerous pair could frame.              *)
WorstCollusion ==
  LET sizes == {0} \cup {Cardinality(Exposure(a, b)) : a, b \in members}
  IN  CHOOSE n \in sizes : \A k \in sizes : k <= n

IsSafe == \A a \in members, b \in members : a < b => Exposure(a, b) = {}

PossibleFramers(accused) ==
  {p \in (members \ {accused}) \X (members \ {accused}) :
     p[1] < p[2] /\ accused \in Exposure(p[1], p[2])}

---------------------------------------------------------------------------------
(* Canary(members, seed, rounds=...); who will leak is fixed from here on.     *)
Construct(ms, r) ==
  /\ phase = "none"
  /\ \/ Object(ms, r) /\ phase' = "ready"
     \/ NoObject(ms, r) /\ phase' = "failed" /\ UNCHANGED <<members, rounds, codes>>
  /\ traitors' \in {w \in SUBSET ms : Cardinality(w) \in 1..2}
  /\ UNCHANGED <<stream, call, seen>>

(* build_safe: the default layout first; nothing looks at step and limit yet.  *)
BuildSafe(ms, s, l) ==
  /\ phase = "none"
  /\ LET r == SuggestedRounds(Cardinality(ms)) IN
       \/ Object(ms, r) /\ phase' = "building"
       \/ NoObject(ms, r) /\ phase' = "failed" /\ UNCHANGED <<members, rounds, codes>>
  /\ built' = TRUE /\ step' = s /\ limit' = l
  /\ traitors' \in {w \in SUBSET ms : Cardinality(w) \in 1..2}
  /\ UNCHANGED <<stream, seen>>

BuildDone == /\ phase = "building" /\ IsSafe
             /\ phase' = "ready"
             /\ UNCHANGED <<stream, call, members, rounds, codes, traitors, seen>>

(* Mistakes, for the runs: the same layout is made again; the rounds grow and  *)
(* the codes stay.                                                             *)
BuildAgain ==
  /\ phase = "building" /\ ~IsSafe
  /\ rounds + step <= limit
  /\ Object(members, rounds) /\ phase' = "building"
  /\ UNCHANGED <<stream, call, traitors, seen>>
BuildKeepsCodes ==
  /\ phase = "building" /\ ~IsSafe
  /\ rounds + step <= limit
  /\ rounds' = rounds + step
  /\ UNCHANGED <<stream, phase, call, members, codes, traitors, seen>>

(* One turn of its loop: another layout, or CanaryError beyond the limit or    *)
(* from the constructor.                                                       *)
BuildMore ==
  /\ phase = "building" /\ ~IsSafe
  /\ rounds + step <= limit
  /\ Object(members, rounds + step) /\ phase' = "building"
  /\ UNCHANGED <<stream, call, traitors, seen>>
BuildGivesUp ==
  /\ phase = "building" /\ ~IsSafe
  /\ rounds + step > limit \/ NoObject(members, rounds + step)
  /\ phase' = "failed"
  /\ UNCHANGED <<stream, call, members, rounds, codes, traitors, seen>>

BuildStep == BuildDone \/ BuildMore \/ BuildGivesUp

(* distribution(t) is handed out and a traitor passes his variant on.  Rounds  *)
(* come in any order, and in many of them nobody leaks.                        *)
Leak(t) ==
  /\ phase = "ready"
  /\ t \in Rounds \ DOMAIN seen
  /\ \E w \in traitors :
       seen' = [u \in DOMAIN seen \cup {t} |-> IF u = t THEN codes[w][t] ELSE seen[u]]
  /\ UNCHANGED <<stream, phase, call, members, rounds, codes, traitors>>

(* The object is dropped; the next one has the same seed and perhaps others    *)
(* among its members.                                                          *)
Discard == /\ phase \in {"ready", "failed"}
           /\ phase' = "none" /\ built' = FALSE /\ step' = 0 /\ limit' = 0
           /\ members' = {} /\ rounds' = 0 /\ codes' = Nothing
           /\ traitors' = {} /\ seen' = Nothing
           /\ UNCHANGED stream

CanaryNext == \/ \E ms \in SUBSET Names : \/ \E r \in 0..MAX_ROUNDS : Construct(ms, r)
                                          \/ /\ ms # {}
                                             /\ \E s \in StepsAsked, l \in LimitsAsked : BuildSafe(ms, s, l)
              \/ BuildStep
              \/ \E t \in Rounds : Leak(t)
              \/ Discard

(* The loop of build_safe is the program's own: it does not stop in the middle.*)
CanarySpec == CanaryInit /\ [][CanaryNext]_canaryVars /\ WF_canaryVars(BuildStep)

---------------------------------------------------------------------------------
(* Type invariant: a layout has one code per member, of one bit per round.     *)
CanaryTypeOK == /\ stream \in Streams
                /\ phase \in {"none", "building", "ready", "failed"}
                /\ built \in BOOLEAN
                /\ step \in StepsAsked \cup {0} /\ limit \in LimitsAsked \cup {0}
                /\ members \subseteq Names
                /\ rounds \in 0..MAX_ROUNDS
                /\ codes \in [members -> [Rounds -> {0, 1}]]
                /\ traitors \subseteq Names
                /\ DOMAIN seen \subseteq Rounds
                /\ \A t \in DOMAIN seen : seen[t] \in {0, 1}

(* A lone traitor is never cleared, whichever rounds he leaks in and in which  *)
(* order; the verdict never calls his leaks inconsistent; and once every round *)
(* was observed he is the only suspect, however the codes collided when they   *)
(* were assigned.                                                              *)
LoneTraitorFound ==
  \A w \in members : phase = "ready" /\ traitors = {w} =>
    /\ w \in Suspects
    /\ Consistent
    /\ DOMAIN seen = Rounds => Identified

(* The honesty tools do not understate a pair that mixes its variants: when    *)
(* every round was observed and the one suspect is innocent, the pair is among *)
(* possible_framers of the accused and worst_collusion counts him; no layout   *)
(* that is safe, and none that build_safe returned, ends that way.             *)
FramesAreListed ==
  \A a, b \in members : phase = "ready" /\ traitors = {a, b} /\ a < b =>
    \A m \in Suspects \ {a, b} : DOMAIN seen = Rounds =>
      /\ <<a, b>> \in PossibleFramers(m)
      /\ Cardinality(Suspects \ {a, b}) <= WorstCollusion
      /\ ~IsSafe
      /\ ~built

(* build_safe comes to an end, a layout or CanaryError, for every limit and    *)
(* every step but 0: rounds only grow or only shrink, and both have an end.    *)
(* With step=0, which nothing refuses, an unsafe layout is made again for ever.*)
BuildEnds == (phase = "building" /\ step # 0) ~> phase \in {"ready", "failed"}
=================================================================================
