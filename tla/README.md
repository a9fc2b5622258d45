# A TLA+ development of yaykut-cryptology

This directory specifies the stateful core of the repository in TLA+, checks the
specifications with TLC on small instances, and proves the theorems that matter
most with TLAPS. `PROJECT.json` maps every definition to the source lines it
models and lists the runs, the hazards they are aimed at, and the disagreements
with the code that they found.

## 1. Inventory

The program encrypts "formulas" (records with typed parameters) into ciphertexts
of one fixed size under a symmetric key. Everything around that one function is
about state: what was already received, which keys still exist, which binary runs,
which entries the corpus holds.

| Component | State | Operations | What makes it hard | What makes it correct |
|---|---|---|---|---|
| `crypto/session.py` `ReplayWindow` | `width`, `_top`, `_mask` | `seen`, `accept`, `state`, `from_state` | any order of numbers, jumps past the width, the edge of the window, restarts | no number accepted twice; no fresh number in the window refused |
| `crypto/session.py` `Session` | outgoing counter, a window | `encrypt*`, `verify`, `decode*`, `state`, `load_state` | numbers are issued before the engine may raise and recorded before the decoder may raise; transport; restarts from old states | at most once; unique numbers; nothing but the peer's messages |
| `crypto/keys.py` `KeyChain` | chain key in a secure buffer, `_step` | `message_key`, `advance`, `fast_forward`, `close` | lost and late messages, the buffer that is replaced once | both ends agree; the past is gone from memory |
| `crypto/handshake.py` | ephemeral in a secure buffer, `_done`; long lived `Identity` | `complete`, `pack`, `unpack`, `close`; `SecureChannel` | repeated and reflected packets, equal roles, failures half way | only partners share keys; forward secrecy |
| `crypto/memory.py`, `ccore/safe.c` | pages or a bytearray, lock | constructor, `random`, `write`, `wipe`, `close` | which branch is taken is asked anew at each call | no secret and no page outlives its buffer |
| `crypto/fastpath.py`, `ccore/build.py` | library file, manifest file, loaded core | compile, probe, install or delete; provenance, load, reload | builds and processes meet in the file system without a lock; interruptions; missing sources; `CRYPTO_CCORE` | only a probed and current library is ever loaded, or the doubt has a name |
| `crypto/network.py` | root secret, mode, a process wide `_authorised` | `create`, `epoch`, `child_network`, `observe`, `export`, `from_descriptor`, `close` | who can derive what over several degrees; several ways to a covert object; clocks | the gate has no back way; open children are independent; members are apart |
| `crypto/longmessage.py` | none | `encrypt_long`, `decrypt_long` | blocks lost, repeated, reordered, mixed | whole message or an error that says why |
| `crypto/frame.py`, `wire.py`, `bitio.py` | none | `encode`, `decode`, `encode_chain`, `decode_chain`, `is_chain`, `read_frame` | bit widths, order of checks, chain capacity | round trip; nothing read before the tag |
| `crypto/message.py` | none | text and hidden text | decoys around one text record | the text is found among the decoys |
| `crypto/prekey.py` | a secure buffer | selector mask, independence check, `close` | a wrong pre-key does not fail the tag; an engine outlives its pre-key | selector and content separated |
| `crypto/canary.py` | the codes of a member list | construct, `build_safe`, `narrow`, exposure, framers | codes that collide; pairs of traitors who mix their variants; a loop that must end | the lone traitor found; an innocent never accused without the pair that could have done it being named |
| `crypto/corpus.py`, `constraints.py`, `corpus/validate.py` | the loaded corpus | load, parse and evaluate expressions, validate files | the validator sees names and syntax only | what it passes can be loaded and encrypted, and sampled if its constraints are about numbers |
| `crypto/sampler.py` | none | bounds, equality plans, rejection | strict and turned comparisons, late moduli, plans that divide | a sample satisfies its constraints; no admitted value is unreachable |
| `layer2/generator.py`, `layer2/exam.py` | candidate files, corpus files | learn, generate, derive, write; gates 1 to 4 and the control | tools that read at one time and write at another, runs that are killed, files that stay | what passes together can be used together; the control notices a broken exam |
| `app.py`, `webui.py` | key field, engine, session, the switch | buttons, key changes, the session switch; two requests | the field can change without a key press; the session is replaced by user actions | the key shown is the key used; a replay is reported only for a replay |
| other `layer2/`, `layer3/`, scripts | models, indexes, files | experiments, retrieval, fuzzing | randomness, numerics | not a matter for model checking |

How they interact: a `SecureChannel` is two `Session`s over the two keys of a
completed `Handshake`; each `Session` owns a `ReplayWindow` and an `Engine`
(`wire`, `frame`, `prekey`, `corpus`). `KeyChain`, `Handshake`, `Network` and
`Prekey` keep their secrets in `SecureBuffer`s, which ask `fastpath` at each call
whether the compiled core is there; `fastpath` decides by what `ccore/build.py`
left on disk. The window of `app.py` makes a new `Engine` and `Session` whenever it
notices another key. The generator, the exam, the validator and people are
processes of their own that share only files. All calls are synchronous. The
package itself starts no threads (`webui.py` serves each request in a thread of its
own, over a stateless engine it makes for that request), so interleavings come from
several endpoints, several processes, the transport and restarts, not from inside a
call.

## 2. Modules

| Module | Models | State and actions |
|---|---|---|
| `Window` | `ReplayWindow` as a value | the record `[width, top, mask]`, the mask being the set of its one bits; `Seen`, `Verdict` and `Marked` are `seen` and the two halves of `accept` (what it answers, what it leaves) |
| `WindowProofs` | lemmas about it | |
| `OnceOnly` | what replay protection promises | a set of closed numbers; abstract, no code |
| `ReplayWindow` | one window object | `Accept`, `Refuse`, `WriteDown`, `Restore`, `StartAfresh`; histories of what was granted |
| `Session` | sessions at both ends, blobs in flight, restarts | `Encrypt`, `EncryptRefused`, `EncryptOutside`, `Verify`, `Decode`, `Reject`, `Save`, `Restart` |
| `SessionProofs` | theorems about `Session`, `ReplayWindow` and `Handshake` | |
| `KeyChain` | ratchets that share a seed | `Advance`, `FastForward`, `Close`; every buffer a chain key ever was in |
| `SecureBuffer` | buffers over pages and bytearrays | `Open`, `OpenRaises`, `Write`, `Wipe`, `Close`, `Forget`, `Reload` |
| `ChainMemory` | the two composed in one process | `Construct`, `Overwrite`, the two steps of a swap `SwapOpen`, `SwapClose`, `CloseChain`, and other owners' buffers `Elsewhere` |
| `ChainMemoryProofs` | theorems about it and about `CoreBuild` | |
| `Handshake` | handshake objects, packets, identities | `Start`, `Pack`, `Complete`, `CompleteRefused`, `CloseIdentity` |
| `CoreBuild` | runs of the build script, loader, files | of each build `Start`, `SourceMissing`, `Link`, `CannotCompile`, `Probe`, `Delete`, `TakeDigests`, `WriteManifest`, `Interrupted`; `StartProcess`; at any time `EditSource`, `CopyLibrary`, `CopyInstalled`, `CoverageLibrary` |
| `Network` | networks, descriptors, authorisation, the calendar, members' keys | `Authorise`, `Deauthorise`, `Create`, `FromDescriptor`, `Epoch`, `Child`, `Observe`, `Export`, `Close` |
| `NetworkProofs` | theorems about it and about `Canary` | |
| `Layout` | numbers as digits, pieces laid one after the other | functions; no state |
| `LayoutProofs` | lemmas about them, and about joined sequences and recursive definitions over an interval | |
| `Wire` | the wire format as functions | parameters to cells and back, the refusals of `encode` and `encode_chain` in order, `Decode`, `DecodeChain`, `SelectorMask`; no state |
| `Message` | an engine, its text modes, and who reads what it wrote | `Encrypt`, `EncryptChain`, `EncryptText`, `EncryptHidden`, `HiddenRefused`, `Receive` by each method and as `app.py` does, `ClosePrekey`, `Forget` |
| `LongMessage` | multi block messages | `EncryptLong`, `EncryptRefused`, `EncryptOther`, `Collect`, `DecryptLong` |
| `MessageProofs` | theorems about `LongMessage`, `Wire` and `Message` | |
| `Canary` | a layout of codes and what leaks | `Construct`, `BuildSafe` with any step and limit, and its loop `BuildDone`, `BuildMore`, `BuildGivesUp`; `Leak`, `Discard` |
| `Formula` | entries, expressions over numbers and texts with the three kinds of errors callers tell apart, parameter analysis, the schema, loading | functions of an entry: `Eval`, `CheckAll`, `ParamErrors`, `Conforms`, `Loads`; no state |
| `Sampler` | what `sample()` may return | `Simple`, `Bounds`, `Solve` and the errors that escape it, `EqualityPlans`, `Attempt`, `Sample`; no state |
| `Authoring` | generator, exam, validator and people over two directories | `Start`, `Try`, `LoopEnds`, `Write`, `Finish`, `Crash`, `Die`, `Exam`, `Promote`, `WriteByHand`; composes `Formula` and `Sampler` |
| `AuthoringProofs` | theorems about it | |
| `App` | windows and the web page | `GenerateKey`, `EditKey`, `KeyRelease`, `SessionChanged`, `Encrypt`, `EncryptRefused`, `Decrypt`, `DecryptRejected`, `EncryptElsewhere`, `WebEncrypt`, `WebDecrypt`, `WebError`; a session is a `Window` and a counter |
| `AppProofs` | theorems about it | |

Each component has an `MC` module that names the instance and one or more `.cfg`
files. Definitions introduced as "Mistake, for the runs" are plausible bugs of the
definition that follows them; no specification uses them, they document what each
property would catch.

Cryptography is symbolic throughout. A blob carries the name of the key it was
tagged with; a Diffie-Hellman result is the set of its two keys; HKDF is injective
and one way, so a derived secret is the path of derivations from a random draw.
A selector masked with one secret and unmasked with another can come out as any
id, the right one included. In `Canary` the bits that HKDF gives a name and a
counter are arbitrary, since there collisions are what matters. Two more
consequences, one deliberate and one a limit:
`Network` uses labels that do not end in a NUL byte, because HMAC pads its key with
zeros and labels that differ only in trailing NULs name the same child in the code;
and the six digits of the confirmation code are taken as collision free.

`Wire` counts in cells instead of bits: an id, the record counter and the length of a
text take one cell, in the code 16, 8 and 16 bits. What is lost is the rounding of
odd widths to whole bytes and the difference between those three widths; what is
kept is that each has a largest value, that a value may be too wide, and that
records fill the body to the last cell. A parameter that is missing or of another
type is refused like one that is too wide. A constraint is the set of values it
forbids; a decoy may have any values that can be written, since sampling may give up.
`Formula` and `Authoring`, where the expressions matter, evaluate them, and count in
bits. A syntax tree is the sequence of its nodes with the operands of a node before it,
and its value a recursive function of a position in that sequence, which `_eval`
computes by recursion over the tree; the provers can reason about the former.

`Session` also stands for a `SecureChannel`: its outgoing `Session` uses only the
counter and its incoming one only the window, which is one record per endpoint in
the model. The keys of the two directions are `SendKey` and `RecvKey`;
`SeparateKeys` is the arrangement of `SecureChannel`, and `DirectionsSeparate` of
`Handshake` is what establishes it.

`App` keeps apart what is in the key field and what the window last checked: the
field changes by typing, by pasting with the mouse and by the generate button, and
`check_key` runs on key releases and at the start of each button's handler. Each
handler therefore is one action that begins with that check.

`Authoring` gives every tool its own reading of the files: the generator learns a
corpus once and may write much later, one file at a time, or die between two; the
verdict of an exam is remembered with the corpus it was reached against, and a
promotion uses it whatever happened since.

## 3. Runs

| Run | Instance and bounds | Shows |
|---|---|---|
| `replay_window` | `MAX_SEQ` 5, widths 1 and 3 | `MaskIsMemory`: the mask is the history through slides, jumps beyond the width, saves, restores and new widths; `AcceptIsExact`: `accept` grants exactly the fresh numbers inside the window and `seen` agrees; `KeepsPromise`: refinement of `OnceOnly` |
| `session` | one sender, numbers to 3, width 2, two blobs of any kind | `NothingTwice` and `FreshIsAccepted`, up to restarts from outdated states, which they name; `RetryNeverOpens`: a failed decode is final |
| `chain_memory` | two ends, limit 2, steps to 4, starts 0 and 1, seeds of both lengths; three buffers and three blocks, `reload()` at any time | `Agreement` and order of the steps; `PastIsGone`: no page or heap copy of a past chain key survives a swap, a close or a reload; `OwnMemory`: no lock or block is shared or lost |
| `handshake` | three devices, three objects | `OnlyPartnersShare` (partners only, directions separate, codes truthful), `ForwardSecrecy` |
| `core_build` | two builds at once, each in any of four environments (plain, pure, unverified, `CRYPTO_CCORE` set); three places; two sources, of which one has two versions and either may be missing; a good binary of each version and two bad ones; two events from outside | `LoadedCoreIsSound`: what runs was probed and is as new as the sources that are there, unless its manifest is in doubt for a reason with a name; `BuildEndsClean`: a build that was alone, and probed its own library, leaves that one for the next process |
| `core_build_fresh` | one build on a clean checkout, nothing from outside | violated: see section 6 |
| `network` | three objects, one label that is also a member's name, two members, three draws, two derivations deep, roots that fit a descriptor and longer ones, days before the calendar and in two epochs | `WhoCanDerive` (independence of open children, observability of covert ones, first degree only, members apart), `NoCovertByTheBack` (the gate) |
| `long_message` | block of two bytes, at most three blocks, two texts, lists of four | `WholeOrNothing`: a text comes back whole, in any order of its blocks, or not at all |
| `message` | cells of seven values, bodies of ten; a text of two cells, three formulas and a retired one; all chains of up to four of ten records, and too long ones; engines without a pre-key, with one, and with one made of a key | every ciphertext has the one length (`TypeOK`); `Faithful`: what a reading with the right secrets returns is what was written, and without the pre-key every id is possible; `NothingUnreadable`: what an engine writes it can read, and a text is never crowded out by its decoys |
| `canary` | three members, at most three rounds, two tries per name: every first try up to a flip of a round, and two choices of the second; steps -1, 0 and 1, limits 2 to 4 | `LoneTraitorFound`, `FramesAreListed`; `BuildEnds`: `build_safe` ends for every step but 0 |
| `app` | two windows and the web page, three keys, numbers to 2, two ciphertexts, three changes of field or switch | `KeyInForce`, `OncePerSession`, `FreshArrives` |
| `authoring` | ids of four bits, bodies of four, payloads of five; a corpus of two entries, one hand written file of six kinds, two pieces of work; names of two words, one word that no slug admits; bytes of two bits, sizes to 7, texts to 6 | `PassedGoTogether`, `MadeAreCandidates`, `CleanIsUsable`, `ControlWorks`, `BoundsLoseNothing` |

Why the bounds are enough to be interesting: `MAX_SEQ` exceeds the largest width,
so the window slides out of every number and jumps past itself; two blobs whose
numbers may lie two apart, since refused calls spend numbers, give replays, late
messages and one that falls outside a width of two; the chains cross their fast
forward limit and their one change of buffer, and with a third buffer the blocks
they let go are taken by somebody else;
three handshake objects give a pair of partners and a stranger, or an old packet;
three networks give a parent, a child and a grandchild; blocks of two bytes and
two formulas just fill a body beside a text and the third is a cell too much, so a
chain can be full, one cell too long, or have too many records for its counter, and
each wrong secret is tried; texts of two and three give exact and partial last
blocks with and without padding. Three members are the least with which a pair has
somebody to frame, and with three rounds a layout can be safe; both outcomes of
`build_safe` occur. Two ciphertexts and three changes let a window lose its session
and get a fresh one between two readings. Blocks of four ids with one or two left
make the generator run out of ids, and ids of the exam's own control lie in a block
it fills. A corpus of two entries has an equality with a field element and a bound, and
the files written by hand have a point that is joined and repeated, with and without
room for the result. With two builds each step of one falls between any two of the
other, and with two events from outside a source can be edited and restored, or a
library replaced and its manifest copied, while they run. What the numbers of `app` are
too small for, a message that the window has left behind, is in the theorem
`OthersArrive` for every width.

Bounds that are only for TLC: `MaxBlobs` (Session, App), `MaxChanges` (App),
`MaxStep` (KeyChain), `MaxOutside` (CoreBuild), `MaxDraws` and `MaxDepth` (Network),
`MaxMessages`, `MaxOthers` and `MaxList` (LongMessage), `MaxChain`, `Records`,
`Texts`, `Targets` and `Noise` (Message, whose engine keeps no state: one ciphertext
at a time), `MaxDrafts` and `MaxWork` (Authoring). They stop an action, never change
what it does. `MAX_SEQ`, `MAX_FAST_FORWARD`, `MAX_BLOCKS`, `MAX_ROUNDS`,
`COLLISION_MARGIN`, the 256 counters of a code and the widths and ceilings of
`Authoring` are limits of the code, given small values; so are `MAX_INDEX` and `MEMORY`,
Python's largest size and the longest text there is room for, and `ByteBits`.
`StepsAsked`, `LimitsAsked` and `BuildEnvs` are what callers may ask for: any sets in the
theorems.

Deadlock is checked except in `handshake`, where all objects may be done and all
identities closed, and in `authoring`, where all work may be spent, everything
promoted and a report of an exam that can only repeat itself.

Fairness: one program loop, `build_safe`, has to come to an end by itself.
`Canary` assumes weak fairness of `BuildStep`, which is that Python goes on
executing a loop it has begun; `BuildEnds` then holds because every round of the loop
adds rounds, or takes some away, and both have an end. The step is a parameter that
nothing checks, and with 0 the loop need not end: the property excludes that call, the
model does not. Everywhere else none is assumed and no liveness
is claimed: the code runs when it is called, nothing in it retries, polls or waits,
and no user, peer or transport owes it a next call.

## 4. What is proved

`SessionProofs` on one window (`ReplayWindow`), for every `MaxSeq` in `Nat \ {0}` and
every set `Widths` of positive integers:

* `WindowTyped`, `MaskCorrect`, `ExactAnswers`: the invariants of the run
  `replay_window`; `ExactAnswers` is the conjunction of `ReplayProtection`,
  `NoLossInside`, `TruthfulVerdicts` and `AlwaysAgrees`;
* `Refinement`: `WindowSpec` implements `OnceOnly` under the mapping that reads the
  closed numbers off `seen()`.

The argument. `NoNumberTwice` is not inductive: whether a number is refused depends on
the mask, and the mask must be known to hold the whole history. The inductive
invariant `WInv` is therefore `WindowTypeOK`, `MaskIsMemory` for the object and for what
is on disk, and the two facts about verdicts. The heart is `MarkedRemembers`: if a
window remembers a set of granted numbers, then after `accept` it remembers that
set with the new number, by cases on a shift past the width, a shift inside it, and
a late number. It rests on `MarkedBits`, which says what a shift does to each bit.
Both are in `WindowProofs`, together with what follows for a single answer: what
`accept` grants is new (`GrantedIsNew`), and what is new and inside the window it
grants (`NewIsGranted`).
`NoNumberTwice` and `NoneLostInside` then follow from `MaskIsMemory` alone, and
`MarkedCloses` shows that a step of the object closes exactly the numbers a
`Grant` closes.

`SessionProofs` on handshakes, for every set of devices and of objects: `HandshakeTyped`,
`PartnersOnly` (`OnlyPartnersShare`) and `Forward` (`ForwardSecrecy`), everything the
run `handshake` checks. The invariant says what a completed object is: it heard
somebody's ephemeral and not the bad point (whose result `complete` refuses), and its
keys are the ones derived from its own fields, which nothing changes afterwards. The
rest is that a transcript names its parties: objects in equal roles with equal
transcripts are one object (`SameRole`), objects in opposite roles with equal
transcripts and results are partners, and conversely (`OppositeRoles`). Forward
secrecy needs the first of the four results only, which takes one of the two
ephemerals.

`NetworkProofs`, for every set of objects, labels and members: `TypeCorrect`,
`GateHolds` (`NoCovertByTheBack`) and `DerivationHolds` (`WhoCanDerive`). These
speak of the networks that are open now, and none of them is inductive by itself: a
network that is closed may live on in an exported descriptor. The invariant therefore
speaks of every root that is known at all, in an object, as a child or in a
descriptor. Each starts from a draw made before, and all that start from one draw
agree whether they are covert (`Sound`, `Alike`); a child that is not covert has a
draw to itself (`Honest`); a backup is its network's root cut to the length of a
descriptor (`Backups`). A root is a draw and the list of derivations after it, and
one leads to another when it is a prefix of it (`PrefixIs`), so the five parts of
`WhoCanDerive` become statements about prefixes of equal lists.
`NeighboursAreEnough`, for every length of an epoch and all days of the calendar: if
the clocks of two ends are apart by no more than one epoch, the sender's epoch is the
receiver's or its neighbour, the previous one for a receiver whose clock is ahead and
the next one for a receiver who is behind. The docstring of `epoch_number` speaks of the
previous epoch only; that is enough for the end that is ahead, and a receiver who is a
single day behind at the end of an epoch needs the next one.

`NetworkProofs` on the canary, for every finite set of names, every number of tries,
rounds and margin, and every key material: `CanaryTyped`, `LoneTraitorIsFound` and
`FramesAreAnnounced`, the three invariants of the run `canary`. The invariant adds
to the types what each property needs from the past: codes are pairwise distinct
(`_assign_codes` skips a code that is taken, which `ObjectIsSound` draws from the
order in which members are served), every observation is the variant of some
traitor, nothing is observed before an object exists, and what `build_safe`
returned was found safe. From these, agreement of all suspects on every round gives
one suspect at most (`SuspectsAgree`), and in a round where both traitors hold the
same variant it is the one observed, which puts a framed member into their exposure
(`FramedIsExposed`). That `worst_collusion` is the maximum of a non empty bounded set
is `LargestOfBounded`, from the well-foundedness of `<`; that `_make_bits` never reads
past the derived bytes is `MakeBitsType`.

`SessionProofs` on sessions, for every set of ends and of senders among them, every assignment of
keys, every width, `MaxSeq` and number of blobs: `TypeCorrect`, `ReplayProtection`
(`NothingTwice`), `NoLoss` (`FreshIsAccepted`) and `FailedIsFinal`
(`RetryNeverOpens`), which is everything the run `session` checks. What an end has
let through is a history the code does not keep; the invariant `IInv` ties it to what
the code does keep. As long as an end was not restarted from an outdated state, its
window remembers the numbers of the blobs it let through (`WindowsRemember`), and its
counter is at or above every number it issued (`CounterAhead`), so that the next
number is on no blob yet (`OneBlobEach`). The two halves meet at the key: a blob
carries the key of its maker (`MadeBySender`) and is let through only under the key of
the receiver (`PassedIsRight`), so under separate keys equal numbers at one receiver
mean the same blob (`Unique`), and remembering numbers is remembering blobs. The
window's share of the work is done by the same lemmas of `WindowProofs`.

`ChainMemoryProofs`, for every set of endpoints, buffers and blocks, every start and
every limit: `TypeCorrect`, `EndsAgree` (`Agreement`), `ForwardSecrecy` (`PastIsGone`)
and `MemoryIsOwn` (`OwnMemory`), everything the run `chain_memory` checks. The
invariant has three parts. Of a chain (`CInv`): its chain key is the distance from its
start, only its last buffer holds one, and the keys it handed out lie behind it in
order; from that agreement is arithmetic. Of the memory (`MInv`): the three invariants
of `SecureBuffer` are inductive together, since an operation touches the block of one
buffer and no other open buffer has that block (`BlockIs`). Of the two composed
(`GInv`): a chain's buffer is open as long as the chain is, the next one as well during
a swap, and every other open buffer has another owner, so that no owner's `close()`
meets a chain's buffer.

`ChainMemoryProofs` on `CoreBuild`, the compiled core those buffers run on, for every
set of builds, binaries, source trees, places and environments and any number of events
from outside: `BuildTyped`, `LoadedIsSound` (`LoadedCoreIsSound`) and `BuildsEndClean`
(`BuildEndsClean`), everything the run `core_build` checks. No build is kept from
running beside another, and no environment is excluded. What a process loads is decided
by files that outlive the build that wrote them, so the invariant `BInv` speaks of every
manifest there is: unless it is in doubt, the library it names was probed and made from
the sources it names (`Trusted`). That rests on what builds know while they run: one
that was alone with the files so far finds the sources it compiled and its library where
it put it (`AloneSoFar`), and if its probe took that library too, that is what passed
and what it notes (`OwnProbed`). Three histories that the code does not keep say when
this is lost: `disturbed` (somebody changed the sources or the library beside the
build), `astray` (its probe loaded a library from another place) and `doubtful` (the
manifest was written by such a build, or by `c_coverage.py`).

`MessageProofs`, for every block size, every limit on blocks and every set of texts:
`LongTyped` and `LongWholeOrNothing` (`WholeOrNothing`), everything the run
`long_message` checks. The code checks of a list of blocks only their headers, how many
there are and that no index occurs twice; that this is enough is the theorem. What was
sent is known from the history: every block is the one its sender cut from a text at its
index (`SentWhole`, `LongInv`). A list without a fault (`Faultless`) has as many blocks
as the first says, all of one message, with different indexes in range, hence every
index exactly once, by counting (`RangeSize`). Joined in the order of their indexes they
are the padded text (`WholeIs`), place by place: what lies where in a concatenation of
equally long pieces is `FlattenUniform`. The induction over the rows of a concatenation,
which the provers cannot instantiate as a scheme, is done on the set of lengths for
which the statement holds (`SetInduction`, from well-foundedness).

`MessageProofs` on ciphertexts, for every width of a cell, length of the body, corpus,
set of secrets, of records, of texts and of decoys: `MessageTyped`,
`ReadersGetWhatWasSent` (`Faithful`) and `WrittenIsReadable` (`NothingUnreadable`),
everything the run `message` checks. The invariant `IInv` says what a ciphertext is:
under the mask of its writer (`WriterOf`: the text modes leave the pre-key out) its body
begins with the cells of one record the checks let through (`CarriesOne`), or of a chain
of them (`CarriesMany`), and in a hidden text exactly one of these is the text; an answer
is what some method makes of that body (`ReadOnce`). It was checked by TLC on the run's
instance before it was proved. What is proved under it goes from the smallest piece up:

* a number written in a field is the number read from it (`DigitsAre`, `NumberIs`), hence
  every parameter is (`ReadsBack`), hence, by where pieces of a concatenation lie, every
  entry is at any position of any body (`SerializeIs`, `DeserializeIs`);
* `decode_chain` follows the records of `encode_chain` one by one (`ChainCellsAre`,
  `ChainRead`), whatever lies behind them, and finds the count it was given, which is
  at most `MAX_RECORDS`;
* the decoys are different candidates whose cost is within what `encrypt_hidden` left
  for them, and candidates have different ids, none of them 0, the chain's or the
  text's, so that there are fewer than the counter holds (`PickDecoysFit`, `HiddenFits`);
* a body with one formula is no chain to any method and a chain is no formula
  (`OneReadsTrue`, `ManyReadTrue`), and the method for a kind reads it (`FittingReads`).

The functions defined by recursion (`Power`, `Ends`, `Number`, the positions in a chain,
the decoys taken) are each unfolded by `StepwiseExists` and `StepwiseAgree`. The
assumptions, all of them evaluated by TLC, are named in `Wire` and `Message`: a cell has
at least four values; ids are unique, not 0 and not the chain's, as `Corpus.__init__` and
the schema enforce; an enum's field is as wide as its values need, as `param_bits` makes
it; the text's entry is active, its length field can tell every length, and it fits the
body with the overhead of a chain; callers give bytes for bytes and numbers for numbers,
though not always such as fit.

`AppProofs`, for every set of windows and of keys, every width, `MaxSeq` and number of
messages: `TypeCorrect`, `FieldRules` (`KeyInForce`), `OnlyOnce` (`OncePerSession`) and
`OthersArrive` (`FreshArrives`), everything the run `app` checks. It assumes that the
marker for a field without a key is no key. The invariant is local to a window
(`Sound`): engine and session are those of the key checked last, the session's window
remembers the numbers taken in it, and its counter has passed the numbers issued in it,
each on one blob. What `check_key` leaves satisfies it for the key in the field now
(`CheckedIs`), so that a press of a button, which checks first, only has to be followed
from there (`CheckedKeeps`).

`AuthoringProofs`, for every corpus to begin with, every set of drafts, every block
size, width and ceiling: `TypesKept` (`TypeOK`), `MadeAreAlwaysCandidates`,
`BoundsAlwaysLoseNothing`, `CleanIsAlwaysUsable`, `ControlAlwaysWorks` and
`PassedAlwaysGoTogether`, everything the run `authoring` checks. Two of them are about
the history and need an invariant, four are about whatever files there are.

* `TypeOK` and `MadeAreCandidates` are inductive together. What the generator has made
  so far is judged by the corpus it learned from, not by the files as they are now, and
  it makes entries in two ways. A generated one (`MadeIs`) has new names, moduli that
  refer back and constraints out of templates renamed to its own parameters (`RenamedIs`:
  renaming a node changes no structure; `BindStep`: one word of a template is bound at a
  time). A derived one (`DerivedIs`) is an entry of the corpus with changed widths and
  keeps its analysis because a clean corpus passes it. Both take a new id from a block
  which is free of those in use and of the blocked ones (`NewIdIs`); that it is one the
  schema admits needs that ids fill whole blocks.
* `PassedGoTogether`. The exam tried some values of an entry beside the candidates of its
  time; the claim is about all values the sampler may return, in the corpus as it will be
  after promotion. Every value drawn lies within the width of its parameter (`DrawsAre`),
  since bounds only narrow it (`BoundsAre`), and solving an equality keeps it there
  because a root outside the bounds is a miss (`SolveStepIs`, along a plan by
  `AttemptIs`). Such a value is told apart by its number and the number by its digits
  (`NumberIsOwn`, `NumberReadBack`), the digits by where they lie in the body
  (`ReadBackIs`, with `PiecesLie` of `LayoutProofs`), so the sentence is read back
  as it was (`VerdictBack`, `ComesBack`). That the ids are still
  distinct follows from what the exam decoded with: it joined the candidates to the corpus
  only if `Corpus()` accepted both (`VerdictTogether`).
* `BoundsLoseNothing`: a constraint of the form name against number that holds keeps the
  value on its side of the limit, whichever side the name stands on (`LimitHolds`,
  `SimpleHolds`), so the largest lower and the smallest upper limit do (`LimitsLie`).
* `CleanIsUsable`: a positive width or a count of choices gives every parameter a width
  (`ParamBitsIs`). Of an entry whose constraints calculate with numbers only
  (`PlainNumbers`) no node overflows or runs out of memory, node after node along the
  tree (`NodesArePlain`, `PlainExpression`), and every name has a value, so neither the
  solving of an equality nor the check of the constraints raises what nobody expects
  (`PlainIsQuiet`). Of constraints that calculate with texts it is false (section 6).
* `MadeAreCandidates` names what it leaves to the exam: constraints and size in a body,
  slugs and names longer or of other letters than the schema admits, and the warnings
  a derivative has from its parent, which `analyze_params` gives and the validator passes.
* `ControlWorks`: a sabotaged entry ends in its own gate, wherever it is examined
  (`FatesAre`), unless the corpus has its id.

The assumptions are named in `Authoring` and evaluated by TLC: sizes are natural numbers
and the generator's ceiling is not below the body (`SizesAssumption`); ids fill blocks
and the reserved one is blocked (`IdsAssumption`); the files to begin with can be loaded
and are entries, as drafts are, whatever else is wrong with them (`FilesAssumption`); and
each of the sabotaged entries, which are constants of `exam.py`, has the one fault it was
written to have (`SabotageAssumption`). The value of a
node is defined from those before it; `ValuesExist` and `ValuesAre` unfold it.

Only model-checked: the liveness property `BuildEnds` (fairness and `ENABLED` are beyond
the prover).

## 5. Not modelled

* X25519, HMAC, HKDF and their C versions as arithmetic; timing. They are symbolic
  in every module.
* The hierarchy of device and epoch keys in `keys.py`: pure derivations whose
  separation is the assumption on HKDF itself.
* Text of files and expressions: JSON, the tokens of an expression, versions and
  migration notes of entries. `Formula` starts from the parsed tree. Left out of it are
  true division (which `corpus/HOW-TO-ADD.md:183` admits: its floats overflow, and a root
  that is a float is a value `crypto/wire.py:106` refuses), `in` and `not in`, signs,
  lists and tuples, `abs`, `pow` and `len`, `min`, `max` and `gcd` of other than two, the
  formatting of texts with `%`, constants that are floats or `None`, and numbers too
  large for memory. The words of all enums are numbered alike.
* Distributions: rejection rates, uniformity of the sampler, gate 5 of the exam (a
  trained classifier), every experiment under `layer2/` and the retrieval of
  `layer3/`. They are statistics, not protocols.
* `one_to_one` of the canary and the wording of its results; drawing, the glossary
  and the corpus windows of `app.py`; static files and the page of `webui.py`.
* In the loader, a load is one step: a library that is replaced between its digest
  (`crypto/fastpath.py:114`) and its opening is not modelled, nor files that are half
  written or read at two moments, nor that a process which has opened a library keeps
  what the system has mapped when it calls `reload()` on the same path. Sources that
  are missing or cannot be read are modelled, as one case: the loader skips them
  (`crypto/fastpath.py:129`, `:135`). A library or a manifest that cannot be read is
  refused like one that does not match. The header `crypto25519.h` is not among the
  recorded digests (`ccore/build.py:208`) and not in the model.
* Within modelled components: states that `load_state` is given but the program
  never wrote; the state of one channel loaded into another; memoryviews that
  outlive their buffer; a `SecureBuffer` handed to two owners; two `Network` objects
  over one root buffer; a look at `message_key()` (`crypto/keys.py:250`) before
  `advance()`, which changes nothing and shows the key of the step that is still open.

## 6. Where the code and its documentation disagree

* `core_build_fresh`: `ccore/build.py` calls `probe()` before it writes the
  manifest, but the loader refuses a library without a matching manifest. A first
  build, or one after an edit, deletes a good library and returns 3.

Smaller ones that the models show without a run of their own:

* The text methods of an `Engine` do not use its pre-key (`crypto/wire.py:568`).
  Texts and hidden texts show their id to whoever holds the key, and `decode()` of
  the same engine cannot read what its `encrypt_text()` wrote. `FormulasStayHidden`
  therefore speaks of formulas and chains only, and `Fitting` of the methods that do
  go together.
* A root that is not 32 bytes long is padded or cut in `export`
  (`crypto/network.py:516`), and `from_descriptor` reads back another network:
  `CovertChildrenObservable` says that a backup works exactly when the root has the
  length of a descriptor.
* `corpus/formula.schema.json:15` admits the id 65535, which `Corpus()` refuses as
  reserved, although `corpus/validate.py:61` says that what it passes "is also
  accepted at run time". `CleanIsUsable` names the exception.
* A canary layout that `is_safe()` calls safe frames nobody once every round was
  observed; while rounds are missing, an innocent can still be the only suspect
  (`crypto/canary.py:370`). `FramesAreListed` has that condition.
* The generator and gate 2 allow 1289 bytes of payload (`layer2/generator.py:72`,
  `layer2/exam.py:147`), where the engine writes at most 1280: entries between the
  two fail gate 4 instead. `Authoring` has both as `CEILING` and `BODY`.
* The manifest's digests are taken after the probe (`ccore/build.py:207-208`), and
  nothing takes a lock: a source edited or a library replaced meanwhile, by a person or
  by another build, makes the manifest vouch for a library that was compiled before the
  edit or that nobody probed. `LoadedCoreIsSound` names the builds this happened to
  (`disturbed`).
* `probe()` is called one of "three gates" the built library is put through
  (`ccore/build.py:126`), but it loads whatever the loader finds first: with
  `CRYPTO_CCORE` set, as `ccore/c_coverage.py:147` sets it for the tests that run
  `build.py`, the library the variable names, and otherwise perhaps one left in `ccore/`.
  If that one passes, `main()` returns 0 and the manifest vouches for the one just
  built, which nobody ran. Both properties name such builds as their exception
  (`astray`).
* `crypto/fastpath.py:62-63` says of the recorded sources that "a source edit without a
  rebuild is caught"; an edit of the header `ccore/crypto25519.h` is not.
* `build_safe` "adds rounds until no pair can" (`crypto/canary.py:45`), but never looks
  at its `step`: with `step=0` an unsafe default layout is made again and again, and the
  call does not return (`crypto/canary.py:398-405`). With a negative step it ends, in a
  `CanaryError` or with fewer rounds. `BuildEnds` names 0 as its exception.
* `sample()` "Raises SamplingError if nothing is found" (`crypto/sampler.py:266`), and
  `crypto/constraints.py:175-179` counts overflows among the errors that mean "constraint
  not satisfied". `_solve` does not catch them (`crypto/sampler.py:196`): the constraint
  `k * x == y` with bytes `k` and integers `x` and `y` of 64 bits passes the validator,
  and sampling it raises `OverflowError` or `MemoryError`, through the exam as well.
  `CleanIsUsable` names constraints that calculate with texts as its exception, and one
  of the files of the run `authoring` ends the exam that way.
* `epoch_number` says that clock skew "is closed by also trying the previous epoch"
  (`crypto/network.py:602-604`): true for the end whose clock is ahead only
  (`NeighboursAreEnough`).
* The generator gives an entry of any domain the slug `generated-<domain>-<id>`
  (`layer2/generator.py:343`) and a derivative a longer name than its parent's
  (`layer2/generator.py:450`); the schema's pattern, its 64 letters of a slug and 120 of
  a name (`corpus/formula.schema.json:21`, `:22`, `:42`) may refuse both. It also copies a
  `mod` that is only a warning to the validator, and which gate 2 refuses
  (`layer2/exam.py:145`). `MadeAreCandidates` names these.
* `close()` of a buffer on pages after the core was unloaded
  (`crypto/memory.py:206`) zeroes the pages and never releases them
  (`CloseInPython`). A constructor of `SecureBuffer` that raises on data of the
  wrong length (`crypto/memory.py:95`) leaves mapped pages without an owner
  (`OpenRaises`).

## 7. Plan

Done: all components whose state or protocol can be checked, with the compositions
`ChainMemory` (key chains in secure buffers) and `Authoring` (generator, exam,
validator, sampler and evaluator over shared files).

Every invariant and action property the passing runs check is a theorem. What remains
model-checked is `BuildEnds`, for which the prover has no rule. Left for later are the
window between digest and load in a process, and true division in expressions. The hazards without a
property are listed with their reasons: they concern what the code leaves to its callers
or never looks at again.
