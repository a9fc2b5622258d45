------------------------------- MODULE CoreBuild --------------------------------
(* How the compiled core comes to be used: ccore/build.py compiles, probes and *)
(* either installs a manifest or deletes the library, crypto/fastpath.py       *)
(* decides in each process whether a library it finds may be loaded.  Nothing  *)
(* takes a lock: several builds may run at once, each may be interrupted       *)
(* between any two of its steps, and meanwhile sources are edited, removed and *)
(* restored, libraries are copied in or removed, and ccore/c_coverage.py       *)
(* writes one of its own.                                                      *)
(* A load is one step: that a library is replaced after its digest was taken   *)
(* and before the system opens it is not modelled.  The sources are the files  *)
(* the manifest names, SOURCES; the header is not among them.                  *)
EXTENDS Integers

CONSTANTS None,             \* no file, no core, not ended yet
          Files, Versions,  \* SOURCES, and what may be in each
          Trees,            \* states of the source directory: None for a file
                            \* that is not there or cannot be read
          Binaries,         \* what compilers may produce
          Places,           \* where a library may lie: "manual" is the directory
                            \* CRYPTO_CCORE names, "crypto", "ccore"
          BuildEnvs,        \* the environments build.py is run in
          Builds,           \* runs of build.py
          MaxOutside        \* bound: what happens to the files from outside

AllPlaces == {"manual", "crypto", "ccore"}

(* pure is CRYPTO_PURE, manual CRYPTO_CCORE, unverified ..._CCORE_UNVERIFIED.  *)
Envs  == [pure : BOOLEAN, unverified : BOOLEAN, manual : BOOLEAN]
Plain == [pure |-> FALSE, unverified |-> FALSE, manual |-> FALSE]

Whole == {t \in Trees : \A f \in Files : t[f] # None}

ASSUME PlacesAssumption == /\ Places \subseteq AllPlaces /\ "crypto" \in Places
                           /\ BuildEnvs \subseteq Envs
ASSUME TreesAssumption  == /\ Trees \subseteq [Files -> Versions \cup {None}]
                           /\ MaxOutside \in Nat
(* A binary: the sources it was compiled from, whether the loader's self tests *)
(* pass on it, and whether the probe's cross checks do.  Two digests are equal *)
(* when the records are.                                                       *)
ASSUME BinariesAssumption ==
  /\ Binaries \subseteq [src : Whole, selftest : BOOLEAN, cross : BOOLEAN]
  /\ None \notin Binaries \cup [library : Binaries, src : Whole] \cup AllPlaces \cup 0..3

Codes == 0..3 \cup {None}
NoCore == [lib |-> None, path |-> None]

VARIABLES source,           \* the C sources on disk
          lib,              \* per place: the library file or None
          manifest,         \* per place: the manifest file or None
          pc, env,          \* per build: its next step and its environment
          built,            \* per build: the binary its compiler made
          noted,            \* per build: the digests it took
          rc,               \* per build: its exit code; None when interrupted
          loaded,           \* a user process: _Core's lib and path
          outside,          \* how much happened from outside
          probed,           \* history: binaries that passed every gate of a build
          disturbed,        \* history: builds that were not alone with the files
          astray,           \* history: builds whose probe tried another library
          doubtful          \* history, per place: the manifest was written by one
                            \* of those, or by c_coverage.py

fileVars  == <<source, lib, manifest, doubtful>>
ownVars   == <<pc, env, built, noted, rc, astray>>
buildVars == <<fileVars, ownVars, probed, loaded, outside, disturbed>>

BuildInit == /\ source \in Whole
             /\ lib = [p \in Places |-> None]
             /\ manifest = [p \in Places |-> None]
             /\ doubtful = [p \in Places |-> FALSE]
             /\ pc = [b \in Builds |-> "ready"]
             /\ env = [b \in Builds |-> Plain]
             /\ built = [b \in Builds |-> None]
             /\ noted = [b \in Builds |-> None]
             /\ rc = [b \in Builds |-> None]
             /\ loaded = NoCore
             /\ outside = 0
             /\ probed = {} /\ disturbed = {} /\ astray = {}

---------------------------------------------------------------------------------
(* The loader.                                                                 *)

(* A source that is not there is not compared.                                 *)
Matches(recorded) == \A f \in Files : source[f] \in {None, recorded[f]}

(* Mistakes, for the runs: a missing manifest is no refusal; the sources are   *)
(* not compared.                                                               *)
ProvenanceOptional(p, e) ==
  \/ e.unverified \/ manifest[p] = None
  \/ manifest[p].library = lib[p] /\ Matches(manifest[p].src)
ProvenanceNoSources(p, e) ==
  \/ e.unverified
  \/ manifest[p] # None /\ manifest[p].library = lib[p]

(* _provenance: TRUE when the library may be opened.  The recorded digest must *)
(* be the file's, and the sources present must be the ones recorded.           *)
Provenance(p, e) ==
  \/ e.unverified
  \/ /\ manifest[p] # None
     /\ manifest[p].library = lib[p]
     /\ Matches(manifest[p].src)

(* _try: provenance before anything of the library runs, then its self tests.  *)
Usable(p, e) == Provenance(p, e) /\ lib[p].selftest

(* _candidate_paths: CRYPTO_CCORE first, then beside the package, then ccore/. *)
Candidates(e) == {p \in Places : p = "manual" => e.manual}
Rank == [manual |-> 1, crypto |-> 2, ccore |-> 3]
Found(e) == {p \in Candidates(e) : lib[p] # None /\ Usable(p, e)}
First(places) == CHOOSE p \in places : \A q \in places : Rank[p] <= Rank[q]

(* load: the first candidate that exists and is usable, else no core.          *)
Loaded(e) == IF e.pure \/ Found(e) = {}
               THEN NoCore
               ELSE [lib |-> lib[First(Found(e))], path |-> First(Found(e))]

---------------------------------------------------------------------------------
(* build.py.                                                                   *)

(* The builds under way; whoever changes what they work on disturbs the others.*)
Running == {b \in Builds : pc[b] \notin {"ready", "done"}}
Disturb(but) == disturbed' = disturbed \cup (Running \ but)

Goes(b, to)   == pc' = [pc EXCEPT ![b] = to]
Ends(b, code) == pc' = [pc EXCEPT ![b] = "done"] /\ rc' = [rc EXCEPT ![b] = code]

(* main up to compile(), which reads the sources.                              *)
Start(b, e, x) ==
  /\ pc[b] = "ready"
  /\ \A f \in Files : source[f] # None
  /\ x.src = source
  /\ Goes(b, "link")
  /\ env' = [env EXCEPT ![b] = e]
  /\ built' = [built EXCEPT ![b] = x]
  /\ UNCHANGED <<fileVars, noted, rc, probed, loaded, outside, disturbed, astray>>

SourceMissing(b) ==
  /\ pc[b] = "ready"
  /\ \E f \in Files : source[f] = None
  /\ Ends(b, 1)
  /\ UNCHANGED <<fileVars, env, built, noted, probed, loaded, outside, disturbed, astray>>

(* The compiler writes the library in place.                                   *)
Link(b) ==
  /\ pc[b] = "link"
  /\ lib' = [lib EXCEPT !["crypto"] = built[b]]
  /\ Goes(b, "probe")
  /\ Disturb({b})
  /\ UNCHANGED <<source, manifest, doubtful, env, built, noted, rc, probed, loaded,
                 outside, astray>>

(* No compiler, or it fails.                                                   *)
CannotCompile(b) ==
  /\ pc[b] = "link"
  /\ Ends(b, 2)
  /\ UNCHANGED <<fileVars, env, built, noted, probed, loaded, outside, disturbed, astray>>

(* Mistake, for the runs: the probe is content when nothing could be loaded.   *)
ProbePassesPure(e) == Loaded(e).lib # None => Loaded(e).lib.cross

(* probe: fastpath.reload() in the build's own environment, then the cross,    *)
(* commutativity and memory checks on whatever library that loaded.            *)
ProbePasses(e) == Loaded(e).lib # None /\ Loaded(e).lib.cross

Probe(b) ==
  /\ pc[b] = "probe"
  /\ IF ProbePasses(env[b])
       THEN /\ Goes(b, "digest")
            /\ probed' = probed \cup ({Loaded(env[b]).lib} \ {None})
            /\ astray' = IF Loaded(env[b]).path \in {"crypto", None} THEN astray
                                                                   ELSE astray \cup {b}
       ELSE Goes(b, "delete") /\ UNCHANGED <<probed, astray>>
  /\ UNCHANGED <<fileVars, env, built, noted, rc, loaded, outside, disturbed>>

(* A gate failed: the library is deleted; an older manifest stays behind.      *)
Delete(b) ==
  /\ pc[b] = "delete"
  /\ lib' = [lib EXCEPT !["crypto"] = None]
  /\ Ends(b, 3)
  /\ Disturb({b})
  /\ UNCHANGED <<source, manifest, doubtful, env, built, noted, probed, loaded, outside,
                 astray>>

(* Mistake, for the runs: a library that is gone has a digest.                 *)
TakeDigestsOfNothing(b) ==
  /\ pc[b] = "digest"
  /\ noted' = [noted EXCEPT ![b] = [library |-> lib["crypto"], src |-> source]]
  /\ Goes(b, "write")
  /\ UNCHANGED <<fileVars, env, built, rc, probed, loaded, outside, disturbed, astray>>

(* The digests of the library and of the sources, as they are now.             *)
TakeDigests(b) ==
  /\ pc[b] = "digest"
  /\ lib["crypto"] # None /\ \A f \in Files : source[f] # None
  /\ noted' = [noted EXCEPT ![b] = [library |-> lib["crypto"], src |-> source]]
  /\ Goes(b, "write")
  /\ UNCHANGED <<fileVars, env, built, rc, probed, loaded, outside, disturbed, astray>>

WriteManifest(b) ==
  /\ pc[b] = "write"
  /\ manifest' = [manifest EXCEPT !["crypto"] = noted[b]]
  /\ doubtful' = [doubtful EXCEPT !["crypto"] = b \in disturbed \cup astray]
  /\ Ends(b, 0)
  /\ Disturb({b})
  /\ UNCHANGED <<source, lib, env, built, noted, probed, loaded, outside, astray>>

(* The build is interrupted, or an exception ends it: out of probe(), or since *)
(* a file to take the digest of is gone.                                       *)
Interrupted(b) ==
  /\ b \in Running
  /\ Ends(b, None)
  /\ UNCHANGED <<fileVars, env, built, noted, probed, loaded, outside, disturbed, astray>>

---------------------------------------------------------------------------------
(* Around it, at any time.                                                     *)

Outside == outside < MaxOutside /\ outside' = outside + 1

(* A source is edited, removed or restored.                                    *)
EditSource(t) ==
  /\ Outside
  /\ t # source /\ source' = t
  /\ Disturb({})
  /\ UNCHANGED <<lib, manifest, doubtful, ownVars, probed, loaded>>

(* What happens to the library of a place disturbs builds only in theirs.      *)
DisturbAt(p) == IF p = "crypto" THEN Disturb({}) ELSE UNCHANGED disturbed

(* A library from another machine is copied to a place, without a manifest, or *)
(* the one there is removed.                                                   *)
CopyLibrary(p, x) ==
  /\ Outside
  /\ lib' = [lib EXCEPT ![p] = x]
  /\ DisturbAt(p)
  /\ UNCHANGED <<source, manifest, doubtful, ownVars, probed, loaded>>

(* A library and its manifest are copied together.                             *)
CopyInstalled(p, q) ==
  /\ Outside
  /\ lib' = [lib EXCEPT ![q] = lib[p]]
  /\ manifest' = [manifest EXCEPT ![q] = manifest[p]]
  /\ doubtful' = [doubtful EXCEPT ![q] = doubtful[p]]
  /\ DisturbAt(q)
  /\ UNCHANGED <<source, ownVars, probed, loaded>>

(* c_coverage.py: prepare() puts an instrumented library with a manifest into  *)
(* the directory it then gives its tests as CRYPTO_CCORE.                      *)
CoverageLibrary(x) ==
  /\ Outside
  /\ "manual" \in Places /\ x.src = source
  /\ lib' = [lib EXCEPT !["manual"] = x]
  /\ manifest' = [manifest EXCEPT !["manual"] = [library |-> x, src |-> source]]
  /\ doubtful' = [doubtful EXCEPT !["manual"] = TRUE]
  /\ UNCHANGED <<source, ownVars, probed, loaded, disturbed>>

(* A process starts, with the manifest check in force.                         *)
StartProcess(manual) ==
  /\ loaded' = Loaded([Plain EXCEPT !.manual = manual])
  /\ UNCHANGED <<fileVars, ownVars, probed, outside, disturbed>>

BuildStep(b) == \/ \E e \in BuildEnvs, x \in Binaries : Start(b, e, x)
                \/ SourceMissing(b)
                \/ Link(b)
                \/ CannotCompile(b)
                \/ Probe(b)
                \/ Delete(b)
                \/ TakeDigests(b)
                \/ WriteManifest(b)
                \/ Interrupted(b)

BuildNext == \/ \E b \in Builds : BuildStep(b)
             \/ \E t \in Trees : EditSource(t)
             \/ \E p \in Places, x \in Binaries \cup {None} : CopyLibrary(p, x)
             \/ \E p, q \in Places : CopyInstalled(p, q)
             \/ \E x \in Binaries : CoverageLibrary(x)
             \/ \E manual \in BOOLEAN : StartProcess(manual)

BuildSpec == BuildInit /\ [][BuildNext]_buildVars

---------------------------------------------------------------------------------
Manifests == [library : Binaries, src : Whole]

(* Type invariant of the files, the builds and the user process; a build that  *)
(* is past its start has a binary, and one that is about to write has digests. *)
BuildTypeOK ==
  /\ source \in Trees
  /\ lib \in [Places -> Binaries \cup {None}]
  /\ manifest \in [Places -> Manifests \cup {None}]
  /\ doubtful \in [Places -> BOOLEAN]
  /\ pc \in [Builds -> {"ready", "link", "probe", "delete", "digest", "write", "done"}]
  /\ env \in [Builds -> Envs]
  /\ built \in [Builds -> Binaries \cup {None}]
  /\ noted \in [Builds -> Manifests \cup {None}]
  /\ \A b \in Running : built[b] # None /\ (pc[b] = "write" => noted[b] # None)
  /\ rc \in [Builds -> Codes]
  /\ loaded \in [lib : Binaries \cup {None}, path : Places \cup {None}]
  /\ outside \in 0..MaxOutside
  /\ probed \subseteq Binaries /\ disturbed \subseteq Builds /\ astray \subseteq Builds

(* A process that checks manifests only ever starts with a core that passed    *)
(* all gates of some build, and never with one older than the sources that are *)
(* there, although builds are interrupted half way, libraries and manifests    *)
(* are copied about and an old manifest stays after a failed build.  The       *)
(* exceptions are named: a manifest written by a build beside which somebody   *)
(* changed the sources or the library, since its digests are taken after the   *)
(* probe; by one whose probe tried the library of CRYPTO_CCORE or of ccore/    *)
(* instead of its own; and by c_coverage.py, which probes nothing.             *)
LoadedCoreIsSound ==
  [][loaded' # loaded /\ loaded'.lib # None =>
       \/ doubtful[loaded'.path]
       \/ loaded'.lib \in probed /\ Matches(loaded'.lib.src)]_buildVars

(* A build that was alone with the files and whose probe found its own library *)
(* leaves, when it ends with 0, just that library, probed, and with a manifest *)
(* by which the next process loads it; with 3 it leaves no library.            *)
BuildEndsClean ==
  [][\A b \in Builds : pc[b] # "done" /\ pc'[b] = "done" =>
       /\ rc'[b] = 3 => lib'["crypto"] = None
       /\ rc'[b] = 0 /\ b \notin disturbed \cup astray =>
            /\ built[b] \in probed
            /\ Loaded(Plain)' = [lib |-> built[b], path |-> "crypto"]]_buildVars

(* The library just built is deleted only when it failed a check, its own self *)
(* test or the probe's, or somebody else changed the files.                    *)
DeletedOnlyIfBad ==
  \A b \in Builds : pc[b] = "delete" /\ b \notin disturbed =>
    ~(built[b].selftest /\ built[b].cross)
=================================================================================
