------------------------------ MODULE MCCoreBuild -------------------------------
(* Two sources, one of which may be edited and either of which may be missing; *)
(* compilers that make a good binary of both states, and bad ones of the first *)
(* that fail the loader's self tests or the probe's checks.                    *)
EXTENDS CoreBuild, TLC

MCFiles    == {"curve", "safe"}
MCVersions == {0, 1}
Tree(c, s) == [f \in MCFiles |-> IF f = "curve" THEN c ELSE s]
MCTrees    == {Tree(0, 0), Tree(1, 0), Tree(None, 0), Tree(1, None)}

Binary(c, t, x) == [src |-> Tree(c, 0), selftest |-> t, cross |-> x]
MCBinaries == {Binary(0, TRUE, TRUE), Binary(1, TRUE, TRUE),
               Binary(0, FALSE, TRUE), Binary(0, TRUE, FALSE)}

MCPlaces == {"manual", "crypto", "ccore"}
MCPure      == [Plain EXCEPT !.pure = TRUE]
MCManual    == [Plain EXCEPT !.manual = TRUE]
MCAllEnvs   == {Plain, MCPure, MCManual, [Plain EXCEPT !.unverified = TRUE]}
MCPlainEnvs == {Plain}
MCSymmetry  == Permutations(Builds)
=================================================================================
