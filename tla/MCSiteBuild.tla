---------------------------- MODULE MCSiteBuild ----------------------------
(* Small instances of SiteBuild; repositories are interchangeable.          *)
EXTENDS SiteBuild, TLC
CONSTANTS r1, r2, r3
TwoRepos == {r1, r2}
Symmetry == Permutations(Repos)
============================================================================
