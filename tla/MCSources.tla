------------------------------ MODULE MCSources ------------------------------
(* A small instance of Sources.                                             *)
EXTENDS Sources, TLC

CONSTANTS loop, api, hub, lab, tea, qa, qb, ra, rb, rc, pa, pb, pc1, pd

MCType == (hub :> "github") @@ (lab :> "gitlab") @@ (tea :> "forgejo")

\* Two repositories listed in pages of one: of a GitHub organization asked by
\* runs that overlap; of a GitLab group, with a Forgejo beside it, asked by one
\* run after another.
MCForgeOf == [r \in {qa, qb} |-> hub] @@ [r \in {ra, rb} |-> lab] @@ (rc :> tea)
MCSetups == {[forges |-> {hub}, runs |-> {loop, api}, faults |-> 0, restarts |-> 0],
             [forges |-> {lab, tea}, runs |-> {loop}, faults |-> 1, restarts |-> 1]}

\* Two repositories of one path on two forges, one whose path ends in it, and
\* one on a forge of the third kind.
MCHost == (pa :> hub) @@ (pb :> lab) @@ (pc1 :> lab) @@ (pd :> tea)
MCPath == (pa :> <<"g", "r">>) @@ (pb :> <<"g", "r">>) @@ (pc1 :> <<"o", "g", "r">>) @@ (pd :> <<"o", "s">>)

\* c1 - c2 - c3, and c4 that replaces c2 and c3.
MCParent == ("c1" :> None) @@ ("c2" :> "c1") @@ ("c3" :> "c2") @@ ("c4" :> "c1")

=============================================================================
