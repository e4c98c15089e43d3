------------------------- MODULE MCEvidenceBrowser --------------------------
(* Constants of the run of EvidenceBrowser: two packages, and a second       *)
(* capture in the directory of the first.                                    *)
EXTENDS EvidenceBrowser, TLC

CONSTANTS p1, p2, c1, c2, c3, q1, q2

MCPackage == {p1, p2}

MCNameRank == (p1 :> 1) @@ (p2 :> 2)

MCCapture == {c1, c2, c3}

MCPackageOf == (c1 :> p1) @@ (c2 :> p2) @@ (c3 :> p1)

MCRequest == {q1, q2}

\* The list beside captures that meet, and beside a reset; two requests of the
\* panel beside captures; and one beside captures that meet and a reset.
MCScope == {
    [captures |-> MCCapture, requests |-> 0, resets |-> 0],
    [captures |-> {c1, c2},  requests |-> 0, resets |-> 1],
    [captures |-> {c1, c2},  requests |-> 2, resets |-> 0],
    [captures |-> {c1, c3},  requests |-> 1, resets |-> 1]}

Symmetry == Permutations(MCRequest)
=============================================================================
