------------------------------ MODULE MCCache ------------------------------
(* Instances of Cache for TLC.                                                *)
EXTENDS Cache, TLC

CONSTANTS u1, u2, a, x, y

TwoUrls == {u1, u2}
OnlyGet == {"GET"}
OneName == {a}
TwoValues == {x, y, Empty}

Symmetry == Permutations(Urls) \cup Permutations({x, y})
=============================================================================
