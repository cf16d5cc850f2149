------------------------------ MODULE MCH2Pool ------------------------------
(* Instances of H2Pool for TLC.                                               *)
EXTENDS H2Pool

CONSTANTS r1, r2

TwoRequests == {r1, r2}

OneOrTwo == {1, 2}
AllFaults == FaultKinds
OnlyReset == {"reset"}
=============================================================================
