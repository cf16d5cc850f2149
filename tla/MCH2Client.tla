----------------------------- MODULE MCH2Client -----------------------------
(* Instances of H2Client for TLC.                                             *)
EXTENDS H2Client, TLC

CONSTANTS r1, r2

TwoRequests == {r1, r2}

\* r1 sends a body of two bytes, r2 has none, or one of one byte.
BodyAndNone == r1 :> 2 @@ r2 :> NoBody
BothBodies == r1 :> 2 @@ r2 :> 1

NoFaults == {}
Breakdown == {"cancel", "early", "eof", "deaf", "bad"}
BadAnswers == {"info", "rst", "trailers", "goaway", "hpack"}
NoSettings == {}
ShrinkGrow == {0, 2}
=============================================================================
