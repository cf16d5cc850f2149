----------------------------- MODULE MCConpool -----------------------------
(* Instances of Conpool for TLC.                                              *)
EXTENDS Conpool, TLC

CONSTANTS f1, f2, f3

TwoFibers == {f1, f2}
ThreeFibers == {f1, f2, f3}
OneFiber == {f1}

NoFaults == {}
StaleAndCancel == {"protocol", "lifetime", "cancel"}
AllButProtocol == {"idle", "connect", "cancel", "clear", "shutdown"}

FiberSymmetry == Permutations(Fibers)
=============================================================================
