------------------------------ MODULE MCLifecycle ------------------------------
(* An instance of PollingLifecycle for TLC.                                   *)
EXTENDS LifecycleInvariant
CONSTANTS caller, b1, b2

OneCaller == {caller}
TwoLoops == {b1, b2}
==============================================================================
