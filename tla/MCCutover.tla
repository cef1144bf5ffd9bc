------------------------------ MODULE MCCutover ------------------------------
(* Instance of DatabaseCutover for TLC.                                       *)
EXTENDS CutoverInvariant, TLC
CONSTANTS t1, t2, w1, w2, w3, i1, i2

Schemas == {t1, t2}
SomeWrites == {w1, w2, w3}
SomeIds == {i1, i2}
Interchangeable == Permutations(Schemas) \cup Permutations(SomeWrites) \cup Permutations(SomeIds)
==============================================================================
