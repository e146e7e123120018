--------------------------- MODULE MCInstanceTree ----------------------------
(* Instances of InstanceTree for TLC: three instances, or two and an object   *)
(* without a name between them.                                               *)
EXTENDS InstanceTree, TLC
CONSTANTS a, b, c, n1, n2, s1
MCObjs == {a, b, c}
MCInstances == {a, b}
MCLazyArrays == {a, b}
MCNames == {n1, n2}
MCSessions == {s1}
MCSymmetry == Permutations(MCNames) \cup Permutations(MCInstances)
=============================================================================
