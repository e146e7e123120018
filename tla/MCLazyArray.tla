---------------------------- MODULE MCLazyArray ----------------------------
(* Instances of LazyArray for TLC. *)
EXTENDS LazyArray
CONSTANTS one, two, textOne, expr, wrong
MCRaw == {one, two, textOne, expr, wrong, None}
MCEval == [v \in MCRaw |-> CASE v \in {textOne} -> one
                             [] v = expr -> two
                             [] v = wrong -> Bad
                             [] OTHER -> v]
MCKept == {expr}
=============================================================================
