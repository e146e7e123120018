---------------------------- MODULE MCQueryChain ----------------------------
(***************************************************************************)
(* Three equal objects, one of which cannot be hashed, one whose child has *)
(* no size, one whose child is a mapping with a key named like an          *)
(* operator, and one that is false; a filter the equal objects meet, and   *)
(* one that raises or moves its operator, according to the object.         *)
(***************************************************************************)
EXTENDS QueryChain

Two == List(<<Number(1), Number(2)>>)

MCObj == {"o1", "o2", "o3", "o4", "dict", "empty"}
MCHashable == {"o1", "o2", "o4"}
MCValue ==
    [o \in MCObj |->
        CASE o \in {"o1", "o2", "dict"} -> Map([k |-> Two])
          [] o = "o3"           -> Map([k |-> Number(5)])
          [] o = "o4"           -> Map([k |-> Map([size |-> Number(2)])])
          [] o = "empty"        -> Map(<< >>)]
MCCriteria ==
    [same  |-> [tests |-> <<[path |-> <<"k">>, want |-> Two]>>, attrs |-> <<>>, any |-> FALSE],
     typed |-> [tests |-> <<[path |-> <<"k", "size", "ge">>, want |-> Number(2)]>>, attrs |-> <<<<"k">>>>, any |-> FALSE]]
MCIndices == [i \in {"@0", "@1"} |-> IF i = "@0" THEN 0 ELSE 1]
MCBaseLists == {<<"o1", "o3">>, <<"o2", "dict">>, <<"o4", "empty", "o2">>}
MCFlags == {[distinct |-> FALSE, order |-> FALSE, reverse |-> r] : r \in BOOLEAN}
MCRefinements == {[f |-> "same", negate |-> TRUE, distinct |-> FALSE],
                  [f |-> "typed", negate |-> FALSE, distinct |-> TRUE]}
=============================================================================
