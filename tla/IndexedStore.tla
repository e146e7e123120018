---------------------------- MODULE IndexedStore ----------------------------
(* What repositories promise: each is an index of values by key. A value put *)
(* under a key is the one found there until another one is put there, or a   *)
(* value that the place holds changes its own key behind the place's back,   *)
(* or the place is given two values of one key to begin with.                *)

CONSTANTS Places, Keys, Values, Missing

VARIABLES
  store,      \* the value under each key of a place, or Missing
  answer,     \* what the last lookup in a place found
  drifted     \* a value held there changed its key, or two were put there at
              \* once under one key: nothing is promised

storeVars == <<store, answer, drifted>>

Init ==
  /\ store = [p \in Places |-> [k \in Keys |-> Missing]]
  /\ answer = [p \in Places |-> Missing]
  /\ drifted = [p \in Places |-> FALSE]

Same(p) == store'[p] = store[p] /\ answer'[p] = answer[p] /\ ~drifted'[p]

Put(p, k, v) ==
  /\ store'[p] = [store[p] EXCEPT ![k] = v]
  /\ answer'[p] = answer[p] /\ ~drifted'[p]

Get(p, k) ==
  /\ answer'[p] = store[p][k]
  /\ store'[p] = store[p] /\ ~drifted'[p]

Drift(p) == drifted'[p]

Step(p) ==
  \/ Drift(p)
  \/ /\ ~drifted[p]
     /\ \/ Same(p)
        \/ \E k \in Keys : Get(p, k) \/ \E v \in Values : Put(p, k, v)

Next == \A p \in Places : Step(p)

Spec == Init /\ [][Next]_storeVars
=============================================================================
