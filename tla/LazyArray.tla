------------------------------ MODULE LazyArray ------------------------------
(* An array built from a schema (ArrayProtocol): the items as they were      *)
(* given, the items as they were evaluated, and the inputs of each item, in  *)
(* three lists that every operation of a mutable sequence must keep in step. *)
EXTENDS Integers, Sequences, SequencesExt

CONSTANTS
  Raw,        \* what may be written in the array, None included
  Eval,       \* what the items' type makes of it, or Bad when it raises
  Kept,       \* expressions and patterns: they stay in the data when evaluated
  Bad, None,
  MinItems,   \* a shorter array is completed with None
  MaxLen      \* bound: the longest array

ASSUME LazyArrayAssumption ==
  /\ None \in Raw /\ Bad \notin Raw /\ Kept \subseteq Raw
  /\ Eval \in [Raw -> Raw \cup {Bad}]
  /\ \A v \in Raw : Eval[v] # Bad => Eval[Eval[v]] = Eval[v]
  /\ Eval[None] = None
  /\ MaxLen \in Nat /\ MinItems \in 0..MaxLen

VARIABLES
  lazy,       \* _lazyLoading
  arr,        \* the three lists: data, cache (_dataValidated), inputs
  raised      \* whether the last operation raised

vars == <<lazy, arr, raised>>

Size(a) == Len(a.data)
Blank(n) == [i \in 1..n |-> None]

\* The types, and the three lists in step: one entry per item, also after a
\* call that raised half way.
TypeOK ==
  /\ lazy \in BOOLEAN /\ raised \in BOOLEAN
  /\ arr.data \in Seq(Raw) /\ arr.cache \in Seq(Raw) /\ arr.inputs \in Seq({None})
  /\ Len(arr.cache) = Len(arr.data) /\ Len(arr.inputs) = Len(arr.data)

-----------------------------------------------------------------------------
(* The steps of an operation take the lists and what became of the call so   *)
(* far; a call that raised leaves the lists as they were at that point.      *)

Fail(a) == [a EXCEPT !.failed = TRUE]
Then(a, Op(_)) == IF a.failed THEN a ELSE Op(a)
Loop(a, n, Step(_, _)) ==
  LET run[k \in 0..n] == IF k = 0 THEN a
                         ELSE IF run[k - 1].failed THEN run[k - 1] ELSE Step(run[k - 1], k)
  IN run[n]

\* _set_dataValidated
SetDataValidated(a, i, v) ==
  [a EXCEPT !.data[i] = IF @ \in Kept THEN @ ELSE v, !.cache[i] = v]

\* _items_inputs_evaluate finds nothing to read by name in an array.
ItemsEvaluate(a, i) ==
  IF Eval[a.data[i]] = Bad THEN Fail(a)
  ELSE SetDataValidated([a EXCEPT !.inputs[i] = None], i, Eval[a.data[i]])

GetItem(a, i) == IF a.cache[i] = None THEN ItemsEvaluate(a, i) ELSE a

\* Mutant: the item is only evaluated when it is first read, lazy or not.
SetItemLater(a, i, v) == [a EXCEPT !.data[i] = v]

SetItem(a, i, v) ==
  LET b == [a EXCEPT !.data[i] = v] IN IF lazy THEN b ELSE ItemsEvaluate(b, i)

DelItem(a, i) ==
  [a EXCEPT !.data = RemoveAt(@, i), !.cache = RemoveAt(@, i),
            !.inputs = RemoveAt(@, i)]

\* An index of the language, from -n to n - 1, is a place from 1 to n.
Place(a, at) == IF at < 0 THEN Size(a) + at + 1 ELSE at + 1
\* list.insert takes any index.
Clamped(a, at) ==
  LET p == Place(a, at)
  IN IF p < 1 THEN 1 ELSE IF p > Size(a) + 1 THEN Size(a) + 1 ELSE p

\* The check of the item that follows (array_protocol.py:84), like that of the
\* array after a deletion, finds nothing in an array of any length and type: its
\* lengths and items are excluded from the check, and no validator is registered
\* for types. Arrays whose schema has other keywords (enum, contains, not), which
\* may raise here when the lists have already grown, are left out.
\* The item is put in the three lists at the index, which list.insert clamps,
\* and then looked up at the same index, which is checked: it may be another
\* item when it is negative, and none when it is beyond the end.
Insert(a, at, v) ==
  LET p == Clamped(a, at)
      b == [a EXCEPT !.data = InsertAt(@, p, v), !.cache = InsertAt(@, p, None),
                     !.inputs = InsertAt(@, p, None)]
  IN IF lazy THEN b
     ELSE IF Place(b, at) \in 1..Size(b) THEN ItemsEvaluate(b, Place(b, at))
     ELSE Fail(b)

\* The operations that MutableSequence makes of those.
Append1(a, v) == Insert(a, Size(a), v)
Extend(a, vs) == Loop(a, Len(vs), LAMBDA b, k : Append1(b, vs[k]))
Pop(a, i) == Then(GetItem(a, i), LAMBDA b : DelItem(b, i))

\* index() reads the items in order until it finds the value.
Look(a, i, v) ==
  IF a.found > 0 THEN a
  ELSE LET b == GetItem(a, i)
       IN IF ~b.failed /\ b.cache[i] = v THEN [b EXCEPT !.found = i] ELSE b
RemoveItem(a, v) ==
  Then(Loop(a, Size(a), LAMBDA b, i : Look(b, i, v)),
       LAMBDA b : IF b.found = 0 THEN Fail(b) ELSE DelItem(b, b.found))

\* Mutant: the second item is read after the first was written.
SwapInTurn(a, i) ==
  LET j == Size(a) - i + 1
  IN Then(GetItem(a, j), LAMBDA b :
     Then(SetItem(b, i, b.cache[j]), LAMBDA c :
     Then(GetItem(c, i), LAMBDA d : SetItem(d, j, d.cache[i]))))
\* self[i], self[n-i-1] = self[n-i-1], self[i]
Swap(a, i) ==
  LET j == Size(a) - i + 1
  IN Then(GetItem(a, j), LAMBDA b :
     Then(GetItem(b, i), LAMBDA c :
     Then(SetItem(c, i, c.cache[j]), LAMBDA d : SetItem(d, j, c.cache[i]))))
Reverse1(a) == Loop(a, Size(a) \div 2, Swap)

Clear(a) == Loop(a, Size(a), LAMBDA b, k : Pop(b, Size(b)))

-----------------------------------------------------------------------------
Start == [data |-> arr.data, cache |-> arr.cache, inputs |-> arr.inputs,
          failed |-> FALSE, found |-> 0]

Becomes(a) ==
  /\ arr' = [data |-> a.data, cache |-> a.cache, inputs |-> a.inputs]
  /\ raised' = a.failed
  /\ UNCHANGED lazy

Padded(given) ==
  given \o Blank(IF Len(given) < MinItems THEN MinItems - Len(given) ELSE 0)
Built(data) == [data |-> data, cache |-> Blank(Len(data)),
                inputs |-> Blank(Len(data)), failed |-> FALSE, found |-> 0]
Loaded(data) == Loop(Built(data), Len(data), GetItem)

\* Building an array that is not lazy evaluates all its items; it must not
\* raise for the array to be there.
Init ==
  /\ lazy \in BOOLEAN /\ raised = FALSE
  /\ \E given \in SeqOf(Raw, MaxLen - 1) :
       LET a == IF lazy THEN Built(Padded(given)) ELSE Loaded(Padded(given))
       IN /\ ~a.failed
          /\ arr = [data |-> a.data, cache |-> a.cache, inputs |-> a.inputs]

Next ==
  \/ \E i \in 1..Size(arr) :
       \/ Becomes(GetItem(Start, i))
       \/ Becomes(DelItem(Start, i))
       \/ Becomes(Pop(Start, i))
       \/ \E v \in Raw : Becomes(SetItem(Start, i, v))
  \/ \E v \in Raw : Becomes(RemoveItem(Start, v))
  \/ Becomes(Reverse1(Start))
  \/ Becomes(Clear(Start))
  \/ \E at \in -2..(Size(arr) + 1), v \in Raw :
       Size(arr) < MaxLen /\ Becomes(Insert(Start, at, v))
  \/ \E vs \in SeqOf(Raw, MaxLen - Size(arr)) : Becomes(Extend(Start, vs))

Spec == Init /\ [][Next]_vars

-----------------------------------------------------------------------------
(* Properties                                                                *)

\* In an array that is not lazy, an item that is read is what its data
\* evaluate to, whatever was inserted, moved or refused before; where the
\* data were refused, the item is the one from before the write.
EagerItemsAreFresh ==
  ~lazy => \A i \in 1..Size(arr) :
    arr.cache[i] # None /\ Eval[arr.data[i]] # Bad => arr.cache[i] = Eval[arr.data[i]]

\* To a reader, an array that is not lazy and whose data can all be evaluated
\* is a list: each operation does to the items read what it does to a list,
\* however it is made of reads and writes of single items.
Items(a) == [i \in 1..Size(a) |-> Eval[a.data[i]]]
ActsAsAList ==
  ~lazy /\ (\A i \in 1..Size(arr) : Items(arr)[i] # Bad) =>
    /\ Items(Reverse1(Start)) = Reverse(Items(Start))
    /\ Items(Clear(Start)) = << >>
    /\ \A i \in 1..Size(arr) : Items(Pop(Start, i)) = RemoveAt(Items(Start), i)
    /\ \A v \in Raw :
         /\ \A at \in -2..Size(arr) :
              Items(Insert(Start, at, v)) = InsertAt(Items(Start), Clamped(Start, at), Eval[v])
         /\ LET r == RemoveItem(Start, v)
            IN IF r.failed THEN Items(r) = Items(Start) /\ v \notin Range(Items(Start))
               ELSE Items(r) = RemoveFirst(Items(Start), v)
=============================================================================
