------------------------------- MODULE Filters -------------------------------
(* The criteria of queries (Filter in ngoschema/query.py): whether an object *)
(* meets them, and what testing it leaves of them. A value is                *)
(*   [kind |-> "none"], [kind |-> "num", n], [kind |-> "bool", b],           *)
(*   [kind |-> "str", word, size], [kind |-> "seq", items] or                *)
(*   [kind |-> "map", val]                                                   *)
(* A filter has tests, pairs of a path and a value, paths that must lead to  *)
(* something (attrs), and says whether one of all of them is enough (any). A *)
(* path is the sequence of what its underscores separate. Texts are not      *)
(* ordered, and no character of a text is asked for.                         *)
EXTENDS Integers, FiniteSets, SequencesExt

CONSTANTS
    Indices,        \* the operators that index, as functions to positions
    Matching        \* the triples of an operator on texts and two words it finds true

Nothing == [kind |-> "none"]
Failure == [kind |-> "raise"]
Number(n) == [kind |-> "num", n |-> n]
Truth(b)  == [kind |-> "bool", b |-> b]
List(s)   == [kind |-> "seq", items |-> s]
Map(f)    == [kind |-> "map", val |-> f]

IsTrue(v) == CASE v.kind = "none" -> FALSE
               [] v.kind = "num"  -> v.n # 0
               [] v.kind = "bool" -> v.b
               [] v.kind = "str"  -> v.size # 0
               [] v.kind = "seq"  -> v.items # << >>
               [] v.kind = "map"  -> DOMAIN v.val # {}

TextOperators == {"startswith", "endswith", "ieq", "istartswith", "iendswith", "icontains", "regex"}
Operators == TextOperators \cup DOMAIN Indices \cup
             {"lt", "le", "eq", "ne", "neq", "ge", "gt", "not", "contains", "in", "size", "intersects"}

\* _sort_criteria and Filter.__init__: the last parts of a path that are
\* operators are applied to what the rest of it leads to, and the first "not"
\* among them is taken out.
Sorted(test) ==
    LET path  == test.path
        last  == CHOOSE n \in 0 .. Len(path) :
                     /\ n = 0 \/ path[n] \notin Operators
                     /\ \A m \in n + 1 .. Len(path) : path[m] \in Operators
        found == SubSeq(path, last + 1, Len(path))
    IN  [ks |-> SubSeq(path, 1, last), ops |-> RemoveFirst(found, "not"),
         negate |-> Contains(found, "not"), want |-> test.want]

Child(v, k) == IF v.kind = "map" /\ k \in DOMAIN v.val THEN v.val[k] ELSE Nothing

\* get_descendant: no further than a value that is false. The path has a key: a
\* criterion made of operators only raises IndexError (utils.py:667).
Descendant(v, ks) == FoldLeft(LAMBDA at, k : IF IsTrue(at) THEN Child(at, k) ELSE at, v, ks)

Compared(op, m, n) ==
    CASE op = "lt" -> m < n [] op = "le" -> m <= n [] op = "ge" -> m >= n [] op = "gt" -> m > n

Size(v) == CASE v.kind = "seq" -> Number(Len(v.items))
             [] v.kind = "map" -> Number(Cardinality(DOMAIN v.val))
             [] v.kind = "str" -> Number(v.size)
             [] OTHER          -> Failure

Within(v, w) == CASE w.kind = "seq" -> Truth(v \in ToSet(w.items))
                  [] w.kind = "map" -> Truth(v.kind = "str" /\ v.word \in DOMAIN w.val)
                  [] w.kind = "str" /\ v.kind = "str" -> Truth(<<"in", v.word, w.word>> \in Matching)
                  [] OTHER          -> Failure

Item(v, i) == LET n == IF i < 0 THEN Len(v.items) + i + 1 ELSE i + 1
              IN  IF v.kind = "seq" /\ n \in DOMAIN v.items THEN v.items[n] ELSE Failure

\* _apply_op: what an operator makes of a value and of the value of the criterion
ApplyOp(op, a, b) ==
    CASE op \in TextOperators ->
             IF a.kind = "str" /\ b.kind = "str" THEN Truth(<<op, a.word, b.word>> \in Matching) ELSE Failure
      [] op = "eq"           -> Truth(a = b)
      [] op \in {"ne", "neq"} -> Truth(a # b)
      [] op \in {"lt", "le", "ge", "gt"} ->
             IF a.kind = "num" /\ b.kind = "num" THEN Truth(Compared(op, a.n, b.n)) ELSE Failure
      [] op = "size"         -> Size(a)
      [] op \in DOMAIN Indices -> Item(a, Indices[op])
      [] op = "in"           -> Within(a, b)
      [] op = "contains"     -> Within(b, a)
      [] op = "intersects"   ->
             IF a.kind = "seq" /\ b.kind = "seq" THEN List(SelectSeq(a.items, LAMBDA x : x \in ToSet(b.items)))
             ELSE Failure
      [] OTHER               -> Nothing

\* _apply_ops_test: each operator on what the one before it made
ApplyOps(ops, negate, a, b) ==
    LET made == FoldLeft(LAMBDA v, op : IF v = Failure THEN v ELSE ApplyOp(op, v, b), a, ops)
    IN  IF made = Failure THEN made ELSE Truth(IsTrue(made) # negate)

\* What a criterion becomes when n of its operators are moved to the path.
MovedBy(c, n) == [c EXCEPT !.ks = @ \o SubSeq(c.ops, 1, n), !.ops = SubSeq(@, n + 1, Len(@))]

\* An operator may be the name of a child of the mapping that was found. The
\* first operator is then moved to the path, for this object and those tested
\* later, and the loop over the operators goes on at the next place of the
\* list, which is shorter: the names it tries are every other one.
EveryOther(ops, n) == [i \in 1 .. n |-> ops[2 * i - 1]]
HasChildren(o, ops, n) == 2 * n <= Len(ops) + 1 /\ IsTrue(Descendant(o, EveryOther(ops, n)))
Moved(c, o) ==
    LET n == Max({m \in 0 .. Len(c.ops) : m = 0 \/ HasChildren(o, c.ops, m)})
    IN  [c |-> MovedBy(c, n), o |-> Descendant(o, EveryOther(c.ops, n)), missed |-> 2 * n < Len(c.ops)]

Joined(any, b1, b2) == IF any THEN b1 \/ b2 ELSE b1 /\ b2

Reached(c, found) ==
    IF found.kind = "map" THEN Moved(c, found) ELSE [c |-> c, o |-> found, missed |-> FALSE]
Applied(c, o) == ApplyOps(IF c.ops = << >> THEN <<"eq">> ELSE c.ops, c.negate, o, c.want)

\* The verdict after one more criterion, and what it is from then on.
Judged(any, st, n, at, made) ==
    IF made = Failure THEN [st EXCEPT !.tests[n] = at.c, !.raised = TRUE, !.stop = TRUE]
    ELSE [st EXCEPT !.tests[n] = at.c, !.test = Joined(any, @ /\ ~at.missed, IsTrue(made)),
                    !.stop = IF any THEN IsTrue(made) ELSE ~(@ /\ ~at.missed /\ IsTrue(made))]
Tried(any, st, n, at) == Judged(any, st, n, at, Applied(at.c, at.o))

\* The loop over the criteria, one at a time: st.test is the verdict so far.
TestNext(any, v, st, n) ==
    LET found == Descendant(v, st.tests[n].ks)
    IN  CASE st.stop          -> st
          [] found = Nothing  -> [st EXCEPT !.test = FALSE, !.stop = TRUE]
          [] OTHER            -> Tried(any, st, n, Reached(st.tests[n], found))

\* The attributes are asked for after the criteria.
WithAttributes(filter, v, st) ==
    LET Has(b, path) == IF filter.any = b THEN b ELSE Joined(filter.any, b, Descendant(v, path) # Nothing)
    IN  [tests |-> st.tests, raised |-> st.raised, test |-> FoldLeft(Has, st.test, filter.attrs)]

\* Filter.__call__ of an object, with the criteria as they are: whether they
\* are met, or it raised, and the criteria it leaves.
Called(filter, tests, v) ==
    LET judged[n \in 0 .. Len(tests)] ==
            IF n = 0 THEN [tests |-> tests, test |-> ~filter.any, stop |-> FALSE, raised |-> FALSE]
                     ELSE TestNext(filter.any, v, judged[n - 1], n)
    IN  WithAttributes(filter, v, judged[Len(tests)])

\* The criteria of a filter that has tested nothing.
Fresh(filter) == [n \in DOMAIN filter.tests |-> Sorted(filter.tests[n])]

\* What a criterion may have become: some of its operators are in the path.
Forms(c) == {MovedBy(c, n) : n \in 0 .. Len(c.ops)}

Readings(filter) ==
    LET fresh == Fresh(filter)
    IN  {tests \in [DOMAIN fresh -> UNION {Forms(fresh[n]) : n \in DOMAIN fresh}] :
             \A n \in DOMAIN fresh : tests[n] \in Forms(fresh[n])}
==============================================================================
