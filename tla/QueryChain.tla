------------------------------ MODULE QueryChain ------------------------------
(***************************************************************************)
(* Query objects (ngoschema/query.py) over one list of objects.            *)
(*                                                                         *)
(* A query holds an iterable and, once asked, a cache of its results.      *)
(* filter() and exclude() do not copy: the new query iterates a generator  *)
(* over the iterable of the query it refines, and that iterable may be a   *)
(* generator which other queries consume as well.  So the state is a small *)
(* heap: list objects, iterators (generators and reversed lists, which     *)
(* remember how far they are) and queries that refer to them.              *)
(*                                                                         *)
(* A call of the program runs to its end, one element of a loop at a time: *)
(* call.path is the chain of generators being resumed, the one the program *)
(* consumes first.                                                         *)
(***************************************************************************)
EXTENDS Filters

CONSTANTS
    Obj,            \* the objects queried
    Value,          \* what each of them holds, as a value of Filters
    Hashable,       \* those that can be hashed: no mapping of Python's own, and no
                    \* object of ngoschema, can
    Criteria,       \* the filters that are given to filter() and exclude()
    NoObj,          \* no object
    NoFilter,       \* no criteria
    BaseLists,      \* what the queried list may hold at first
    Added,          \* the objects a program adds to it, or looks for in results
    Refinements,    \* the arguments it gives to filter() and exclude()
    Flags,          \* the flags a program gives to Query()
    Probes,         \* the criteria it gives to next() and get()
    MaxQueries,     \* bound on the queries
    MaxMade,        \* bound on the queries there are when Query() is called again
    MaxProbed,      \* bound on the queries there are when next() or get() is called
    MaxBase         \* bound on the length of the queried list

ASSUME ObjAssumption ==
    /\ NoObj \notin Obj /\ NoFilter \notin DOMAIN Criteria
    /\ DOMAIN Value = Obj /\ Hashable \subseteq Obj
    /\ BaseLists \subseteq Seq(Obj) /\ Added \subseteq Obj /\ Probes \subseteq DOMAIN Criteria
    /\ Refinements \subseteq [f : DOMAIN Criteria, negate : BOOLEAN, distinct : BOOLEAN]
    /\ Flags \subseteq [distinct : BOOLEAN, order : BOOLEAN, reverse : BOOLEAN]
    /\ \A f \in DOMAIN Criteria : LET tests == Criteria[f].tests IN
           /\ Len(tests) \in Nat /\ DOMAIN tests = 1 .. Len(tests)
           /\ \A n \in DOMAIN tests : tests[n].path \in Seq(STRING)
    /\ MaxQueries \in Nat /\ MaxMade \in Nat /\ MaxProbed \in Nat /\ MaxBase \in Nat

VARIABLES
    lists,          \* the list objects; lists[1] is the one that is queried
    iters,          \* the iterators, those of filters and of reversed()
    queries,        \* the queries, in the order they were made
    call,           \* the call in progress
    answer          \* how the last call ended

vars == <<lists, iters, queries, call, answer>>

\* An object that is false, an empty one, is skipped by every filter; equal
\* objects hold the same.
Falsy == {o \in Obj : ~IsTrue(Value[o])}
EqualTo == [o \in Obj |-> {p \in Obj : Value[p] = Value[o]}]

\* Filter.__call__ of each object, for each way a filter may come to be read.
Readable == [f \in DOMAIN Criteria |-> Readings(Criteria[f])]
Outcomes == [f \in DOMAIN Criteria |->
                [tests \in Readable[f] |-> [o \in Obj |-> Called(Criteria[f], tests, Value[o])]]]

NoRef == [kind |-> "none", id |-> 0]
ListRef(n) == [kind |-> "list", id |-> n]
IterRef(n) == [kind |-> "iter", id |-> n]

NoCall == [op |-> "none", query |-> 0, got |-> <<>>, path |-> <<>>, obj |-> NoObj, wants |-> {}]

NoAnswer == [out |-> <<>>, raised |-> FALSE]

Idle == call = NoCall

\* The iterators that objects go through to come out of ref, kept with each
\* iterator.
ChainTo(ref) == IF ref.kind = "iter" THEN iters[ref.id].chain ELSE {}

\* An iterator about to be added to iters: what it goes through, where it is,
\* whether it has ended and, for the properties, the queries that were given
\* objects it yielded (0 for a call that took some and left the others).
NewIter(kind, src, pos) ==
    [kind |-> kind, src |-> src, pos |-> pos, f |-> NoFilter, tests |-> <<>>, negate |-> FALSE,
     distinct |-> FALSE, seen |-> {}, done |-> FALSE, takers |-> {},
     chain |-> ChainTo(src) \cup {Len(iters) + 1}]

\* Mutant: the generator takes an object when it is made.
GeneratorPrimed(src, f, negate, distinct) ==
    [NewIter("filter", src, 2) EXCEPT !.f = f, !.tests = Fresh(Criteria[f]), !.negate = negate, !.distinct = distinct]

\* Query._filter_or_exclude, not started yet; it has criteria of its own.
Generator(src, f, negate, distinct) ==
    [NewIter("filter", src, 1) EXCEPT !.f = f, !.tests = Fresh(Criteria[f]), !.negate = negate, !.distinct = distinct]

\* reversed() of a list of n elements
Backwards(ref, n) == NewIter("reversed", ref, n)

NewQuery(src, distinct, order, reverse) ==
    [src |-> src, distinct |-> distinct, order |-> order, reverse |-> reverse,
     cache |-> NoRef, pulled |-> <<>>]

Init ==
    /\ lists \in {<<b>> : b \in BaseLists}
    /\ iters = <<>>
    /\ queries = <<>>
    /\ call = NoCall
    /\ answer = NoAnswer

-----------------------------------------------------------------------------
(* Making queries: nothing is read yet *)

CanMake == Idle /\ Len(queries) < MaxQueries /\ answer' = NoAnswer

\* Query(content, ...), as Repository.query and Session.query make them.
Make(flags) ==
    /\ CanMake /\ Len(queries) <= MaxMade
    /\ queries' = Append(queries, NewQuery(ListRef(1), flags.distinct, flags.order, flags.reverse))
    /\ UNCHANGED <<lists, iters, call>>

\* filter() and exclude(); the flags given override those of the query only
\* when they are true.
Refine(q, r) ==
    LET from == queries[q]
        both == r.distinct \/ from.distinct
    IN  /\ CanMake
        /\ iters' = Append(iters, Generator(from.src, r.f, r.negate, both))
        /\ queries' = Append(queries, NewQuery(IterRef(Len(iters) + 1), both,
                                               from.order, from.reverse))
        /\ UNCHANGED <<lists, call>>

\* order_by()
OrderBy(q) ==
    /\ CanMake
    /\ queries' = Append(queries, NewQuery(queries[q].src, queries[q].distinct, TRUE, FALSE))
    /\ UNCHANGED <<lists, iters, call>>

\* The program adds an object to the list it queries.
AppendBase(o) ==
    /\ Idle /\ Len(lists[1]) < MaxBase
    /\ lists' = [lists EXCEPT ![1] = Append(@, o)]
    /\ answer' = NoAnswer
    /\ UNCHANGED <<iters, queries, call>>

-----------------------------------------------------------------------------
(* Calls that read *)

Begin(op, q, path) ==
    /\ Idle
    /\ call' = [NoCall EXCEPT !.op = op, !.query = q, !.path = path]
    /\ answer' = NoAnswer
    /\ UNCHANGED <<lists, queries>>

\* all(), and what every operation below begins with: self.result_cache.  An
\* operation on a query without a cache is all() and then the operation.
Ask(q) ==
    /\ queries[q].cache = NoRef
    /\ Begin("all", q, <<>>)
    /\ UNCHANGED iters

\* next() and get() consume the iterable through a generator of their own.
Probe(op, q, f) ==
    /\ Len(queries) <= MaxProbed
    /\ iters' = Append(iters, Generator(queries[q].src, f, FALSE, queries[q].distinct))
    /\ Begin(op, 0, <<Len(iters) + 1>>)

Answer(out, raised) == answer' = [out |-> out, raised |-> raised]

\* The call ends; the generator of next() or get() is dropped with it.
End(out, raised) == call' = NoCall /\ Answer(out, raised)

Kept(its) == IF call.op \in {"next", "get"} THEN Front(its) ELSE its

-----------------------------------------------------------------------------
(* Resuming generators *)

Pulling == call.path # <<>>
Top == iters[call.path[Len(call.path)]]

WithTop(it) == [iters EXCEPT ![call.path[Len(call.path)]] = it]

\* What is left of the list an iterator goes through.
Left(it) == IF it.kind = "reversed" THEN 1 .. it.pos ELSE it.pos .. Len(lists[it.src.id])

\* for obj in iterable, when the iterable is a generator still running.
Descend ==
    /\ Pulling /\ call.obj = NoObj /\ ~Top.done
    /\ Top.src.kind = "iter" /\ ~iters[Top.src.id].done
    /\ call' = [call EXCEPT !.path = Append(@, Top.src.id)]
    /\ UNCHANGED <<lists, iters, queries, answer>>

\* Mutant: the iterator of a list stays where it is.
AdvancedNot(it) == it

\* The iterator of a list is one element further.
Advanced(it) == [it EXCEPT !.pos = IF it.kind = "reversed" THEN @ - 1 ELSE @ + 1]

\* for obj in iterable, when the iterable is a list.
Fetch ==
    /\ Pulling /\ call.obj = NoObj /\ ~Top.done
    /\ Top.src.kind = "list" /\ Left(Top) # {}
    /\ call' = [call EXCEPT !.obj = lists[Top.src.id][Top.pos]]
    /\ iters' = WithTop(Advanced(Top))
    /\ UNCHANGED <<lists, queries, answer>>

Call(it, o) == Outcomes[it.f][it.tests][o]

\* Mutant: a false object is tested like the others.
PassesEmpty(it, o) == Call(it, o).test # it.negate

\* An object that is false is skipped, whatever the criteria.
Passes(it, o) == o \notin Falsy /\ Call(it, o).test # it.negate

Accepts(it, o) ==
    it.kind = "filter" => Passes(it, o) /\ (it.distinct => EqualTo[o] \cap it.seen = {})

\* A criterion may raise, and so does looking for an object that cannot be
\* hashed among those seen.
Raises(it, o) ==
    /\ it.kind = "filter" /\ o \notin Falsy
    /\ Call(it, o).raised \/ (Passes(it, o) /\ it.distinct /\ o \notin Hashable)

\* The criteria as testing an object leaves them.
Tested(it, o) == IF it.kind = "filter" /\ o \notin Falsy THEN [it EXCEPT !.tests = Call(it, o).tests] ELSE it

\* Mutant: a distinct generator remembers nothing.
SawNothing(it, o) == it

\* seen.add(comparable)
Saw(it, o) == IF it.distinct THEN [it EXCEPT !.seen = @ \cup {o}] ELSE it

Yielded(it, o) == [Saw(Tested(it, o), o) EXCEPT !.takers = @ \cup {call.query}]

\* The loop body skips the object.
Skip ==
    /\ Pulling /\ call.obj # NoObj
    /\ ~Accepts(Top, call.obj) /\ ~Raises(Top, call.obj)
    /\ call' = [call EXCEPT !.obj = NoObj]
    /\ iters' = WithTop(Tested(Top, call.obj))
    /\ UNCHANGED <<lists, queries, answer>>

\* The loop body yields the object to the generator that consumes it, or to
\* the call, which goes on unless it is next() or has found what it wants.
Yield ==
    /\ Pulling /\ call.obj # NoObj /\ Accepts(Top, call.obj) /\ ~Raises(Top, call.obj)
    /\ IF Len(call.path) > 1
       THEN /\ call' = [call EXCEPT !.path = Front(@)]
            /\ iters' = WithTop(Yielded(Top, call.obj))
            /\ UNCHANGED answer
       ELSE IF call.op = "next" \/ call.obj \in call.wants
       THEN /\ End(<<call.obj>>, FALSE)
            /\ iters' = Kept(WithTop(Yielded(Top, call.obj)))
       ELSE /\ call' = [call EXCEPT !.got = Append(@, call.obj), !.obj = NoObj]
            /\ iters' = WithTop(Yielded(Top, call.obj))
            /\ UNCHANGED answer
    /\ UNCHANGED <<lists, queries>>

\* An exception, or the end of what it iterates, finishes a generator and
\* those that consume it.
Finished(takers) ==
    [i \in DOMAIN iters |->
        IF i \in ToSet(call.path)
        THEN [iters[i] EXCEPT !.done = TRUE, !.takers = @ \cup takers]
        ELSE iters[i]]

\* A TypeError of Filter.__call__ or of hash(): the call ends with it.
Raise ==
    /\ Pulling /\ call.obj # NoObj /\ Raises(Top, call.obj)
    /\ iters' = Kept(Finished({0}))
    /\ End(<<>>, TRUE)
    /\ UNCHANGED <<lists, queries>>

Exhausted ==
    /\ Pulling /\ call.obj = NoObj
    /\ \/ Top.done
       \/ Top.src.kind = "list" /\ Left(Top) = {}
       \/ Top.src.kind = "iter" /\ iters[Top.src.id].done

-----------------------------------------------------------------------------
(* Results *)

\* Mutant: the cache is the list itself, not list(...) of it.
StoredShared(q, got) ==
    IF queries[q].src.kind = "list" THEN <<lists, queries[q].src>>
    ELSE <<Append(lists, got), ListRef(Len(lists) + 1)>>

\* list(self._iterable): the list objects then, and the new one.
Stored(q, got) == <<Append(lists, got), ListRef(Len(lists) + 1)>>

\* result_cache, once the iterable is consumed.  Sorting raises, as key is
\* given by position; the cache is left as it was, neither sorted nor reversed.
StoreResults(q, got, its) ==
    LET stored == Stored(q, got)
        turned == queries[q].reverse /\ ~queries[q].order
        ref == IF turned THEN IterRef(Len(its) + 1) ELSE stored[2]
    IN  /\ lists' = stored[1]
        /\ iters' = IF turned
                    THEN Append(its, Backwards(stored[2], Len(got)))
                    ELSE its
        /\ queries' = [queries EXCEPT ![q].cache = ref, ![q].pulled = got]
        /\ IF queries[q].order
           THEN End(<<>>, TRUE)
           ELSE /\ End(<<>>, FALSE)

\* result_cache, of a query that iterates a list or a generator.
ResultCache ==
    /\ call.op = "all" /\ ~Pulling
    /\ LET src == queries[call.query].src
       IN  IF src.kind = "list"
           THEN StoreResults(call.query, lists[src.id], iters)
           ELSE /\ call' = [call EXCEPT !.path = <<src.id>>]
                /\ UNCHANGED <<lists, iters, queries, answer>>

ResultsConsumed ==
    /\ Exhausted /\ call.op = "all"
    /\ StoreResults(call.query, call.got, Finished({}))

\* The end of next(), of get() and of the iteration of a reversed cache; in
\* has not found what it wants.
IterationEnds ==
    /\ Exhausted /\ call.op # "all"
    /\ iters' = Kept(Finished({}))
    /\ CASE call.op = "iter" -> End(call.got, FALSE)
         [] call.op = "in"   -> End(<<>>, FALSE)
         [] call.op = "next" -> End(<<>>, TRUE)
         [] call.op = "get" -> IF Len(call.got) = 1 THEN End(call.got, FALSE)
                                                    ELSE End(<<>>, TRUE)
    /\ UNCHANGED <<lists, queries>>

IsList(q) == queries[q].cache.kind = "list"
Cached(q) == lists[queries[q].cache.id]

\* Reading a cache that is a list changes nothing.  Iterating one that is an
\* iterator consumes it ...
Iterate(q) ==
    /\ queries[q].cache.kind = "iter"
    /\ Begin("iter", 0, <<queries[q].cache.id>>)
    /\ UNCHANGED iters

\* ... in consumes it as far as the first object equal to o ...
LookFor(q, o) ==
    /\ Idle /\ queries[q].cache.kind = "iter"
    /\ call' = [NoCall EXCEPT !.op = "in", !.path = <<queries[q].cache.id>>, !.wants = EqualTo[o]]
    /\ answer' = NoAnswer
    /\ UNCHANGED <<lists, iters, queries>>

\* ... and len(), count(), isEmpty(), indexing and first() raise.
Measure(q) ==
    /\ Idle /\ queries[q].cache.kind = "iter"
    /\ Answer(<<>>, TRUE)
    /\ UNCHANGED <<lists, iters, queries, call>>

\* first() of a cache that is a list; None if it is empty.
FirstOf(q) ==
    /\ Idle /\ IsList(q)
    /\ Answer(SubSeq(Cached(q), 1, Min({1, Len(Cached(q))})), FALSE)
    /\ UNCHANGED <<lists, iters, queries, call>>

\* last() asks for the index -1, which is refused before anything is read.
LastOf(q) ==
    /\ Idle
    /\ Answer(<<>>, TRUE)
    /\ UNCHANGED <<lists, iters, queries, call>>

\* reverse(); reversed() raises on an iterator.
ReverseOf(q) ==
    /\ Idle /\ queries[q].cache # NoRef /\ Len(queries) < MaxQueries
    /\ IF IsList(q)
       THEN /\ iters' = Append(iters, Backwards(queries[q].cache, Len(Cached(q))))
            /\ queries' = Append(queries, [queries[q] EXCEPT
                               !.src = IterRef(Len(iters) + 1), !.cache = NoRef, !.pulled = <<>>])
            /\ answer' = NoAnswer
       ELSE Answer(<<>>, TRUE) /\ UNCHANGED <<iters, queries>>
    /\ UNCHANGED <<lists, call>>

\* The operations on two queries, when both caches are lists.
Both(q, o) == Idle /\ IsList(q) /\ IsList(o) /\ Len(queries) < MaxQueries /\ answer' = NoAnswer

Combined(ref, q) == Append(queries, NewQuery(ref, queries[q].distinct, queries[q].order, FALSE))

\* res += o.result_cache: res is the cache of the query itself. (+= with an iterator,
\* the cache of a reversed query, is left out; += to one raises.)
Union(q, o) ==
    /\ Both(q, o)
    /\ lists' = [lists EXCEPT ![queries[q].cache.id] = @ \o Cached(o)]
    /\ queries' = Combined(queries[q].cache, q)
    /\ UNCHANGED <<iters, call>>

\* Is an object equal to o in the list?
Holds(list, o) == \E i \in DOMAIN list : list[i] \in EqualTo[o]

\* [x for x in list if ...]: the elements of the list at these places.
Elements(list, places) ==
    LET taken[n \in 0 .. Len(list)] ==
            IF n = 0 THEN <<>> ELSE IF n \in places THEN Append(taken[n - 1], list[n]) ELSE taken[n - 1]
    IN  taken[Len(list)]

\* intersection(), or difference().
Compare(q, o, common) ==
    /\ Both(q, o)
    /\ lists' = Append(lists, Elements(Cached(q), {n \in DOMAIN Cached(q) : Holds(Cached(o), Cached(q)[n]) <=> common}))
    /\ queries' = Combined(ListRef(Len(lists) + 1), q)
    /\ UNCHANGED <<iters, call>>

-----------------------------------------------------------------------------
Run == \/ Descend \/ Fetch \/ Skip \/ Yield \/ Raise
       \/ ResultCache \/ ResultsConsumed \/ IterationEnds

Program ==
    \/ \E flags \in Flags : Make(flags)
    \/ \E o \in Added : AppendBase(o)
    \/ \E q \in DOMAIN queries :
          \/ OrderBy(q) \/ Ask(q) \/ Iterate(q) \/ Measure(q) \/ FirstOf(q) \/ LastOf(q) \/ ReverseOf(q)
          \/ \E o \in Added : LookFor(q, o)
          \/ \E r \in Refinements : Refine(q, r)
          \/ \E op \in {"next", "get"}, f \in Probes : Probe(op, q, f)
          \/ \E o \in DOMAIN queries : Union(q, o) \/ \E b \in BOOLEAN : Compare(q, o, b)

Next == Run \/ Program

\* One thread executes a call to its end.
Spec == Init /\ [][Next]_vars /\ WF_vars(Run)
-----------------------------------------------------------------------------
(* Properties *)

ChainOf(q) == ChainTo(queries[q].src)

\* Does an object meet the criteria of filter i, as it reads them in some, or
\* in all, of the ways it may come to read them?
MeetsIn(tests, i, o) ==
    LET Met(c) == ~c.raised /\ c.test # iters[i].negate
    IN  o \notin Falsy /\ Met(Outcomes[iters[i].f][tests][o])

FiltersOf(q) == {i \in ChainOf(q) : iters[i].kind = "filter"}

MayMeet(q, o)   == \A i \in FiltersOf(q) : \E r \in Readable[iters[i].f] : MeetsIn(r, i, o)
MustMeet(q, o)  == \A i \in FiltersOf(q) : \A r \in Readable[iters[i].f] : MeetsIn(r, i, o)
FreshMeets(q, o) == \A i \in FiltersOf(q) : MeetsIn(Fresh(Criteria[iters[i].f]), i, o)

Unmoved(q) == \A i \in FiltersOf(q) : iters[i].tests = Fresh(Criteria[iters[i].f])

\* Whoever consumed the generators in between, and whatever raised, a query
\* holds only objects that meet the criteria of its whole chain: as they were
\* given, if no object of the queried list has a child named like an operator,
\* and otherwise in one of the ways a filter may come to read them.
ResultsMatch ==
    \A q \in DOMAIN queries : \A n \in DOMAIN queries[q].pulled :
        LET o == queries[q].pulled[n]
        IN  IF Unmoved(q) THEN FreshMeets(q, o) ELSE MayMeet(q, o)

\* The list a query goes through, in the direction it does.
Gone(q) ==
    IF ChainOf(q) = {} THEN lists[queries[q].src.id]
    ELSE LET root == iters[Min(ChainOf(q))]
         IN  IF root.kind = "reversed" THEN Reverse(lists[root.src.id]) ELSE lists[root.src.id]

\* Going through list once, is each object of results found after the others?
NextAt(list, o, at) == Min({i \in DOMAIN list : i > at /\ list[i] = o} \cup {Len(list) + 1})
FoundInOrder(results, list) ==
    LET at[n \in 0 .. Len(results)] == IF n = 0 THEN 0 ELSE NextAt(list, results[n], at[n - 1])
    IN  at[Len(results)] <= Len(list)

\* The results are in the order of the list and none comes twice, although
\* several queries move the same generator, and the list grows meanwhile.
ResultsInOrder ==
    \A q \in DOMAIN queries :
        /\ FoundInOrder(queries[q].pulled, Gone(q))
        /\ call.query = q => FoundInOrder(call.got, Gone(q))

\* A query refined with distinct, directly or before, has no equal results and
\* none that cannot be hashed, whoever else resumes the generator that remembers:
\* at an object that meets the criteria and cannot be hashed it raises.
ResultsDistinct ==
    \A q \in DOMAIN queries : (\E i \in ChainOf(q) : iters[i].distinct) =>
        /\ ToSet(queries[q].pulled) \subseteq Hashable
        /\ \A m, n \in DOMAIN queries[q].pulled :
               queries[q].pulled[m] \in EqualTo[queries[q].pulled[n]] => m = n

\* The results hold, up to equality, every object of the list that meets the
\* criteria, however they are read by then (of a list that is gone through
\* forwards, as far as it was then).
Complete(q) ==
    LET root == iters[Min(ChainOf(q))]
    IN  ChainOf(q) # {} /\ root.kind = "filter" =>
            \A n \in DOMAIN lists[root.src.id] :
                LET o == lists[root.src.id][n]
                IN  n < root.pos /\ (IF Unmoved(q) THEN FreshMeets(q, o) ELSE MustMeet(q, o)) =>
                      \E m \in DOMAIN queries[q].pulled : queries[q].pulled[m] \in EqualTo[o]

\* A query whose generators yielded to no other query, to no next() or get(),
\* and never raised, has all the results.
UnsharedIsComplete ==
    \A q \in DOMAIN queries :
        queries[q].cache # NoRef /\ (\A i \in ChainOf(q) : iters[i].takers \subseteq {q})
            => Complete(q)

\* No call on a query changes a list, be it the one that is queried or the
\* results of another query: union() alone does, by making its own results longer.
OnlyUnionGrows ==
    [][\A n \in DOMAIN lists : lists'[n] # lists[n] =>
         \/ n = 1 /\ queries' = queries
         \/ \E q, o \in DOMAIN queries :
                Union(q, o) /\ n # 1 /\ queries[q].cache = ListRef(n)]_vars
=============================================================================
