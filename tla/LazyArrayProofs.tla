-------------------------- MODULE LazyArrayProofs --------------------------
(* What is proved of LazyArray: its lists stay in step and its items fresh,   *)
(* and to a reader its operations are those of a list.                        *)
EXTENDS LazyArray, SequenceTheorems, WellFoundedInduction, TLAPS

LEMMA LeastNumber ==
  ASSUME NEW T, T \subseteq Nat, T # {}
  PROVE  \E n \in T : \A m \in T : n <= m
<1> DEFINE R == OpToRel(<, Nat)
<1>1. IsWellFoundedOn(R, Nat)
  BY NatLessThanWellFounded
<1>2. PICK n \in T : \A m \in T : ~(<<m, n>> \in R)
  <2> HIDE DEF R
  <2> QED
    BY <1>1, WFMin
<1>3. \A m \in T : ~(m < n)
  BY <1>2 DEF OpToRel
<1> QED
  BY <1>3

\* A function defined step by step, from start, exists.
Iterates(g, X, start, N, F) ==
    g \in [0 .. N -> X] /\ g[0] = start /\ \A n \in 1 .. N : g[n] = F[n][g[n - 1]]

LEMMA Iterated ==
  ASSUME NEW X, NEW start \in X, NEW N \in Nat, NEW F \in [1 .. N -> [X -> X]]
  PROVE  \E g : Iterates(g, X, start, N, F)
<1> DEFINE Computes(g, k) == g[0] = start /\ \A n \in 1 .. k : g[n] = F[n][g[n - 1]]
           T == {k \in 0 .. N : ~\E g \in [0 .. N -> X] : Computes(g, k)}
<1>1. SUFFICES ASSUME T # {}
               PROVE  FALSE
  <2>1. N \in 0 .. N
    OBVIOUS
  <2> HIDE DEF Computes
  <2>2. T = {} => \E g \in [0 .. N -> X] : Computes(g, N)
    BY <2>1
  <2> QED
    BY <2>2 DEF Computes, Iterates
<1>2. PICK k \in T : \A m \in T : k <= m
  <2>1. T \subseteq Nat
    OBVIOUS
  <2> HIDE DEF T
  <2> QED
    BY <1>1, <2>1, LeastNumber
<1>3. k # 0
  <2>1. Computes([n \in 0 .. N |-> start], 0)
    OBVIOUS
  <2>2. [n \in 0 .. N |-> start] \in [0 .. N -> X]
    OBVIOUS
  <2> HIDE DEF Computes
  <2> QED
    BY <1>2, <2>1, <2>2
<1>4. k \in 1 .. N /\ k - 1 \in 0 .. N
  BY <1>2, <1>3
<1>5. PICK g \in [0 .. N -> X] : Computes(g, k - 1)
  <2>1. k - 1 \notin T
    <3> HIDE DEF T
    <3> QED
      BY <1>2, <1>4
  <2> HIDE DEF Computes
  <2> QED
    BY <1>4, <2>1
<1> DEFINE h == [g EXCEPT ![k] = F[k][g[k - 1]]]
<1>6. h \in [0 .. N -> X]
  <2>1. F[k] \in [X -> X] /\ g[k - 1] \in X
    BY <1>4, <1>5
  <2>2. F[k][g[k - 1]] \in X
    BY <2>1
  <2> QED
    BY <1>4, <1>5, <2>2
<1>7. \A n \in 0 .. N : h[n] = IF n = k THEN F[k][g[k - 1]] ELSE g[n]
  BY <1>4, <1>5
<1> HIDE DEF h
<1>8. h[0] = start
  <2>1. 0 \in 0 .. N /\ g[0] = start
    BY <1>5
  <2> QED
    BY <1>3, <1>7, <2>1
<1>9. ASSUME NEW n \in 1 .. k
      PROVE  h[n] = F[n][h[n - 1]]
  <2>1. n \in 0 .. N /\ n - 1 \in 0 .. N /\ n - 1 # k
    BY <1>4
  <2>2. h[n - 1] = g[n - 1]
    BY <1>7, <2>1
  <2>3. CASE n = k
    BY <1>7, <2>1, <2>2, <2>3
  <2>4. CASE n # k
    <3>1. n \in 1 .. k - 1
      BY <1>4, <2>4
    <3>2. g[n] = F[n][g[n - 1]]
      BY <1>5, <3>1
    <3> QED
      BY <1>7, <2>1, <2>2, <2>4, <3>2
  <2> QED
    BY <2>3, <2>4
<1>10. Computes(h, k)
  BY <1>8, <1>9
<1> HIDE DEF Computes
<1> QED
  BY <1>2, <1>6, <1>10

-----------------------------------------------------------------------------
(* Sequences                                                                 *)

LEMMA RemoveAtForm ==
  ASSUME NEW S, NEW s \in Seq(S), NEW i \in 1 .. Len(s)
  PROVE  /\ RemoveAt(s, i) \in Seq(S) /\ Len(RemoveAt(s, i)) = Len(s) - 1
         /\ \A j \in 1 .. Len(s) - 1 : RemoveAt(s, i)[j] = IF j < i THEN s[j] ELSE s[j + 1]
<1> DEFINE a == SubSeq(s, 1, i - 1)
           b == SubSeq(s, i + 1, Len(s))
<1>1. Len(s) \in Nat /\ i \in Nat /\ 1 <= i /\ i <= Len(s)
  OBVIOUS
<1>2. /\ a \in Seq(S) /\ Len(a) = i - 1 /\ \A j \in 1 .. i - 1 : a[j] = s[j]
  BY <1>1
<1>3. b \in Seq(S) /\ Len(b) = Len(s) - i /\ \A j \in 1 .. Len(s) - i : b[j] = s[j + i]
  BY <1>1
<1>4. RemoveAt(s, i) = a \o b
  BY DEF RemoveAt
<1> HIDE DEF a, b
<1>5. /\ a \o b \in Seq(S) /\ Len(a \o b) = Len(s) - 1
      /\ \A j \in 1 .. Len(s) - 1 : (a \o b)[j] = IF j <= i - 1 THEN a[j] ELSE b[j - (i - 1)]
  <2>1. Len(a) + Len(b) = Len(s) - 1
    BY <1>1, <1>2, <1>3
  <2>2. /\ a \o b \in Seq(S) /\ Len(a \o b) = Len(a) + Len(b)
        /\ \A j \in 1 .. Len(a) + Len(b) : (a \o b)[j] = IF j <= Len(a) THEN a[j] ELSE b[j - Len(a)]
    BY <1>2, <1>3, ConcatProperties
  <2> QED
    BY <1>2, <2>1, <2>2
<1>6. ASSUME NEW j \in 1 .. Len(s) - 1
      PROVE  (a \o b)[j] = IF j < i THEN s[j] ELSE s[j + 1]
  <2>1. CASE j < i
    <3>1. j <= i - 1 /\ j \in 1 .. i - 1
      BY <1>1, <2>1
    <3> QED
      BY <1>2, <1>5, <2>1, <3>1
  <2>2. CASE ~(j < i)
    <3>1. ~(j <= i - 1) /\ j - (i - 1) \in 1 .. Len(s) - i /\ (j - (i - 1)) + i = j + 1
      BY <1>1, <2>2
    <3> QED
      BY <1>3, <1>5, <2>2, <3>1
  <2> QED
    BY <2>1, <2>2
<1> QED
  BY <1>4, <1>5, <1>6

LEMMA InsertAtForm ==
  ASSUME NEW S, NEW s \in Seq(S), NEW i \in 1 .. Len(s) + 1, NEW e \in S
  PROVE  /\ InsertAt(s, i, e) \in Seq(S) /\ Len(InsertAt(s, i, e)) = Len(s) + 1
         /\ \A j \in 1 .. Len(s) + 1 :
              InsertAt(s, i, e)[j] = IF j < i THEN s[j] ELSE IF j = i THEN e ELSE s[j - 1]
<1> DEFINE a == SubSeq(s, 1, i - 1)
           b == SubSeq(s, i, Len(s))
           c == a \o <<e>>
<1>1. Len(s) \in Nat /\ i \in Nat /\ 1 <= i /\ i <= Len(s) + 1
  OBVIOUS
<1>2. /\ a \in Seq(S) /\ Len(a) = i - 1 /\ \A j \in 1 .. i - 1 : a[j] = s[j]
  BY <1>1
<1>3. /\ b \in Seq(S) /\ Len(b) = Len(s) + 1 - i
      /\ \A j \in 1 .. Len(s) + 1 - i : b[j] = s[j + (i - 1)]
  BY <1>1
<1>4. InsertAt(s, i, e) = c \o b
  BY DEF InsertAt
<1> HIDE DEF a, b
<1>5. /\ c \in Seq(S) /\ Len(c) = i /\ c[i] = e
      /\ \A j \in 1 .. i - 1 : c[j] = a[j]
  BY <1>1, <1>2
<1> HIDE DEF c
<1>6. /\ c \o b \in Seq(S) /\ Len(c \o b) = Len(s) + 1
      /\ \A j \in 1 .. Len(s) + 1 : (c \o b)[j] = IF j <= i THEN c[j] ELSE b[j - i]
  <2>1. Len(c) + Len(b) = Len(s) + 1
    BY <1>1, <1>3, <1>5
  <2> QED
    BY <1>3, <1>5, <2>1, ConcatProperties
<1>7. ASSUME NEW j \in 1 .. Len(s) + 1
      PROVE  (c \o b)[j] = IF j < i THEN s[j] ELSE IF j = i THEN e ELSE s[j - 1]
  <2>1. CASE j < i
    <3>1. j <= i /\ j \in 1 .. i - 1
      BY <1>1, <2>1
    <3> QED
      BY <1>2, <1>5, <1>6, <2>1, <3>1
  <2>2. CASE j = i
    BY <1>1, <1>5, <1>6, <2>2
  <2>3. CASE j > i
    <3>1. /\ ~(j <= i) /\ j - i \in 1 .. Len(s) + 1 - i /\ (j - i) + (i - 1) = j - 1
          /\ ~(j < i) /\ j # i
      BY <1>1, <2>3
    <3>2. (c \o b)[j] = b[j - i]
      BY <1>6, <3>1
    <3>3. b[j - i] = s[j - 1]
      BY <1>3, <3>1
    <3> QED
      BY <3>1, <3>2, <3>3
  <2>4. j < i \/ j = i \/ j > i
    BY <1>1
  <2> QED
    BY <2>1, <2>2, <2>3, <2>4
<1> QED
  BY <1>4, <1>6, <1>7

\* r is s without its i-th item; r is s with e put at i.
Without(S, s, i, r) ==
  /\ r \in Seq(S) /\ Len(r) = Len(s) - 1
  /\ \A j \in 1 .. Len(s) - 1 : r[j] = IF j < i THEN s[j] ELSE s[j + 1]

With(S, s, i, e, r) ==
  /\ r \in Seq(S) /\ Len(r) = Len(s) + 1
  /\ \A j \in 1 .. Len(s) + 1 : r[j] = IF j < i THEN s[j] ELSE IF j = i THEN e ELSE s[j - 1]

LEMMA RemoveAtIs ==
  ASSUME NEW S, NEW s \in Seq(S), NEW i \in 1 .. Len(s)
  PROVE  Without(S, s, i, RemoveAt(s, i))
BY RemoveAtForm DEF Without

LEMMA InsertAtIs ==
  ASSUME NEW S, NEW s \in Seq(S), NEW i \in 1 .. Len(s) + 1, NEW e \in S
  PROVE  With(S, s, i, e, InsertAt(s, i, e))
BY InsertAtForm DEF With

-----------------------------------------------------------------------------
(* The lists                                                                 *)

Lists == [data : Seq(Raw), cache : Seq(Raw), inputs : Seq({None}), failed : BOOLEAN, found : Nat]

\* One entry per item in each of the three.
Level(a) == Len(a.cache) = Len(a.data) /\ Len(a.inputs) = Len(a.data)
Whole == {a \in Lists : Level(a)}

\* An item that was read is that of the data, if these can be evaluated.
Fresh(a) ==
  \A i \in 1 .. Size(a) : a.cache[i] # None /\ Items(a)[i] # Bad => a.cache[i] = Items(a)[i]

Evaluable(a) == \A i \in 1 .. Size(a) : Items(a)[i] # Bad

LEMMA ItemsType ==
  ASSUME NEW a \in Whole
  PROVE  /\ Size(a) \in Nat /\ Len(a.cache) = Size(a) /\ Len(a.inputs) = Size(a)
         /\ a.data \in Seq(Raw) /\ a.cache \in Seq(Raw) /\ a.inputs \in Seq({None})
         /\ a.failed \in BOOLEAN /\ a.found \in Nat
         /\ Items(a) \in Seq(Raw \cup {Bad}) /\ Len(Items(a)) = Size(a)
         /\ \A i \in 1 .. Size(a) : Items(a)[i] = Eval[a.data[i]] /\ a.data[i] \in Raw
<1>1. a.data \in Seq(Raw) /\ a.cache \in Seq(Raw) /\ a.inputs \in Seq({None})
      /\ a.failed \in BOOLEAN /\ a.found \in Nat /\ Level(a)
  BY DEF Whole, Lists
<1>2. \A i \in 1 .. Size(a) : a.data[i] \in Raw /\ Eval[a.data[i]] \in Raw \cup {Bad}
  BY <1>1, LazyArrayAssumption DEF Size
<1>3. Size(a) \in Nat
  BY <1>1 DEF Size
<1>4. Items(a) \in [1 .. Size(a) -> Raw \cup {Bad}]
  BY <1>2 DEF Items
<1>5. Items(a) \in Seq(Raw \cup {Bad}) /\ Len(Items(a)) = Size(a)
  BY <1>3, <1>4
<1> QED
  BY <1>1, <1>2, <1>3, <1>5 DEF Items, Level, Size

\* A call that raises leaves the lists as they are.
Failed(a, b) ==
  /\ b \in Whole /\ Size(b) = Size(a) /\ b.data = a.data /\ b.cache = a.cache
  /\ b.found = a.found /\ b.failed = TRUE /\ Items(b) = Items(a) /\ (Fresh(a) => Fresh(b))

\* Lists are whole if their fields are typed and of one length.
LEMMA WholeIs ==
  ASSUME NEW data \in Seq(Raw), NEW cache \in Seq(Raw), NEW inputs \in Seq({None}),
         NEW failed \in BOOLEAN, NEW found \in Nat,
         Len(cache) = Len(data), Len(inputs) = Len(data)
  PROVE  [data |-> data, cache |-> cache, inputs |-> inputs, failed |-> failed, found |-> found] \in Whole
BY DEF Whole, Lists, Level

LEMMA FailIs ==
  ASSUME NEW a \in Whole
  PROVE  Failed(a, Fail(a))
<1> DEFINE b == Fail(a)
<1>1. b \in Lists /\ b.data = a.data /\ b.cache = a.cache /\ b.inputs = a.inputs
      /\ b.found = a.found /\ b.failed = TRUE
  BY DEF Fail, Whole, Lists
<1> HIDE DEF b
<1>2. Size(b) = Size(a) /\ Items(b) = Items(a) /\ b \in Whole
  BY <1>1 DEF Size, Items, Whole, Level
<1>3. Failed(a, b)
  BY <1>1, <1>2 DEF Failed, Fresh
<1> QED
  BY <1>3 DEF b

\* Data that evaluate alike give the same items.
LEMMA ItemsAre ==
  ASSUME NEW b, NEW f, Size(b) \in Nat, f \in Seq(Raw \cup {Bad}), Len(f) = Size(b),
         \A j \in 1 .. Size(b) : Eval[b.data[j]] = f[j]
  PROVE  Items(b) = f
<1>1. f \in [1 .. Size(b) -> Raw \cup {Bad}]
  BY LenProperties
<1>2. f = [j \in 1 .. Size(b) |-> f[j]]
  BY <1>1
<1> QED
  BY <1>2 DEF Items

\* b is a with other data for item i.
Written(a, i, v, b) ==
  /\ b \in Whole /\ Size(b) = Size(a) /\ b.found = a.found /\ b.failed = a.failed
  /\ b.cache = a.cache
  /\ Items(b) = [Items(a) EXCEPT ![i] = Eval[v]]

LEMMA WrittenData ==
  ASSUME NEW a \in Whole, NEW i \in 1 .. Size(a), NEW v \in Raw
  PROVE  Written(a, i, v, [a EXCEPT !.data[i] = v])
<1> DEFINE d == [a.data EXCEPT ![i] = v]
           b == [a EXCEPT !.data[i] = v]
<1>1. /\ Size(a) \in Nat /\ Len(a.cache) = Size(a) /\ Len(a.inputs) = Size(a)
      /\ a.data \in Seq(Raw) /\ a.cache \in Seq(Raw) /\ a.inputs \in Seq({None})
      /\ a.failed \in BOOLEAN /\ a.found \in Nat
      /\ Items(a) \in Seq(Raw \cup {Bad}) /\ Len(Items(a)) = Size(a)
      /\ \A j \in 1 .. Size(a) : Items(a)[j] = Eval[a.data[j]]
  BY ItemsType
<1>2. d \in Seq(Raw) /\ Len(d) = Size(a) /\ \A j \in 1 .. Size(a) : d[j] = IF j = i THEN v ELSE a.data[j]
  BY <1>1 DEF Size
<1>3. b = [data |-> d, cache |-> a.cache, inputs |-> a.inputs, failed |-> a.failed, found |-> a.found]
  <2>1. a = [data |-> a.data, cache |-> a.cache, inputs |-> a.inputs, failed |-> a.failed, found |-> a.found]
    BY DEF Whole, Lists
  <2> QED
    BY <2>1
<1> HIDE DEF d, b
<1>4. b.data = d /\ b.cache = a.cache /\ b.failed = a.failed /\ b.found = a.found
  BY <1>3
<1>5. b \in Whole
  <2>1. Len(a.cache) = Len(d) /\ Len(a.inputs) = Len(d)
    BY <1>1, <1>2
  <2>2. [data |-> d, cache |-> a.cache, inputs |-> a.inputs, failed |-> a.failed, found |-> a.found] \in Whole
    BY <1>1, <1>2, <2>1, WholeIs
  <2> QED
    BY <1>3, <2>2
<1>6. Size(b) = Size(a)
  BY <1>2, <1>4 DEF Size
<1>7. Items(b) = [Items(a) EXCEPT ![i] = Eval[v]]
  <2> DEFINE f == [Items(a) EXCEPT ![i] = Eval[v]]
  <2>1. /\ f \in Seq(Raw \cup {Bad}) /\ Len(f) = Size(a)
        /\ \A j \in 1 .. Size(a) : f[j] = IF j = i THEN Eval[v] ELSE Items(a)[j]
    BY <1>1, LazyArrayAssumption
  <2> HIDE DEF f
  <2>2. \A j \in 1 .. Size(b) : Eval[b.data[j]] = f[j]
    BY <1>1, <1>2, <1>4, <1>6, <2>1
  <2>3. Items(b) = f
    BY <1>1, <1>6, <2>1, <2>2, ItemsAre
  <2> QED
    BY <2>3 DEF f
<1>8. Written(a, i, v, b)
  BY <1>4, <1>5, <1>6, <1>7 DEF Written
<1> QED
  BY <1>8 DEF b

\* _items_evaluate and _set_dataValidated: the items stay what they are, and
\* the one that is evaluated is in the cache.
Evaluated(a, i, b) ==
  /\ b \in Whole /\ Size(b) = Size(a) /\ b.found = a.found /\ Items(b) = Items(a)
  /\ \A j \in 1 .. Size(a) : j # i => b.cache[j] = a.cache[j]
  /\ Items(a)[i] # Bad => b.failed = a.failed /\ b.cache[i] = Items(a)[i]

LEMMA EvaluateIs ==
  ASSUME NEW a \in Whole, NEW i \in 1 .. Size(a)
  PROVE  Evaluated(a, i, ItemsEvaluate(a, i))
<1> DEFINE e == Eval[a.data[i]]
           d == [a.data EXCEPT ![i] = IF @ \in Kept THEN @ ELSE e]
           c == [a.cache EXCEPT ![i] = e]
           n == [a.inputs EXCEPT ![i] = None]
           b == ItemsEvaluate(a, i)
<1>1. /\ Size(a) \in Nat /\ Len(a.cache) = Size(a) /\ Len(a.inputs) = Size(a)
      /\ a.data \in Seq(Raw) /\ a.cache \in Seq(Raw) /\ a.inputs \in Seq({None})
      /\ a.failed \in BOOLEAN /\ a.found \in Nat
      /\ Items(a) \in Seq(Raw \cup {Bad}) /\ Len(Items(a)) = Size(a)
      /\ \A j \in 1 .. Size(a) : Items(a)[j] = Eval[a.data[j]] /\ a.data[j] \in Raw
  BY ItemsType
<1>2. a = [data |-> a.data, cache |-> a.cache, inputs |-> a.inputs, failed |-> a.failed, found |-> a.found]
  BY DEF Whole, Lists
<1>3. Len(a.data) = Size(a)
  BY DEF Size
<1>4. CASE e = Bad
  <2>1. b = [data |-> a.data, cache |-> a.cache, inputs |-> a.inputs, failed |-> TRUE, found |-> a.found]
    BY <1>2, <1>4 DEF ItemsEvaluate, Fail
  <2> HIDE DEF b
  <2>2. b.data = a.data /\ b.cache = a.cache /\ b.found = a.found
    BY <2>1
  <2>3. b \in Whole
    <3>1. [data |-> a.data, cache |-> a.cache, inputs |-> a.inputs, failed |-> TRUE, found |-> a.found] \in Whole
      BY <1>1, <1>3, WholeIs
    <3> QED
      BY <2>1, <3>1
  <2>4. Size(b) = Size(a)
    BY <2>2 DEF Size
  <2>5. Items(b) = Items(a)
    BY <2>2, <2>4 DEF Items
  <2>6. Evaluated(a, i, b)
    BY <1>1, <1>4, <2>2, <2>3, <2>4, <2>5 DEF Evaluated
  <2> QED
    BY <2>6 DEF b
<1>5. CASE e # Bad
  <2>1. e \in Raw /\ Eval[e] = e
    BY <1>1, <1>5, LazyArrayAssumption
  <2>2. b = [data |-> d, cache |-> c, inputs |-> n, failed |-> a.failed, found |-> a.found]
    BY <1>2, <1>5 DEF ItemsEvaluate, SetDataValidated
  <2>3. /\ d \in Seq(Raw) /\ Len(d) = Size(a)
        /\ \A j \in 1 .. Size(a) : d[j] = IF j = i /\ a.data[i] \notin Kept THEN e ELSE a.data[j]
    BY <1>1, <1>3, <2>1
  <2>4. /\ c \in Seq(Raw) /\ Len(c) = Size(a)
        /\ \A j \in 1 .. Size(a) : c[j] = IF j = i THEN e ELSE a.cache[j]
    BY <1>1, <2>1
  <2>5. n \in Seq({None}) /\ Len(n) = Size(a)
    BY <1>1
  <2> HIDE DEF d, c, n, b
  <2>6. b.data = d /\ b.cache = c /\ b.failed = a.failed /\ b.found = a.found
    BY <2>2
  <2>7. b \in Whole
    <3>1. Len(c) = Len(d) /\ Len(n) = Len(d)
      BY <2>3, <2>4, <2>5
    <3>2. [data |-> d, cache |-> c, inputs |-> n, failed |-> a.failed, found |-> a.found] \in Whole
      BY <1>1, <2>3, <2>4, <2>5, <3>1, WholeIs
    <3> QED
      BY <2>2, <3>2
  <2>8. Size(b) = Size(a)
    BY <2>3, <2>6 DEF Size
  <2>9. Items(b) = Items(a)
    <3>1. \A j \in 1 .. Size(b) : Eval[b.data[j]] = Items(a)[j]
      BY <1>1, <2>1, <2>3, <2>6, <2>8
    <3> QED
      BY <1>1, <2>8, <3>1, ItemsAre
  <2>10. Evaluated(a, i, b)
    BY <1>1, <2>4, <2>6, <2>7, <2>8, <2>9 DEF Evaluated
  <2> QED
    BY <2>10 DEF b
<1> QED
  BY <1>4, <1>5

\* __getitem__
Got(a, i, b) ==
  /\ b \in Whole /\ Size(b) = Size(a) /\ b.found = a.found /\ Items(b) = Items(a)
  /\ \A j \in 1 .. Size(a) : j # i => b.cache[j] = a.cache[j]
  /\ Fresh(a) => Fresh(b)
  /\ Fresh(a) /\ Items(a)[i] # Bad => b.failed = a.failed /\ b.cache[i] = Items(a)[i]

LEMMA GetItemIs ==
  ASSUME NEW a \in Whole, NEW i \in 1 .. Size(a)
  PROVE  Got(a, i, GetItem(a, i))
<1>1. CASE a.cache[i] # None
  BY <1>1 DEF GetItem, Fresh, Got
<1>2. CASE a.cache[i] = None
  <2> DEFINE b == GetItem(a, i)
  <2>1. b = ItemsEvaluate(a, i)
    BY <1>2 DEF GetItem
  <2> HIDE DEF b
  <2>2. Evaluated(a, i, b)
    BY <2>1, EvaluateIs
  <2>3. Fresh(a) => Fresh(b)
    BY <2>2 DEF Fresh, Evaluated
  <2>4. Got(a, i, b)
    BY <2>2, <2>3 DEF Got, Evaluated
  <2> QED
    BY <2>4 DEF b
<1> QED
  BY <1>1, <1>2

\* __setitem__
Set(a, i, v, b) ==
  /\ b \in Whole /\ Size(b) = Size(a) /\ b.found = a.found
  /\ Items(b) = [Items(a) EXCEPT ![i] = Eval[v]]
  /\ ~lazy /\ Fresh(a) => Fresh(b)
  /\ Eval[v] # Bad => b.failed = a.failed

LEMMA SetItemIs ==
  ASSUME NEW a \in Whole, NEW i \in 1 .. Size(a), NEW v \in Raw
  PROVE  Set(a, i, v, SetItem(a, i, v))
<1> DEFINE m == [a EXCEPT !.data[i] = v]
           c == ItemsEvaluate(m, i)
<1>1. Written(a, i, v, m)
  BY WrittenData
<1>2. SetItem(a, i, v) = IF lazy THEN m ELSE c
  BY DEF SetItem
<1>3. Items(a) \in Seq(Raw \cup {Bad}) /\ Len(Items(a)) = Size(a)
  BY ItemsType
<1> HIDE DEF m
<1>4. /\ Items(m)[i] = Eval[v]
      /\ \A j \in 1 .. Size(a) : j # i => Items(m)[j] = Items(a)[j]
  BY <1>1, <1>3 DEF Written
<1>5. Evaluated(m, i, c)
  BY <1>1, EvaluateIs DEF Written
<1> HIDE DEF c
<1>6. Fresh(a) => Fresh(c)
  BY <1>1, <1>4, <1>5 DEF Fresh, Evaluated, Written
<1>7. CASE lazy
  BY <1>1, <1>2, <1>7 DEF Set, Written
<1>8. CASE ~lazy
  <2>1. Set(a, i, v, c)
    BY <1>1, <1>4, <1>5, <1>6, <1>8 DEF Set, Evaluated, Written
  <2> QED
    BY <1>2, <1>8, <2>1
<1> QED
  BY <1>7, <1>8

\* __delitem__
Deleted(a, i, b) ==
  /\ b \in Whole /\ Size(b) = Size(a) - 1 /\ b.found = a.found /\ b.failed = a.failed
  /\ Items(b) = RemoveAt(Items(a), i)
  /\ Fresh(a) => Fresh(b)

LEMMA DelItemIs ==
  ASSUME NEW a \in Whole, NEW i \in 1 .. Size(a)
  PROVE  Deleted(a, i, DelItem(a, i))
<1> DEFINE d == RemoveAt(a.data, i)
           c == RemoveAt(a.cache, i)
           n == RemoveAt(a.inputs, i)
           b == DelItem(a, i)
<1>1. /\ Size(a) \in Nat /\ Len(a.cache) = Size(a) /\ Len(a.inputs) = Size(a)
      /\ a.data \in Seq(Raw) /\ a.cache \in Seq(Raw) /\ a.inputs \in Seq({None})
      /\ a.failed \in BOOLEAN /\ a.found \in Nat
      /\ Items(a) \in Seq(Raw \cup {Bad}) /\ Len(Items(a)) = Size(a)
      /\ \A j \in 1 .. Size(a) : Items(a)[j] = Eval[a.data[j]] /\ a.data[j] \in Raw
  BY ItemsType
<1>2. Len(a.data) = Size(a)
  BY DEF Size
<1>3. /\ d \in Seq(Raw) /\ Len(d) = Size(a) - 1
      /\ \A j \in 1 .. Size(a) - 1 : d[j] = IF j < i THEN a.data[j] ELSE a.data[j + 1]
  <2>1. i \in 1 .. Len(a.data)
    BY <1>2
  <2>2. Without(Raw, a.data, i, d)
    BY <1>1, <2>1, RemoveAtIs
  <2> HIDE DEF d
  <2> QED
    BY <1>2, <2>2 DEF Without
<1>4. /\ c \in Seq(Raw) /\ Len(c) = Size(a) - 1
      /\ \A j \in 1 .. Size(a) - 1 : c[j] = IF j < i THEN a.cache[j] ELSE a.cache[j + 1]
  <2>1. i \in 1 .. Len(a.cache)
    BY <1>1
  <2>2. Without(Raw, a.cache, i, c)
    BY <1>1, <2>1, RemoveAtIs
  <2> HIDE DEF c
  <2> QED
    BY <1>1, <2>2 DEF Without
<1>5. n \in Seq({None}) /\ Len(n) = Size(a) - 1
  <2>1. i \in 1 .. Len(a.inputs)
    BY <1>1
  <2>2. Without({None}, a.inputs, i, n)
    BY <1>1, <2>1, RemoveAtIs
  <2> HIDE DEF n
  <2> QED
    BY <1>1, <2>2 DEF Without
<1>6. b \in Lists /\ b.data = d /\ b.cache = c /\ b.inputs = n /\ b.failed = a.failed /\ b.found = a.found
  <2>1. b = [a EXCEPT !.data = d, !.cache = c, !.inputs = n]
    BY DEF DelItem
  <2> HIDE DEF b, d, c, n
  <2> QED
    BY <1>3, <1>4, <1>5, <2>1 DEF Whole, Lists
<1> DEFINE f == RemoveAt(Items(a), i)
<1>7. /\ f \in Seq(Raw \cup {Bad}) /\ Len(f) = Size(a) - 1
      /\ \A j \in 1 .. Size(a) - 1 : f[j] = IF j < i THEN Items(a)[j] ELSE Items(a)[j + 1]
  <2>1. i \in 1 .. Len(Items(a))
    BY <1>1
  <2>2. Without(Raw \cup {Bad}, Items(a), i, f)
    BY <1>1, <2>1, RemoveAtIs
  <2> HIDE DEF f
  <2> QED
    BY <1>1, <2>2 DEF Without
<1> HIDE DEF d, c, n, b, f
<1>8. b.data = d /\ b.cache = c /\ b.failed = a.failed /\ b.found = a.found
  BY <1>6
<1>9. b \in Whole
  BY <1>3, <1>4, <1>5, <1>6 DEF Whole, Level
<1>10. Size(b) = Size(a) - 1 /\ Size(b) \in Nat
  BY <1>1, <1>3, <1>8 DEF Size
<1>11. \A j \in 1 .. Size(a) - 1 : j \in 1 .. Size(a) /\ j + 1 \in 1 .. Size(a)
  BY <1>1
<1>12. Items(b) = f
  <2>1. \A j \in 1 .. Size(b) : Eval[b.data[j]] = f[j]
    BY <1>1, <1>3, <1>7, <1>8, <1>10, <1>11
  <2> QED
    BY <1>7, <1>10, <2>1, ItemsAre
<1>13. Fresh(a) => Fresh(b)
  <2> SUFFICES ASSUME Fresh(a), NEW j \in 1 .. Size(a) - 1, c[j] # None, f[j] # Bad
               PROVE  c[j] = f[j]
    BY <1>8, <1>10, <1>12 DEF Fresh
  <2> QED
    BY <1>4, <1>7, <1>11 DEF Fresh
<1>14. Deleted(a, i, b)
  BY <1>8, <1>9, <1>10, <1>12, <1>13 DEF Deleted, f
<1> QED
  BY <1>14 DEF b

\* insert
Inserted(a, p, v, b) ==
  /\ b \in Whole /\ Size(b) = Size(a) + 1 /\ b.found = a.found
  /\ Items(b) = InsertAt(Items(a), p, Eval[v])
  /\ Fresh(a) => Fresh(b)

LEMMA ClampedIs ==
  ASSUME NEW a \in Whole, NEW at \in Int
  PROVE  Clamped(a, at) \in 1 .. Size(a) + 1
BY ItemsType DEF Clamped, Place

LEMMA PutIs ==
  ASSUME NEW a \in Whole, NEW p \in 1 .. Size(a) + 1, NEW v \in Raw
  PROVE  Inserted(a, p, v, [a EXCEPT !.data = InsertAt(@, p, v), !.cache = InsertAt(@, p, None),
                                     !.inputs = InsertAt(@, p, None)])
<1> DEFINE d == InsertAt(a.data, p, v)
           c == InsertAt(a.cache, p, None)
           n == InsertAt(a.inputs, p, None)
           b == [a EXCEPT !.data = InsertAt(@, p, v), !.cache = InsertAt(@, p, None),
                          !.inputs = InsertAt(@, p, None)]
           f == InsertAt(Items(a), p, Eval[v])
<1>1. /\ Size(a) \in Nat /\ Len(a.cache) = Size(a) /\ Len(a.inputs) = Size(a)
      /\ a.data \in Seq(Raw) /\ a.cache \in Seq(Raw) /\ a.inputs \in Seq({None})
      /\ a.failed \in BOOLEAN /\ a.found \in Nat
      /\ Items(a) \in Seq(Raw \cup {Bad}) /\ Len(Items(a)) = Size(a)
      /\ \A j \in 1 .. Size(a) : Items(a)[j] = Eval[a.data[j]] /\ a.data[j] \in Raw
  BY ItemsType
<1>2. Len(a.data) = Size(a) /\ None \in Raw /\ Eval[v] \in Raw \cup {Bad} /\ None \in {None}
  BY LazyArrayAssumption DEF Size
<1>3. /\ d \in Seq(Raw) /\ Len(d) = Size(a) + 1
      /\ \A j \in 1 .. Size(a) + 1 :
           d[j] = IF j < p THEN a.data[j] ELSE IF j = p THEN v ELSE a.data[j - 1]
  <2>1. p \in 1 .. Len(a.data) + 1
    BY <1>1, <1>2
  <2>2. With(Raw, a.data, p, v, d)
    BY <1>1, <1>2, <2>1, InsertAtIs
  <2> HIDE DEF d
  <2> QED
    BY <1>1, <1>2, <2>2 DEF With
<1>4. /\ c \in Seq(Raw) /\ Len(c) = Size(a) + 1
      /\ \A j \in 1 .. Size(a) + 1 :
           c[j] = IF j < p THEN a.cache[j] ELSE IF j = p THEN None ELSE a.cache[j - 1]
  <2>1. p \in 1 .. Len(a.cache) + 1
    BY <1>1, <1>2
  <2>2. With(Raw, a.cache, p, None, c)
    BY <1>1, <1>2, <2>1, InsertAtIs
  <2> HIDE DEF c
  <2> QED
    BY <1>1, <1>2, <2>2 DEF With
<1>5. n \in Seq({None}) /\ Len(n) = Size(a) + 1
  <2>1. p \in 1 .. Len(a.inputs) + 1
    BY <1>1, <1>2
  <2>2. With({None}, a.inputs, p, None, n)
    BY <1>1, <1>2, <2>1, InsertAtIs
  <2> HIDE DEF n
  <2> QED
    BY <1>1, <1>2, <2>2 DEF With
<1>6. b \in Lists /\ b.data = d /\ b.cache = c /\ b.inputs = n /\ b.failed = a.failed /\ b.found = a.found
  <2>1. b = [a EXCEPT !.data = d, !.cache = c, !.inputs = n]
    OBVIOUS
  <2> HIDE DEF b, d, c, n
  <2> QED
    BY <1>3, <1>4, <1>5, <2>1 DEF Whole, Lists
<1>7. /\ f \in Seq(Raw \cup {Bad}) /\ Len(f) = Size(a) + 1
      /\ \A j \in 1 .. Size(a) + 1 :
           f[j] = IF j < p THEN Items(a)[j] ELSE IF j = p THEN Eval[v] ELSE Items(a)[j - 1]
  <2>1. p \in 1 .. Len(Items(a)) + 1
    BY <1>1
  <2>2. With(Raw \cup {Bad}, Items(a), p, Eval[v], f)
    BY <1>1, <1>2, <2>1, InsertAtIs
  <2> HIDE DEF f
  <2> QED
    BY <1>1, <2>2 DEF With
<1> HIDE DEF d, c, n, b, f
<1>8. b.data = d /\ b.cache = c /\ b.failed = a.failed /\ b.found = a.found
  BY <1>6
<1>9. b \in Whole
  BY <1>3, <1>4, <1>5, <1>6 DEF Whole, Level
<1>10. Size(b) = Size(a) + 1 /\ Size(b) \in Nat
  BY <1>1, <1>3, <1>8 DEF Size
<1>11. \A j \in 1 .. Size(a) + 1 :
         (j < p => j \in 1 .. Size(a)) /\ (~(j < p) /\ j # p => j - 1 \in 1 .. Size(a))
  BY <1>1
<1>12. Items(b) = f
  <2>1. \A j \in 1 .. Size(b) : Eval[b.data[j]] = f[j]
    BY <1>1, <1>3, <1>7, <1>8, <1>10, <1>11
  <2> QED
    BY <1>7, <1>10, <2>1, ItemsAre
<1>13. Fresh(a) => Fresh(b)
  <2> SUFFICES ASSUME Fresh(a), NEW j \in 1 .. Size(a) + 1, c[j] # None, f[j] # Bad
               PROVE  c[j] = f[j]
    BY <1>8, <1>10, <1>12 DEF Fresh
  <2> QED
    BY <1>4, <1>7, <1>11 DEF Fresh
<1>14. Inserted(a, p, v, b)
  BY <1>8, <1>9, <1>10, <1>12, <1>13 DEF Inserted, f
<1> QED
  BY <1>14 DEF b

LEMMA InsertIs ==
  ASSUME NEW a \in Whole, NEW at \in Int, NEW v \in Raw
  PROVE  Inserted(a, Clamped(a, at), v, Insert(a, at, v))
<1> DEFINE p == Clamped(a, at)
           m == [a EXCEPT !.data = InsertAt(@, p, v), !.cache = InsertAt(@, p, None),
                          !.inputs = InsertAt(@, p, None)]
           q == Place(m, at)
<1>1. p \in 1 .. Size(a) + 1
  BY ClampedIs
<1>2. Insert(a, at, v) = IF lazy THEN m ELSE IF q \in 1 .. Size(m) THEN ItemsEvaluate(m, q) ELSE Fail(m)
  BY DEF Insert
<1> HIDE DEF p
<1>3. Inserted(a, p, v, m)
  BY <1>1, PutIs
<1> HIDE DEF m, q
<1>4. CASE lazy
  BY <1>2, <1>3, <1>4 DEF p
<1>5. CASE ~lazy /\ q \in 1 .. Size(m)
  <2> DEFINE b == ItemsEvaluate(m, q)
  <2>1. Evaluated(m, q, b)
    BY <1>3, <1>5, EvaluateIs DEF Inserted
  <2> HIDE DEF b
  <2>2. Fresh(m) => Fresh(b)
    BY <2>1 DEF Fresh, Evaluated
  <2>3. Inserted(a, p, v, b)
    BY <1>3, <2>1, <2>2 DEF Inserted, Evaluated
  <2> QED
    BY <1>2, <1>5, <2>3 DEF b, p
<1>6. CASE ~lazy /\ q \notin 1 .. Size(m)
  <2>1. Failed(m, Fail(m))
    BY <1>3, FailIs DEF Inserted
  <2>2. Inserted(a, p, v, Fail(m))
    BY <1>3, <2>1 DEF Inserted, Failed
  <2> QED
    BY <1>2, <1>6, <2>2 DEF p
<1> QED
  BY <1>4, <1>5, <1>6

-----------------------------------------------------------------------------
(* Loops                                                                     *)

\* A run of n steps S from a, each of which leads from one of the sets D to
\* the next.
Runs(g, n, a, S, D) ==
  /\ g \in [0 .. n -> Whole] /\ g[0] = a
  /\ \A k \in 1 .. n : g[k - 1] \in D[k - 1] /\ g[k] = S[<<g[k - 1], k>>]

LEMMA KeepsIn ==
  ASSUME NEW n \in Nat, NEW D, NEW r, r[0] \in D[0],
         \A k \in 1 .. n : r[k - 1] \in D[k - 1] => r[k] \in D[k]
  PROVE  \A k \in 0 .. n : r[k] \in D[k]
<1> DEFINE T == {k \in 0 .. n : r[k] \notin D[k]}
<1>1. SUFFICES ASSUME T # {}
               PROVE  FALSE
  OBVIOUS
<1>2. PICK k \in T : \A m \in T : k <= m
  <2>1. T \subseteq Nat
    OBVIOUS
  <2> HIDE DEF T
  <2> QED
    BY <1>1, <2>1, LeastNumber
<1>3. k \in 1 .. n /\ k - 1 \in 0 .. n
  BY <1>2
<1>4. k - 1 \notin T
  <2> HIDE DEF T
  <2> QED
    BY <1>2, <1>3
<1> QED
  BY <1>2, <1>3, <1>4

LEMMA RunExists ==
  ASSUME NEW n \in Nat, NEW D, NEW S, NEW a, a \in D[0], \A k \in 0 .. n : D[k] \subseteq Whole,
         \A k \in 1 .. n : \A x \in D[k - 1] : S[<<x, k>>] \in D[k]
  PROVE  \E g : Runs(g, n, a, S, D)
<1> DEFINE F == [k \in 1 .. n |-> [x \in Whole |-> IF x \in D[k - 1] THEN S[<<x, k>>] ELSE a]]
<1>1. a \in Whole
  OBVIOUS
<1>2. F \in [1 .. n -> [Whole -> Whole]]
  <2>1. ASSUME NEW k \in 1 .. n, NEW x \in Whole
        PROVE  (IF x \in D[k - 1] THEN S[<<x, k>>] ELSE a) \in Whole
    BY <1>1
  <2> QED
    BY <2>1
<1>3. \A k \in 1 .. n : \A x \in D[k - 1] : F[k][x] = S[<<x, k>>]
  <2>1. \A k \in 1 .. n : k - 1 \in 0 .. n
    OBVIOUS
  <2> QED
    BY <2>1
<1> HIDE DEF F
<1>4. PICK g : Iterates(g, Whole, a, n, F)
  BY <1>1, <1>2, Iterated
<1>5. \A k \in 0 .. n : g[k] \in D[k]
  <2>1. \A k \in 1 .. n : g[k - 1] \in D[k - 1] => g[k] \in D[k]
    BY <1>3, <1>4 DEF Iterates
  <2>2. g[0] \in D[0]
    BY <1>4 DEF Iterates
  <2> QED
    BY <2>1, <2>2, KeepsIn
<1>6. \A k \in 1 .. n : k - 1 \in 0 .. n
  OBVIOUS
<1> QED
  BY <1>3, <1>4, <1>5, <1>6 DEF Iterates, Runs

\* What every operation keeps: the lists are whole, and fresh if not lazy.
Good == {a \in Whole : ~lazy => Fresh(a)}

LEMMA Append1Is ==
  ASSUME NEW a \in Good, NEW v \in Raw
  PROVE  Append1(a, v) \in Good
<1>1. Size(a) \in Int
  BY ItemsType DEF Good
<1>2. Inserted(a, Clamped(a, Size(a)), v, Append1(a, v))
  BY <1>1, InsertIs DEF Good, Append1
<1> QED
  BY <1>2 DEF Good, Inserted

-----------------------------------------------------------------------------
(* The steps of the loops                                                    *)

\* pop
Popped(a, i, b) ==
  /\ b \in Whole /\ (Fresh(a) => Fresh(b)) /\ (b.failed \/ Size(b) = Size(a) - 1)
  /\ Fresh(a) /\ ~a.failed /\ Items(a)[i] # Bad =>
       ~b.failed /\ Size(b) = Size(a) - 1 /\ Items(b) = RemoveAt(Items(a), i)

LEMMA PopIs ==
  ASSUME NEW a \in Whole, NEW i \in 1 .. Size(a)
  PROVE  Popped(a, i, Pop(a, i))
<1> DEFINE b == GetItem(a, i)
           c == DelItem(b, i)
<1>1. Got(a, i, b)
  BY GetItemIs
<1>2. Pop(a, i) = IF b.failed THEN b ELSE c
  BY DEF Pop, Then
<1> HIDE DEF b
<1>3. Deleted(b, i, c)
  BY <1>1, DelItemIs DEF Got
<1> HIDE DEF c
<1>4. b.failed \in BOOLEAN /\ a.failed \in BOOLEAN
  BY <1>1, ItemsType DEF Got
<1>5. CASE b.failed
  BY <1>1, <1>2, <1>4, <1>5 DEF Popped, Got
<1>6. CASE ~b.failed
  <2>1. Popped(a, i, c)
    BY <1>1, <1>3, <1>4, <1>6 DEF Popped, Got, Deleted
  <2> QED
    BY <1>2, <1>6, <2>1
<1> QED
  BY <1>5, <1>6

\* index() at one item
Looked(a, i, v, b) ==
  /\ b \in Whole /\ Size(b) = Size(a) /\ Items(b) = Items(a) /\ (Fresh(a) => Fresh(b))
  /\ a.found > 0 => b = a
  /\ a.found = 0 => b.found \in {0, i}
  /\ a.found = 0 /\ Fresh(a) /\ ~a.failed /\ Items(a)[i] # Bad =>
       ~b.failed /\ b.found = IF Items(a)[i] = v THEN i ELSE 0

LEMMA LookIs ==
  ASSUME NEW a \in Whole, NEW i \in 1 .. Size(a), NEW v \in Raw
  PROVE  Looked(a, i, v, Look(a, i, v))
<1> DEFINE b == GetItem(a, i)
           c == [b EXCEPT !.found = i]
<1>1. Look(a, i, v) = IF a.found > 0 THEN a ELSE IF ~b.failed /\ b.cache[i] = v THEN c ELSE b
  BY DEF Look
<1>2. Got(a, i, b)
  BY GetItemIs
<1>3. a.found \in Nat /\ a.failed \in BOOLEAN /\ i \in Nat /\ i > 0
  BY ItemsType
<1> HIDE DEF b
<1>4. /\ c \in Lists /\ c.data = b.data /\ c.cache = b.cache /\ c.inputs = b.inputs
      /\ c.failed = b.failed /\ c.found = i
  BY <1>2, <1>3 DEF Got, Whole, Lists
<1> HIDE DEF c
<1>5. c \in Whole /\ Size(c) = Size(b) /\ Items(c) = Items(b) /\ (Fresh(b) => Fresh(c))
  <2>1. c \in Whole /\ Size(c) = Size(b)
    BY <1>2, <1>4 DEF Got, Whole, Level, Size
  <2>2. Items(c) = Items(b)
    BY <1>4, <2>1 DEF Items
  <2> QED
    BY <1>4, <2>1, <2>2 DEF Fresh
<1>6. CASE a.found > 0
  BY <1>1, <1>3, <1>6 DEF Looked
<1>7. CASE ~(a.found > 0) /\ ~b.failed /\ b.cache[i] = v
  <2>1. Looked(a, i, v, c)
    BY <1>2, <1>3, <1>4, <1>5, <1>7 DEF Looked, Got
  <2> QED
    BY <1>1, <1>7, <2>1
<1>8. CASE ~(a.found > 0) /\ ~(~b.failed /\ b.cache[i] = v)
  <2>1. a.found = 0
    BY <1>3, <1>8
  <2>2. Looked(a, i, v, b)
    BY <1>2, <1>3, <1>8, <2>1 DEF Looked, Got
  <2> QED
    BY <1>1, <1>8, <2>2
<1> QED
  BY <1>6, <1>7, <1>8

\* self[i], self[n-i-1] = self[n-i-1], self[i]
Swapped(a, i, j, b) ==
  /\ b \in Whole /\ Size(b) = Size(a)
  /\ ~lazy /\ Fresh(a) => Fresh(b)
  /\ ~lazy /\ Fresh(a) /\ Evaluable(a) /\ ~a.failed =>
       /\ ~b.failed
       /\ Items(b) = [Items(a) EXCEPT ![i] = Items(a)[j], ![j] = Items(a)[i]]

LEMMA SwapIs ==
  ASSUME NEW a \in Whole, NEW i \in 1 .. Size(a), i # Size(a) - i + 1
  PROVE  Swapped(a, i, Size(a) - i + 1, Swap(a, i))
<1> DEFINE j == Size(a) - i + 1
           b == GetItem(a, j)
           c == GetItem(b, i)
           d == SetItem(c, i, c.cache[j])
           e == SetItem(d, j, c.cache[i])
<1>1. Swap(a, i) = IF b.failed THEN b ELSE IF c.failed THEN c ELSE IF d.failed THEN d ELSE e
  BY DEF Swap, Then
<1>2. j \in 1 .. Size(a) /\ i # j
  BY ItemsType
<1> HIDE DEF j
<1>3. Got(a, j, b)
  BY <1>2, GetItemIs
<1> HIDE DEF b
<1>4. Got(b, i, c)
  BY <1>3, GetItemIs DEF Got
<1> HIDE DEF c
<1>5. c \in Whole /\ Size(c) = Size(a) /\ c.cache[i] \in Raw /\ c.cache[j] \in Raw
  <2>1. c \in Whole /\ Size(c) = Size(a)
    BY <1>3, <1>4 DEF Got
  <2>2. c.cache \in Seq(Raw) /\ Len(c.cache) = Size(a)
    BY <2>1, ItemsType
  <2> QED
    BY <1>2, <2>1, <2>2
<1>6. Set(c, i, c.cache[j], d)
  BY <1>5, SetItemIs
<1> HIDE DEF d
<1>7. Set(d, j, c.cache[i], e)
  <2>1. d \in Whole /\ Size(d) = Size(a)
    BY <1>5, <1>6 DEF Set
  <2>2. j \in 1 .. Size(d)
    BY <1>2, <2>1
  <2> QED
    BY <1>5, <2>1, <2>2, SetItemIs
<1> HIDE DEF e
<1>8. b.failed \in BOOLEAN /\ c.failed \in BOOLEAN /\ d.failed \in BOOLEAN /\ a.failed \in BOOLEAN
      /\ Items(a) \in Seq(Raw \cup {Bad}) /\ Len(Items(a)) = Size(a)
  BY <1>3, <1>5, <1>6, ItemsType DEF Got, Set
<1>9. /\ \A x \in {b, c, d, e} : x \in Whole /\ Size(x) = Size(a) /\ (~lazy /\ Fresh(a) => Fresh(x))
  BY <1>3, <1>4, <1>6, <1>7 DEF Got, Set
<1>10. ASSUME ~lazy, Fresh(a), Evaluable(a), ~a.failed
       PROVE  /\ ~b.failed /\ ~c.failed /\ ~d.failed /\ ~e.failed
              /\ Items(e) = [Items(a) EXCEPT ![i] = Items(a)[j], ![j] = Items(a)[i]]
  <2>1. Items(a)[i] # Bad /\ Items(a)[j] # Bad
    BY <1>2, <1>10 DEF Evaluable
  <2>2. Eval[Items(a)[i]] = Items(a)[i] /\ Eval[Items(a)[j]] = Items(a)[j]
    <3>1. \A k \in 1 .. Size(a) : a.data[k] \in Raw /\ Items(a)[k] = Eval[a.data[k]]
      BY ItemsType
    <3>2. \A v \in Raw : Eval[v] # Bad => Eval[Eval[v]] = Eval[v]
      BY LazyArrayAssumption
    <3> QED
      BY <1>2, <2>1, <3>1, <3>2
  <2>3. ~b.failed /\ b.cache[j] = Items(a)[j] /\ Items(b) = Items(a) /\ Fresh(b)
    BY <1>3, <1>8, <1>10, <2>1 DEF Got
  <2>4. ~c.failed /\ c.cache[i] = Items(a)[i] /\ c.cache[j] = Items(a)[j] /\ Items(c) = Items(a)
    BY <1>2, <1>3, <1>4, <1>8, <2>1, <2>3 DEF Got
  <2>5. ~d.failed /\ Items(d) = [Items(a) EXCEPT ![i] = Items(a)[j]]
    BY <1>6, <1>8, <2>1, <2>2, <2>4 DEF Set
  <2>6. ~e.failed /\ Items(e) = [Items(d) EXCEPT ![j] = Items(a)[i]]
    BY <1>7, <1>8, <2>1, <2>2, <2>4, <2>5 DEF Set
  <2> QED
    BY <2>3, <2>4, <2>5, <2>6
<1>11. PICK x \in {b, c, d, e} : Swap(a, i) = x /\ (x = e \/ b.failed \/ c.failed \/ d.failed)
  BY <1>1
<1>12. Swapped(a, i, j, x)
  BY <1>9, <1>10, <1>11 DEF Swapped
<1> QED
  BY <1>11, <1>12 DEF j

-----------------------------------------------------------------------------
(* The loops                                                                 *)

\* extend
LEMMA ExtendIs ==
  ASSUME NEW a \in Good, NEW vs \in Seq(Raw)
  PROVE  Extend(a, vs) \in Good
<1> DEFINE n == Len(vs)
           In(k) == Good
           Go(x, k) == IF x.failed THEN x ELSE Append1(x, vs[k])
           S == [y \in Whole \X (1 .. n) |-> Go(y[1], y[2])]
           D == [k \in 0 .. n |-> In(k)]
           Run(g) == g = [k \in 0 .. n |-> IF k = 0 THEN a ELSE Go(g[k - 1], k)]
           r == CHOOSE g : Run(g)
<1>1. n \in Nat /\ a \in In(0)
  OBVIOUS
<1>2. ASSUME NEW k \in 1 .. n, NEW x \in In(k - 1)
      PROVE  Go(x, k) \in In(k)
  <2>1. vs[k] \in Raw
    OBVIOUS
  <2> QED
    BY <2>1, Append1Is
<1>3. Extend(a, vs) = r[n]
  BY DEF Extend, Loop, n
<1>4. \A k \in Nat : In(k) \subseteq Whole
  BY DEF Good
<1> HIDE DEF Go, In, n
<1>5. \A k \in 1 .. n : k \in Nat /\ k - 1 \in Nat /\ k \in 0 .. n /\ k - 1 \in 0 .. n
  BY <1>1
<1>6. \A k \in 0 .. n : D[k] = In(k) /\ D[k] \subseteq Whole
  BY <1>1, <1>4
<1>7. \A k \in 1 .. n : \A x \in Whole : S[<<x, k>>] = Go(x, k)
  OBVIOUS
<1> HIDE DEF S, D
<1>8. ASSUME NEW k \in 1 .. n, NEW x \in D[k - 1]
      PROVE  S[<<x, k>>] \in D[k]
  BY <1>2, <1>5, <1>6, <1>7
<1>9. PICK g : Runs(g, n, a, S, D)
  <2>1. a \in D[0]
    BY <1>1, <1>6
  <2> QED
    BY <1>1, <1>6, <1>8, <2>1, RunExists
<1>10. Run(g)
  <2>1. g \in [0 .. n -> Whole] /\ g[0] = a
    BY <1>9 DEF Runs
  <2>2. ASSUME NEW k \in 0 .. n, k # 0
        PROVE  g[k] = Go(g[k - 1], k)
    <3>1. k \in 1 .. n
      BY <1>1, <2>2
    <3> QED
      BY <1>5, <1>6, <1>7, <1>9, <3>1 DEF Runs
  <2> QED
    BY <2>1, <2>2
<1>11. Run(r)
  <2> HIDE DEF Run
  <2> QED
    BY <1>10
<1> HIDE DEF r
<1>12. r[0] = a /\ \A k \in 1 .. n : r[k] = Go(r[k - 1], k)
  BY <1>1, <1>11
<1>13. r[n] \in D[n]
  <2>1. ASSUME NEW k \in 1 .. n, r[k - 1] \in D[k - 1]
        PROVE  r[k] \in D[k]
    BY <1>2, <1>5, <1>6, <1>12, <2>1
  <2>2. r[0] \in D[0] /\ n \in 0 .. n
    BY <1>1, <1>6, <1>12
  <2>3. \A k \in 0 .. n : r[k] \in D[k]
    BY <1>1, <2>1, <2>2, KeepsIn
  <2> QED
    BY <2>2, <2>3
<1>14. n \in 0 .. n
  BY <1>1
<1>15. r[n] \in In(n)
  BY <1>6, <1>13, <1>14
<1> QED
  BY <1>3, <1>15 DEF In, n

\* After k of the removals of clear.
Clearing(a, k) ==
  {x \in Good : /\ x.failed \/ Size(x) = Size(a) - k
                /\ ~lazy /\ Evaluable(a) => ~x.failed /\ Evaluable(x)}

\* clear
LEMMA ClearIs ==
  ASSUME NEW a \in Good, ~a.failed
  PROVE  Clear(a) \in Clearing(a, Size(a))
<1> DEFINE n == Size(a)
           In(k) == Clearing(a, k)
           Go(x, k) == IF x.failed THEN x ELSE Pop(x, Size(x))
           S == [y \in Whole \X (1 .. n) |-> Go(y[1], y[2])]
           D == [k \in 0 .. n |-> In(k)]
           Run(g) == g = [k \in 0 .. n |-> IF k = 0 THEN a ELSE Go(g[k - 1], k)]
           r == CHOOSE g : Run(g)
<1>1. n \in Nat /\ a \in In(0)
  BY ItemsType DEF Good, Clearing
<1>2. ASSUME NEW k \in 1 .. n, NEW x \in In(k - 1)
      PROVE  Go(x, k) \in In(k)
  <2>1. CASE x.failed
    BY <2>1 DEF Clearing
  <2>2. CASE ~x.failed
    <3> DEFINE y == Pop(x, Size(x))
    <3>1. x \in Whole /\ a \in Whole /\ (~lazy => Fresh(x))
      BY DEF Clearing, Good
    <3>2. /\ Size(x) = Size(a) - (k - 1) /\ Size(x) \in 1 .. Size(x)
          /\ Size(x) - 1 = Size(a) - k /\ Size(x) \in Nat
      BY <2>2, <3>1, ItemsType DEF Clearing
    <3>3. Popped(x, Size(x), y)
      BY <3>1, <3>2, PopIs
    <3> HIDE DEF y
    <3>4. y \in Good /\ (y.failed \/ Size(y) = Size(a) - k)
      BY <3>1, <3>2, <3>3 DEF Popped, Good
    <3>5. ASSUME ~lazy, Evaluable(a)
          PROVE  ~y.failed /\ Evaluable(y)
      <4>1. Evaluable(x) /\ Fresh(x)
        BY <3>1, <3>5 DEF Clearing
      <4>2. Items(x)[Size(x)] # Bad
        BY <3>2, <4>1 DEF Evaluable
      <4>3. ~y.failed /\ Size(y) = Size(x) - 1 /\ Items(y) = RemoveAt(Items(x), Size(x))
        BY <2>2, <3>3, <4>1, <4>2 DEF Popped
      <4>4. Items(x) \in Seq(Raw \cup {Bad}) /\ Len(Items(x)) = Size(x)
        BY <3>1, ItemsType
      <4>5. \A j \in 1 .. Size(x) - 1 : Items(y)[j] = IF j < Size(x) THEN Items(x)[j] ELSE Items(x)[j + 1]
        <5>1. Without(Raw \cup {Bad}, Items(x), Size(x), RemoveAt(Items(x), Size(x)))
          BY <3>2, <4>4, RemoveAtIs
        <5> QED
          BY <4>3, <4>4, <5>1 DEF Without
      <4> QED
        BY <3>2, <4>1, <4>3, <4>5 DEF Evaluable
    <3>6. y \in Clearing(a, k)
      BY <3>4, <3>5 DEF Clearing
    <3> QED
      BY <2>2, <3>6 DEF y
  <2> QED
    BY <2>1, <2>2
<1>3. Clear(a) = r[n]
  BY DEF Clear, Loop, n
<1>4. \A k \in Nat : In(k) \subseteq Whole
  BY DEF Good, Clearing
<1> HIDE DEF Go, In, n
<1>5. \A k \in 1 .. n : k \in Nat /\ k - 1 \in Nat /\ k \in 0 .. n /\ k - 1 \in 0 .. n
  BY <1>1
<1>6. \A k \in 0 .. n : D[k] = In(k) /\ D[k] \subseteq Whole
  BY <1>1, <1>4
<1>7. \A k \in 1 .. n : \A x \in Whole : S[<<x, k>>] = Go(x, k)
  OBVIOUS
<1> HIDE DEF S, D
<1>8. ASSUME NEW k \in 1 .. n, NEW x \in D[k - 1]
      PROVE  S[<<x, k>>] \in D[k]
  BY <1>2, <1>5, <1>6, <1>7
<1>9. PICK g : Runs(g, n, a, S, D)
  <2>1. a \in D[0]
    BY <1>1, <1>6
  <2> QED
    BY <1>1, <1>6, <1>8, <2>1, RunExists
<1>10. Run(g)
  <2>1. g \in [0 .. n -> Whole] /\ g[0] = a
    BY <1>9 DEF Runs
  <2>2. ASSUME NEW k \in 0 .. n, k # 0
        PROVE  g[k] = Go(g[k - 1], k)
    <3>1. k \in 1 .. n
      BY <1>1, <2>2
    <3> QED
      BY <1>5, <1>6, <1>7, <1>9, <3>1 DEF Runs
  <2> QED
    BY <2>1, <2>2
<1>11. Run(r)
  <2> HIDE DEF Run
  <2> QED
    BY <1>10
<1> HIDE DEF r
<1>12. r[0] = a /\ \A k \in 1 .. n : r[k] = Go(r[k - 1], k)
  BY <1>1, <1>11
<1>13. r[n] \in D[n]
  <2>1. ASSUME NEW k \in 1 .. n, r[k - 1] \in D[k - 1]
        PROVE  r[k] \in D[k]
    BY <1>2, <1>5, <1>6, <1>12, <2>1
  <2>2. r[0] \in D[0] /\ n \in 0 .. n
    BY <1>1, <1>6, <1>12
  <2>3. \A k \in 0 .. n : r[k] \in D[k]
    BY <1>1, <2>1, <2>2, KeepsIn
  <2> QED
    BY <2>2, <2>3
<1>14. n \in 0 .. n
  BY <1>1
<1>15. r[n] \in In(n)
  BY <1>6, <1>13, <1>14
<1> QED
  BY <1>3, <1>15 DEF In, n

\* index() after k items.
Looking(a, v, k) ==
  {x \in Good :
     /\ Size(x) = Size(a) /\ Items(x) = Items(a) /\ x.found \in 0 .. Size(a)
     /\ ~lazy /\ Evaluable(a) =>
          /\ ~x.failed
          /\ x.found = 0 => \A j \in 1 .. k : Items(a)[j] # v
          /\ x.found # 0 => Items(a)[x.found] = v /\ \A j \in 1 .. x.found - 1 : Items(a)[j] # v}

\* index
LEMMA LookedForIs ==
  ASSUME NEW a \in Good, NEW v \in Raw, ~a.failed, a.found = 0
  PROVE  Loop(a, Size(a), LAMBDA b, i : Look(b, i, v)) \in Looking(a, v, Size(a))
<1> DEFINE n == Size(a)
           In(k) == Looking(a, v, k)
           Go(x, k) == IF x.failed THEN x ELSE Look(x, k, v)
           S == [y \in Whole \X (1 .. n) |-> Go(y[1], y[2])]
           D == [k \in 0 .. n |-> In(k)]
           Run(g) == g = [k \in 0 .. n |-> IF k = 0 THEN a ELSE Go(g[k - 1], k)]
           r == CHOOSE g : Run(g)
<1>1. n \in Nat /\ a \in In(0)
  BY ItemsType DEF Good, Looking
<1>2. ASSUME NEW k \in 1 .. n, NEW x \in In(k - 1)
      PROVE  Go(x, k) \in In(k)
  <2>1. x \in Whole /\ a \in Whole /\ (~lazy => Fresh(x)) /\ Size(x) = Size(a) /\ Size(a) \in Nat
    BY ItemsType DEF Looking, Good
  <2>2. CASE x.failed
    BY <2>2 DEF Looking
  <2>3. CASE ~x.failed
    <3> DEFINE y == Look(x, k, v)
    <3>1. Looked(x, k, v, y)
      BY <2>1, LookIs
    <3> HIDE DEF y
    <3>2. y \in Good /\ Size(y) = Size(a) /\ Items(y) = Items(a) /\ y.found \in 0 .. Size(a)
      <4>1. x.found \in 0 .. Size(a) /\ (x.found = 0 \/ x.found > 0) /\ k \in 0 .. Size(a)
        BY <2>1 DEF Looking
      <4>2. y \in Good /\ Size(y) = Size(a) /\ Items(y) = Items(a)
        BY <2>1, <3>1 DEF Looked, Looking, Good
      <4> QED
        BY <2>1, <3>1, <4>1, <4>2 DEF Looked
    <3>3. ASSUME ~lazy, Evaluable(a)
          PROVE  /\ ~y.failed
                 /\ y.found = 0 => \A j \in 1 .. k : Items(a)[j] # v
                 /\ y.found # 0 => Items(a)[y.found] = v /\ \A j \in 1 .. y.found - 1 : Items(a)[j] # v
      <4>1. /\ Items(x) = Items(a) /\ x.found \in Nat
            /\ x.found = 0 => \A j \in 1 .. k - 1 : Items(a)[j] # v
            /\ x.found # 0 => Items(a)[x.found] = v /\ \A j \in 1 .. x.found - 1 : Items(a)[j] # v
        BY <2>1, <3>3 DEF Looking
      <4>2. CASE x.found # 0
        <5>1. x.found > 0
          BY <4>1, <4>2
        <5>2. y = x
          BY <3>1, <5>1 DEF Looked
        <5> QED
          BY <2>3, <4>1, <4>2, <5>2
      <4>3. CASE x.found = 0
        <5>1. Items(a)[k] # Bad /\ Fresh(x)
          BY <2>1, <3>3 DEF Evaluable
        <5>2. ~y.failed /\ y.found = IF Items(a)[k] = v THEN k ELSE 0
          BY <2>3, <3>1, <4>1, <4>3, <5>1 DEF Looked
        <5>3. \A j \in 1 .. k - 1 : Items(a)[j] # v
          BY <4>1, <4>3
        <5>4. k \in Nat /\ k # 0 /\ \A j \in 1 .. k : j = k \/ j \in 1 .. k - 1
          BY <2>1
        <5> QED
          BY <5>2, <5>3, <5>4
      <4> QED
        BY <4>2, <4>3
    <3>4. y \in Looking(a, v, k)
      BY <3>2, <3>3 DEF Looking
    <3> QED
      BY <2>3, <3>4 DEF y
  <2> QED
    BY <2>2, <2>3
<1>3. Loop(a, Size(a), LAMBDA b, i : Look(b, i, v)) = r[n]
  BY DEF Loop, n
<1>4. \A k \in Nat : In(k) \subseteq Whole
  BY DEF Good, Looking
<1> HIDE DEF Go, In, n
<1>5. \A k \in 1 .. n : k \in Nat /\ k - 1 \in Nat /\ k \in 0 .. n /\ k - 1 \in 0 .. n
  BY <1>1
<1>6. \A k \in 0 .. n : D[k] = In(k) /\ D[k] \subseteq Whole
  BY <1>1, <1>4
<1>7. \A k \in 1 .. n : \A x \in Whole : S[<<x, k>>] = Go(x, k)
  OBVIOUS
<1> HIDE DEF S, D
<1>8. ASSUME NEW k \in 1 .. n, NEW x \in D[k - 1]
      PROVE  S[<<x, k>>] \in D[k]
  BY <1>2, <1>5, <1>6, <1>7
<1>9. PICK g : Runs(g, n, a, S, D)
  <2>1. a \in D[0]
    BY <1>1, <1>6
  <2> QED
    BY <1>1, <1>6, <1>8, <2>1, RunExists
<1>10. Run(g)
  <2>1. g \in [0 .. n -> Whole] /\ g[0] = a
    BY <1>9 DEF Runs
  <2>2. ASSUME NEW k \in 0 .. n, k # 0
        PROVE  g[k] = Go(g[k - 1], k)
    <3>1. k \in 1 .. n
      BY <1>1, <2>2
    <3> QED
      BY <1>5, <1>6, <1>7, <1>9, <3>1 DEF Runs
  <2> QED
    BY <2>1, <2>2
<1>11. Run(r)
  <2> HIDE DEF Run
  <2> QED
    BY <1>10
<1> HIDE DEF r
<1>12. r[0] = a /\ \A k \in 1 .. n : r[k] = Go(r[k - 1], k)
  BY <1>1, <1>11
<1>13. r[n] \in D[n]
  <2>1. ASSUME NEW k \in 1 .. n, r[k - 1] \in D[k - 1]
        PROVE  r[k] \in D[k]
    BY <1>2, <1>5, <1>6, <1>12, <2>1
  <2>2. r[0] \in D[0] /\ n \in 0 .. n
    BY <1>1, <1>6, <1>12
  <2>3. \A k \in 0 .. n : r[k] \in D[k]
    BY <1>1, <2>1, <2>2, KeepsIn
  <2> QED
    BY <2>2, <2>3
<1>14. n \in 0 .. n
  BY <1>1
<1>15. r[n] \in In(n)
  BY <1>6, <1>13, <1>14
<1> QED
  BY <1>3, <1>15 DEF In, n

\* After k of the exchanges of reverse.
Reversing(a, k) ==
  {x \in Good :
     /\ Size(x) = Size(a)
     /\ ~lazy /\ Evaluable(a) =>
          /\ ~x.failed
          /\ \A j \in 1 .. Size(a) :
               Items(x)[j] = IF j <= k \/ j > Size(a) - k THEN Items(a)[Size(a) - j + 1] ELSE Items(a)[j]}

\* reverse
LEMMA ReversingIs ==
  ASSUME NEW a \in Good, ~a.failed
  PROVE  Reverse1(a) \in Reversing(a, Size(a) \div 2)
<1> DEFINE n == Size(a) \div 2
           In(k) == Reversing(a, k)
           Go(x, k) == IF x.failed THEN x ELSE Swap(x, k)
           S == [y \in Whole \X (1 .. n) |-> Go(y[1], y[2])]
           D == [k \in 0 .. n |-> In(k)]
           Run(g) == g = [k \in 0 .. n |-> IF k = 0 THEN a ELSE Go(g[k - 1], k)]
           r == CHOOSE g : Run(g)
<1>1. n \in Nat /\ a \in In(0)
  <2>1. Size(a) \in Nat /\ a \in Whole
    BY ItemsType DEF Good
  <2>2. \A j \in 1 .. Size(a) : ~(j <= 0 \/ j > Size(a) - 0)
    BY <2>1
  <2>3. a \in In(0)
    BY <2>2 DEF Reversing
  <2> QED
    BY <2>1, <2>3
<1>2. ASSUME NEW k \in 1 .. n, NEW x \in In(k - 1)
      PROVE  Go(x, k) \in In(k)
  <2>1. x \in Whole /\ a \in Whole /\ (~lazy => Fresh(x)) /\ Size(x) = Size(a) /\ Size(a) \in Nat
    BY ItemsType DEF Reversing, Good
  <2>2. CASE x.failed
    BY <2>2 DEF Reversing
  <2>3. CASE ~x.failed
    <3> DEFINE y == Swap(x, k)
               l == Size(x) - k + 1
               m == Size(a)
    <3>1. k \in 1 .. Size(x) /\ k # l /\ l \in 1 .. Size(x) /\ k < l /\ l = m - k + 1
      BY <2>1
    <3>2. Swapped(x, k, l, y)
      BY <2>1, <3>1, SwapIs
    <3> HIDE DEF y, l
    <3>3. y \in Good /\ Size(y) = Size(a)
      BY <2>1, <3>2 DEF Swapped, Good
    <3>4. ASSUME ~lazy, Evaluable(a)
          PROVE  /\ ~y.failed
                 /\ \A j \in 1 .. m :
                      Items(y)[j] = IF j <= k \/ j > m - k THEN Items(a)[m - j + 1] ELSE Items(a)[j]
      <4>1. \A j \in 1 .. m :
              Items(x)[j] = IF j <= k - 1 \/ j > m - (k - 1) THEN Items(a)[m - j + 1] ELSE Items(a)[j]
        BY <3>4 DEF Reversing
      <4>2. Evaluable(x)
        <5>1. \A j \in 1 .. m : m - j + 1 \in 1 .. m
          BY <2>1
        <5> QED
          BY <2>1, <3>4, <4>1, <5>1 DEF Evaluable
      <4>3. ~y.failed /\ Items(y) = [Items(x) EXCEPT ![k] = Items(x)[l], ![l] = Items(x)[k]]
        BY <2>1, <2>3, <3>2, <3>4, <4>2 DEF Swapped
      <4>4. Items(x) \in Seq(Raw \cup {Bad}) /\ Len(Items(x)) = m
        BY <2>1, ItemsType
      <4>5. \A j \in 1 .. m : Items(y)[j] = IF j = l THEN Items(x)[k] ELSE IF j = k THEN Items(x)[l] ELSE Items(x)[j]
        BY <2>1, <3>1, <4>3, <4>4
      <4>6. Items(x)[k] = Items(a)[k] /\ Items(x)[l] = Items(a)[l]
        <5>1. ~(k <= k - 1 \/ k > m - (k - 1)) /\ ~(l <= k - 1 \/ l > m - (k - 1))
          BY <2>1, <3>1
        <5> QED
          BY <2>1, <3>1, <4>1, <5>1
      <4>7. ASSUME NEW j \in 1 .. m
            PROVE  Items(y)[j] = IF j <= k \/ j > m - k THEN Items(a)[m - j + 1] ELSE Items(a)[j]
        <5>1. CASE j = l
          <6>1. j > m - k /\ m - j + 1 = k
            BY <2>1, <3>1, <5>1
          <6> QED
            BY <4>5, <4>6, <5>1, <6>1
        <5>2. CASE j = k
          <6>1. j <= k /\ m - j + 1 = l /\ j # l
            BY <2>1, <3>1, <5>2
          <6> QED
            BY <4>5, <4>6, <5>2, <6>1
        <5>3. CASE j # l /\ j # k
          <6>1. (j <= k <=> j <= k - 1) /\ (j > m - k <=> j > m - (k - 1))
            BY <2>1, <3>1, <5>3
          <6>2. Items(y)[j] = Items(x)[j]
            BY <4>5, <5>3
          <6> QED
            BY <4>1, <6>1, <6>2
        <5> QED
          BY <5>1, <5>2, <5>3
      <4> QED
        BY <4>3, <4>7
    <3>5. y \in Reversing(a, k)
      BY <3>3, <3>4 DEF Reversing
    <3> QED
      BY <2>3, <3>5 DEF y
  <2> QED
    BY <2>2, <2>3
<1>3. Reverse1(a) = r[n]
  BY DEF Reverse1, Loop, n
<1>4. \A k \in Nat : In(k) \subseteq Whole
  BY DEF Good, Reversing
<1> HIDE DEF Go, In, n
<1>5. \A k \in 1 .. n : k \in Nat /\ k - 1 \in Nat /\ k \in 0 .. n /\ k - 1 \in 0 .. n
  BY <1>1
<1>6. \A k \in 0 .. n : D[k] = In(k) /\ D[k] \subseteq Whole
  BY <1>1, <1>4
<1>7. \A k \in 1 .. n : \A x \in Whole : S[<<x, k>>] = Go(x, k)
  OBVIOUS
<1> HIDE DEF S, D
<1>8. ASSUME NEW k \in 1 .. n, NEW x \in D[k - 1]
      PROVE  S[<<x, k>>] \in D[k]
  BY <1>2, <1>5, <1>6, <1>7
<1>9. PICK g : Runs(g, n, a, S, D)
  <2>1. a \in D[0]
    BY <1>1, <1>6
  <2> QED
    BY <1>1, <1>6, <1>8, <2>1, RunExists
<1>10. Run(g)
  <2>1. g \in [0 .. n -> Whole] /\ g[0] = a
    BY <1>9 DEF Runs
  <2>2. ASSUME NEW k \in 0 .. n, k # 0
        PROVE  g[k] = Go(g[k - 1], k)
    <3>1. k \in 1 .. n
      BY <1>1, <2>2
    <3> QED
      BY <1>5, <1>6, <1>7, <1>9, <3>1 DEF Runs
  <2> QED
    BY <2>1, <2>2
<1>11. Run(r)
  <2> HIDE DEF Run
  <2> QED
    BY <1>10
<1> HIDE DEF r
<1>12. r[0] = a /\ \A k \in 1 .. n : r[k] = Go(r[k - 1], k)
  BY <1>1, <1>11
<1>13. r[n] \in D[n]
  <2>1. ASSUME NEW k \in 1 .. n, r[k - 1] \in D[k - 1]
        PROVE  r[k] \in D[k]
    BY <1>2, <1>5, <1>6, <1>12, <2>1
  <2>2. r[0] \in D[0] /\ n \in 0 .. n
    BY <1>1, <1>6, <1>12
  <2>3. \A k \in 0 .. n : r[k] \in D[k]
    BY <1>1, <2>1, <2>2, KeepsIn
  <2> QED
    BY <2>2, <2>3
<1>14. n \in 0 .. n
  BY <1>1
<1>15. r[n] \in In(n)
  BY <1>6, <1>13, <1>14
<1> QED
  BY <1>3, <1>15 DEF In, n

\* Evaluating all the items of an array that is built.
Loading(data) == {x \in Good : Size(x) = Len(data)}

LEMMA BuiltIs ==
  ASSUME NEW data \in Seq(Raw)
  PROVE  Built(data) \in Good /\ Size(Built(data)) = Len(data)
<1>1. /\ Blank(Len(data)) \in Seq(Raw) /\ Blank(Len(data)) \in Seq({None})
      /\ Len(Blank(Len(data))) = Len(data)
      /\ \A i \in 1 .. Len(data) : Blank(Len(data))[i] = None
  BY LazyArrayAssumption DEF Blank
<1>2. Built(data) \in Whole
  BY <1>1, WholeIs DEF Built
<1>3. Size(Built(data)) = Len(data) /\ \A i \in 1 .. Len(data) : Built(data).cache[i] = None
  BY <1>1 DEF Size, Built
<1> QED
  BY <1>2, <1>3 DEF Good, Fresh

\* the building of an array that is not lazy
LEMMA LoadedIs ==
  ASSUME NEW data \in Seq(Raw)
  PROVE  Loaded(data) \in Loading(data)
<1> DEFINE n == Len(data)
           In(k) == Loading(data)
           Go(x, k) == IF x.failed THEN x ELSE GetItem(x, k)
           S == [y \in Whole \X (1 .. n) |-> Go(y[1], y[2])]
           D == [k \in 0 .. n |-> In(k)]
           Run(g) == g = [k \in 0 .. n |-> IF k = 0 THEN Built(data) ELSE Go(g[k - 1], k)]
           r == CHOOSE g : Run(g)
<1>1. n \in Nat /\ Built(data) \in In(0)
  BY BuiltIs DEF Loading
<1>2. ASSUME NEW k \in 1 .. n, NEW x \in In(k - 1)
      PROVE  Go(x, k) \in In(k)
  <2>1. x \in Whole /\ (~lazy => Fresh(x)) /\ Size(x) = Len(data)
    BY DEF Loading, Good
  <2>2. Got(x, k, GetItem(x, k))
    BY <2>1, GetItemIs
  <2>3. GetItem(x, k) \in Loading(data)
    BY <2>1, <2>2 DEF Got, Loading, Good
  <2> QED
    BY <2>3
<1>3. Loaded(data) = r[n]
  BY DEF Loaded, Loop, n
<1>4. \A k \in Nat : In(k) \subseteq Whole
  BY DEF Good, Loading
<1> HIDE DEF Go, In, n
<1>5. \A k \in 1 .. n : k \in Nat /\ k - 1 \in Nat /\ k \in 0 .. n /\ k - 1 \in 0 .. n
  BY <1>1
<1>6. \A k \in 0 .. n : D[k] = In(k) /\ D[k] \subseteq Whole
  BY <1>1, <1>4
<1>7. \A k \in 1 .. n : \A x \in Whole : S[<<x, k>>] = Go(x, k)
  OBVIOUS
<1> HIDE DEF S, D
<1>8. ASSUME NEW k \in 1 .. n, NEW x \in D[k - 1]
      PROVE  S[<<x, k>>] \in D[k]
  BY <1>2, <1>5, <1>6, <1>7
<1>9. PICK g : Runs(g, n, Built(data), S, D)
  <2>1. Built(data) \in D[0]
    BY <1>1, <1>6
  <2> QED
    BY <1>1, <1>6, <1>8, <2>1, RunExists
<1>10. Run(g)
  <2>1. g \in [0 .. n -> Whole] /\ g[0] = Built(data)
    BY <1>9 DEF Runs
  <2>2. ASSUME NEW k \in 0 .. n, k # 0
        PROVE  g[k] = Go(g[k - 1], k)
    <3>1. k \in 1 .. n
      BY <1>1, <2>2
    <3> QED
      BY <1>5, <1>6, <1>7, <1>9, <3>1 DEF Runs
  <2> QED
    BY <2>1, <2>2
<1>11. Run(r)
  <2> HIDE DEF Run
  <2> QED
    BY <1>10
<1> HIDE DEF r
<1>12. r[0] = Built(data) /\ \A k \in 1 .. n : r[k] = Go(r[k - 1], k)
  BY <1>1, <1>11
<1>13. r[n] \in D[n]
  <2>1. ASSUME NEW k \in 1 .. n, r[k - 1] \in D[k - 1]
        PROVE  r[k] \in D[k]
    BY <1>2, <1>5, <1>6, <1>12, <2>1
  <2>2. r[0] \in D[0] /\ n \in 0 .. n
    BY <1>1, <1>6, <1>12
  <2>3. \A k \in 0 .. n : r[k] \in D[k]
    BY <1>1, <2>1, <2>2, KeepsIn
  <2> QED
    BY <2>2, <2>3
<1>14. n \in 0 .. n
  BY <1>1
<1>15. r[n] \in In(n)
  BY <1>6, <1>13, <1>14
<1> QED
  BY <1>3, <1>15 DEF In, n

\* remove
Removed(a, v, b) ==
  /\ b \in Good
  /\ ~lazy /\ Evaluable(a) =>
       IF b.failed THEN Items(b) = Items(a) /\ \A i \in 1 .. Size(a) : Items(a)[i] # v
       ELSE \E i \in 1 .. Size(a) : /\ Items(b) = RemoveAt(Items(a), i) /\ Items(a)[i] = v
                                    /\ \A j \in 1 .. i - 1 : Items(a)[j] # v

LEMMA RemoveItemIs ==
  ASSUME NEW a \in Good, NEW v \in Raw, ~a.failed, a.found = 0
  PROVE  Removed(a, v, RemoveItem(a, v))
<1> DEFINE x == Loop(a, Size(a), LAMBDA b, i : Look(b, i, v))
           y == DelItem(x, x.found)
<1>1. RemoveItem(a, v) = IF x.failed THEN x ELSE IF x.found = 0 THEN Fail(x) ELSE y
  BY DEF RemoveItem, Then
<1>2. x \in Looking(a, v, Size(a))
  BY LookedForIs
<1> HIDE DEF x
<1>3. /\ x \in Good /\ x \in Whole /\ Size(x) = Size(a) /\ Items(x) = Items(a) /\ x.found \in 0 .. Size(a)
      /\ a \in Whole /\ Size(a) \in Nat
  BY <1>2, ItemsType DEF Looking, Good
<1>4. ASSUME ~lazy, Evaluable(a)
      PROVE  /\ ~x.failed
             /\ x.found = 0 => \A j \in 1 .. Size(a) : Items(a)[j] # v
             /\ x.found # 0 => Items(a)[x.found] = v /\ \A j \in 1 .. x.found - 1 : Items(a)[j] # v
  BY <1>2, <1>4 DEF Looking
<1>5. CASE x.failed
  BY <1>1, <1>3, <1>4, <1>5 DEF Removed
<1>6. CASE ~x.failed /\ x.found = 0
  <2>1. Failed(x, Fail(x))
    BY <1>3, FailIs
  <2>2. Removed(a, v, Fail(x))
    BY <1>3, <1>4, <1>6, <2>1 DEF Removed, Failed, Good
  <2> QED
    BY <1>1, <1>6, <2>2
<1>7. CASE ~x.failed /\ x.found # 0
  <2>1. x.found \in 1 .. Size(a)
    BY <1>3, <1>7
  <2>2. Deleted(x, x.found, y)
    BY <1>3, <2>1, DelItemIs
  <2> HIDE DEF y
  <2>3. Removed(a, v, y)
    BY <1>3, <1>4, <1>7, <2>1, <2>2 DEF Removed, Deleted, Good
  <2> QED
    BY <1>1, <1>7, <2>3
<1> QED
  BY <1>5, <1>6, <1>7

-----------------------------------------------------------------------------
(* The invariant                                                             *)

\* The lists are in step, and the items of an array that is not lazy fresh.
IInv == TypeOK /\ EagerItemsAreFresh

LEMMA StartIs ==
  ASSUME IInv
  PROVE  /\ Start \in Good /\ ~Start.failed /\ Start.found = 0
         /\ Size(Start) = Size(arr) /\ Items(Start) = Items(arr)
<1>1. Size(Start) = Size(arr) /\ Items(Start) = Items(arr) /\ ~Start.failed /\ Start.found = 0
      /\ Start.data = arr.data /\ Start.cache = arr.cache
  BY DEF Start, Size, Items
<1>2. Start \in Whole
  BY WholeIs DEF IInv, TypeOK, Start
<1>3. \A i \in 1 .. Size(Start) : Items(Start)[i] = Eval[arr.data[i]]
  BY <1>1 DEF Items
<1>4. ~lazy => Fresh(Start)
  BY <1>1, <1>3 DEF IInv, EagerItemsAreFresh, Fresh
<1> QED
  BY <1>1, <1>2, <1>4 DEF Good

\* The array that good lists are the lists of.
LEMMA GoodArray ==
  ASSUME NEW a \in Good, arr = [data |-> a.data, cache |-> a.cache, inputs |-> a.inputs],
         lazy \in BOOLEAN, raised \in BOOLEAN
  PROVE  IInv
<1>1. arr.data = a.data /\ arr.cache = a.cache /\ arr.inputs = a.inputs
  OBVIOUS
<1>2. /\ a \in Whole /\ a.data \in Seq(Raw) /\ a.cache \in Seq(Raw) /\ a.inputs \in Seq({None})
      /\ Level(a) /\ (~lazy => Fresh(a))
  BY DEF Good, Whole, Lists
<1>3. TypeOK
  BY <1>1, <1>2 DEF TypeOK, Level
<1>4. \A i \in 1 .. Size(a) : Items(a)[i] = Eval[a.data[i]]
  BY DEF Items
<1>5. EagerItemsAreFresh
  BY <1>1, <1>2, <1>4 DEF EagerItemsAreFresh, Fresh, Size
<1> QED
  BY <1>3, <1>5 DEF IInv

LEMMA BecomesGood ==
  ASSUME IInv, NEW a \in Good, Becomes(a)
  PROVE  IInv'
<1>1. /\ a \in Whole /\ a.data \in Seq(Raw) /\ a.cache \in Seq(Raw) /\ a.inputs \in Seq({None})
      /\ Level(a) /\ (~lazy => Fresh(a)) /\ a.failed \in BOOLEAN
  BY DEF Good, Whole, Lists
<1>2. arr'.data = a.data /\ arr'.cache = a.cache /\ arr'.inputs = a.inputs
      /\ raised' = a.failed /\ lazy' = lazy
  BY DEF Becomes
<1>3. TypeOK'
  BY <1>1, <1>2 DEF TypeOK, Level, IInv
<1>4. \A i \in 1 .. Size(a) : Items(a)[i] = Eval[a.data[i]]
  BY DEF Items
<1>5. EagerItemsAreFresh'
  BY <1>1, <1>2, <1>4 DEF EagerItemsAreFresh, Fresh, Size
<1> QED
  BY <1>3, <1>5 DEF IInv

LEMMA InitIsGood == Init => IInv
<1> SUFFICES ASSUME Init
             PROVE  IInv
  OBVIOUS
<1> DEFINE Becoming(given) == IF lazy THEN Built(Padded(given)) ELSE Loaded(Padded(given))
<1>1. PICK given \in SeqOf(Raw, MaxLen - 1) :
        /\ ~Becoming(given).failed
        /\ arr = [data |-> Becoming(given).data, cache |-> Becoming(given).cache,
                  inputs |-> Becoming(given).inputs]
  BY DEF Init
<1>2. given \in Seq(Raw)
  BY DEF SeqOf
<1>3. Padded(given) \in Seq(Raw)
  <2> DEFINE m == IF Len(given) < MinItems THEN MinItems - Len(given) ELSE 0
  <2>1. m \in Nat
    BY <1>2, LazyArrayAssumption
  <2>2. Blank(m) \in Seq(Raw)
    <3> HIDE DEF m
    <3> QED
      BY <2>1, LazyArrayAssumption DEF Blank
  <2>3. Padded(given) = given \o Blank(m)
    BY DEF Padded
  <2> HIDE DEF m
  <2> QED
    BY <1>2, <2>2, <2>3
<1>4. Becoming(given) \in Good
  BY <1>3, BuiltIs, LoadedIs DEF Loading
<1> HIDE DEF Becoming
<1>5. lazy \in BOOLEAN /\ raised \in BOOLEAN
  BY DEF Init
<1> QED
  BY <1>1, <1>4, <1>5, GoodArray

LEMMA Invariance == IInv /\ [Next]_vars => IInv'
<1> SUFFICES ASSUME IInv, [Next]_vars
             PROVE  IInv'
  OBVIOUS
<1>1. /\ Start \in Good /\ Start \in Whole /\ ~Start.failed /\ Start.found = 0
      /\ Size(Start) = Size(arr) /\ (~lazy => Fresh(Start))
  BY StartIs DEF Good
<1>2. CASE UNCHANGED vars
  BY <1>2 DEF vars, IInv, TypeOK, EagerItemsAreFresh, Size
<1>3. ASSUME NEW i \in 1 .. Size(arr), Becomes(GetItem(Start, i))
      PROVE  IInv'
  <2>1. Got(Start, i, GetItem(Start, i))
    BY <1>1, GetItemIs
  <2>2. GetItem(Start, i) \in Good
    BY <1>1, <2>1 DEF Got, Good
  <2> QED
    BY <1>3, <2>2, BecomesGood
<1>4. ASSUME NEW i \in 1 .. Size(arr), Becomes(DelItem(Start, i))
      PROVE  IInv'
  <2>1. Deleted(Start, i, DelItem(Start, i))
    BY <1>1, DelItemIs
  <2>2. DelItem(Start, i) \in Good
    BY <1>1, <2>1 DEF Deleted, Good
  <2> QED
    BY <1>4, <2>2, BecomesGood
<1>5. ASSUME NEW i \in 1 .. Size(arr), Becomes(Pop(Start, i))
      PROVE  IInv'
  <2>1. Popped(Start, i, Pop(Start, i))
    BY <1>1, PopIs
  <2>2. Pop(Start, i) \in Good
    BY <1>1, <2>1 DEF Popped, Good
  <2> QED
    BY <1>5, <2>2, BecomesGood
<1>6. ASSUME NEW i \in 1 .. Size(arr), NEW v \in Raw, Becomes(SetItem(Start, i, v))
      PROVE  IInv'
  <2>1. Set(Start, i, v, SetItem(Start, i, v))
    BY <1>1, SetItemIs
  <2>2. SetItem(Start, i, v) \in Good
    BY <1>1, <2>1 DEF Set, Good
  <2> QED
    BY <1>6, <2>2, BecomesGood
<1>7. ASSUME NEW v \in Raw, Becomes(RemoveItem(Start, v))
      PROVE  IInv'
  <2>1. RemoveItem(Start, v) \in Good
    BY <1>1, RemoveItemIs DEF Removed
  <2> QED
    BY <1>7, <2>1, BecomesGood
<1>8. ASSUME Becomes(Reverse1(Start))
      PROVE  IInv'
  <2>1. Reverse1(Start) \in Good
    BY <1>1, ReversingIs DEF Reversing
  <2> QED
    BY <1>8, <2>1, BecomesGood
<1>9. ASSUME Becomes(Clear(Start))
      PROVE  IInv'
  <2>1. Clear(Start) \in Good
    BY <1>1, ClearIs DEF Clearing
  <2> QED
    BY <1>9, <2>1, BecomesGood
<1>10. ASSUME NEW at \in -2 .. (Size(arr) + 1), NEW v \in Raw, Becomes(Insert(Start, at, v))
       PROVE  IInv'
  <2>1. Inserted(Start, Clamped(Start, at), v, Insert(Start, at, v))
    BY <1>1, InsertIs
  <2>2. Insert(Start, at, v) \in Good
    BY <1>1, <2>1 DEF Inserted, Good
  <2> QED
    BY <1>10, <2>2, BecomesGood
<1>11. ASSUME NEW vs \in SeqOf(Raw, MaxLen - Size(arr)), Becomes(Extend(Start, vs))
       PROVE  IInv'
  <2>1. vs \in Seq(Raw)
    BY DEF SeqOf
  <2>2. Extend(Start, vs) \in Good
    BY <1>1, <2>1, ExtendIs
  <2> QED
    BY <1>11, <2>2, BecomesGood
<1> QED
  BY <1>2, <1>3, <1>4, <1>5, <1>6, <1>7, <1>8, <1>9, <1>10, <1>11 DEF Next

THEOREM Invariant == Spec => []IInv
BY InitIsGood, Invariance, PTL DEF Spec

\* In an array that is not lazy, an item that is read is what its data
\* evaluate to, whatever was inserted, moved or refused before (ArrayProtocol).
THEOREM ItemsStayFresh == Spec => []EagerItemsAreFresh
<1>1. IInv => EagerItemsAreFresh
  BY DEF IInv
<1> QED
  BY <1>1, Invariant, PTL

-----------------------------------------------------------------------------
(* The list                                                                  *)

LEMMA RemoveFirstIs ==
  ASSUME NEW s, NEW v, Len(s) \in Nat, NEW i \in 1 .. Len(s), s[i] = v, \A j \in 1 .. i - 1 : s[j] # v
  PROVE  RemoveFirst(s, v) = RemoveAt(s, i)
<1> DEFINE I == {j \in 1 .. Len(s) : s[j] = v}
<1>1. i \in I /\ \A j \in I : i <= j
  OBVIOUS
<1>2. RemoveFirst(s, v) = RemoveAt(s, Min(I))
  BY DEF RemoveFirst, SelectInSeq
<1>3. I \subseteq Nat
  OBVIOUS
<1> HIDE DEF I
<1>4. \A j \in I : (\A l \in I : j <= l) => j = i
  BY <1>1, <1>3
<1>5. Min(I) = i
  BY <1>1, <1>4 DEF Min
<1> QED
  BY <1>2, <1>5

LEMMA ReversedIs ==
  ASSUME NEW a \in Good, NEW x \in Reversing(a, Size(a) \div 2), ~lazy, Evaluable(a)
  PROVE  Items(x) = Reverse(Items(a))
<1> DEFINE n == Size(a)
           h == n \div 2
<1>1. /\ n \in Nat /\ Size(x) = n /\ Len(Items(a)) = n
      /\ \A j \in 1 .. n : Items(x)[j] = IF j <= h \/ j > n - h THEN Items(a)[n - j + 1] ELSE Items(a)[j]
  BY ItemsType DEF Reversing, Good
<1>2. h \in Nat /\ (2 * h = n \/ 2 * h + 1 = n)
  <2>1. \A m \in Nat : m \div 2 \in Nat /\ (2 * (m \div 2) = m \/ 2 * (m \div 2) + 1 = m)
    OBVIOUS
  <2> HIDE DEF n
  <2> QED
    BY <1>1, <2>1
<1> HIDE DEF h, n
<1>3. ASSUME NEW j \in 1 .. n
      PROVE  Items(x)[j] = Items(a)[n - j + 1]
  <2>1. j <= h \/ j > n - h \/ n - j + 1 = j
    BY <1>1, <1>2
  <2> QED
    BY <1>1, <2>1
<1>4. Reverse(Items(a)) = [j \in 1 .. n |-> Items(a)[n - j + 1]]
  BY <1>1 DEF Reverse
<1>5. Items(x) = [j \in 1 .. n |-> Items(x)[j]]
  BY <1>1 DEF Items
<1> QED
  BY <1>3, <1>4, <1>5

LEMMA ListLike == IInv => ActsAsAList
<1> SUFFICES ASSUME IInv, ~lazy, \A i \in 1 .. Size(arr) : Items(arr)[i] # Bad
             PROVE  /\ Items(Reverse1(Start)) = Reverse(Items(Start))
                    /\ Items(Clear(Start)) = << >>
                    /\ \A i \in 1 .. Size(arr) : Items(Pop(Start, i)) = RemoveAt(Items(Start), i)
                    /\ \A v \in Raw :
                         /\ \A at \in -2 .. Size(arr) :
                              Items(Insert(Start, at, v)) = InsertAt(Items(Start), Clamped(Start, at), Eval[v])
                         /\ IF RemoveItem(Start, v).failed
                            THEN Items(RemoveItem(Start, v)) = Items(Start) /\ v \notin Range(Items(Start))
                            ELSE Items(RemoveItem(Start, v)) = RemoveFirst(Items(Start), v)
  BY DEF ActsAsAList
<1>1. /\ Start \in Good /\ Start \in Whole /\ ~Start.failed /\ Start.found = 0
      /\ Size(Start) = Size(arr) /\ Items(Start) = Items(arr) /\ Fresh(Start)
  BY StartIs DEF Good
<1>2. Evaluable(Start)
  BY <1>1 DEF Evaluable
<1>3. Items(Start) \in Seq(Raw \cup {Bad}) /\ Len(Items(Start)) = Size(arr) /\ Size(arr) \in Nat
  BY <1>1, ItemsType
<1>4. Items(Reverse1(Start)) = Reverse(Items(Start))
  BY <1>1, <1>2, ReversingIs, ReversedIs
<1>5. Items(Clear(Start)) = << >>
  <2>1. Clear(Start) \in Clearing(Start, Size(Start))
    BY <1>1, ClearIs
  <2>2. Size(Clear(Start)) = 0
    BY <1>1, <1>2, <1>3, <2>1 DEF Clearing
  <2> QED
    BY <2>2 DEF Items
<1>6. ASSUME NEW i \in 1 .. Size(arr)
      PROVE  Items(Pop(Start, i)) = RemoveAt(Items(Start), i)
  <2>1. Popped(Start, i, Pop(Start, i))
    BY <1>1, PopIs
  <2> QED
    BY <1>1, <1>2, <2>1 DEF Popped, Evaluable
<1>7. ASSUME NEW v \in Raw, NEW at \in -2 .. Size(arr)
      PROVE  Items(Insert(Start, at, v)) = InsertAt(Items(Start), Clamped(Start, at), Eval[v])
  <2>1. Inserted(Start, Clamped(Start, at), v, Insert(Start, at, v))
    BY <1>1, InsertIs
  <2> QED
    BY <2>1 DEF Inserted
<1>8. ASSUME NEW v \in Raw
      PROVE  IF RemoveItem(Start, v).failed
             THEN Items(RemoveItem(Start, v)) = Items(Start) /\ v \notin Range(Items(Start))
             ELSE Items(RemoveItem(Start, v)) = RemoveFirst(Items(Start), v)
  <2> DEFINE b == RemoveItem(Start, v)
  <2>1. Removed(Start, v, b)
    BY <1>1, RemoveItemIs
  <2> HIDE DEF b
  <2>2. CASE b.failed
    <3>1. Items(b) = Items(Start) /\ \A i \in 1 .. Size(Start) : Items(Start)[i] # v
      BY <1>2, <2>1, <2>2 DEF Removed
    <3>2. DOMAIN Items(Start) = 1 .. Size(Start)
      BY DEF Items
    <3> QED
      BY <2>2, <3>1, <3>2 DEF b, Range
  <2>3. CASE ~b.failed
    <3>1. PICK i \in 1 .. Size(Start) :
            /\ Items(b) = RemoveAt(Items(Start), i) /\ Items(Start)[i] = v
            /\ \A j \in 1 .. i - 1 : Items(Start)[j] # v
      BY <1>2, <2>1, <2>3 DEF Removed
    <3>2. RemoveFirst(Items(Start), v) = RemoveAt(Items(Start), i)
      BY <1>1, <1>3, <3>1, RemoveFirstIs
    <3> QED
      BY <2>3, <3>1, <3>2 DEF b
  <2> QED
    BY <2>2, <2>3
<1> QED
  BY <1>4, <1>5, <1>6, <1>7, <1>8

\* To a reader, an array that is not lazy and whose data can all be evaluated is
\* a list, whichever operations of the sequence were called (ArrayProtocol).
THEOREM StaysAList == Spec => []ActsAsAList
BY Invariant, ListLike, PTL
=============================================================================
