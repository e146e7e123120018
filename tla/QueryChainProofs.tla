--------------------------- MODULE QueryChainProofs ---------------------------
(* Proofs about QueryChain, for any objects, filters, lists and bounds.      *)
EXTENDS QueryChain, SequenceTheorems, WellFoundedInduction, TLAPS

LEMMA LeastNumber ==
  ASSUME NEW T, T \subseteq Nat, T # {}
  PROVE  \E n \in T : \A m \in T : n <= m
<1> DEFINE R == OpToRel(<, Nat)
<1>1. IsWellFoundedOn(R, Nat)
  BY NatLessThanWellFounded
<1>2. PICK n \in T : \A m \in T : ~(<<m, n>> \in R)
  <2> HIDE DEF R
  <2> QED
    BY <1>1, WFMin
<1>3. \A m \in T : ~(m < n)
  BY <1>2 DEF OpToRel
<1> QED
  BY <1>3

\* A function defined step by step, from start, exists.
Iterates(g, X, start, N, F) ==
    g \in [0 .. N -> X] /\ g[0] = start /\ \A n \in 1 .. N : g[n] = F[n][g[n - 1]]

LEMMA Iterated ==
  ASSUME NEW X, NEW start \in X, NEW N \in Nat, NEW F \in [1 .. N -> [X -> X]]
  PROVE  \E g : Iterates(g, X, start, N, F)
<1> DEFINE Computes(g, k) == g[0] = start /\ \A n \in 1 .. k : g[n] = F[n][g[n - 1]]
           T == {k \in 0 .. N : ~\E g \in [0 .. N -> X] : Computes(g, k)}
<1>1. SUFFICES ASSUME T # {}
               PROVE  FALSE
  <2>1. N \in 0 .. N
    OBVIOUS
  <2> HIDE DEF Computes
  <2>2. T = {} => \E g \in [0 .. N -> X] : Computes(g, N)
    BY <2>1
  <2> QED
    BY <2>2 DEF Computes, Iterates
<1>2. PICK k \in T : \A m \in T : k <= m
  <2>1. T \subseteq Nat
    OBVIOUS
  <2> HIDE DEF T
  <2> QED
    BY <1>1, <2>1, LeastNumber
<1>3. k # 0
  <2>1. Computes([n \in 0 .. N |-> start], 0)
    OBVIOUS
  <2>2. [n \in 0 .. N |-> start] \in [0 .. N -> X]
    OBVIOUS
  <2> HIDE DEF Computes
  <2> QED
    BY <1>2, <2>1, <2>2
<1>4. k \in 1 .. N /\ k - 1 \in 0 .. N
  BY <1>2, <1>3
<1>5. PICK g \in [0 .. N -> X] : Computes(g, k - 1)
  <2>1. k - 1 \notin T
    <3> HIDE DEF T
    <3> QED
      BY <1>2, <1>4
  <2> HIDE DEF Computes
  <2> QED
    BY <1>4, <2>1
<1> DEFINE h == [g EXCEPT ![k] = F[k][g[k - 1]]]
<1>6. h \in [0 .. N -> X]
  <2>1. F[k] \in [X -> X] /\ g[k - 1] \in X
    BY <1>4, <1>5
  <2>2. F[k][g[k - 1]] \in X
    BY <2>1
  <2> QED
    BY <1>4, <1>5, <2>2
<1>7. \A n \in 0 .. N : h[n] = IF n = k THEN F[k][g[k - 1]] ELSE g[n]
  BY <1>4, <1>5
<1> HIDE DEF h
<1>8. h[0] = start
  <2>1. 0 \in 0 .. N /\ g[0] = start
    BY <1>5
  <2> QED
    BY <1>3, <1>7, <2>1
<1>9. ASSUME NEW n \in 1 .. k
      PROVE  h[n] = F[n][h[n - 1]]
  <2>1. n \in 0 .. N /\ n - 1 \in 0 .. N /\ n - 1 # k
    BY <1>4
  <2>2. h[n - 1] = g[n - 1]
    BY <1>7, <2>1
  <2>3. CASE n = k
    BY <1>7, <2>1, <2>2, <2>3
  <2>4. CASE n # k
    <3>1. n \in 1 .. k - 1
      BY <1>4, <2>4
    <3>2. g[n] = F[n][g[n - 1]]
      BY <1>5, <3>1
    <3> QED
      BY <1>7, <2>1, <2>2, <2>4, <3>2
  <2> QED
    BY <2>3, <2>4
<1>10. Computes(h, k)
  BY <1>8, <1>9
<1> HIDE DEF Computes
<1> QED
  BY <1>2, <1>6, <1>10

LEMMA MinIsLeast ==
  ASSUME NEW T, T \subseteq Nat, T # {}
  PROVE  Min(T) \in T /\ \A m \in T : Min(T) <= m
<1>1. \E n \in T : \A m \in T : n <= m
  BY LeastNumber
<1> QED
  BY <1>1 DEF Min

LEMMA MaxIsLargest ==
  ASSUME NEW N \in Nat, NEW T, T \subseteq 0 .. N, T # {}
  PROVE  Max(T) \in T /\ \A m \in T : Max(T) >= m
<1> DEFINE U == {n \in Nat : \A m \in T : m <= n}
<1>1. N \in U /\ U \subseteq Nat
  OBVIOUS
<1>2. PICK n \in U : \A m \in U : n <= m
  <2> HIDE DEF U
  <2> QED
    BY <1>1, LeastNumber
<1>3. n \in T
  <2>1. SUFFICES ASSUME n \notin T
                 PROVE  FALSE
    OBVIOUS
  <2>2. \A m \in T : m \in Nat /\ m <= n /\ m # n
    BY <1>2, <2>1
  <2>3. n \in Nat /\ n > 0
    <3>1. PICK m \in T : TRUE
      OBVIOUS
    <3>2. n \in Nat
      BY <1>2
    <3> QED
      BY <2>2, <3>1, <3>2
  <2>4. n - 1 \in U
    BY <2>2, <2>3
  <2> QED
    BY <1>2, <2>3, <2>4
<1>4. \A m \in T : n >= m
  BY <1>2
<1> QED
  BY <1>3, <1>4 DEF Max

-----------------------------------------------------------------------------
(* Sequences                                                                 *)

LEMMA SubSeqOf ==
  ASSUME NEW S, NEW s \in Seq(S), NEW m \in Nat \ {0}, NEW n \in Nat, n <= Len(s)
  PROVE  /\ SubSeq(s, m, n) \in Seq(S)
         /\ Len(SubSeq(s, m, n)) = IF m <= n THEN n - m + 1 ELSE 0
         /\ \A i \in 1 .. n - m + 1 : SubSeq(s, m, n)[i] = s[m + i - 1]
<1>1. Len(s) \in Nat
  BY LenProperties
<1>2. \A i \in m .. n : i \in 1 .. Len(s)
  BY <1>1
<1>3. \A i \in m .. n : s[i] \in S
  BY <1>2, ElementOfSeq
<1> QED
  BY <1>3, SubSeqProperties

\* The rest of a sequence after its first m elements, and the first m.
LEMMA Rest ==
  ASSUME NEW S, NEW s \in Seq(S), NEW m \in 0 .. Len(s)
  PROVE  /\ SubSeq(s, m + 1, Len(s)) \in Seq(S)
         /\ Len(SubSeq(s, m + 1, Len(s))) = Len(s) - m
         /\ \A i \in 1 .. Len(s) - m : SubSeq(s, m + 1, Len(s))[i] = s[m + i]
<1>1. Len(s) \in Nat /\ m + 1 \in Nat \ {0}
  BY LenProperties
<1>2. /\ SubSeq(s, m + 1, Len(s)) \in Seq(S)
      /\ Len(SubSeq(s, m + 1, Len(s))) = IF m + 1 <= Len(s) THEN Len(s) - (m + 1) + 1 ELSE 0
      /\ \A i \in 1 .. Len(s) - (m + 1) + 1 : SubSeq(s, m + 1, Len(s))[i] = s[(m + 1) + i - 1]
  BY <1>1, SubSeqOf
<1>3. \A i \in 1 .. Len(s) - m : i \in 1 .. Len(s) - (m + 1) + 1 /\ (m + 1) + i - 1 = m + i
  BY <1>1
<1> QED
  BY <1>1, <1>2, <1>3

LEMMA Start ==
  ASSUME NEW S, NEW s \in Seq(S), NEW m \in 0 .. Len(s)
  PROVE  /\ SubSeq(s, 1, m) \in Seq(S) /\ Len(SubSeq(s, 1, m)) = m
         /\ \A i \in 1 .. m : SubSeq(s, 1, m)[i] = s[i]
<1>1. Len(s) \in Nat
  BY LenProperties
<1>2. /\ SubSeq(s, 1, m) \in Seq(S)
      /\ Len(SubSeq(s, 1, m)) = IF 1 <= m THEN m - 1 + 1 ELSE 0
      /\ \A i \in 1 .. m - 1 + 1 : SubSeq(s, 1, m)[i] = s[1 + i - 1]
  BY <1>1, SubSeqOf
<1>3. \A i \in 1 .. m : i \in 1 .. m - 1 + 1 /\ 1 + i - 1 = i
  BY <1>1
<1> QED
  BY <1>1, <1>2, <1>3

LEMMA RestOfRest ==
  ASSUME NEW S, NEW s \in Seq(S), NEW m \in 0 .. Len(s), NEW n \in 0 .. Len(s) - m
  PROVE  LET r == SubSeq(s, m + 1, Len(s))
         IN  SubSeq(r, n + 1, Len(r)) = SubSeq(s, m + n + 1, Len(s))
<1> DEFINE r == SubSeq(s, m + 1, Len(s))
           a == SubSeq(r, n + 1, Len(r))
           b == SubSeq(s, m + n + 1, Len(s))
<1>1. Len(s) \in Nat /\ m + n \in 0 .. Len(s)
  BY LenProperties
<1>2. r \in Seq(S) /\ Len(r) = Len(s) - m /\ \A i \in 1 .. Len(s) - m : r[i] = s[m + i]
  BY Rest
<1> HIDE DEF r
<1>3. a \in Seq(S) /\ Len(a) = Len(s) - m - n /\ \A i \in 1 .. Len(r) - n : a[i] = r[n + i]
  <2>1. n \in 0 .. Len(r)
    BY <1>2
  <2>2. a \in Seq(S) /\ Len(a) = Len(r) - n /\ \A i \in 1 .. Len(r) - n : a[i] = r[n + i]
    BY <1>2, <2>1, Rest
  <2> QED
    BY <1>2, <2>2
<1>4. b \in Seq(S) /\ Len(b) = Len(s) - (m + n) /\ \A i \in 1 .. Len(s) - (m + n) : b[i] = s[(m + n) + i]
  BY <1>1, Rest
<1> HIDE DEF a, b
<1>5. ASSUME NEW i \in 1 .. Len(a)
      PROVE  a[i] = b[i]
  <2>1. i \in 1 .. Len(r) - n /\ n + i \in 1 .. Len(s) - m /\ i \in 1 .. Len(s) - (m + n)
    BY <1>1, <1>2, <1>3
  <2>2. a[i] = s[m + (n + i)] /\ b[i] = s[(m + n) + i]
    BY <1>2, <1>3, <1>4, <2>1
  <2>3. m + (n + i) = (m + n) + i
    BY <1>1, <2>1
  <2> QED
    BY <2>2, <2>3
<1> QED
  BY <1>1, <1>3, <1>4, <1>5, SeqEqual DEF a, b, r

LEMMA StartAndMore ==
  ASSUME NEW S, NEW s \in Seq(S), NEW m \in 0 .. Len(s), NEW n \in 0 .. Len(s) - m
  PROVE  SubSeq(s, 1, m) \o SubSeq(SubSeq(s, m + 1, Len(s)), 1, n) = SubSeq(s, 1, m + n)
<1> DEFINE r == SubSeq(s, m + 1, Len(s))
           a == SubSeq(s, 1, m)
           b == SubSeq(r, 1, n)
           c == SubSeq(s, 1, m + n)
<1>1. Len(s) \in Nat /\ m + n \in 0 .. Len(s)
  BY LenProperties
<1>2. r \in Seq(S) /\ Len(r) = Len(s) - m /\ \A i \in 1 .. Len(s) - m : r[i] = s[m + i]
  BY Rest
<1> HIDE DEF r
<1>3. a \in Seq(S) /\ Len(a) = m /\ \A i \in 1 .. m : a[i] = s[i]
  BY Start
<1>4. b \in Seq(S) /\ Len(b) = n /\ \A i \in 1 .. n : b[i] = r[i]
  BY <1>2, Start
<1>5. c \in Seq(S) /\ Len(c) = m + n /\ \A i \in 1 .. m + n : c[i] = s[i]
  BY <1>1, Start
<1> HIDE DEF a, b, c
<1>6. /\ a \o b \in Seq(S) /\ Len(a \o b) = m + n
      /\ \A i \in 1 .. m + n : (a \o b)[i] = IF i <= m THEN a[i] ELSE b[i - m]
  BY <1>3, <1>4, ConcatProperties
<1>7. ASSUME NEW i \in 1 .. m + n
      PROVE  (a \o b)[i] = c[i]
  <2>1. CASE i <= m
    BY <1>1, <1>3, <1>5, <1>6, <2>1
  <2>2. CASE i > m
    <3>1. i - m \in 1 .. n /\ i - m \in 1 .. Len(s) - m /\ m + (i - m) = i
      BY <1>1, <2>2
    <3>2. (a \o b)[i] = b[i - m]
      BY <1>1, <1>6, <2>2
    <3>3. b[i - m] = s[m + (i - m)]
      BY <1>2, <1>4, <3>1
    <3>4. s[m + (i - m)] = s[i]
      BY <3>1
    <3>5. c[i] = s[i]
      BY <1>5
    <3> QED
      BY <3>2, <3>3, <3>4, <3>5
  <2>3. i \in Int /\ m \in Int
    BY <1>1
  <2>4. i <= m \/ i > m
    BY <2>3
  <2> QED
    BY <2>1, <2>2, <2>4
<1> QED
  BY <1>5, <1>6, <1>7, SeqEqual DEF a, b, c, r

-----------------------------------------------------------------------------
(* Criteria: testing an object leaves a reading of the filter, and one that  *)
(* has moved an operator is never again as it was given.                     *)

Criterion(W) == [ks : Seq(STRING), ops : Seq(STRING), negate : BOOLEAN, want : W]

WellFormed(filter) ==
    /\ Len(filter.tests) \in Nat /\ DOMAIN filter.tests = 1 .. Len(filter.tests)
    /\ \A n \in DOMAIN filter.tests : filter.tests[n].path \in Seq(STRING)

LEMMA MovedOps ==
  ASSUME NEW W, NEW c \in Criterion(W), NEW n \in 0 .. Len(c.ops)
  PROVE  /\ MovedBy(c, n) \in Criterion(W)
         /\ MovedBy(c, n).ks = c.ks \o SubSeq(c.ops, 1, n)
         /\ MovedBy(c, n).ops = SubSeq(c.ops, n + 1, Len(c.ops))
         /\ Len(MovedBy(c, n).ops) = Len(c.ops) - n
<1>1. c.ks \in Seq(STRING) /\ c.ops \in Seq(STRING)
  BY DEF Criterion
<1>2. SubSeq(c.ops, 1, n) \in Seq(STRING)
  BY <1>1, Start
<1>3. /\ SubSeq(c.ops, n + 1, Len(c.ops)) \in Seq(STRING)
      /\ Len(SubSeq(c.ops, n + 1, Len(c.ops))) = Len(c.ops) - n
  BY <1>1, Rest
<1>4. c.ks \o SubSeq(c.ops, 1, n) \in Seq(STRING)
  BY <1>1, <1>2, ConcatProperties
<1> QED
  BY <1>3, <1>4 DEF MovedBy, Criterion

LEMMA MovedByNone ==
  ASSUME NEW W, NEW c \in Criterion(W)
  PROVE  MovedBy(c, 0) = c
<1>1. c.ks \in Seq(STRING) /\ c.ops \in Seq(STRING)
  BY DEF Criterion
<1>2. SubSeq(c.ops, 1, 0) = <<>>
  BY SubSeqEmpty
<1>3. c.ks \o SubSeq(c.ops, 1, 0) = c.ks
  BY <1>1, <1>2, ConcatEmptySeq
<1>4. SubSeq(c.ops, 0 + 1, Len(c.ops)) = c.ops
  BY <1>1, SubSeqFull
<1> QED
  BY <1>3, <1>4 DEF MovedBy, Criterion

LEMMA JoinedInAnyOrder ==
  ASSUME NEW s \in Seq(STRING), NEW t \in Seq(STRING), NEW u \in Seq(STRING)
  PROVE  (s \o t) \o u = s \o (t \o u)
BY ConcatAssociative

LEMMA MovedTwice ==
  ASSUME NEW W, NEW c \in Criterion(W), NEW m \in 0 .. Len(c.ops), NEW n \in 0 .. Len(c.ops) - m
  PROVE  MovedBy(MovedBy(c, m), n) = MovedBy(c, m + n)
<1> DEFINE d == MovedBy(c, m)
<1>1. c.ks \in Seq(STRING) /\ c.ops \in Seq(STRING)
  BY DEF Criterion
<1>2. /\ d \in Criterion(W) /\ d.ks = c.ks \o SubSeq(c.ops, 1, m)
      /\ d.ops = SubSeq(c.ops, m + 1, Len(c.ops)) /\ Len(d.ops) = Len(c.ops) - m
  BY MovedOps
<1>3. d = [c EXCEPT !.ks = d.ks, !.ops = d.ops]
  BY DEF MovedBy, Criterion
<1> HIDE DEF d
<1>4. SubSeq(d.ops, n + 1, Len(d.ops)) = SubSeq(c.ops, m + n + 1, Len(c.ops))
  BY <1>1, <1>2, RestOfRest
<1>5. SubSeq(c.ops, 1, m) \in Seq(STRING) /\ SubSeq(d.ops, 1, n) \in Seq(STRING)
  BY <1>1, <1>2, Start DEF Criterion
<1>6. d.ks \o SubSeq(d.ops, 1, n) = c.ks \o SubSeq(c.ops, 1, m + n)
  <2>1. SubSeq(c.ops, 1, m) \o SubSeq(d.ops, 1, n) = SubSeq(c.ops, 1, m + n)
    BY <1>1, <1>2, StartAndMore
  <2>2. (c.ks \o SubSeq(c.ops, 1, m)) \o SubSeq(d.ops, 1, n)
          = c.ks \o (SubSeq(c.ops, 1, m) \o SubSeq(d.ops, 1, n))
    BY <1>1, <1>5, JoinedInAnyOrder
  <2> QED
    BY <1>2, <2>1, <2>2
<1>7. MovedBy(d, n) = [d EXCEPT !.ks = c.ks \o SubSeq(c.ops, 1, m + n),
                                !.ops = SubSeq(c.ops, m + n + 1, Len(c.ops))]
  BY <1>4, <1>6 DEF MovedBy
<1> QED
  BY <1>3, <1>7 DEF d, MovedBy, Criterion

\* Reaching an object moves some of the operators, or none.
LEMMA MovedSome ==
  ASSUME NEW W, NEW c \in Criterion(W), NEW o
  PROVE  \E n \in 0 .. Len(c.ops) : Reached(c, o).c = MovedBy(c, n)
<1>1. Len(c.ops) \in Nat
  BY LenProperties DEF Criterion
<1>2. PICK n \in 0 .. Len(c.ops) : Moved(c, o).c = MovedBy(c, n)
  <2> DEFINE T == {m \in 0 .. Len(c.ops) : m = 0 \/ HasChildren(o, c.ops, m)}
  <2>1. T \subseteq 0 .. Len(c.ops) /\ T # {}
    BY <1>1
  <2> HIDE DEF T
  <2>2. Max(T) \in T
    BY <1>1, <2>1, MaxIsLargest
  <2>3. Moved(c, o).c = MovedBy(c, Max(T))
    BY DEF Moved, T
  <2> QED
    BY <2>1, <2>2, <2>3
<1>3. Reached(c, o).c = Moved(c, o).c \/ Reached(c, o).c = c
  BY DEF Reached
<1> QED
  BY <1>1, <1>2, <1>3, MovedByNone

LEMMA FormsMove ==
  ASSUME NEW W, NEW d \in Criterion(W), NEW c \in Forms(d), NEW n \in 0 .. Len(c.ops)
  PROVE  /\ c \in Criterion(W)
         /\ MovedBy(c, n) \in Forms(d)
         /\ MovedBy(c, n) = d => c = d
<1>1. Len(d.ops) \in Nat
  BY LenProperties DEF Criterion
<1>2. PICK m \in 0 .. Len(d.ops) : c = MovedBy(d, m)
  BY DEF Forms
<1>3. c \in Criterion(W) /\ Len(c.ops) = Len(d.ops) - m
  BY <1>2, MovedOps
<1>4. m + n \in 0 .. Len(d.ops) /\ n \in 0 .. Len(d.ops) - m
  BY <1>1, <1>3
<1>5. MovedBy(c, n) = MovedBy(d, m + n)
  BY <1>2, <1>4, MovedTwice
<1>6. ASSUME MovedBy(c, n) = d
      PROVE  c = d
  <2>1. Len(MovedBy(d, m + n).ops) = Len(d.ops) - (m + n)
    BY <1>4, MovedOps
  <2>2. m = 0
    BY <1>1, <1>4, <1>5, <1>6, <2>1
  <2> QED
    BY <1>2, <2>2, MovedByNone
<1> QED
  BY <1>3, <1>4, <1>5, <1>6 DEF Forms

\* list.remove
LEMMA RemovedFirst ==
  ASSUME NEW S, NEW s \in Seq(S), NEW e
  PROVE  RemoveFirst(s, e) \in Seq(S)
<1> DEFINE I == {i \in 1 .. Len(s) : s[i] = e}
<1>1. Len(s) \in Nat
  BY LenProperties
<1>2. SUFFICES ASSUME \E i \in 1 .. Len(s) : s[i] = e
               PROVE  RemoveFirst(s, e) \in Seq(S)
  BY DEF RemoveFirst
<1>3. Min(I) \in 1 .. Len(s)
  <2>1. I # {} /\ I \subseteq Nat /\ I \subseteq 1 .. Len(s)
    BY <1>1, <1>2
  <2> HIDE DEF I
  <2> QED
    BY <2>1, MinIsLeast
<1>4. SelectInSeq(s, LAMBDA v : v = e) = Min(I)
  BY <1>2 DEF SelectInSeq
<1>5. RemoveFirst(s, e) = SubSeq(s, 1, Min(I) - 1) \o SubSeq(s, Min(I) + 1, Len(s))
  BY <1>2, <1>4 DEF RemoveFirst, RemoveAt
<1>6. Min(I) - 1 \in 0 .. Len(s) /\ Min(I) \in 0 .. Len(s)
  BY <1>1, <1>3
<1> HIDE DEF I
<1>7. SubSeq(s, 1, Min(I) - 1) \in Seq(S) /\ SubSeq(s, Min(I) + 1, Len(s)) \in Seq(S)
  BY <1>6, Start, Rest
<1> QED
  BY <1>5, <1>7, ConcatProperties

\* The path of a criterion is split into a path and operators.
LEMMA SortedIsCriterion ==
  ASSUME NEW test, test.path \in Seq(STRING)
  PROVE  Sorted(test) \in Criterion({test.want})
<1> DEFINE path == test.path
           Ends(n) == \A m \in n + 1 .. Len(path) : path[m] \in Operators
           T == {n \in 0 .. Len(path) : Ends(n)}
           last == CHOOSE n \in 0 .. Len(path) :
                      /\ n = 0 \/ path[n] \notin Operators
                      /\ \A m \in n + 1 .. Len(path) : path[m] \in Operators
           found == SubSeq(path, last + 1, Len(path))
<1>1. path \in Seq(STRING) /\ Len(path) \in Nat
  BY LenProperties
<1> HIDE DEF path
<1>2. PICK n \in T : \A m \in T : n <= m
  <2>1. Len(path) \in T /\ T \subseteq Nat
    BY <1>1
  <2> HIDE DEF T
  <2> QED
    BY <2>1, LeastNumber
<1>3. n = 0 \/ path[n] \notin Operators
  <2>1. SUFFICES ASSUME n # 0, path[n] \in Operators
                 PROVE  FALSE
    OBVIOUS
  <2>2. n \in 0 .. Len(path) /\ n - 1 \in 0 .. Len(path)
    BY <1>1, <2>1
  <2>3. Ends(n)
    BY <1>2
  <2>4. Ends(n - 1)
    BY <1>1, <2>1, <2>2, <2>3
  <2>5. n - 1 \in T
    BY <2>2, <2>4
  <2>6. n <= n - 1
    BY <1>2, <2>5
  <2> QED
    BY <2>2, <2>6
<1>4. n \in 0 .. Len(path) /\ Ends(n)
  BY <1>2
<1>5. last \in 0 .. Len(path)
  BY <1>3, <1>4
<1> HIDE DEF last
<1>6. found \in Seq(STRING)
  BY <1>1, <1>5, Rest
<1>7. SubSeq(path, 1, last) \in Seq(STRING)
  BY <1>1, <1>5, Start
<1> HIDE DEF found
<1>8. RemoveFirst(found, "not") \in Seq(STRING)
  BY <1>6, RemovedFirst
<1>9. Contains(found, "not") \in BOOLEAN
  BY DEF Contains
<1>10. Sorted(test) = [ks |-> SubSeq(path, 1, last), ops |-> RemoveFirst(found, "not"),
                       negate |-> Contains(found, "not"), want |-> test.want]
  BY DEF Sorted, path, last, found
<1> QED
  BY <1>7, <1>8, <1>9, <1>10 DEF Criterion

\* A verdict has these fields, and the criteria it leaves read the filter.
Verdict(filter, st) ==
    /\ DOMAIN st = {"tests", "test", "stop", "raised"}
    /\ st.tests \in Readings(filter)

LEMMA FreshForm ==
  ASSUME NEW filter, WellFormed(filter)
  PROVE  /\ DOMAIN Fresh(filter) = 1 .. Len(filter.tests)
         /\ \A n \in 1 .. Len(filter.tests) : Fresh(filter)[n] \in Criterion({filter.tests[n].want})
         /\ Fresh(filter) \in Readings(filter)
<1> DEFINE N == Len(filter.tests)
           fresh == Fresh(filter)
<1>1. DOMAIN fresh = 1 .. N /\ \A n \in 1 .. N : fresh[n] = Sorted(filter.tests[n])
  BY DEF WellFormed, Fresh
<1>2. \A n \in 1 .. N : fresh[n] \in Criterion({filter.tests[n].want})
  BY <1>1, SortedIsCriterion DEF WellFormed
<1>3. ASSUME NEW n \in 1 .. N
      PROVE  fresh[n] \in Forms(fresh[n])
  <2>1. fresh[n] \in Criterion({filter.tests[n].want})
    BY <1>2
  <2> HIDE DEF fresh
  <2>2. MovedBy(fresh[n], 0) = fresh[n] /\ Len(fresh[n].ops) \in Nat
    BY <2>1, MovedByNone, LenProperties DEF Criterion
  <2> QED
    BY <2>2 DEF Forms
<1>4. fresh \in [1 .. N -> UNION {Forms(fresh[n]) : n \in 1 .. N}]
  <2>1. fresh = [n \in 1 .. N |-> fresh[n]]
    BY <1>1 DEF Fresh
  <2> HIDE DEF fresh
  <2> QED
    BY <1>3, <2>1
<1> QED
  BY <1>1, <1>2, <1>3, <1>4 DEF Readings

\* A reading stays one when one criterion takes another of its forms.
LEMMA ReadingChanges ==
  ASSUME NEW filter, WellFormed(filter), NEW tests \in Readings(filter),
         NEW n \in 1 .. Len(filter.tests), NEW c \in Forms(Fresh(filter)[n])
  PROVE  /\ [tests EXCEPT ![n] = c] \in Readings(filter)
         /\ [tests EXCEPT ![n] = c] = Fresh(filter) =>
                c = Fresh(filter)[n] /\ (tests[n] = Fresh(filter)[n] => tests = Fresh(filter))
<1> DEFINE N == Len(filter.tests)
           fresh == Fresh(filter)
           F == UNION {Forms(fresh[m]) : m \in 1 .. N}
           t == [tests EXCEPT ![n] = c]
<1>1. DOMAIN fresh = 1 .. N /\ fresh \in [1 .. N -> F]
  <2>1. DOMAIN Fresh(filter) = 1 .. Len(filter.tests) /\ Fresh(filter) \in Readings(filter)
    BY FreshForm
  <2> QED
    BY <2>1 DEF Readings
<1>2. tests \in [1 .. N -> F] /\ \A m \in 1 .. N : tests[m] \in Forms(fresh[m])
  BY <1>1 DEF Readings
<1> HIDE DEF fresh
<1>3. c \in F /\ c \in Forms(fresh[n])
  BY DEF fresh
<1> HIDE DEF F
<1>4. t \in [1 .. N -> F] /\ \A m \in 1 .. N : t[m] = IF m = n THEN c ELSE tests[m]
  BY <1>2, <1>3
<1> HIDE DEF t
<1>5. \A m \in 1 .. N : t[m] \in Forms(fresh[m])
  BY <1>2, <1>3, <1>4
<1>6. t \in Readings(filter)
  BY <1>1, <1>4, <1>5 DEF Readings, fresh, F
<1>7. ASSUME t = fresh
      PROVE  c = fresh[n] /\ (tests[n] = fresh[n] => tests = fresh)
  <2>1. c = fresh[n] /\ \A m \in 1 .. N : m # n => tests[m] = fresh[m]
    BY <1>4, <1>7
  <2>2. ASSUME tests[n] = fresh[n]
        PROVE  tests = fresh
    BY <1>1, <1>2, <2>1, <2>2
  <2> QED
    BY <2>1, <2>2
<1> QED
  BY <1>6, <1>7 DEF t, fresh

\* One more criterion keeps a verdict, and what was not as given stays so.
LEMMA TestKeeps ==
  ASSUME NEW filter, WellFormed(filter), NEW any, NEW v, NEW st, Verdict(filter, st),
         NEW n \in 1 .. Len(filter.tests)
  PROVE  /\ Verdict(filter, TestNext(any, v, st, n))
         /\ TestNext(any, v, st, n).tests = Fresh(filter) => st.tests = Fresh(filter)
<1> DEFINE fresh == Fresh(filter)
           found == Descendant(v, st.tests[n].ks)
           at == Reached(st.tests[n], found)
           made == Applied(at.c, at.o)
           next == TestNext(any, v, st, n)
<1>1. st.tests \in Readings(filter) /\ st.tests[n] \in Forms(fresh[n])
  BY FreshForm DEF Verdict, Readings
<1>2. fresh[n] \in Criterion({filter.tests[n].want})
  BY FreshForm
<1>3. st.tests[n] \in Criterion({filter.tests[n].want}) /\ Len(st.tests[n].ops) \in Nat
  <2> HIDE DEF fresh
  <2>1. PICK m \in 0 .. Len(fresh[n].ops) : st.tests[n] = MovedBy(fresh[n], m)
    BY <1>1 DEF Forms
  <2>2. st.tests[n] \in Criterion({filter.tests[n].want})
    BY <1>2, <2>1, MovedOps
  <2> QED
    BY <2>2, LenProperties DEF Criterion
<1>4. PICK m \in 0 .. Len(st.tests[n].ops) : at.c = MovedBy(st.tests[n], m)
  <2> HIDE DEF found
  <2> QED
    BY <1>3, MovedSome
<1> HIDE DEF at, found
<1>5. at.c \in Forms(fresh[n]) /\ (at.c = fresh[n] => st.tests[n] = fresh[n])
  <2> HIDE DEF fresh
  <2> QED
    BY <1>1, <1>2, <1>4, FormsMove
<1>6. /\ [st.tests EXCEPT ![n] = at.c] \in Readings(filter)
      /\ [st.tests EXCEPT ![n] = at.c] = fresh => st.tests = fresh
  <2>1. \A c \in Forms(fresh[n]) :
           /\ [st.tests EXCEPT ![n] = c] \in Readings(filter)
           /\ [st.tests EXCEPT ![n] = c] = fresh =>
                  c = fresh[n] /\ (st.tests[n] = fresh[n] => st.tests = fresh)
    BY <1>1, ReadingChanges
  <2> HIDE DEF fresh
  <2> QED
    BY <1>5, <2>1
<1>7. \/ next.tests = st.tests
      \/ next.tests = [st.tests EXCEPT ![n] = at.c]
  BY DEF TestNext, Tried, Judged, Verdict, at, found, made
<1>8. DOMAIN next = {"tests", "test", "stop", "raised"}
  BY DEF TestNext, Tried, Judged, Verdict
<1> QED
  BY <1>1, <1>6, <1>7, <1>8 DEF Verdict

\* The loop over the criteria computes a verdict after each of them.
Judging(any, v, start, N, g) ==
    g = [n \in 0 .. N |-> IF n = 0 THEN start ELSE TestNext(any, v, g[n - 1], n)]

LEMMA JudgedDefined ==
  ASSUME NEW any, NEW v, NEW start, NEW N \in Nat
  PROVE  \E g : Judging(any, v, start, N, g)
<1> DEFINE After(g, n) == IF n = 0 THEN start ELSE TestNext(any, v, g[n - 1], n)
           Computes(g, k) == g = [n \in 0 .. k |-> After(g, n)]
           T == {k \in Nat : ~\E g : Computes(g, k)}
<1>1. SUFFICES ASSUME T # {}
               PROVE  FALSE
  BY DEF Judging
<1>2. PICK k \in T : \A m \in T : k <= m
  <2>1. T \subseteq Nat
    OBVIOUS
  <2> HIDE DEF T
  <2> QED
    BY <1>1, <2>1, LeastNumber
<1>3. k # 0
  <2>1. Computes([n \in 0 .. 0 |-> start], 0)
    OBVIOUS
  <2> HIDE DEF Computes
  <2> QED
    BY <1>2, <2>1
<1>4. PICK g : Computes(g, k - 1)
  <2>1. k \in Nat /\ k - 1 \in Nat /\ ~(k <= k - 1)
    BY <1>2, <1>3
  <2> HIDE DEF Computes
  <2> QED
    BY <1>2, <2>1
<1> DEFINE h == [n \in 0 .. k |-> IF n = k THEN After(g, k) ELSE g[n]]
<1>5. k \in Nat \ {0}
  BY <1>2, <1>3
<1>6. \A n \in 0 .. k - 1 : g[n] = After(g, n)
  <2> HIDE DEF After
  <2> QED
    BY <1>4
<1>7. ASSUME NEW n \in 0 .. k
      PROVE  h[n] = After(h, n)
  <2>1. CASE n = k
    <3>1. k - 1 \in 0 .. k /\ k - 1 # k
      BY <1>5
    <3>2. h[k - 1] = g[k - 1]
      BY <3>1
    <3>3. h[n] = After(g, k)
      BY <2>1
    <3> HIDE DEF h
    <3> QED
      BY <1>5, <2>1, <3>2, <3>3
  <2>2. CASE n # k
    <3>1. n \in 0 .. k - 1 /\ h[n] = g[n]
      BY <1>5, <2>2
    <3>2. n # 0 => n - 1 \in 0 .. k /\ n - 1 # k
      BY <1>5, <3>1
    <3>3. n # 0 => h[n - 1] = g[n - 1]
      BY <3>2
    <3> HIDE DEF h
    <3>4. After(h, n) = After(g, n)
      BY <3>3
    <3> HIDE DEF After
    <3> QED
      BY <1>6, <3>1, <3>4
  <2> QED
    BY <2>1, <2>2
<1>8. Computes(h, k)
  <2>1. h = [n \in 0 .. k |-> h[n]]
    OBVIOUS
  <2> HIDE DEF h, After
  <2> QED
    BY <1>7, <2>1
<1>9. k \notin T
  <2> HIDE DEF Computes
  <2> QED
    BY <1>8
<1> QED
  BY <1>2, <1>9

\* Filter.__call__ leaves a reading of the filter, which is the filter as it
\* was given only if it was that before.
LEMMA CalledReads ==
  ASSUME NEW filter, WellFormed(filter), NEW tests \in Readings(filter), NEW v
  PROVE  /\ Called(filter, tests, v).tests \in Readings(filter)
         /\ Called(filter, tests, v).tests = Fresh(filter) => tests = Fresh(filter)
<1> DEFINE N == Len(tests)
           start == [tests |-> tests, test |-> ~filter.any, stop |-> FALSE, raised |-> FALSE]
           judged[n \in 0 .. Len(tests)] ==
              IF n = 0 THEN [tests |-> tests, test |-> ~filter.any, stop |-> FALSE, raised |-> FALSE]
                       ELSE TestNext(filter.any, v, judged[n - 1], n)
           Fine(n) == /\ Verdict(filter, judged[n])
                      /\ judged[n].tests = Fresh(filter) => tests = Fresh(filter)
           T == {n \in 0 .. N : ~Fine(n)}
<1>1. N = Len(filter.tests) /\ N \in Nat
  <2> DEFINE M == Len(filter.tests)
             fresh == Fresh(filter)
             F == UNION {Forms(fresh[m]) : m \in DOMAIN fresh}
  <2>1. M \in Nat /\ DOMAIN fresh = 1 .. M
    BY FreshForm DEF WellFormed
  <2>2. tests \in [DOMAIN fresh -> F]
    BY DEF Readings
  <2> HIDE DEF F, fresh, M
  <2>3. tests \in Seq(F) /\ DOMAIN tests = 1 .. M
    BY <2>1, <2>2, SeqDef
  <2>4. DOMAIN tests = 1 .. Len(tests) /\ Len(tests) \in Nat
    BY <2>3, LenProperties
  <2>5. Len(tests) = M
    BY <2>1, <2>3, <2>4
  <2> QED
    BY <2>1, <2>5 DEF M
<1>2. judged = [n \in 0 .. N |-> IF n = 0 THEN start ELSE TestNext(filter.any, v, judged[n - 1], n)]
  <2>1. \E g : Judging(filter.any, v, start, N, g)
    <3> HIDE DEF start, N
    <3> QED
      BY <1>1, JudgedDefined
  <2> QED
    BY <2>1 DEF Judging
<1>3. Called(filter, tests, v).tests = judged[N].tests
  BY DEF Called, WithAttributes
<1> HIDE DEF judged
<1>4. T = {}
  <2>1. SUFFICES ASSUME T # {}
                 PROVE  FALSE
    OBVIOUS
  <2>2. PICK n \in T : \A m \in T : n <= m
    <3>1. T \subseteq Nat
      BY <1>1
    <3> HIDE DEF T
    <3> QED
      BY <2>1, <3>1, LeastNumber
  <2>3. n \in 0 .. N
    OBVIOUS
  <2>4. CASE n = 0
    <3>1. judged[0] = start
      BY <1>1, <1>2
    <3>2. Fine(0)
      BY <3>1 DEF Verdict
    <3> HIDE DEF Fine
    <3> QED
      BY <2>2, <2>4, <3>2
  <2>5. CASE n # 0
    <3>1. n \in 1 .. Len(filter.tests) /\ n - 1 \in 0 .. N /\ ~(n <= n - 1)
      BY <1>1, <2>3, <2>5
    <3>2. judged[n] = TestNext(filter.any, v, judged[n - 1], n)
      BY <1>2, <2>3, <2>5
    <3>3. Fine(n - 1)
      <4> HIDE DEF Fine
      <4> QED
        BY <2>2, <3>1
    <3>4. Fine(n)
      BY <3>1, <3>2, <3>3, TestKeeps
    <3> HIDE DEF Fine
    <3> QED
      BY <2>2, <3>4
  <2> QED
    BY <2>4, <2>5
<1>5. Fine(N)
  <2>1. N \in 0 .. N
    BY <1>1
  <2> HIDE DEF Fine, N
  <2> QED
    BY <1>4, <2>1
<1> QED
  BY <1>3, <1>5 DEF Verdict

-----------------------------------------------------------------------------
(* Types, and the shape of the heap                                          *)

Refs == [kind : {"none", "list", "iter"}, id : Nat]
AllTests == (UNION {Readable[f] : f \in DOMAIN Criteria}) \cup {<<>>}

Iterators ==
    [kind : {"filter", "reversed"}, src : Refs, pos : Int, f : DOMAIN Criteria \cup {NoFilter},
     tests : AllTests, negate : BOOLEAN, distinct : BOOLEAN, seen : SUBSET Obj, done : BOOLEAN,
     takers : SUBSET Nat, chain : SUBSET Nat]

Queries == [src : Refs, distinct : BOOLEAN, order : BOOLEAN, reverse : BOOLEAN,
            cache : Refs, pulled : Seq(Obj)]

Calls == [op : {"none", "all", "iter", "in", "next", "get"}, query : Nat, got : Seq(Obj),
          path : Seq(Nat), obj : Obj \cup {NoObj}, wants : SUBSET Obj]

TypeOK ==
    /\ lists \in Seq(Seq(Obj)) /\ lists # <<>>
    /\ iters \in Seq(Iterators)
    /\ queries \in Seq(Queries)
    /\ call \in Calls

\* A reference to a list, or to one of the first n iterators.
Reaches(ref, n) ==
    \/ ref.kind = "list" /\ ref.id \in DOMAIN lists
    \/ ref.kind = "iter" /\ ref.id \in 1 .. n

\* The iterator at the end of a chain, the list it goes through, in the
\* direction it does, and how many of its objects it has gone past.
Root(i) == Min(iters[i].chain)
ListOf(i) == LET it == iters[i] IN
    IF it.kind = "reversed" THEN Reverse(lists[it.src.id]) ELSE lists[it.src.id]
Past(i) == LET it == iters[i] IN
    IF it.kind = "reversed" THEN Len(lists[it.src.id]) - it.pos ELSE it.pos - 1

\* An iterator goes through a list or an older iterator, and its chain is
\* that of what it goes through and itself.
IterOK(i) == LET it == iters[i] IN
    /\ Reaches(it.src, i - 1)
    /\ it.chain = ChainTo(it.src) \cup {i} /\ it.chain \subseteq 1 .. i
    /\ it.kind = "filter" => it.f \in DOMAIN Criteria /\ it.tests \in Readable[it.f]
    /\ it.kind = "reversed" => it.src.kind = "list" /\ ~it.distinct
    /\ it.src.kind = "list" => Past(i) \in 0 .. Len(lists[it.src.id])
    /\ iters[Root(i)].src.kind = "list"

\* No query refers to the generator that next() or get() made for itself.
Probing == call.op \in {"next", "get"}
Known == IF Probing THEN Len(iters) - 1 ELSE Len(iters)

QueryOK(q) ==
    /\ Reaches(queries[q].src, Known)
    /\ queries[q].cache # NoRef =>
           Reaches(queries[q].cache, Known) /\ queries[q].cache # ListRef(1)

\* The path goes down a chain, from what the call consumes.
CallOK ==
    LET path == call.path IN
    /\ \A k \in DOMAIN path :
          /\ path[k] \in DOMAIN iters
          /\ k > 1 => iters[path[k - 1]].src = IterRef(path[k])
          /\ iters[path[k]].chain \subseteq iters[path[1]].chain
          /\ Root(path[k]) = Root(path[1])
    /\ call.op = "none" => call = NoCall
    /\ call.op = "all" => /\ call.query \in DOMAIN queries
                          /\ path # <<>> => queries[call.query].src = IterRef(path[1])
    /\ call.op # "all" => call.query = 0
    /\ call.op \in {"iter", "in", "next", "get"} => path # <<>>
    /\ Probing => path[1] = Len(iters)
    /\ path = <<>> => call.got = <<>> /\ call.obj = NoObj

Shape ==
    /\ TypeOK
    /\ \A i \in DOMAIN iters : IterOK(i)
    /\ \A q \in DOMAIN queries : QueryOK(q)
    /\ CallOK

-----------------------------------------------------------------------------
(* What a step leaves of the lists and of the iterators                      *)

\* A list only becomes longer.
Grown ==
    /\ Len(lists) <= Len(lists')
    /\ \A n \in DOMAIN lists :
          /\ Len(lists[n]) <= Len(lists'[n])
          /\ \A k \in DOMAIN lists[n] : lists'[n][k] = lists[n][k]

\* An iterator remains what it is and remembers what it saw; it may be one
\* element further.
Follows(it, jt) ==
    /\ jt.kind = it.kind /\ jt.src = it.src /\ jt.f = it.f /\ jt.negate = it.negate
    /\ jt.distinct = it.distinct /\ jt.chain = it.chain
    /\ it.kind = "filter" =>
          /\ jt.tests \in Readable[it.f]
          /\ jt.tests = Fresh(Criteria[it.f]) => it.tests = Fresh(Criteria[it.f])
    /\ it.seen \subseteq jt.seen
    /\ \/ jt.pos = it.pos
       \/ Left(it) # {} /\ jt.pos = Advanced(it).pos

Continues(i) == i \in DOMAIN iters' /\ Follows(iters[i], iters'[i])

LEMMA Fronted ==
  ASSUME NEW S, NEW s \in Seq(S), s # <<>>
  PROVE  /\ Front(s) \in Seq(S) /\ Len(Front(s)) = Len(s) - 1 /\ Len(s) \in Nat \ {0}
         /\ \A i \in 1 .. Len(s) - 1 : Front(s)[i] = s[i]
<1>1. Len(s) \in Nat \ {0}
  BY EmptySeq
<1>2. Len(s) - 1 \in 0 .. Len(s)
  BY <1>1
<1> QED
  BY <1>1, <1>2, Start DEF Front

\* What testing an object makes of the criteria, in the model's table.
LEMMA OutcomeReads ==
  ASSUME NEW f \in DOMAIN Criteria, NEW tests \in Readable[f], NEW o \in Obj
  PROVE  /\ Outcomes[f][tests][o].tests \in Readable[f]
         /\ Outcomes[f][tests][o].tests = Fresh(Criteria[f]) => tests = Fresh(Criteria[f])
<1>1. WellFormed(Criteria[f])
  BY ObjAssumption DEF WellFormed
<1>2. Readable[f] = Readings(Criteria[f])
  BY DEF Readable
<1>3. Outcomes[f][tests][o] = Called(Criteria[f], tests, Value[o])
  BY DEF Outcomes
<1> QED
  BY <1>1, <1>2, <1>3, CalledReads

LEMMA FreshReads ==
  ASSUME NEW f \in DOMAIN Criteria
  PROVE  Fresh(Criteria[f]) \in Readable[f] /\ Fresh(Criteria[f]) \in AllTests
<1>1. WellFormed(Criteria[f])
  BY ObjAssumption DEF WellFormed
<1>2. Readable[f] = Readings(Criteria[f])
  BY DEF Readable
<1> QED
  BY <1>1, <1>2, FreshForm DEF AllTests

\* The records that are added to the heap.
LEMMA GeneratorForm ==
  ASSUME TypeOK, NEW src \in Refs, ChainTo(src) \subseteq Nat,
         NEW f \in DOMAIN Criteria, NEW negate \in BOOLEAN, NEW distinct \in BOOLEAN,
         NEW g, g = Generator(src, f, negate, distinct)
  PROVE  /\ g \in Iterators /\ g.kind = "filter" /\ g.src = src /\ g.pos = 1 /\ g.f = f
         /\ g.tests = Fresh(Criteria[f])
         /\ g.chain = ChainTo(src) \cup {Len(iters) + 1}
<1>1. Len(iters) + 1 \in Nat
  BY LenProperties DEF TypeOK
<1>2. Fresh(Criteria[f]) \in AllTests
  BY FreshReads
<1>3. <<>> \in AllTests
  BY DEF AllTests
<1> DEFINE it == NewIter("filter", src, 1)
<1>4. /\ it \in Iterators /\ it.kind = "filter" /\ it.src = src /\ it.pos = 1
      /\ it.chain = ChainTo(src) \cup {Len(iters) + 1}
  BY <1>1, <1>3 DEF NewIter, Iterators
<1>5. Generator(src, f, negate, distinct) =
        [it EXCEPT !.f = f, !.tests = Fresh(Criteria[f]), !.negate = negate, !.distinct = distinct]
  BY DEF Generator
<1> HIDE DEF it
<1> QED
  BY <1>2, <1>4, <1>5 DEF Iterators

LEMMA BackwardsForm ==
  ASSUME TypeOK, NEW src \in Refs, src.kind = "list", NEW n \in Nat, NEW g, g = Backwards(src, n)
  PROVE  /\ g \in Iterators /\ g.kind = "reversed" /\ g.src = src /\ g.pos = n
         /\ ~g.distinct /\ g.chain = {Len(iters) + 1}
<1>1. Len(iters) + 1 \in Nat
  BY LenProperties DEF TypeOK
<1>2. <<>> \in AllTests
  BY DEF AllTests
<1>3. ChainTo(src) = {}
  BY DEF ChainTo
<1> QED
  BY <1>1, <1>2, <1>3 DEF Backwards, NewIter, Iterators

\* The generator that is resumed.
Place == call.path[Len(call.path)]

LEMMA TopForm ==
  ASSUME Shape, Pulling
  PROVE  /\ Len(call.path) \in Nat \ {0} /\ Place \in DOMAIN iters /\ Top = iters[Place]
         /\ Top \in Iterators /\ IterOK(Place)
         /\ DOMAIN iters = 1 .. Len(iters) /\ Len(iters) \in Nat
<1>1. call.path \in Seq(Nat) /\ call.path # <<>> /\ iters \in Seq(Iterators)
  BY DEF Shape, TypeOK, Calls, Pulling
<1>2. Len(call.path) \in Nat \ {0} /\ DOMAIN call.path = 1 .. Len(call.path)
  BY <1>1, EmptySeq, LenProperties
<1>3. Len(call.path) \in DOMAIN call.path
  BY <1>2
<1>4. Place \in DOMAIN iters
  BY <1>3 DEF Place, Shape, CallOK
<1>5. DOMAIN iters = 1 .. Len(iters) /\ Len(iters) \in Nat
  BY <1>1, LenProperties
<1>6. iters[Place] \in Iterators
  BY <1>1, <1>4, <1>5, ElementOfSeq
<1> QED
  BY <1>2, <1>4, <1>5, <1>6 DEF Shape, Top, Place

LEMMA WithTopForm ==
  ASSUME Shape, Pulling, NEW it \in Iterators
  PROVE  /\ WithTop(it) \in Seq(Iterators) /\ Len(WithTop(it)) = Len(iters)
         /\ \A i \in DOMAIN iters : WithTop(it)[i] = IF i = Place THEN it ELSE iters[i]
<1>1. iters \in Seq(Iterators)
  BY DEF Shape, TypeOK
<1> QED
  BY <1>1, TopForm, ExceptSeq DEF WithTop, Place

LEMMA FinishedForm ==
  ASSUME Shape, NEW takers \in SUBSET Nat
  PROVE  /\ Finished(takers) \in Seq(Iterators) /\ Len(Finished(takers)) = Len(iters)
         /\ \A i \in DOMAIN iters : LET it == iters[i] jt == Finished(takers)[i] IN
               /\ jt.kind = it.kind /\ jt.src = it.src /\ jt.pos = it.pos /\ jt.f = it.f
               /\ jt.tests = it.tests /\ jt.negate = it.negate /\ jt.distinct = it.distinct
               /\ jt.seen = it.seen /\ jt.chain = it.chain
<1>1. iters \in Seq(Iterators)
  BY DEF Shape, TypeOK
<1>2. DOMAIN iters = 1 .. Len(iters) /\ Len(iters) \in Nat /\ \A i \in DOMAIN iters : iters[i] \in Iterators
  BY <1>1, LenProperties, ElementOfSeq
<1>3. \A i \in DOMAIN iters : Finished(takers)[i] \in Iterators
  BY <1>2 DEF Finished, Iterators
<1>4. Finished(takers) \in [1 .. Len(iters) -> Iterators]
  BY <1>2, <1>3 DEF Finished
<1>5. Finished(takers) \in Seq(Iterators) /\ Len(Finished(takers)) = Len(iters)
  <2> HIDE DEF Finished, Iterators
  <2> QED
    BY <1>2, <1>4
<1>6. ASSUME NEW i \in DOMAIN iters
      PROVE  LET it == iters[i] jt == Finished(takers)[i] IN
               /\ jt.kind = it.kind /\ jt.src = it.src /\ jt.pos = it.pos /\ jt.f = it.f
               /\ jt.tests = it.tests /\ jt.negate = it.negate /\ jt.distinct = it.distinct
               /\ jt.seen = it.seen /\ jt.chain = it.chain
  BY <1>2, <1>6 DEF Finished, Iterators
<1> QED
  BY <1>5, <1>6

LEMMA TestedForm ==
  ASSUME NEW it \in Iterators, NEW o \in Obj, TypeOK,
         it.kind = "filter" => it.f \in DOMAIN Criteria /\ it.tests \in Readable[it.f]
  PROVE  \A jt \in {Tested(it, o), Yielded(it, o)} :
           /\ jt \in Iterators
           /\ jt.kind = it.kind /\ jt.src = it.src /\ jt.pos = it.pos /\ jt.f = it.f
           /\ jt.negate = it.negate /\ jt.distinct = it.distinct /\ jt.chain = it.chain
           /\ it.kind = "filter" =>
                 /\ jt.tests \in Readable[it.f]
                 /\ jt.tests = Fresh(Criteria[it.f]) => it.tests = Fresh(Criteria[it.f])
           /\ it.seen \subseteq jt.seen
<1> DEFINE jt == Tested(it, o)
<1>1. /\ jt \in Iterators
      /\ jt.kind = it.kind /\ jt.src = it.src /\ jt.pos = it.pos /\ jt.f = it.f
      /\ jt.negate = it.negate /\ jt.distinct = it.distinct /\ jt.chain = it.chain
      /\ it.kind = "filter" =>
            /\ jt.tests \in Readable[it.f]
            /\ jt.tests = Fresh(Criteria[it.f]) => it.tests = Fresh(Criteria[it.f])
      /\ jt.seen = it.seen
  <2>1. CASE it.kind = "filter" /\ o \notin Falsy
    <3>1. it.f \in DOMAIN Criteria /\ it.tests \in Readable[it.f]
      BY <2>1
    <3>2. /\ Call(it, o).tests \in Readable[it.f]
          /\ Call(it, o).tests = Fresh(Criteria[it.f]) => it.tests = Fresh(Criteria[it.f])
      BY <3>1, OutcomeReads DEF Call
    <3>3. Call(it, o).tests \in AllTests
      BY <3>1, <3>2 DEF AllTests
    <3>4. jt = [it EXCEPT !.tests = Call(it, o).tests]
      BY <2>1 DEF Tested
    <3> HIDE DEF jt
    <3> QED
      BY <3>2, <3>3, <3>4 DEF Iterators
  <2>2. CASE ~(it.kind = "filter" /\ o \notin Falsy)
    BY <2>2 DEF Tested
  <2> QED
    BY <2>1, <2>2
<1> HIDE DEF jt
<1>2. call.query \in Nat
  BY DEF TypeOK, Calls
<1>3. Yielded(it, o) = [Saw(jt, o) EXCEPT !.takers = @ \cup {call.query}]
  BY DEF Yielded, jt
<1>4. Saw(jt, o) \in Iterators /\ Saw(jt, o) = [jt EXCEPT !.seen = IF jt.distinct THEN @ \cup {o} ELSE @]
  BY <1>1 DEF Saw, Iterators
<1> HIDE DEF Saw
<1>5. Yielded(it, o) \in Iterators
  <2>1. Saw(jt, o).takers \cup {call.query} \in SUBSET Nat
    BY <1>2, <1>4 DEF Iterators
  <2>2. Yielded(it, o) = [Saw(jt, o) EXCEPT !.takers = Saw(jt, o).takers \cup {call.query}]
    BY <1>3, <1>4 DEF Iterators
  <2> QED
    BY <1>4, <2>1, <2>2 DEF Iterators
<1>6. /\ Yielded(it, o).kind = jt.kind /\ Yielded(it, o).src = jt.src /\ Yielded(it, o).pos = jt.pos
      /\ Yielded(it, o).f = jt.f /\ Yielded(it, o).negate = jt.negate
      /\ Yielded(it, o).distinct = jt.distinct /\ Yielded(it, o).chain = jt.chain
      /\ Yielded(it, o).tests = jt.tests /\ jt.seen \subseteq Yielded(it, o).seen
  BY <1>1, <1>3, <1>4 DEF Iterators
<1> HIDE DEF Yielded
<1> QED
  BY <1>1, <1>5, <1>6 DEF jt

LEMMA SeqForm ==
  ASSUME NEW S, NEW s \in Seq(S)
  PROVE  /\ DOMAIN s = 1 .. Len(s) /\ Len(s) \in Nat
         /\ \A i \in DOMAIN s : s[i] \in S
BY LenProperties, ElementOfSeq

\* The iterator at the end of a chain is the first of it.
LEMMA RootForm ==
  ASSUME Shape, NEW i \in DOMAIN iters
  PROVE  /\ Root(i) \in iters[i].chain /\ Root(i) \in 1 .. i /\ Root(i) \in DOMAIN iters
         /\ i \in Nat /\ iters[i] \in Iterators /\ iters[Root(i)].src.kind = "list"
         /\ iters[i].src.kind = "list" => Root(i) = i /\ iters[i].chain = {i}
         /\ iters[i].src.kind = "iter" => /\ iters[i].src.id \in 1 .. i - 1
                                          /\ Root(i) = Root(iters[i].src.id)
                                          /\ iters[i].src.id \in DOMAIN iters
<1>1. DOMAIN iters = 1 .. Len(iters) /\ Len(iters) \in Nat /\ i \in Nat /\ iters[i] \in Iterators
  BY SeqForm DEF Shape, TypeOK
<1>2. IterOK(i)
  BY DEF Shape
<1>3. i \in iters[i].chain /\ iters[i].chain \subseteq 1 .. i /\ iters[i].chain \subseteq Nat
  BY <1>1, <1>2 DEF IterOK, Iterators
<1>4. Root(i) \in iters[i].chain /\ \A j \in iters[i].chain : Root(i) <= j
  BY <1>3, MinIsLeast DEF Root
<1>5. iters[Root(i)].src.kind = "list"
  BY <1>2 DEF IterOK
<1>6. ASSUME iters[i].src.kind = "list"
      PROVE  Root(i) = i /\ iters[i].chain = {i}
  BY <1>2, <1>4, <1>6 DEF IterOK, ChainTo
<1>7. ASSUME iters[i].src.kind = "iter"
      PROVE  /\ iters[i].src.id \in 1 .. i - 1
             /\ Root(i) = Root(iters[i].src.id)
             /\ iters[i].src.id \in DOMAIN iters
  <2> DEFINE k == iters[i].src.id
  <2>1. k \in 1 .. i - 1 /\ k \in DOMAIN iters
    BY <1>1, <1>2, <1>7 DEF IterOK, Reaches
  <2>2. iters[i].chain = iters[k].chain \cup {i}
    BY <1>2, <1>7 DEF IterOK, ChainTo
  <2> HIDE DEF k
  <2>3. IterOK(k) /\ k \in Nat
    BY <1>1, <2>1 DEF Shape
  <2>4. k \in iters[k].chain /\ iters[k].chain \subseteq 1 .. k /\ iters[k].chain \subseteq Nat
    BY <2>3 DEF IterOK
  <2>5. Root(k) \in iters[k].chain /\ \A j \in iters[k].chain : Root(k) <= j
    BY <2>4, MinIsLeast DEF Root
  <2>6. Root(i) # i
    BY <1>1, <1>4, <2>1, <2>2, <2>4
  <2>7. Root(i) \in iters[k].chain /\ Root(i) <= Root(k) /\ Root(k) <= Root(i)
    BY <1>4, <2>2, <2>5, <2>6
  <2>8. Root(i) \in Nat /\ Root(k) \in Nat
    BY <2>4, <2>5, <2>7
  <2> QED
    BY <2>1, <2>7, <2>8 DEF k
<1>8. Root(i) \in 1 .. i /\ Root(i) \in DOMAIN iters
  BY <1>1, <1>3, <1>4
<1> QED
  BY <1>1, <1>4, <1>5, <1>6, <1>7, <1>8

LEMMA PastStays ==
  ASSUME Shape, TypeOK', Grown, NEW i \in DOMAIN iters, Continues(i), iters[i].src.kind = "list"
  PROVE  Past(i)' \in 0 .. Len(lists'[iters[i].src.id])
<1> DEFINE it == iters[i]
           n == it.src.id
<1>1. IterOK(i) /\ it \in Iterators
  BY SeqForm DEF Shape, TypeOK
<1>2. n \in DOMAIN lists /\ Past(i) \in 0 .. Len(lists[n]) /\ it.pos \in Int
  BY <1>1 DEF IterOK, Reaches, Iterators
<1>3. DOMAIN lists = 1 .. Len(lists) /\ Len(lists) \in Nat /\ lists[n] \in Seq(Obj)
  BY <1>2, SeqForm DEF Shape, TypeOK
<1>4. DOMAIN lists' = 1 .. Len(lists') /\ Len(lists') \in Nat
  BY SeqForm DEF TypeOK
<1>5. n \in DOMAIN lists' /\ Len(lists[n]) <= Len(lists'[n])
  BY <1>2, <1>3, <1>4 DEF Grown
<1>6. Len(lists[n]) \in Nat /\ Len(lists'[n]) \in Nat
  <2>1. lists'[n] \in Seq(Obj)
    BY <1>5, SeqForm DEF TypeOK
  <2> QED
    BY <1>3, <2>1, SeqForm
<1>7. iters'[i].src = it.src /\ iters'[i].kind = it.kind
  BY DEF Continues, Follows
<1>8. CASE it.kind = "reversed"
  <2>1. Past(i) = Len(lists[n]) - it.pos /\ Past(i)' = Len(lists'[n]) - iters'[i].pos
    BY <1>7, <1>8 DEF Past
  <2>2. iters'[i].pos = it.pos \/ (it.pos >= 1 /\ iters'[i].pos = it.pos - 1)
    BY <1>1, <1>2, <1>8 DEF Continues, Follows, Left, Advanced, Iterators
  <2> QED
    BY <1>2, <1>5, <1>6, <2>1, <2>2
<1>9. CASE it.kind # "reversed"
  <2>1. Past(i) = it.pos - 1 /\ Past(i)' = iters'[i].pos - 1
    BY <1>7, <1>9 DEF Past
  <2>2. iters'[i].pos = it.pos \/ (it.pos <= Len(lists[n]) /\ iters'[i].pos = it.pos + 1)
    BY <1>1, <1>2, <1>6, <1>9 DEF Continues, Follows, Left, Advanced, Iterators
  <2> QED
    BY <1>2, <1>5, <1>6, <2>1, <2>2
<1> QED
  BY <1>8, <1>9

LEMMA IterStays ==
  ASSUME Shape, TypeOK', Grown, NEW i \in DOMAIN iters, \A j \in 1 .. i : Continues(j)
  PROVE  IterOK(i)' /\ Root(i)' = Root(i)
<1> DEFINE src == iters[i].src
<1>1. IterOK(i) /\ iters[i] \in Iterators /\ i \in Nat \ {0} /\ Continues(i)
  BY SeqForm DEF Shape, TypeOK
<1>2. DOMAIN lists \subseteq DOMAIN lists'
  <2>1. DOMAIN lists = 1 .. Len(lists) /\ Len(lists) \in Nat
    BY SeqForm DEF Shape, TypeOK
  <2>2. DOMAIN lists' = 1 .. Len(lists') /\ Len(lists') \in Nat
    BY SeqForm DEF TypeOK
  <2> QED
    BY <2>1, <2>2 DEF Grown
<1>3. iters'[i].src = src /\ iters'[i].chain = iters[i].chain /\ iters'[i].kind = iters[i].kind
  BY <1>1 DEF Continues, Follows
<1>4. Reaches(src, i - 1)'
  BY <1>1, <1>2, <1>3 DEF IterOK, Reaches
<1>5. ChainTo(src)' = ChainTo(src)
  <2>1. CASE src.kind = "iter"
    <3>1. src.id \in 1 .. i
      BY <1>1, <2>1 DEF IterOK, Reaches
    <3>2. iters'[src.id].chain = iters[src.id].chain
      BY <3>1 DEF Continues, Follows
    <3> QED
      BY <1>3, <2>1, <3>2 DEF ChainTo
  <2>2. CASE src.kind # "iter"
    BY <1>3, <2>2 DEF ChainTo
  <2> QED
    BY <2>1, <2>2
<1>6. iters'[i].chain = ChainTo(src)' \cup {i} /\ iters'[i].chain \subseteq 1 .. i
  BY <1>1, <1>3, <1>5 DEF IterOK
<1>7. Root(i)' = Root(i)
  BY <1>3 DEF Root
<1>8. iters'[Root(i)].src.kind = "list"
  <2>1. Root(i) \in 1 .. i /\ iters[Root(i)].src.kind = "list"
    BY RootForm
  <2> QED
    BY <2>1 DEF Continues, Follows
<1>9. iters'[i].src.kind = "list" => Past(i)' \in 0 .. Len(lists'[iters'[i].src.id])
  BY <1>1, <1>3, PastStays
<1>10. /\ iters'[i].kind = "filter" => iters'[i].f \in DOMAIN Criteria /\ iters'[i].tests \in Readable[iters'[i].f]
       /\ iters'[i].kind = "reversed" => iters'[i].src.kind = "list" /\ ~iters'[i].distinct
  BY <1>1 DEF IterOK, Continues, Follows
<1> QED
  BY <1>3, <1>4, <1>6, <1>7, <1>8, <1>9, <1>10 DEF IterOK

\* A new iterator goes through a list, or through an older iterator.
LEMMA IterAdded ==
  ASSUME Shape, TypeOK', Grown, \A i \in DOMAIN iters : Continues(i),
         NEW j, j = Len(iters) + 1, j \in DOMAIN iters',
         NEW src, src = iters'[j].src, Reaches(src, j - 1)', iters'[j].chain = ChainTo(src) \cup {j},
         iters'[j].kind = "filter" => iters'[j].f \in DOMAIN Criteria /\ iters'[j].tests \in Readable[iters'[j].f],
         iters'[j].kind = "reversed" => src.kind = "list" /\ ~iters'[j].distinct,
         src.kind = "list" => Past(j)' \in 0 .. Len(lists'[src.id])
  PROVE  /\ IterOK(j)'
         /\ Root(j)' = IF src.kind = "iter" THEN Root(src.id) ELSE j
<1>1. /\ DOMAIN iters = 1 .. Len(iters) /\ Len(iters) \in Nat /\ iters' \in Seq(Iterators)
      /\ j \in Nat \ {0} /\ j - 1 = Len(iters) /\ iters'[j] \in Iterators /\ src \in Refs
  <2>1. DOMAIN iters = 1 .. Len(iters) /\ Len(iters) \in Nat /\ iters' \in Seq(Iterators)
    BY SeqForm DEF Shape, TypeOK
  <2>2. iters'[j] \in Iterators
    BY <2>1, SeqForm
  <2> QED
    BY <2>1, <2>2 DEF Iterators
<1>2. CASE src.kind = "iter"
  <2> DEFINE k == src.id
  <2>1. k \in DOMAIN iters /\ k \in 1 .. Len(iters)
    BY <1>1, <1>2 DEF Reaches
  <2>2. iters'[k].chain = iters[k].chain
    BY <2>1 DEF Continues, Follows
  <2>3. IterOK(k) /\ k \in iters[k].chain /\ iters[k].chain \subseteq 1 .. k
    BY <2>1 DEF Shape, IterOK
  <2>4. iters'[j].chain = iters[k].chain \cup {j} /\ ChainTo(src)' = iters[k].chain
    BY <1>2, <2>2 DEF ChainTo
  <2> HIDE DEF k
  <2>5. iters[k].chain \subseteq 1 .. Len(iters) /\ iters[k].chain \subseteq Nat
    BY <1>1, <2>1, <2>3
  <2>6. Min(iters[k].chain) \in iters[k].chain /\ \A i \in iters[k].chain : Min(iters[k].chain) <= i
    BY <2>3, <2>5, MinIsLeast
  <2>7. Min(iters'[j].chain) \in iters'[j].chain /\ \A i \in iters'[j].chain : Min(iters'[j].chain) <= i
    <3>1. iters'[j].chain \subseteq Nat /\ iters'[j].chain # {}
      BY <1>1, <2>4, <2>5
    <3> QED
      BY <3>1, MinIsLeast
  <2>8. Min(iters'[j].chain) # j
    <3>1. Min(iters[k].chain) \in 1 .. Len(iters)
      BY <2>5, <2>6
    <3>2. Min(iters'[j].chain) <= Min(iters[k].chain)
      BY <2>4, <2>6, <2>7
    <3> QED
      BY <1>1, <3>1, <3>2
  <2>9. Min(iters'[j].chain) <= Min(iters[k].chain) /\ Min(iters[k].chain) <= Min(iters'[j].chain)
    BY <2>4, <2>6, <2>7, <2>8
  <2>10. Min(iters'[j].chain) = Min(iters[k].chain)
    <3>1. Min(iters'[j].chain) \in Nat /\ Min(iters[k].chain) \in Nat
      BY <2>4, <2>5, <2>6, <2>7, <2>8
    <3> QED
      BY <2>9, <3>1
  <2>11. Root(j)' = Root(k)
    BY <2>10 DEF Root
  <2>12. iters'[Root(k)].src.kind = "list"
    <3>1. iters[Root(k)].src.kind = "list" /\ Root(k) \in DOMAIN iters
      BY <2>1, RootForm
    <3> QED
      BY <3>1 DEF Continues, Follows
  <2>13. iters'[j].chain = ChainTo(src)' \cup {j} /\ iters'[j].chain \subseteq 1 .. j
    BY <1>1, <2>4, <2>5
  <2> QED
    BY <1>1, <1>2, <2>11, <2>12, <2>13 DEF IterOK, k
<1>3. CASE src.kind = "list"
  <2>1. iters'[j].chain = {j} /\ ChainTo(src)' = {}
    BY <1>3 DEF ChainTo
  <2>2. Min(iters'[j].chain) \in iters'[j].chain
    <3>1. {j} \subseteq Nat /\ {j} # {}
      BY <1>1
    <3>2. Min({j}) \in {j}
      BY <3>1, MinIsLeast
    <3> QED
      BY <2>1, <3>2
  <2>3. Root(j)' = j
    BY <2>1, <2>2 DEF Root
  <2>4. iters'[j].chain = ChainTo(src)' \cup {j} /\ iters'[j].chain \subseteq 1 .. j
    BY <1>1, <2>1
  <2> QED
    BY <1>1, <1>3, <2>3, <2>4 DEF IterOK
<1>4. src.kind \in {"iter", "list"}
  BY DEF Reaches
<1> QED
  BY <1>2, <1>3, <1>4

\* What a query refers to remains, when no iterator it may refer to is dropped.
LEMMA QueryStays ==
  ASSUME Shape, TypeOK', Grown, NEW q \in DOMAIN queries, Known <= Known',
         queries'[q].src = queries[q].src, queries'[q].cache = queries[q].cache
  PROVE  QueryOK(q)'
<1>1. Known \in Int /\ Known' \in Int
  BY SeqForm DEF Shape, TypeOK, Known
<1>2. QueryOK(q)
  BY DEF Shape
<1>3. DOMAIN lists = 1 .. Len(lists) /\ Len(lists) \in Nat
  BY SeqForm DEF Shape, TypeOK
<1>4. DOMAIN lists' = 1 .. Len(lists') /\ Len(lists') \in Nat
  BY SeqForm DEF TypeOK
<1>5. ASSUME NEW ref, Reaches(ref, Known)
      PROVE  Reaches(ref, Known)'
  BY <1>1, <1>3, <1>4, <1>5 DEF Grown, Reaches
<1> QED
  BY <1>2, <1>5 DEF QueryOK

PathOK(path) ==
    \A k \in DOMAIN path :
          /\ path[k] \in DOMAIN iters
          /\ k > 1 => iters[path[k - 1]].src = IterRef(path[k])
          /\ iters[path[k]].chain \subseteq iters[path[1]].chain
          /\ Root(path[k]) = Root(path[1])

LEMMA PathStays ==
  ASSUME Shape, TypeOK', Grown, \A i \in DOMAIN iters : Continues(i),
         Len(call'.path) <= Len(call.path), \A k \in DOMAIN call'.path : call'.path[k] = call.path[k]
  PROVE  PathOK(call.path)'
<1>1. call.path \in Seq(Nat) /\ call'.path \in Seq(Nat)
  BY DEF Shape, TypeOK, Calls
<1>2. /\ DOMAIN call.path = 1 .. Len(call.path) /\ Len(call.path) \in Nat
      /\ DOMAIN call'.path = 1 .. Len(call'.path) /\ Len(call'.path) \in Nat
  BY <1>1, SeqForm
<1>3. DOMAIN iters = 1 .. Len(iters) /\ Len(iters) \in Nat
  BY SeqForm DEF Shape, TypeOK
<1>4. ASSUME NEW k \in DOMAIN call'.path
      PROVE  /\ call'.path[k] \in DOMAIN iters'
             /\ k > 1 => iters'[call'.path[k - 1]].src = IterRef(call'.path[k])
             /\ iters'[call'.path[k]].chain \subseteq iters'[call'.path[1]].chain
             /\ Root(call.path[k])' = Root(call.path[1])'
  <2>1. k \in DOMAIN call.path /\ 1 \in DOMAIN call.path /\ 1 \in DOMAIN call'.path
    BY <1>2, <1>4
  <2>2. /\ call.path[k] \in DOMAIN iters /\ call.path[1] \in DOMAIN iters
        /\ k > 1 => iters[call.path[k - 1]].src = IterRef(call.path[k])
        /\ iters[call.path[k]].chain \subseteq iters[call.path[1]].chain
        /\ Root(call.path[k]) = Root(call.path[1])
    BY <2>1 DEF Shape, CallOK
  <2>3. call'.path[k] = call.path[k] /\ call'.path[1] = call.path[1]
    BY <2>1
  <2>4. k > 1 => /\ k - 1 \in DOMAIN call.path /\ k - 1 \in DOMAIN call'.path
                 /\ call.path[k - 1] \in DOMAIN iters /\ call'.path[k - 1] = call.path[k - 1]
    <3>1. k > 1 => k - 1 \in DOMAIN call.path /\ k - 1 \in DOMAIN call'.path
      BY <1>2, <1>4
    <3> QED
      BY <3>1 DEF Shape, CallOK
  <2>5. \A i \in DOMAIN iters : /\ i \in DOMAIN iters' /\ iters'[i].src = iters[i].src
                                /\ iters'[i].chain = iters[i].chain /\ Root(i)' = Root(i)
    BY <1>3 DEF Continues, Follows, Root
  <2> QED
    BY <2>2, <2>3, <2>4, <2>5
<1> QED
  BY <1>4 DEF PathOK

-----------------------------------------------------------------------------
(* The parts of a step                                                       *)

LEMMA SameLists ==
  ASSUME TypeOK, UNCHANGED lists
  PROVE  Grown
<1>1. /\ DOMAIN lists = 1 .. Len(lists) /\ Len(lists) \in Nat
      /\ \A n \in DOMAIN lists : Len(lists[n]) \in Nat
  BY SeqForm DEF TypeOK
<1> QED
  BY <1>1 DEF Grown

LEMMA ListAdded ==
  ASSUME TypeOK, NEW s \in Seq(Obj), lists' = Append(lists, s)
  PROVE  /\ Grown /\ lists' \in Seq(Seq(Obj)) /\ lists' # <<>>
         /\ Len(lists) + 1 \in DOMAIN lists' /\ lists'[Len(lists) + 1] = s
         /\ \A n \in DOMAIN lists : n \in DOMAIN lists' /\ lists'[n] = lists[n]
<1>1. /\ DOMAIN lists = 1 .. Len(lists) /\ Len(lists) \in Nat
      /\ \A n \in DOMAIN lists : Len(lists[n]) \in Nat
  BY SeqForm DEF TypeOK
<1>2. /\ lists' \in Seq(Seq(Obj)) /\ lists' # <<>> /\ Len(lists') = Len(lists) + 1
      /\ \A n \in 1 .. Len(lists) : lists'[n] = lists[n]
      /\ lists'[Len(lists) + 1] = s
  <2>1. lists \in Seq(Seq(Obj)) /\ s \in Seq(Obj)
    BY DEF TypeOK
  <2>2. \A S, L, e : L \in Seq(S) /\ e \in S =>
           /\ Append(L, e) \in Seq(S) /\ Append(L, e) # <<>> /\ Len(Append(L, e)) = Len(L) + 1
           /\ \A n \in 1 .. Len(L) : Append(L, e)[n] = L[n]
           /\ Append(L, e)[Len(L) + 1] = e
    BY AppendProperties
  <2> QED
    BY <2>1, <2>2
<1>3. DOMAIN lists' = 1 .. Len(lists')
  BY <1>2, SeqForm
<1> QED
  BY <1>1, <1>2, <1>3 DEF Grown

LEMMA ListLonger ==
  ASSUME TypeOK, NEW n \in DOMAIN lists, NEW s \in Seq(Obj), lists' = [lists EXCEPT ![n] = @ \o s]
  PROVE  /\ Grown /\ lists' \in Seq(Seq(Obj)) /\ lists' # <<>> /\ Len(lists') = Len(lists)
         /\ \A m \in DOMAIN lists : m # n => lists'[m] = lists[m]
<1>1. /\ DOMAIN lists = 1 .. Len(lists) /\ Len(lists) \in Nat
      /\ \A m \in DOMAIN lists : lists[m] \in Seq(Obj) /\ Len(lists[m]) \in Nat
  BY SeqForm DEF TypeOK
<1>2. /\ lists[n] \o s \in Seq(Obj) /\ Len(lists[n] \o s) = Len(lists[n]) + Len(s)
      /\ \A k \in 1 .. Len(lists[n]) + Len(s) : (lists[n] \o s)[k] = IF k <= Len(lists[n]) THEN lists[n][k] ELSE s[k - Len(lists[n])]
      /\ Len(s) \in Nat
  BY <1>1, ConcatProperties, SeqForm
<1>3. /\ lists' \in Seq(Seq(Obj)) /\ Len(lists') = Len(lists)
      /\ \A m \in DOMAIN lists : lists'[m] = IF m = n THEN lists[n] \o s ELSE lists[m]
  BY <1>1, <1>2, ExceptSeq DEF TypeOK
<1>4. ASSUME NEW m \in DOMAIN lists
      PROVE  /\ Len(lists[m]) <= Len(lists'[m])
             /\ \A k \in DOMAIN lists[m] : lists'[m][k] = lists[m][k]
  <2>1. DOMAIN lists[m] = 1 .. Len(lists[m])
    BY <1>1, SeqForm
  <2>2. CASE m = n
    <3>1. \A k \in DOMAIN lists[m] : k \in 1 .. Len(lists[n]) + Len(s) /\ k <= Len(lists[n])
      BY <1>1, <1>2, <2>1, <2>2
    <3> QED
      BY <1>1, <1>2, <1>3, <2>2, <3>1
  <2>3. CASE m # n
    BY <1>1, <1>3, <2>3
  <2> QED
    BY <2>2, <2>3
<1>5. lists' # <<>>
  BY <1>1, <1>3, EmptySeq DEF TypeOK
<1> QED
  BY <1>1, <1>3, <1>4, <1>5 DEF Grown

LEMMA SameIters ==
  ASSUME Shape, UNCHANGED iters
  PROVE  \A i \in DOMAIN iters : Continues(i)
<1>1. SUFFICES ASSUME NEW i \in DOMAIN iters
               PROVE  Continues(i)
  OBVIOUS
<1>2. iters[i].kind = "filter" => iters[i].tests \in Readable[iters[i].f]
  BY DEF Shape, IterOK
<1> QED
  BY <1>2 DEF Continues, Follows

LEMMA IterAppended ==
  ASSUME Shape, NEW g \in Iterators, iters' = Append(iters, g)
  PROVE  /\ iters' \in Seq(Iterators) /\ Len(iters') = Len(iters) + 1 /\ Len(iters) \in Nat
         /\ DOMAIN iters = 1 .. Len(iters) /\ DOMAIN iters' = 1 .. Len(iters) + 1
         /\ iters'[Len(iters) + 1] = g
         /\ \A i \in DOMAIN iters : Continues(i)
<1>1. iters \in Seq(Iterators) /\ DOMAIN iters = 1 .. Len(iters) /\ Len(iters) \in Nat
  BY SeqForm DEF Shape, TypeOK
<1>2. /\ iters' \in Seq(Iterators) /\ Len(iters') = Len(iters) + 1 /\ iters'[Len(iters) + 1] = g
      /\ \A i \in DOMAIN iters : iters'[i] = iters[i]
  BY <1>1, AppendProperties
<1>3. DOMAIN iters' = 1 .. Len(iters) + 1
  BY <1>2, SeqForm
<1>4. \A i \in DOMAIN iters : i \in DOMAIN iters'
  BY <1>1, <1>3
<1>5. ASSUME NEW i \in DOMAIN iters
      PROVE  Continues(i)
  <2>1. iters[i].kind = "filter" => iters[i].tests \in Readable[iters[i].f]
    BY DEF Shape, IterOK
  <2> QED
    BY <1>2, <1>4, <2>1 DEF Continues, Follows
<1> QED
  BY <1>1, <1>2, <1>3, <1>5

LEMMA QueriesStay ==
  ASSUME Shape, TypeOK', Grown, Known <= Known', UNCHANGED queries
  PROVE  \A q \in DOMAIN queries' : QueryOK(q)'
BY QueryStays

LEMMA QueryAppended ==
  ASSUME TypeOK, NEW x \in Queries, queries' = Append(queries, x)
  PROVE  /\ queries' \in Seq(Queries) /\ Len(queries) \in Nat
         /\ DOMAIN queries = 1 .. Len(queries) /\ DOMAIN queries' = 1 .. Len(queries) + 1
         /\ queries'[Len(queries) + 1] = x
         /\ \A q \in DOMAIN queries : q # Len(queries) + 1 /\ queries'[q] = queries[q]
<1>1. queries \in Seq(Queries) /\ DOMAIN queries = 1 .. Len(queries) /\ Len(queries) \in Nat
  BY SeqForm DEF TypeOK
<1>2. /\ queries' \in Seq(Queries) /\ Len(queries') = Len(queries) + 1 /\ queries'[Len(queries) + 1] = x
      /\ \A q \in DOMAIN queries : queries'[q] = queries[q]
  BY <1>1, AppendProperties
<1>3. DOMAIN queries' = 1 .. Len(queries) + 1
  BY <1>2, SeqForm
<1> QED
  BY <1>1, <1>2, <1>3

LEMMA QueryAdded ==
  ASSUME Shape, TypeOK', Grown, Known <= Known',
         NEW x \in Queries, queries' = Append(queries, x),
         Reaches(x.src, Known)', x.cache = NoRef
  PROVE  \A q \in DOMAIN queries' : QueryOK(q)'
<1>1. /\ DOMAIN queries = 1 .. Len(queries) /\ DOMAIN queries' = 1 .. Len(queries) + 1
      /\ queries'[Len(queries) + 1] = x /\ Len(queries) \in Nat
      /\ \A q \in DOMAIN queries : q # Len(queries) + 1 /\ queries'[q] = queries[q]
  BY QueryAppended DEF Shape
<1>2. ASSUME NEW q \in DOMAIN queries'
      PROVE  QueryOK(q)'
  <2>1. CASE q \in DOMAIN queries
    BY <1>1, <2>1, QueryStays
  <2>2. CASE q = Len(queries) + 1
    BY <1>1, <2>2 DEF QueryOK
  <2> QED
    BY <1>1, <2>1, <2>2
<1> QED
  BY <1>2

LEMMA CallEnds ==
  ASSUME call' = NoCall
  PROVE  CallOK' /\ call' \in Calls /\ Known' = Len(iters')
<1>1. call' \in Calls
  BY EmptySeq DEF NoCall, Calls
<1> QED
  BY <1>1 DEF NoCall, CallOK, Probing, Known

LEMMA IdleKnown ==
  ASSUME Idle
  PROVE  Known = Len(iters)
BY DEF Idle, NoCall, Probing, Known

\* A step that drops no iterator keeps the shape, if what it adds is fine.
LEMMA Assembled ==
  ASSUME Shape, TypeOK', Grown, \A i \in DOMAIN iters : Continues(i),
         \A i \in DOMAIN iters' \ DOMAIN iters : IterOK(i)',
         \A q \in DOMAIN queries' : QueryOK(q)', CallOK'
  PROVE  Shape'
<1>1. DOMAIN iters = 1 .. Len(iters) /\ Len(iters) \in Nat
  BY SeqForm DEF Shape, TypeOK
<1>2. ASSUME NEW i \in DOMAIN iters
      PROVE  IterOK(i)'
  <2>1. \A j \in 1 .. i : j \in DOMAIN iters
    BY <1>1
  <2> QED
    BY <2>1, IterStays
<1> QED
  BY <1>2 DEF Shape

\* The end of next() or get() drops its generator, which nothing refers to.
LEMMA Dropped ==
  ASSUME Shape, TypeOK', UNCHANGED <<lists, queries>>, call' = NoCall,
         Len(iters') = Known, \A i \in 1 .. Known : Continues(i)
  PROVE  Shape'
<1>1. DOMAIN iters = 1 .. Len(iters) /\ Len(iters) \in Nat
  BY SeqForm DEF Shape, TypeOK
<1>2. DOMAIN iters' = 1 .. Known /\ Known \in Nat /\ Known <= Len(iters)
  <2>1. DOMAIN iters' = 1 .. Len(iters') /\ Len(iters') \in Nat
    BY SeqForm DEF TypeOK
  <2>2. Known = Len(iters) \/ Known = Len(iters) - 1
    BY DEF Known
  <2> QED
    BY <1>1, <2>1, <2>2
<1>3. Grown
  BY SameLists DEF Shape
<1>4. ASSUME NEW i \in DOMAIN iters'
      PROVE  IterOK(i)'
  <2>1. i \in DOMAIN iters /\ \A j \in 1 .. i : j \in 1 .. Known
    BY <1>1, <1>2
  <2> QED
    BY <1>3, <2>1, IterStays
<1>5. CallOK' /\ Known' = Len(iters')
  BY CallEnds
<1>6. \A q \in DOMAIN queries' : QueryOK(q)'
  <2>1. Known <= Known'
    BY <1>2, <1>5
  <2> QED
    BY <1>3, <2>1, QueriesStay
<1> QED
  BY <1>4, <1>5, <1>6 DEF Shape

-----------------------------------------------------------------------------
(* The shape is kept: the calls of the program                               *)

LEMMA CallChanges ==
  ASSUME Shape, UNCHANGED <<lists, iters, queries>>, call' \in Calls, CallOK', Known <= Known'
  PROVE  Shape'
<1>1. TypeOK' /\ Grown /\ \A i \in DOMAIN iters : Continues(i)
  BY SameLists, SameIters DEF Shape, TypeOK
<1>2. \A q \in DOMAIN queries' : QueryOK(q)'
  BY <1>1, QueriesStay
<1> QED
  BY <1>1, <1>2, Assembled

\* Lists, queries and a call that ends, or none.
LEMMA NothingRuns ==
  ASSUME Shape, Idle, call' = NoCall, UNCHANGED iters, lists' \in Seq(Seq(Obj)), lists' # <<>>, Grown,
         \/ UNCHANGED queries
         \/ \E x \in Queries : queries' = Append(queries, x) /\ Reaches(x.src, Known)' /\ x.cache = NoRef
  PROVE  Shape'
<1>1. CallOK' /\ call' \in Calls /\ Known' = Len(iters')
  BY CallEnds
<1>2. Known = Len(iters) /\ Known' = Known /\ Known <= Known'
  <2>1. Len(iters) \in Nat
    BY SeqForm DEF Shape, TypeOK
  <2> QED
    BY <1>1, <2>1, IdleKnown
<1>3. TypeOK'
  <2>1. queries' \in Seq(Queries)
    BY QueryAppended DEF Shape, TypeOK
  <2> QED
    BY <1>1, <2>1 DEF Shape, TypeOK
<1>4. \A q \in DOMAIN queries' : QueryOK(q)'
  BY <1>2, <1>3, QueriesStay, QueryAdded
<1>5. \A i \in DOMAIN iters : Continues(i)
  BY SameIters
<1> QED
  BY <1>1, <1>3, <1>4, <1>5, Assembled

LEMMA QueryForm ==
  ASSUME Shape, NEW q \in DOMAIN queries
  PROVE  /\ queries[q] \in Queries /\ QueryOK(q) /\ queries[q].src \in Refs /\ queries[q].cache \in Refs
         /\ ChainOf(q) \subseteq Nat
         /\ queries[q].src.kind = "iter" => queries[q].src.id \in DOMAIN iters
<1>1. queries[q] \in Queries /\ QueryOK(q)
  BY SeqForm DEF Shape, TypeOK
<1>2. DOMAIN iters = 1 .. Len(iters) /\ Len(iters) \in Nat /\ \A i \in DOMAIN iters : iters[i] \in Iterators
  BY SeqForm DEF Shape, TypeOK
<1>3. queries[q].src.kind = "iter" => queries[q].src.id \in DOMAIN iters
  BY <1>1, <1>2 DEF QueryOK, Reaches, Known
<1>4. ChainOf(q) \subseteq Nat
  BY <1>2, <1>3 DEF ChainOf, ChainTo, Iterators
<1> QED
  BY <1>1, <1>3, <1>4 DEF Queries

LEMMA NewQueryForm ==
  ASSUME NEW src \in Refs, NEW distinct \in BOOLEAN, NEW order \in BOOLEAN, NEW reverse \in BOOLEAN
  PROVE  LET x == NewQuery(src, distinct, order, reverse) IN
         x \in Queries /\ x.src = src /\ x.cache = NoRef /\ x.pulled = <<>> /\ x.distinct = distinct
<1>1. NoRef \in Refs /\ <<>> \in Seq(Obj)
  BY EmptySeq DEF NoRef, Refs
<1> QED
  BY <1>1 DEF NewQuery, Queries

LEMMA MakeShape ==
  ASSUME Shape, NEW flags \in Flags, Make(flags)
  PROVE  Shape'
<1>1. 1 \in DOMAIN lists
  <2>1. lists \in Seq(Seq(Obj)) /\ lists # <<>>
    BY DEF Shape, TypeOK
  <2> QED
    BY <2>1, EmptySeq, SeqForm
<1> DEFINE x == NewQuery(ListRef(1), flags.distinct, flags.order, flags.reverse)
<1>2. x \in Queries /\ x.src = ListRef(1) /\ x.cache = NoRef
  <2>1. ListRef(1) \in Refs
    BY DEF ListRef, Refs
  <2>2. flags.distinct \in BOOLEAN /\ flags.order \in BOOLEAN /\ flags.reverse \in BOOLEAN
    BY ObjAssumption
  <2> QED
    BY <2>1, <2>2, NewQueryForm
<1>3. Idle /\ queries' = Append(queries, x) /\ UNCHANGED <<lists, iters, call>>
  BY DEF Make, CanMake
<1> HIDE DEF x
<1>4. Reaches(x.src, Known)'
  BY <1>1, <1>2, <1>3 DEF Reaches, ListRef
<1>5. Grown /\ lists' \in Seq(Seq(Obj)) /\ lists' # <<>>
  BY <1>3, SameLists DEF Shape, TypeOK
<1> QED
  BY <1>2, <1>3, <1>4, <1>5, NothingRuns DEF Idle

LEMMA OrderByShape ==
  ASSUME Shape, NEW q \in DOMAIN queries, OrderBy(q)
  PROVE  Shape'
<1>1. PICK x \in Queries : /\ x = NewQuery(queries[q].src, queries[q].distinct, TRUE, FALSE)
                          /\ x.src = queries[q].src /\ x.cache = NoRef
  <2>1. queries[q].src \in Refs /\ queries[q].distinct \in BOOLEAN
    BY QueryForm DEF Queries
  <2> QED
    BY <2>1, NewQueryForm
<1>2. Idle /\ queries' = Append(queries, x) /\ UNCHANGED <<lists, iters, call>>
  BY <1>1 DEF OrderBy, CanMake
<1>3. Reaches(x.src, Known)'
  <2>1. Reaches(queries[q].src, Known)
    BY QueryForm DEF QueryOK
  <2>2. Known' = Known
    BY <1>2 DEF Known, Probing
  <2> QED
    BY <1>1, <1>2, <2>1, <2>2 DEF Reaches
<1>4. Grown /\ lists' \in Seq(Seq(Obj)) /\ lists' # <<>>
  BY <1>2, SameLists DEF Shape, TypeOK
<1> QED
  BY <1>1, <1>2, <1>3, <1>4, NothingRuns DEF Idle

LEMMA AppendBaseShape ==
  ASSUME Shape, NEW o \in Added, AppendBase(o)
  PROVE  Shape'
<1>1. 1 \in DOMAIN lists /\ lists[1] \in Seq(Obj)
  <2>1. lists \in Seq(Seq(Obj)) /\ lists # <<>>
    BY DEF Shape, TypeOK
  <2> QED
    BY <2>1, EmptySeq, SeqForm
<1>2. o \in Obj /\ <<o>> \in Seq(Obj)
  BY ObjAssumption
<1>3. Append(lists[1], o) = lists[1] \o <<o>>
  BY <1>1, <1>2, AppendIsConcat
<1>4. lists' = [lists EXCEPT ![1] = @ \o <<o>>]
  BY <1>3 DEF AppendBase
<1>5. Grown /\ lists' \in Seq(Seq(Obj)) /\ lists' # <<>>
  BY <1>1, <1>2, <1>4, ListLonger DEF Shape
<1> QED
  BY <1>5, NothingRuns DEF AppendBase, Idle

LEMMA AnswerShape ==
  ASSUME Shape, UNCHANGED <<lists, iters, queries, call>>
  PROVE  Shape'
<1>1. /\ Known' = Known /\ CallOK' = CallOK
  BY DEF Known, Probing, CallOK, Root
<1>2. Known <= Known'
  <2>1. Len(iters) \in Nat
    BY SeqForm DEF Shape, TypeOK
  <2> QED
    BY <1>1, <2>1 DEF Known
<1> QED
  BY <1>1, <1>2, CallChanges DEF Shape, TypeOK

LEMMA AskShape ==
  ASSUME Shape, NEW q \in DOMAIN queries, Ask(q)
  PROVE  Shape'
<1>1. /\ Idle /\ UNCHANGED <<lists, iters, queries>>
      /\ call' = [NoCall EXCEPT !.op = "all", !.query = q, !.path = <<>>]
  BY DEF Ask, Begin
<1>2. q \in Nat
  BY SeqForm DEF Shape, TypeOK
<1>3. /\ call'.op = "all" /\ call'.query = q /\ call'.path = <<>> /\ call'.got = <<>>
      /\ call'.obj = NoObj /\ call'.wants = {} /\ call' \in Calls
  <2>1. <<>> \in Seq(Obj) /\ <<>> \in Seq(Nat)
    BY EmptySeq
  <2> QED
    BY <1>1, <1>2, <2>1 DEF NoCall, Calls
<1>4. CallOK'
  BY <1>1, <1>3 DEF CallOK, Probing
<1>5. Known' = Len(iters) /\ Known = Len(iters) /\ Len(iters) \in Nat
  BY <1>1, <1>3, IdleKnown, SeqForm DEF Known, Probing, Shape, TypeOK
<1> QED
  BY <1>1, <1>3, <1>4, <1>5, CallChanges

\* A call that consumes an iterator begins.
LEMMA Begun ==
  ASSUME NEW i \in Nat, i \in DOMAIN iters', call'.op \in {"iter", "in", "next", "get"},
         call'.op \in {"next", "get"} => i = Len(iters'),
         call'.query = 0, call'.path = <<i>>
  PROVE  CallOK'
<1>1. DOMAIN call'.path = {1} /\ call'.path[1] = i
  OBVIOUS
<1> QED
  BY <1>1 DEF CallOK, Probing

LEMMA CacheIter ==
  ASSUME Shape, NEW q \in DOMAIN queries, queries[q].cache.kind = "iter"
  PROVE  queries[q].cache.id \in DOMAIN iters
<1>1. DOMAIN iters = 1 .. Len(iters) /\ Len(iters) \in Nat
  BY SeqForm DEF Shape, TypeOK
<1>2. Reaches(queries[q].cache, Known)
  BY QueryForm DEF QueryOK, NoRef
<1> QED
  BY <1>1, <1>2 DEF Reaches, Known

\* A generator that was added, over what a query iterates.
LEMMA GeneratorAdded ==
  ASSUME Shape, TypeOK', Grown, UNCHANGED lists, \A i \in DOMAIN iters : Continues(i),
         NEW j, j = Len(iters) + 1, j \in DOMAIN iters',
         NEW src, Reaches(src, Len(iters)),
         NEW f \in DOMAIN Criteria, iters'[j].kind = "filter", iters'[j].src = src, iters'[j].pos = 1,
         iters'[j].f = f, iters'[j].tests = Fresh(Criteria[f]), iters'[j].chain = ChainTo(src) \cup {j}
  PROVE  /\ IterOK(j)'
         /\ Root(j)' = IF src.kind = "iter" THEN Root(src.id) ELSE j
<1>1. Len(iters) \in Nat /\ j - 1 = Len(iters)
  BY SeqForm DEF Shape, TypeOK
<1>2. Reaches(src, j - 1)'
  BY <1>1 DEF Reaches
<1>3. src.kind = "list" => Past(j)' \in 0 .. Len(lists'[src.id])
  <2>1. src.kind = "list" => Len(lists[src.id]) \in Nat
    BY SeqForm DEF Reaches, Shape, TypeOK
  <2> QED
    BY <2>1 DEF Past
<1> QED
  BY <1>2, <1>3, FreshReads, IterAdded

LEMMA ConsumeShape ==
  ASSUME Shape, Idle, UNCHANGED <<lists, iters, queries>>, NEW i \in DOMAIN iters,
         NEW op \in {"iter", "in"}, NEW wants \in SUBSET Obj,
         call' = [op |-> op, query |-> 0, got |-> <<>>, path |-> <<i>>, obj |-> NoObj, wants |-> wants]
  PROVE  Shape'
<1>1. i \in Nat /\ Len(iters) \in Nat
  BY SeqForm DEF Shape, TypeOK
<1>2. /\ call'.op = op /\ call'.query = 0 /\ call'.path = <<i>> /\ call'.got = <<>>
      /\ call'.obj = NoObj /\ call'.wants = wants /\ call' \in Calls
  <2>1. <<>> \in Seq(Obj) /\ <<i>> \in Seq(Nat)
    BY <1>1, EmptySeq
  <2> QED
    BY <2>1 DEF NoCall, Calls
<1>3. CallOK'
  BY <1>1, <1>2, Begun
<1>4. Known' = Len(iters) /\ Known = Len(iters)
  BY <1>2, IdleKnown DEF Known, Probing
<1> QED
  BY <1>1, <1>2, <1>3, <1>4, CallChanges

LEMMA IterateShape ==
  ASSUME Shape, NEW q \in DOMAIN queries, Iterate(q)
  PROVE  Shape'
<1> DEFINE i == queries[q].cache.id
<1>1. queries[q].cache.kind = "iter" /\ Idle /\ UNCHANGED <<lists, iters, queries>>
  BY DEF Iterate, Begin
<1>2. i \in DOMAIN iters
  BY <1>1, CacheIter
<1>3. call' = [op |-> "iter", query |-> 0, got |-> <<>>, path |-> <<i>>, obj |-> NoObj, wants |-> {}]
  BY DEF Iterate, Begin, NoCall
<1> HIDE DEF i
<1> QED
  BY <1>1, <1>2, <1>3, ConsumeShape

LEMMA LookForShape ==
  ASSUME Shape, NEW q \in DOMAIN queries, NEW o \in Added, LookFor(q, o)
  PROVE  Shape'
<1> DEFINE i == queries[q].cache.id
<1>1. queries[q].cache.kind = "iter" /\ Idle /\ UNCHANGED <<lists, iters, queries>>
  BY DEF LookFor
<1>2. i \in DOMAIN iters
  BY <1>1, CacheIter
<1>3. call' = [op |-> "in", query |-> 0, got |-> <<>>, path |-> <<i>>, obj |-> NoObj, wants |-> EqualTo[o]]
  BY DEF LookFor, NoCall
<1>4. EqualTo[o] \in SUBSET Obj
  BY ObjAssumption DEF EqualTo
<1> HIDE DEF i
<1> QED
  BY <1>1, <1>2, <1>3, <1>4, ConsumeShape

\* next() and get(): the new generator is the last, and no query refers to it.
LEMMA ProbeShape ==
  ASSUME Shape, NEW q \in DOMAIN queries, NEW op \in {"next", "get"}, NEW f \in Probes, Probe(op, q, f)
  PROVE  Shape'
<1> DEFINE src == queries[q].src
           g == Generator(src, f, FALSE, queries[q].distinct)
<1> PICK j : j = Len(iters) + 1
  OBVIOUS
<1>1. /\ src \in Refs /\ ChainTo(src) \subseteq Nat /\ queries[q].distinct \in BOOLEAN
      /\ Reaches(src, Known)
  BY QueryForm DEF Queries, ChainOf, QueryOK
<1>2. f \in DOMAIN Criteria
  BY ObjAssumption
<1>3. Idle /\ UNCHANGED <<lists, queries>> /\ iters' = Append(iters, g)
  BY DEF Probe, Begin
<1>4. call' = [NoCall EXCEPT !.op = op, !.query = 0, !.path = <<j>>]
  BY DEF Probe, Begin
<1> HIDE DEF src
<1>5. /\ g \in Iterators /\ g.kind = "filter" /\ g.src = src /\ g.pos = 1 /\ g.f = f
      /\ g.tests = Fresh(Criteria[f]) /\ g.chain = ChainTo(src) \cup {j}
  <2>1. TypeOK
    BY DEF Shape
  <2>2. PICK negate \in BOOLEAN : negate = FALSE
    OBVIOUS
  <2>3. g = Generator(src, f, negate, queries[q].distinct)
    BY <2>2
  <2> HIDE DEF g
  <2> QED
    BY <1>1, <1>2, <2>1, <2>3, GeneratorForm
<1> HIDE DEF g
<1>6. /\ iters' \in Seq(Iterators) /\ Len(iters') = j /\ Len(iters) \in Nat
      /\ DOMAIN iters = 1 .. Len(iters) /\ DOMAIN iters' = 1 .. j /\ iters'[j] = g
      /\ \A i \in DOMAIN iters : Continues(i)
  BY <1>3, <1>5, IterAppended
<1>7. /\ call'.op = op /\ call'.query = 0 /\ call'.path = <<j>> /\ call'.got = <<>>
      /\ call'.obj = NoObj /\ call' \in Calls
  <2>1. <<>> \in Seq(Obj) /\ <<j>> \in Seq(Nat)
    BY <1>6, EmptySeq
  <2> QED
    BY <1>4, <2>1 DEF NoCall, Calls
<1>8. CallOK'
  BY <1>6, <1>7, Begun
<1>9. Known = Len(iters) /\ Known' = Len(iters)
  <2>1. Known = Len(iters)
    BY <1>3, IdleKnown
  <2>2. Known' = Len(iters') - 1
    BY <1>7 DEF Known, Probing
  <2> QED
    BY <1>6, <2>1, <2>2
<1>10. TypeOK' /\ Grown
  BY <1>3, <1>6, <1>7, SameLists DEF Shape, TypeOK
<1>11. IterOK(j)'
  BY <1>1, <1>2, <1>3, <1>5, <1>6, <1>9, <1>10, GeneratorAdded
<1>12. \A q1 \in DOMAIN queries' : QueryOK(q1)'
  BY <1>3, <1>6, <1>9, <1>10, QueriesStay
<1>13. \A i \in DOMAIN iters' \ DOMAIN iters : IterOK(i)'
  BY <1>6, <1>11
<1> QED
  BY <1>6, <1>8, <1>10, <1>12, <1>13, Assembled

LEMMA ElementsForm ==
  ASSUME NEW S, NEW s \in Seq(S), NEW places
  PROVE  Elements(s, places) \in Seq(S)
<1> DEFINE N == Len(s)
           taken[n \in 0 .. Len(s)] ==
             IF n = 0 THEN <<>> ELSE IF n \in places THEN Append(taken[n - 1], s[n]) ELSE taken[n - 1]
           F == [n \in 1 .. N |-> [t \in Seq(S) |-> IF n \in places THEN Append(t, s[n]) ELSE t]]
           Takes(g) == g = [n \in 0 .. N |->
             IF n = 0 THEN <<>> ELSE IF n \in places THEN Append(g[n - 1], s[n]) ELSE g[n - 1]]
<1>1. N \in Nat /\ \A n \in 1 .. N : s[n] \in S
  BY SeqForm
<1>2. F \in [1 .. N -> [Seq(S) -> Seq(S)]]
  BY <1>1, AppendProperties
<1>3. <<>> \in Seq(S)
  BY EmptySeq
<1>4. PICK g : Iterates(g, Seq(S), <<>>, N, F)
  <2> HIDE DEF N, F
  <2> QED
    BY <1>1, <1>2, <1>3, Iterated
<1>5. Takes(g)
  <2>1. ASSUME NEW n \in 0 .. N
        PROVE  g[n] = IF n = 0 THEN <<>> ELSE IF n \in places THEN Append(g[n - 1], s[n]) ELSE g[n - 1]
    <3>1. CASE n = 0
      BY <1>4, <3>1 DEF Iterates
    <3>2. CASE n # 0
      <4>1. n \in 1 .. N /\ n - 1 \in 0 .. N
        BY <1>1, <3>2
      <4>2. g[n - 1] \in Seq(S)
        BY <1>4, <4>1 DEF Iterates
      <4>3. F[n][g[n - 1]] = IF n \in places THEN Append(g[n - 1], s[n]) ELSE g[n - 1]
        BY <4>1, <4>2
      <4> QED
        BY <1>4, <3>2, <4>1, <4>3 DEF Iterates
    <3> QED
      BY <3>1, <3>2
  <2> HIDE DEF F
  <2> QED
    BY <1>4, <2>1 DEF Iterates
<1>6. Takes(taken)
  <2>1. \E f : Takes(f)
    BY <1>5
  <2> QED
    BY <2>1
<1> HIDE DEF taken, F
<1> DEFINE T == {n \in 0 .. N : taken[n] \notin Seq(S)}
<1>7. T = {}
  <2>1. SUFFICES ASSUME T # {}
                 PROVE  FALSE
    OBVIOUS
  <2>2. PICK n \in T : \A m \in T : n <= m
    <3>1. T \subseteq Nat
      BY <1>1
    <3> HIDE DEF T
    <3> QED
      BY <2>1, <3>1, LeastNumber
  <2>3. n # 0
    BY <1>1, <1>3, <1>6, <2>2
  <2>4. n \in 1 .. N /\ n - 1 \in 0 .. N /\ ~(n <= n - 1)
    BY <1>1, <2>2, <2>3
  <2>5. taken[n - 1] \in Seq(S)
    BY <2>2, <2>4
  <2>6. taken[n] = IF n \in places THEN Append(taken[n - 1], s[n]) ELSE taken[n - 1]
    BY <1>6, <2>2, <2>3, <2>4
  <2>7. taken[n] \in Seq(S)
    BY <1>1, <2>4, <2>5, <2>6, AppendProperties
  <2> QED
    BY <2>2, <2>7
<1>8. taken[N] \in Seq(S)
  <2>1. N \in 0 .. N
    BY <1>1
  <2> QED
    BY <1>7, <2>1
<1> QED
  BY <1>8 DEF Elements, taken

LEMMA RefineShape ==
  ASSUME Shape, NEW q \in DOMAIN queries, NEW r \in Refinements, Refine(q, r)
  PROVE  Shape'
<1>1. PICK src, both, j, g : /\ src = queries[q].src /\ both = (r.distinct \/ queries[q].distinct)
                             /\ j = Len(iters) + 1 /\ g = Generator(src, r.f, r.negate, both)
  OBVIOUS
<1>2. /\ src \in Refs /\ ChainTo(src) \subseteq Nat /\ Reaches(src, Known)
      /\ queries[q].distinct \in BOOLEAN /\ queries[q].order \in BOOLEAN /\ queries[q].reverse \in BOOLEAN
  BY <1>1, QueryForm DEF Queries, ChainOf, QueryOK
<1>3. r.f \in DOMAIN Criteria /\ r.negate \in BOOLEAN /\ both \in BOOLEAN
  BY <1>1, ObjAssumption
<1>4. Idle /\ call' = NoCall /\ UNCHANGED lists /\ iters' = Append(iters, g)
  BY <1>1 DEF Refine, CanMake, Idle
<1>5. /\ g \in Iterators /\ g.kind = "filter" /\ g.src = src /\ g.pos = 1 /\ g.f = r.f
      /\ g.tests = Fresh(Criteria[r.f]) /\ g.chain = ChainTo(src) \cup {j}
  <2>1. TypeOK
    BY DEF Shape
  <2>2. PICK f \in DOMAIN Criteria, negate \in BOOLEAN, distinct \in BOOLEAN :
           f = r.f /\ negate = r.negate /\ distinct = both
    BY <1>3
  <2>3. g = Generator(src, f, negate, distinct)
    BY <1>1, <2>2
  <2>4. /\ g \in Iterators /\ g.kind = "filter" /\ g.src = src /\ g.pos = 1 /\ g.f = f
        /\ g.tests = Fresh(Criteria[f]) /\ g.chain = ChainTo(src) \cup {Len(iters) + 1}
    BY <1>2, <2>1, <2>3, GeneratorForm
  <2> QED
    BY <1>1, <2>2, <2>4
<1>6. /\ iters' \in Seq(Iterators) /\ Len(iters') = j /\ Len(iters) \in Nat /\ j \in Nat
      /\ DOMAIN iters = 1 .. Len(iters) /\ DOMAIN iters' = 1 .. j /\ iters'[j] = g
      /\ \A i \in DOMAIN iters : Continues(i)
  BY <1>1, <1>4, <1>5, IterAppended
<1>7. PICK x \in Queries : /\ queries' = Append(queries, x) /\ x.src = IterRef(j) /\ x.cache = NoRef
  <2>1. IterRef(j) \in Refs
    BY <1>6 DEF IterRef, Refs
  <2>2. queries' = Append(queries, NewQuery(IterRef(j), both, queries[q].order, queries[q].reverse))
    BY <1>1 DEF Refine
  <2> QED
    BY <1>2, <1>3, <2>1, <2>2, NewQueryForm
<1>8. CallOK' /\ call' \in Calls /\ Known' = j /\ Known = Len(iters)
  BY <1>4, <1>6, CallEnds, IdleKnown
<1>9. TypeOK' /\ Grown
  <2>1. queries' \in Seq(Queries)
    BY <1>7, QueryAppended DEF Shape
  <2> QED
    BY <1>4, <1>6, <1>8, <2>1, SameLists DEF Shape, TypeOK
<1>10. IterOK(j)'
  BY <1>1, <1>2, <1>3, <1>4, <1>5, <1>6, <1>8, <1>9, GeneratorAdded
<1>11. \A i \in DOMAIN iters' \ DOMAIN iters : IterOK(i)'
  BY <1>1, <1>6, <1>10
<1>12. \A k \in DOMAIN queries' : QueryOK(k)'
  <2>1. Reaches(x.src, Known)'
    <3>1. j \in 1 .. j /\ Known' = j /\ x.src.kind = "iter" /\ x.src.id = j
      BY <1>1, <1>6, <1>7, <1>8 DEF IterRef
    <3> QED
      BY <3>1 DEF Reaches
  <2>2. Known <= Known'
    BY <1>1, <1>6, <1>8
  <2> QED
    BY <1>7, <1>9, <2>1, <2>2, QueryAdded
<1> QED
  BY <1>6, <1>8, <1>9, <1>11, <1>12, Assembled

\* The cache of a query that is a list.
LEMMA CacheList ==
  ASSUME Shape, NEW q \in DOMAIN queries, IsList(q)
  PROVE  /\ queries[q].cache \in Refs /\ queries[q].cache.id \in DOMAIN lists
         /\ queries[q].cache.id # 1 /\ queries[q].cache = ListRef(queries[q].cache.id)
         /\ Cached(q) \in Seq(Obj) /\ Len(Cached(q)) \in Nat
<1>1. queries[q].cache \in Refs /\ queries[q].cache.kind = "list" /\ QueryOK(q)
  BY QueryForm DEF IsList
<1>2. queries[q].cache = ListRef(queries[q].cache.id)
  BY <1>1 DEF Refs, ListRef
<1>3. Reaches(queries[q].cache, Known) /\ queries[q].cache # ListRef(1)
  BY <1>1 DEF QueryOK, NoRef
<1>4. queries[q].cache.id \in DOMAIN lists
  BY <1>1, <1>3 DEF Reaches
<1>5. Cached(q) \in Seq(Obj)
  BY <1>4, SeqForm DEF Shape, TypeOK, Cached
<1>6. Len(Cached(q)) \in Nat
  BY <1>5, SeqForm
<1> QED
  BY <1>1, <1>2, <1>3, <1>4, <1>5, <1>6

\* A reversed iterator that was added, over a whole list.
LEMMA BackwardsAdded ==
  ASSUME Shape, TypeOK', Grown, \A i \in DOMAIN iters : Continues(i),
         NEW j, j = Len(iters) + 1, j \in DOMAIN iters',
         NEW src, Reaches(src, j - 1)', src.kind = "list",
         iters'[j].kind = "reversed", iters'[j].src = src, ~iters'[j].distinct,
         iters'[j].pos = Len(lists'[src.id]), iters'[j].chain = {j}
  PROVE  IterOK(j)' /\ Root(j)' = j
<1>1. src.kind = "list" => Past(j)' \in 0 .. Len(lists'[src.id])
  <2>1. Len(lists'[src.id]) \in Nat
    BY SeqForm DEF Reaches, TypeOK
  <2> QED
    BY <2>1 DEF Past
<1>2. iters'[j].chain = ChainTo(src) \cup {j}
  BY DEF ChainTo
<1> QED
  BY <1>1, <1>2, IterAdded

LEMMA ReverseShape ==
  ASSUME Shape, NEW q \in DOMAIN queries, ReverseOf(q)
  PROVE  Shape'
<1>1. CASE ~IsList(q)
  BY <1>1, AnswerShape DEF ReverseOf
<1>2. CASE IsList(q)
  <2>1. PICK ref, j, g : ref = queries[q].cache /\ j = Len(iters) + 1 /\ g = Backwards(ref, Len(Cached(q)))
    OBVIOUS
  <2>2. /\ ref \in Refs /\ ref.kind = "list" /\ ref.id \in DOMAIN lists
        /\ Cached(q) = lists[ref.id] /\ Len(Cached(q)) \in Nat
    BY <1>2, <2>1, CacheList DEF IsList, Cached
  <2>3. Idle /\ call' = NoCall /\ UNCHANGED lists /\ iters' = Append(iters, g)
    BY <1>2, <2>1 DEF ReverseOf, Idle
  <2>4. /\ g \in Iterators /\ g.kind = "reversed" /\ g.src = ref /\ g.pos = Len(lists[ref.id])
        /\ ~g.distinct /\ g.chain = {j}
    <3>1. TypeOK
      BY DEF Shape
    <3> QED
      BY <2>1, <2>2, <3>1, BackwardsForm
  <2>5. /\ iters' \in Seq(Iterators) /\ Len(iters') = j /\ Len(iters) \in Nat /\ j \in Nat
        /\ DOMAIN iters = 1 .. Len(iters) /\ DOMAIN iters' = 1 .. j /\ iters'[j] = g
        /\ \A i \in DOMAIN iters : Continues(i)
    BY <2>1, <2>3, <2>4, IterAppended
  <2>6. PICK x \in Queries : /\ queries' = Append(queries, x) /\ x.src = IterRef(j)
                             /\ x.cache = NoRef /\ x.pulled = <<>>
    <3>1. IterRef(j) \in Refs /\ NoRef \in Refs /\ <<>> \in Seq(Obj)
      BY <2>5, EmptySeq DEF IterRef, NoRef, Refs
    <3>2. queries' = Append(queries, [queries[q] EXCEPT !.src = IterRef(j), !.cache = NoRef, !.pulled = <<>>])
      BY <1>2, <2>1 DEF ReverseOf
    <3>3. queries[q] \in Queries
      BY QueryForm
    <3>4. PICK x : x = [queries[q] EXCEPT !.src = IterRef(j), !.cache = NoRef, !.pulled = <<>>]
      OBVIOUS
    <3>5. x \in Queries /\ x.src = IterRef(j) /\ x.cache = NoRef /\ x.pulled = <<>>
      BY <3>1, <3>3, <3>4 DEF Queries
    <3> QED
      BY <3>2, <3>4, <3>5
  <2>7. CallOK' /\ call' \in Calls /\ Known' = j /\ Known = Len(iters)
    BY <2>3, <2>5, CallEnds, IdleKnown
  <2>8. TypeOK' /\ Grown
    <3>1. queries' \in Seq(Queries)
      BY <2>6, QueryAppended DEF Shape
    <3> QED
      BY <2>3, <2>5, <2>7, <3>1, SameLists DEF Shape, TypeOK
  <2>9. IterOK(j)'
    <3>1. Reaches(ref, j - 1)'
      BY <2>2, <2>3 DEF Reaches
    <3>2. iters'[j].pos = Len(lists'[ref.id]) /\ j \in DOMAIN iters'
      BY <2>1, <2>3, <2>4, <2>5
    <3> QED
      BY <2>1, <2>2, <2>4, <2>5, <2>8, <3>1, <3>2, BackwardsAdded
  <2>10. \A i \in DOMAIN iters' \ DOMAIN iters : IterOK(i)'
    BY <2>1, <2>5, <2>9
  <2>11. \A k \in DOMAIN queries' : QueryOK(k)'
    <3>1. Reaches(x.src, Known)'
      <4>1. j \in 1 .. j /\ Known' = j /\ x.src.kind = "iter" /\ x.src.id = j
        BY <2>1, <2>5, <2>6, <2>7 DEF IterRef
      <4> QED
        BY <4>1 DEF Reaches
    <3>2. Known <= Known'
      BY <2>1, <2>5, <2>7
    <3> QED
      BY <2>6, <2>8, <3>1, <3>2, QueryAdded
  <2> QED
    BY <2>5, <2>7, <2>8, <2>10, <2>11, Assembled
<1> QED
  BY <1>1, <1>2

LEMMA UnionShape ==
  ASSUME Shape, NEW q \in DOMAIN queries, NEW o \in DOMAIN queries, Union(q, o)
  PROVE  Shape'
<1>1. Idle /\ IsList(q) /\ IsList(o) /\ UNCHANGED <<iters, call>>
  BY DEF Union, Both
<1>2. PICK ref : ref = queries[q].cache
  OBVIOUS
<1>3. ref \in Refs /\ ref.id \in DOMAIN lists /\ ref = ListRef(ref.id) /\ Cached(o) \in Seq(Obj)
  BY <1>1, <1>2, CacheList
<1>4. lists' = [lists EXCEPT ![ref.id] = @ \o Cached(o)]
  BY <1>2 DEF Union
<1>5. /\ Grown /\ lists' \in Seq(Seq(Obj)) /\ lists' # <<>> /\ DOMAIN lists' = DOMAIN lists
  BY <1>3, <1>4, ListLonger DEF Shape
<1>6. PICK x \in Queries : queries' = Append(queries, x) /\ x.src = ref /\ x.cache = NoRef
  <2>1. queries[q].distinct \in BOOLEAN /\ queries[q].order \in BOOLEAN
    BY QueryForm DEF Queries
  <2>2. PICK reverse \in BOOLEAN : reverse = FALSE
    OBVIOUS
  <2>3. queries' = Append(queries, NewQuery(ref, queries[q].distinct, queries[q].order, reverse))
    BY <1>2, <2>2 DEF Union, Combined
  <2> QED
    BY <1>3, <2>1, <2>3, NewQueryForm
<1>7. Reaches(x.src, Known)'
  BY <1>3, <1>5, <1>6 DEF Reaches, ListRef
<1> QED
  BY <1>1, <1>5, <1>6, <1>7, NothingRuns DEF Idle

LEMMA CompareShape ==
  ASSUME Shape, NEW q \in DOMAIN queries, NEW o \in DOMAIN queries, NEW b \in BOOLEAN, Compare(q, o, b)
  PROVE  Shape'
<1>1. Idle /\ IsList(q) /\ IsList(o) /\ UNCHANGED <<iters, call>>
  BY DEF Compare, Both
<1>2. PICK s, n : /\ s = Elements(Cached(q), {k \in DOMAIN Cached(q) : Holds(Cached(o), Cached(q)[k]) <=> b})
                  /\ n = Len(lists) + 1
  OBVIOUS
<1>3. s \in Seq(Obj)
  BY <1>1, <1>2, CacheList, ElementsForm
<1>4. lists' = Append(lists, s)
  BY <1>2 DEF Compare
<1>5. Grown /\ lists' \in Seq(Seq(Obj)) /\ lists' # <<>> /\ n \in DOMAIN lists'
  BY <1>2, <1>3, <1>4, ListAdded DEF Shape
<1>6. n \in Nat /\ ListRef(n) \in Refs
  BY <1>5, SeqForm DEF ListRef, Refs
<1>7. PICK x \in Queries : queries' = Append(queries, x) /\ x.src = ListRef(n) /\ x.cache = NoRef
  <2>1. queries[q].distinct \in BOOLEAN /\ queries[q].order \in BOOLEAN
    BY QueryForm DEF Queries
  <2>2. PICK reverse \in BOOLEAN : reverse = FALSE
    OBVIOUS
  <2>3. queries' = Append(queries, NewQuery(ListRef(n), queries[q].distinct, queries[q].order, reverse))
    BY <1>2, <2>2 DEF Compare, Combined
  <2> QED
    BY <1>6, <2>1, <2>3, NewQueryForm
<1>8. Reaches(x.src, Known)'
  BY <1>5, <1>7 DEF Reaches, ListRef
<1> QED
  BY <1>1, <1>5, <1>7, <1>8, NothingRuns DEF Idle

-----------------------------------------------------------------------------
(* The shape is kept: a call that runs                                       *)

\* One step of the generator that is resumed.
LEMMA TopFollows ==
  ASSUME Shape, Pulling, NEW jt \in Iterators, Follows(Top, jt)
  PROVE  /\ WithTop(jt) \in Seq(Iterators) /\ Len(WithTop(jt)) = Len(iters)
         /\ \A i \in DOMAIN iters : Follows(iters[i], WithTop(jt)[i])
<1>1. \A i \in DOMAIN iters : Follows(iters[i], iters[i])
  <2>1. SUFFICES ASSUME NEW i \in DOMAIN iters
                 PROVE  Follows(iters[i], iters[i])
    OBVIOUS
  <2>2. iters[i].kind = "filter" => iters[i].tests \in Readable[iters[i].f]
    BY DEF Shape, IterOK
  <2> QED
    BY <2>2 DEF Follows
<1>2. Top = iters[Place]
  BY TopForm
<1> QED
  BY <1>1, <1>2, WithTopForm

LEMMA FinishedFollows ==
  ASSUME Shape, NEW takers \in SUBSET Nat
  PROVE  /\ Finished(takers) \in Seq(Iterators) /\ Len(Finished(takers)) = Len(iters)
         /\ \A i \in DOMAIN iters : Follows(iters[i], Finished(takers)[i])
<1>1. ASSUME NEW i \in DOMAIN iters
      PROVE  Follows(iters[i], Finished(takers)[i])
  <2>1. iters[i].kind = "filter" => iters[i].tests \in Readable[iters[i].f]
    BY DEF Shape, IterOK
  <2> QED
    BY <2>1, FinishedForm DEF Follows
<1> QED
  BY <1>1, FinishedForm

LEMMA AllContinue ==
  ASSUME Shape, iters' \in Seq(Iterators), Len(iters) <= Len(iters'),
         \A i \in DOMAIN iters : Follows(iters[i], iters'[i])
  PROVE  \A i \in DOMAIN iters : Continues(i)
<1>1. DOMAIN iters = 1 .. Len(iters) /\ Len(iters) \in Nat
  BY SeqForm DEF Shape, TypeOK
<1>2. DOMAIN iters' = 1 .. Len(iters') /\ Len(iters') \in Nat
  BY SeqForm
<1> QED
  BY <1>1, <1>2 DEF Continues

\* The call goes on, with the same chain of generators or a shorter one.
LEMMA GoesOn ==
  ASSUME Shape, Pulling, UNCHANGED <<lists, queries>>, iters' \in Seq(Iterators), Len(iters') = Len(iters),
         \A i \in DOMAIN iters : Follows(iters[i], iters'[i]),
         call' \in Calls, call'.op = call.op, call'.query = call.query, call'.path # <<>>,
         Len(call'.path) <= Len(call.path), \A k \in DOMAIN call'.path : call'.path[k] = call.path[k]
  PROVE  Shape'
<1>1. DOMAIN iters = 1 .. Len(iters) /\ Len(iters) \in Nat /\ DOMAIN iters' = DOMAIN iters
  BY SeqForm DEF Shape, TypeOK
<1>2. \A i \in DOMAIN iters : Continues(i)
  BY <1>1, AllContinue
<1>3. TypeOK' /\ Grown
  BY SameLists DEF Shape, TypeOK
<1>4. PathOK(call.path)'
  BY <1>2, <1>3, PathStays
<1>5. 1 \in DOMAIN call'.path /\ call'.path[1] = call.path[1] /\ call.path # <<>>
  <2>1. call'.path \in Seq(Nat)
    BY DEF Calls
  <2> QED
    BY <2>1, EmptySeq, SeqForm DEF Pulling
<1>6. CallOK'
  <2>1. call.op # "none"
    BY <1>5 DEF Shape, CallOK, NoCall
  <2>2. call.op = "all" => call.query \in DOMAIN queries /\ queries[call.query].src = IterRef(call.path[1])
    BY <1>5 DEF Shape, CallOK
  <2>3. call.op # "all" => call.query = 0
    BY DEF Shape, CallOK
  <2>4. call.op \in {"next", "get"} => call.path[1] = Len(iters)
    BY DEF Shape, CallOK, Probing
  <2> QED
    BY <1>4, <1>5, <2>1, <2>2, <2>3, <2>4 DEF CallOK, PathOK, Probing
<1>7. Known' = Known /\ Known \in Int
  BY <1>1 DEF Known, Probing
<1>8. \A q \in DOMAIN queries' : QueryOK(q)'
  BY <1>3, <1>7, QueriesStay
<1> QED
  BY <1>1, <1>2, <1>3, <1>6, <1>8, Assembled

\* The call ends, and next() or get() drops its generator.
LEMMA Ends ==
  ASSUME Shape, UNCHANGED <<lists, queries>>, call' = NoCall,
         NEW its \in Seq(Iterators), Len(its) = Len(iters),
         \A i \in DOMAIN iters : Follows(iters[i], its[i]), iters' = Kept(its)
  PROVE  Shape'
<1>1. /\ DOMAIN iters = 1 .. Len(iters) /\ Len(iters) \in Nat
      /\ DOMAIN its = 1 .. Len(its)
  BY SeqForm DEF Shape, TypeOK
<1>2. /\ iters' \in Seq(Iterators) /\ Len(iters') = Known /\ Known \in Nat /\ Known <= Len(iters)
      /\ \A i \in 1 .. Known : iters'[i] = its[i]
  <2>1. CASE Probing
    <3>1. call.path \in Seq(Nat) /\ call.path # <<>> /\ call.path[1] = Len(iters)
      BY <2>1 DEF Shape, TypeOK, CallOK, Calls, Probing
    <3>2. 1 \in DOMAIN call.path
      BY <3>1, EmptySeq, SeqForm
    <3>3. Len(iters) \in DOMAIN iters
      BY <3>1, <3>2 DEF Shape, CallOK
    <3>4. its # <<>> /\ Len(iters) >= 1
      BY <1>1, <3>3, EmptySeq
    <3>5. iters' = Front(its) /\ Known = Len(iters) - 1
      BY <2>1 DEF Kept, Known, Probing
    <3>6. /\ iters' \in Seq(Iterators) /\ Len(iters') = Len(its) - 1
          /\ \A i \in 1 .. Len(its) - 1 : iters'[i] = its[i]
      BY <3>4, <3>5, Fronted
    <3>7. Known = Len(its) - 1 /\ Known \in Nat /\ Known <= Len(iters)
      BY <1>1, <3>4, <3>5
    <3> HIDE DEF Known
    <3> QED
      BY <3>6, <3>7
  <2>2. CASE ~Probing
    BY <1>1, <2>2 DEF Kept, Known, Probing
  <2> QED
    BY <2>1, <2>2
<1>3. TypeOK'
  BY <1>2, CallEnds DEF Shape, TypeOK
<1>4. \A i \in 1 .. Known : Continues(i)
  <2>1. DOMAIN iters' = 1 .. Known
    BY <1>2, SeqForm
  <2>2. \A i \in 1 .. Known : i \in DOMAIN iters
    BY <1>1, <1>2
  <2> QED
    BY <1>2, <2>1, <2>2 DEF Continues
<1> QED
  BY <1>2, <1>3, <1>4, Dropped

\* The answers are cached: a new list, and a reversed iterator over it.
LEMMA StoreShape ==
  ASSUME Shape, call.op = "all", NEW q \in DOMAIN queries, NEW got \in Seq(Obj),
         NEW its \in Seq(Iterators), Len(its) = Len(iters),
         \A i \in DOMAIN iters : Follows(iters[i], its[i]), StoreResults(q, got, its)
  PROVE  Shape'
<1>1. PICK n, j, ref :
         /\ n = Len(lists) + 1 /\ j = Len(iters) + 1
         /\ ref = IF queries[q].reverse /\ ~queries[q].order THEN IterRef(j) ELSE ListRef(n)
  OBVIOUS
<1>2. /\ lists' = Append(lists, got) /\ call' = NoCall
      /\ ref.kind = "iter" => ref = IterRef(j) /\ iters' = Append(its, Backwards(ListRef(n), Len(got)))
      /\ ref.kind # "iter" => ref = ListRef(n) /\ iters' = its
      /\ queries' = [queries EXCEPT ![q].cache = ref, ![q].pulled = got]
  <2>1. CASE queries[q].reverse /\ ~queries[q].order
    BY <1>1, <2>1 DEF StoreResults, Stored, End, IterRef
  <2>2. CASE ~(queries[q].reverse /\ ~queries[q].order)
    BY <1>1, <2>2 DEF StoreResults, Stored, End, ListRef
  <2> QED
    BY <2>1, <2>2
<1>3. /\ Grown /\ lists' \in Seq(Seq(Obj)) /\ lists' # <<>> /\ n \in DOMAIN lists' /\ lists'[n] = got
  BY <1>1, <1>2, ListAdded DEF Shape
<1>4. n \in Nat /\ n # 1 /\ ListRef(n) \in Refs /\ ListRef(n).kind = "list" /\ ListRef(n).id = n
  <2>1. lists \in Seq(Seq(Obj)) /\ lists # <<>>
    BY DEF Shape, TypeOK
  <2>2. Len(lists) \in Nat \ {0}
    BY <2>1, EmptySeq
  <2> QED
    BY <1>1, <2>2 DEF ListRef, Refs
<1>5. Len(iters) \in Nat /\ DOMAIN iters = 1 .. Len(iters) /\ Len(got) \in Nat /\ DOMAIN its = 1 .. Len(iters)
  BY SeqForm DEF Shape, TypeOK
<1>6. PICK g : g = Backwards(ListRef(n), Len(got))
  OBVIOUS
<1>7. /\ g \in Iterators /\ g.kind = "reversed" /\ g.src = ListRef(n) /\ g.pos = Len(got)
      /\ ~g.distinct /\ g.chain = {j}
  <2>1. TypeOK
    BY DEF Shape
  <2> QED
    BY <1>1, <1>4, <1>5, <1>6, <2>1, BackwardsForm
<1>8. /\ iters' \in Seq(Iterators) /\ Len(iters) <= Len(iters')
      /\ \A i \in DOMAIN iters : iters'[i] = its[i]
      /\ ref.kind = "iter" => j \in DOMAIN iters' /\ iters'[j] = g /\ DOMAIN iters' = 1 .. j
      /\ ref.kind # "iter" => DOMAIN iters' = DOMAIN iters
  <2>1. CASE ref.kind = "iter"
    <3>1. iters' = Append(its, g)
      BY <1>2, <1>6, <2>1
    <3>2. iters' \in Seq(Iterators) /\ Len(iters') = j /\ \A i \in 1 .. Len(its) : iters'[i] = its[i]
      BY <1>1, <1>7, <3>1, AppendProperties
    <3>3. iters'[j] = g
      BY <1>1, <1>7, <3>1, AppendProperties
    <3>4. DOMAIN iters' = 1 .. j
      BY <3>2, SeqForm
    <3>5. \A i \in DOMAIN iters : iters'[i] = its[i]
      BY <1>5, <3>2
    <3>6. Len(iters) <= Len(iters') /\ j \in DOMAIN iters'
      BY <1>1, <1>5, <3>2, <3>4
    <3> QED
      BY <2>1, <3>2, <3>3, <3>4, <3>5, <3>6
  <2>2. CASE ref.kind # "iter"
    BY <1>2, <1>5, <2>2
  <2> QED
    BY <2>1, <2>2
<1>9. ref \in Refs /\ IterRef(j) \in Refs
  BY <1>1, <1>2, <1>4, <1>5 DEF IterRef, Refs
<1>10. /\ queries' \in Seq(Queries) /\ DOMAIN queries' = DOMAIN queries
       /\ \A k \in DOMAIN queries : k # q => queries'[k] = queries[k]
       /\ queries'[q].src = queries[q].src /\ queries'[q].cache = ref /\ queries'[q].pulled = got
  <2>1. queries \in Seq(Queries) /\ DOMAIN queries = 1 .. Len(queries) /\ queries[q] \in Queries
    BY SeqForm DEF Shape, TypeOK
  <2>2. PICK x : x = [queries[q] EXCEPT !.cache = ref, !.pulled = got]
    OBVIOUS
  <2>3. x \in Queries /\ x.src = queries[q].src /\ x.cache = ref /\ x.pulled = got
    BY <1>9, <2>1, <2>2 DEF Queries
  <2>4. queries' = [queries EXCEPT ![q] = x]
    BY <1>2, <2>2
  <2>5. /\ queries' \in Seq(Queries) /\ Len(queries') = Len(queries)
        /\ \A k \in 1 .. Len(queries) : queries'[k] = IF k = q THEN x ELSE queries[k]
    BY <2>1, <2>3, <2>4, ExceptSeq
  <2>6. DOMAIN queries' = 1 .. Len(queries)
    BY <2>5, SeqForm
  <2> QED
    BY <2>1, <2>3, <2>5, <2>6
<1>11. CallOK' /\ call' \in Calls /\ Known' = Len(iters') /\ Known = Len(iters)
  BY <1>2, CallEnds DEF Known, Probing
<1>12. TypeOK' /\ \A i \in DOMAIN iters : Continues(i)
  BY <1>3, <1>8, <1>10, <1>11, AllContinue DEF TypeOK
<1>13. ref.kind = "iter" => IterOK(j)'
  <2>1. SUFFICES ASSUME ref.kind = "iter"
                 PROVE  IterOK(j)'
    OBVIOUS
  <2>2. PICK src : src = ListRef(n)
    OBVIOUS
  <2>3. Reaches(src, j - 1)' /\ src.kind = "list" /\ lists'[src.id] = got
    BY <1>3, <1>4, <2>2 DEF Reaches
  <2>4. /\ iters'[j].kind = "reversed" /\ iters'[j].src = src /\ ~iters'[j].distinct
        /\ iters'[j].pos = Len(lists'[src.id]) /\ iters'[j].chain = {j} /\ j \in DOMAIN iters'
    BY <1>7, <1>8, <2>1, <2>2, <2>3
  <2> QED
    BY <1>1, <1>3, <1>12, <2>3, <2>4, BackwardsAdded
<1>14. \A i \in DOMAIN iters' \ DOMAIN iters : IterOK(i)'
  BY <1>1, <1>5, <1>8, <1>13
<1>15. ASSUME NEW k \in DOMAIN queries'
       PROVE  QueryOK(k)'
  <2>1. Known <= Known'
    BY <1>8, <1>11
  <2>2. CASE k # q
    BY <1>3, <1>10, <1>12, <2>1, <2>2, QueryStays
  <2>3. CASE k = q
    <3>1. PICK src : src = queries[q].src
      OBVIOUS
    <3>2. Reaches(src, Known)
      BY <3>1, QueryForm DEF QueryOK
    <3>3. Reaches(src, Known)'
      <4>1. DOMAIN lists \subseteq DOMAIN lists'
        BY <1>2, ListAdded DEF Shape
      <4>2. Known \in Nat /\ Known' \in Nat
        BY <1>5, <1>8, <1>11, SeqForm
      <4> QED
        BY <2>1, <3>2, <4>1, <4>2 DEF Reaches
    <3>4. Reaches(ref, Known)' /\ ref # ListRef(1)
      <4>1. CASE ref.kind = "iter"
        <5>1. ref.kind = "iter" /\ ref.id = j /\ j \in 1 .. Len(iters')
          BY <1>1, <1>2, <1>8, <4>1, SeqForm DEF IterRef
        <5> QED
          BY <1>11, <5>1 DEF Reaches, ListRef
      <4>2. CASE ref.kind # "iter"
        BY <1>1, <1>2, <1>3, <1>4, <4>2 DEF Reaches, ListRef
      <4> QED
        BY <4>1, <4>2
    <3> QED
      BY <1>10, <2>3, <3>1, <3>3, <3>4 DEF QueryOK
  <2> QED
    BY <2>2, <2>3
<1> QED
  BY <1>3, <1>11, <1>12, <1>14, <1>15, Assembled

LEMMA DescendShape ==
  ASSUME Shape, Descend
  PROVE  Shape'
<1>1. PICK m, n : m = Top.src.id /\ n = Len(call.path)
  OBVIOUS
<1>2. /\ Pulling /\ Top.src.kind = "iter" /\ UNCHANGED <<lists, iters, queries>>
      /\ call' = [call EXCEPT !.path = Append(@, m)]
  BY <1>1 DEF Descend
<1>3. /\ n \in Nat \ {0} /\ Place \in DOMAIN iters /\ Top = iters[Place] /\ IterOK(Place)
      /\ Place = call.path[n] /\ Len(iters) \in Nat
  BY <1>1, <1>2, TopForm DEF Place
<1>4. m \in DOMAIN iters /\ m \in Nat /\ Root(m) = Root(Place)
  <2>1. m \in DOMAIN iters /\ Root(m) = Root(Place)
    BY <1>1, <1>2, <1>3, RootForm
  <2> QED
    BY <2>1, SeqForm DEF Shape, TypeOK
<1>5. iters[m].chain \subseteq iters[Place].chain /\ iters[Place].src = IterRef(m)
  <2>1. iters[Place].src \in Refs
    BY <1>2, <1>3, TopForm DEF Iterators
  <2> QED
    BY <1>1, <1>2, <1>3, <2>1 DEF IterOK, ChainTo, IterRef, Refs
<1>6. call \in Calls /\ call.path \in Seq(Nat) /\ call.path # <<>>
  BY <1>2 DEF Shape, TypeOK, Calls, Pulling
<1>7. /\ call' \in Calls /\ call'.path = Append(call.path, m) /\ call'.op = call.op
      /\ call'.query = call.query /\ call'.got = call.got /\ call'.obj = call.obj
  <2>1. Append(call.path, m) \in Seq(Nat)
    BY <1>4, <1>6, AppendProperties
  <2> QED
    BY <1>2, <1>6, <2>1 DEF Calls
<1>8. /\ DOMAIN call'.path = 1 .. n + 1 /\ DOMAIN call.path = 1 .. n
      /\ \A k \in 1 .. n : call'.path[k] = call.path[k]
      /\ call'.path[n + 1] = m
  <2>1. /\ Len(Append(call.path, m)) = n + 1 /\ Append(call.path, m) \in Seq(Nat)
        /\ \A k \in 1 .. n : Append(call.path, m)[k] = call.path[k]
        /\ Append(call.path, m)[n + 1] = m
    BY <1>1, <1>4, <1>6, AppendProperties
  <2> QED
    BY <1>1, <1>6, <1>7, <2>1, SeqForm
<1>9. \A k \in 1 .. n : /\ call.path[k] \in DOMAIN iters
                        /\ k > 1 => iters[call.path[k - 1]].src = IterRef(call.path[k])
                        /\ iters[call.path[k]].chain \subseteq iters[call.path[1]].chain
                        /\ Root(call.path[k]) = Root(call.path[1])
  BY <1>8 DEF Shape, CallOK
<1>10. ASSUME NEW k \in 1 .. n + 1
       PROVE  /\ call'.path[k] \in DOMAIN iters
              /\ k > 1 => iters[call'.path[k - 1]].src = IterRef(call'.path[k])
              /\ iters[call'.path[k]].chain \subseteq iters[call'.path[1]].chain
              /\ Root(call'.path[k]) = Root(call'.path[1])
  <2>1. 1 \in 1 .. n /\ n \in 1 .. n /\ call'.path[1] = call.path[1]
    <3>1. 1 \in 1 .. n /\ n \in 1 .. n
      BY <1>3
    <3> QED
      BY <1>8, <3>1
  <2>2. CASE k \in 1 .. n
    <3>1. k > 1 => k - 1 \in 1 .. n
      BY <1>3, <2>2
    <3> QED
      BY <1>8, <1>9, <2>1, <2>2, <3>1
  <2>3. CASE k = n + 1
    <3>1. k - 1 = n /\ call'.path[n] = Place /\ call'.path[k] = m
      BY <1>3, <1>8, <2>1, <2>3
    <3> QED
      BY <1>3, <1>4, <1>5, <1>9, <2>1, <3>1
  <2> QED
    BY <1>3, <1>10, <2>2, <2>3
<1>11. PathOK(call.path)'
  BY <1>2, <1>8, <1>10 DEF PathOK, Root
<1>12. CallOK'
  <2>1. call'.path # <<>> /\ call'.path[1] = call.path[1]
    BY <1>3, <1>4, <1>6, <1>7, <1>8, AppendProperties
  <2>2. /\ call.op # "none"
        /\ call.op = "all" => call.query \in DOMAIN queries /\ queries[call.query].src = IterRef(call.path[1])
        /\ call.op # "all" => call.query = 0
        /\ call.op \in {"next", "get"} => call.path[1] = Len(iters)
    BY <1>6 DEF Shape, CallOK, Probing, NoCall
  <2> QED
    BY <1>2, <1>7, <1>11, <2>1, <2>2 DEF CallOK, PathOK, Probing
<1>13. Known <= Known'
  BY <1>2, <1>3, <1>7 DEF Known, Probing
<1> QED
  BY <1>2, <1>7, <1>12, <1>13, CallChanges

\* The call goes on with the next object, or with none.
LEMMA FetchShape ==
  ASSUME Shape, Fetch
  PROVE  Shape'
<1>1. PICK jt, o : jt = Advanced(Top) /\ o = lists[Top.src.id][Top.pos]
  OBVIOUS
<1>2. /\ Pulling /\ Top.src.kind = "list" /\ Left(Top) # {} /\ UNCHANGED <<lists, queries>>
      /\ call' = [call EXCEPT !.obj = o] /\ iters' = WithTop(jt)
  BY <1>1 DEF Fetch
<1>3. /\ Top \in Iterators /\ Top = iters[Place] /\ IterOK(Place) /\ Place \in DOMAIN iters
  BY <1>2, TopForm
<1>4. jt \in Iterators /\ Follows(Top, jt)
  <2>1. Top.kind = "filter" => Top.tests \in Readable[Top.f]
    BY <1>3 DEF IterOK
  <2> QED
    BY <1>1, <1>2, <1>3, <2>1 DEF Advanced, Follows, Iterators
<1>5. o \in Obj
  <2>1. /\ Top.src.id \in DOMAIN lists /\ Past(Place) \in 0 .. Len(lists[Top.src.id]) /\ Top.pos \in Int
    BY <1>2, <1>3 DEF IterOK, Reaches, Iterators
  <2>2. lists[Top.src.id] \in Seq(Obj) /\ Len(lists[Top.src.id]) \in Nat
    BY <2>1, SeqForm DEF Shape, TypeOK
  <2>3. Top.pos \in 1 .. Len(lists[Top.src.id])
    BY <1>2, <1>3, <2>1, <2>2 DEF Past, Left
  <2> QED
    BY <1>1, <2>2, <2>3, SeqForm
<1>6. /\ call' \in Calls /\ call'.path = call.path /\ call'.op = call.op /\ call'.query = call.query
  BY <1>2, <1>5 DEF Shape, TypeOK, Calls
<1>7. Len(call.path) \in Nat /\ call.path # <<>>
  BY <1>2, TopForm DEF Pulling
<1>8. /\ iters' \in Seq(Iterators) /\ Len(iters') = Len(iters)
      /\ \A i \in DOMAIN iters : Follows(iters[i], iters'[i])
  BY <1>2, <1>4, TopFollows
<1> QED
  BY <1>2, <1>6, <1>7, <1>8, GoesOn

\* The object that climbs, and the generator that tests it.
LEMMA ClimbForm ==
  ASSUME Shape, Pulling, call.obj # NoObj
  PROVE  /\ Top \in Iterators /\ call.obj \in Obj
         /\ \A jt \in {Tested(Top, call.obj), Yielded(Top, call.obj)} : jt \in Iterators /\ Follows(Top, jt)
<1>1. Top \in Iterators /\ Top = iters[Place] /\ IterOK(Place) /\ TypeOK
  BY TopForm DEF Shape
<1>2. call.obj \in Obj
  BY DEF Shape, TypeOK, Calls
<1>3. Top.kind = "filter" => Top.f \in DOMAIN Criteria /\ Top.tests \in Readable[Top.f]
  BY <1>1 DEF IterOK
<1> QED
  BY <1>1, <1>2, <1>3, TestedForm DEF Follows

LEMMA SkipShape ==
  ASSUME Shape, Skip
  PROVE  Shape'
<1>1. PICK jt : jt = Tested(Top, call.obj)
  OBVIOUS
<1>2. /\ Pulling /\ call.obj # NoObj /\ UNCHANGED <<lists, queries>>
      /\ call' = [call EXCEPT !.obj = NoObj] /\ iters' = WithTop(jt)
  BY <1>1 DEF Skip
<1>3. jt \in Iterators /\ Follows(Top, jt)
  BY <1>1, <1>2, ClimbForm
<1>4. /\ call' \in Calls /\ call'.path = call.path /\ call'.op = call.op /\ call'.query = call.query
  BY <1>2 DEF Shape, TypeOK, Calls
<1>5. Len(call.path) \in Nat /\ call.path # <<>>
  BY <1>2, TopForm DEF Pulling
<1>6. /\ iters' \in Seq(Iterators) /\ Len(iters') = Len(iters)
      /\ \A i \in DOMAIN iters : Follows(iters[i], iters'[i])
  BY <1>2, <1>3, TopFollows
<1> QED
  BY <1>2, <1>4, <1>5, <1>6, GoesOn

\* Yielding to the generator before, to the call that ends, or to the call.
LEMMA YieldShape ==
  ASSUME Shape, Yield
  PROVE  Shape'
<1>1. PICK jt : jt = Yielded(Top, call.obj)
  OBVIOUS
<1>2. /\ Pulling /\ call.obj # NoObj /\ UNCHANGED <<lists, queries>>
      /\ \/ Len(call.path) > 1 /\ call' = [call EXCEPT !.path = Front(@)] /\ iters' = WithTop(jt)
         \/ call' = NoCall /\ iters' = Kept(WithTop(jt))
         \/ call' = [call EXCEPT !.got = Append(@, call.obj), !.obj = NoObj] /\ iters' = WithTop(jt)
  BY <1>1 DEF Yield, End
<1>3. jt \in Iterators /\ Follows(Top, jt) /\ call.obj \in Obj
  BY <1>1, <1>2, ClimbForm
<1>4. /\ WithTop(jt) \in Seq(Iterators) /\ Len(WithTop(jt)) = Len(iters)
      /\ \A i \in DOMAIN iters : Follows(iters[i], WithTop(jt)[i])
  BY <1>2, <1>3, TopFollows
<1>5. /\ call \in Calls /\ call.path \in Seq(Nat) /\ call.path # <<>> /\ call.got \in Seq(Obj)
      /\ Len(call.path) \in Nat
  BY <1>2, TopForm DEF Shape, TypeOK, Calls, Pulling
<1>6. CASE Len(call.path) > 1 /\ call' = [call EXCEPT !.path = Front(@)] /\ iters' = WithTop(jt)
  <2>1. /\ Front(call.path) \in Seq(Nat) /\ Len(Front(call.path)) = Len(call.path) - 1
        /\ \A k \in 1 .. Len(call.path) - 1 : Front(call.path)[k] = call.path[k]
    BY <1>5, Fronted
  <2>2. /\ call' \in Calls /\ call'.path = Front(call.path) /\ call'.op = call.op /\ call'.query = call.query
    BY <1>5, <1>6, <2>1 DEF Calls
  <2>3. Len(call'.path) <= Len(call.path) /\ call'.path # <<>>
    BY <1>5, <1>6, <2>1, <2>2, EmptySeq
  <2>4. \A k \in DOMAIN call'.path : call'.path[k] = call.path[k]
    BY <2>1, <2>2, SeqForm
  <2> QED
    BY <1>2, <1>4, <1>6, <2>2, <2>3, <2>4, GoesOn
<1>7. CASE call' = NoCall /\ iters' = Kept(WithTop(jt))
  <2>1. PICK its : its = WithTop(jt)
    OBVIOUS
  <2> QED
    BY <1>2, <1>4, <1>7, <2>1, Ends
<1>8. CASE call' = [call EXCEPT !.got = Append(@, call.obj), !.obj = NoObj] /\ iters' = WithTop(jt)
  <2>1. Append(call.got, call.obj) \in Seq(Obj)
    BY <1>3, <1>5, AppendProperties
  <2>2. /\ call' \in Calls /\ call'.path = call.path /\ call'.op = call.op /\ call'.query = call.query
    BY <1>5, <1>8, <2>1 DEF Calls
  <2> QED
    BY <1>2, <1>4, <1>5, <1>8, <2>2, GoesOn
<1> QED
  BY <1>2, <1>6, <1>7, <1>8

LEMMA RaiseShape ==
  ASSUME Shape, Raise
  PROVE  Shape'
<1>1. PICK its : its = Finished({0})
  OBVIOUS
<1>2. call' = NoCall /\ UNCHANGED <<lists, queries>> /\ iters' = Kept(its)
  BY <1>1 DEF Raise, End
<1>3. {0} \in SUBSET Nat
  OBVIOUS
<1> QED
  BY <1>1, <1>2, <1>3, FinishedFollows, Ends

LEMMA IterationEndsShape ==
  ASSUME Shape, IterationEnds
  PROVE  Shape'
<1>1. PICK its : its = Finished({})
  OBVIOUS
<1>2. UNCHANGED <<lists, queries>> /\ iters' = Kept(its)
  BY <1>1 DEF IterationEnds
<1>3. call' = NoCall
  <2>1. call.op \in {"iter", "in", "next", "get"}
    <3>1. call.op \in {"none", "all", "iter", "in", "next", "get"} /\ call.op # "all"
      BY DEF Shape, TypeOK, Calls, IterationEnds
    <3>2. call.op # "none"
      BY DEF Shape, CallOK, IterationEnds, Exhausted, Pulling, NoCall
    <3> QED
      BY <3>1, <3>2
  <2> QED
    BY <2>1 DEF IterationEnds, End
<1> QED
  BY <1>1, <1>2, <1>3, FinishedFollows, Ends

\* all() of a query: over a list, over a generator, and its end.
LEMMA ResultCacheShape ==
  ASSUME Shape, ResultCache
  PROVE  Shape'
<1>1. PICK q : q = call.query
  OBVIOUS
<1>2. call.op = "all" /\ call.path = <<>> /\ q \in DOMAIN queries
  BY <1>1 DEF ResultCache, Pulling, Shape, CallOK
<1>3. PICK src : src = queries[q].src
  OBVIOUS
<1>4. Reaches(src, Len(iters)) /\ src \in Refs /\ Len(iters) \in Nat /\ DOMAIN iters = 1 .. Len(iters)
  <2>1. Reaches(src, Known) /\ src \in Refs
    BY <1>2, <1>3, QueryForm DEF QueryOK
  <2>2. Known = Len(iters)
    BY <1>2 DEF Known, Probing
  <2>3. Len(iters) \in Nat /\ DOMAIN iters = 1 .. Len(iters)
    BY SeqForm DEF Shape, TypeOK
  <2> QED
    BY <2>1, <2>2, <2>3
<1>5. CASE src.kind = "list"
  <2>1. PICK got : got = lists[src.id]
    OBVIOUS
  <2>2. got \in Seq(Obj)
    BY <1>4, <1>5, <2>1, SeqForm DEF Reaches, Shape, TypeOK
  <2>3. StoreResults(q, got, iters)
    BY <1>1, <1>3, <1>5, <2>1 DEF ResultCache
  <2>4. \A i \in DOMAIN iters : Follows(iters[i], iters[i])
    BY DEF Shape, IterOK, Follows
  <2>5. PICK its : its = iters
    OBVIOUS
  <2>6. its \in Seq(Iterators) /\ Len(its) = Len(iters) /\ StoreResults(q, got, its)
    BY <2>3, <2>5 DEF Shape, TypeOK
  <2>7. \A i \in DOMAIN iters : Follows(iters[i], its[i])
    BY <2>4, <2>5
  <2> QED
    BY <1>2, <2>2, <2>6, <2>7, StoreShape
<1>6. CASE src.kind # "list"
  <2>1. call' = [call EXCEPT !.path = <<src.id>>] /\ UNCHANGED <<lists, iters, queries>>
    BY <1>1, <1>3, <1>6 DEF ResultCache
  <2>2. src.kind = "iter" /\ src.id \in DOMAIN iters /\ src.id \in Nat /\ src = IterRef(src.id)
    BY <1>4, <1>6 DEF Reaches, Refs, IterRef
  <2>3. /\ call' \in Calls /\ call'.path = <<src.id>> /\ call'.op = call.op
        /\ call'.query = call.query /\ call'.got = call.got /\ call'.obj = call.obj
    <3>1. <<src.id>> \in Seq(Nat)
      BY <2>2
    <3> QED
      BY <2>1, <3>1 DEF Shape, TypeOK, Calls
  <2>4. call'.path # <<>> /\ DOMAIN call'.path = {1} /\ call'.path[1] = src.id
    BY <2>3
  <2>5. CallOK'
    BY <1>1, <1>2, <1>3, <2>1, <2>2, <2>3, <2>4 DEF CallOK, Probing
  <2>6. Known <= Known'
    BY <1>4, <2>1, <2>3 DEF Known, Probing
  <2> QED
    BY <2>1, <2>3, <2>5, <2>6, CallChanges
<1> QED
  BY <1>5, <1>6

LEMMA ResultsConsumedShape ==
  ASSUME Shape, ResultsConsumed
  PROVE  Shape'
<1>1. PICK its, got, q : its = Finished({}) /\ got = call.got /\ q = call.query
  OBVIOUS
<1>2. call.op = "all" /\ StoreResults(q, got, its)
  BY <1>1 DEF ResultsConsumed
<1>3. q \in DOMAIN queries /\ got \in Seq(Obj)
  BY <1>1, <1>2 DEF Shape, TypeOK, Calls, CallOK
<1> QED
  BY <1>1, <1>2, <1>3, FinishedFollows, StoreShape

LEMMA InitShape == Init => Shape
<1> SUFFICES ASSUME Init
             PROVE  Shape
  OBVIOUS
<1>1. lists \in Seq(Seq(Obj)) /\ lists # <<>>
  <2>1. PICK b \in BaseLists : lists = <<b>>
    BY DEF Init
  <2>2. b \in Seq(Obj)
    BY ObjAssumption
  <2> QED
    BY <2>1, <2>2
<1>2. iters = <<>> /\ queries = <<>> /\ call = NoCall
  BY DEF Init
<1>3. iters \in Seq(Iterators) /\ queries \in Seq(Queries) /\ DOMAIN iters = {} /\ DOMAIN queries = {}
  BY <1>2
<1>4. call \in Calls /\ CallOK
  BY <1>2, EmptySeq DEF NoCall, Calls, CallOK, Probing
<1> QED
  BY <1>1, <1>3, <1>4 DEF Shape, TypeOK

LEMMA NextShape == Shape /\ [Next]_vars => Shape'
<1> SUFFICES ASSUME Shape, [Next]_vars
             PROVE  Shape'
  OBVIOUS
<1>1. CASE Run
  BY <1>1, DescendShape, FetchShape, SkipShape, YieldShape, RaiseShape, ResultCacheShape,
     ResultsConsumedShape, IterationEndsShape DEF Run
<1>2. CASE Program
  <2>1. ASSUME NEW flags \in Flags, Make(flags)
        PROVE  Shape'
    BY <2>1, MakeShape
  <2>2. ASSUME NEW o \in Added, AppendBase(o)
        PROVE  Shape'
    BY <2>2, AppendBaseShape
  <2>3. ASSUME NEW q \in DOMAIN queries,
               \/ OrderBy(q) \/ Ask(q) \/ Iterate(q) \/ Measure(q) \/ FirstOf(q) \/ LastOf(q) \/ ReverseOf(q)
               \/ \E o \in Added : LookFor(q, o)
               \/ \E r \in Refinements : Refine(q, r)
               \/ \E op \in {"next", "get"}, f \in Probes : Probe(op, q, f)
               \/ \E o \in DOMAIN queries : Union(q, o) \/ \E b \in BOOLEAN : Compare(q, o, b)
        PROVE  Shape'
    <3>1. CASE OrderBy(q) \/ Ask(q) \/ Iterate(q) \/ ReverseOf(q)
      BY <3>1, OrderByShape, AskShape, IterateShape, ReverseShape
    <3>2. CASE Measure(q) \/ FirstOf(q) \/ LastOf(q)
      BY <3>2, AnswerShape DEF Measure, FirstOf, LastOf
    <3>3. ASSUME NEW o \in Added, LookFor(q, o)
          PROVE  Shape'
      BY <3>3, LookForShape
    <3>4. ASSUME NEW r \in Refinements, Refine(q, r)
          PROVE  Shape'
      BY <3>4, RefineShape
    <3>5. ASSUME NEW op \in {"next", "get"}, NEW f \in Probes, Probe(op, q, f)
          PROVE  Shape'
      BY <3>5, ProbeShape
    <3>6. ASSUME NEW o \in DOMAIN queries, Union(q, o)
          PROVE  Shape'
      BY <3>6, UnionShape
    <3>7. ASSUME NEW o \in DOMAIN queries, NEW b \in BOOLEAN, Compare(q, o, b)
          PROVE  Shape'
      BY <3>7, CompareShape
    <3> QED
      BY <2>3, <3>1, <3>2, <3>3, <3>4, <3>5, <3>6, <3>7
  <2> QED
    BY <1>2, <2>1, <2>2, <2>3 DEF Program
<1>3. CASE UNCHANGED vars
  BY <1>3, AnswerShape DEF vars
<1> QED
  BY <1>1, <1>2, <1>3 DEF Next

\* The heap of queries, generators and lists keeps its shape: every query and
\* every generator refers to what exists, a chain of generators ends at one
\* list it has not left, and nothing refers to the generator of next() or get().
THEOREM HeapKeepsItsShape == Spec => []Shape
<1>1. Init => Shape
  BY InitShape
<1>2. Shape /\ [Next]_vars => Shape'
  BY NextShape
<1> QED
  BY <1>1, <1>2, PTL DEF Spec
-----------------------------------------------------------------------------
(* What may change a list                                                    *)

MayGrow(n) ==
    \/ n = 1 /\ queries' = queries
    \/ \E q, o \in DOMAIN queries :
           Union(q, o) /\ n # 1 /\ queries[q].cache = ListRef(n)

LEMMA AppendedKeeps ==
  ASSUME Shape, NEW s \in Seq(Obj), lists' = Append(lists, s)
  PROVE  \A n \in DOMAIN lists : lists'[n] = lists[n]
BY ListAdded DEF Shape

LEMMA ListsAreKept ==
  ASSUME Shape, Next
  PROVE  \A n \in DOMAIN lists : lists'[n] # lists[n] => MayGrow(n)
<1>1. CASE UNCHANGED lists
  BY <1>1
<1>2. CASE ResultCache
  <2>1. PICK q, got, its : UNCHANGED lists \/ (StoreResults(q, got, its) /\ q = call.query /\ got = lists[queries[q].src.id]
                                               /\ queries[q].src.kind = "list" /\ q \in DOMAIN queries)
    BY <1>2 DEF ResultCache, Shape, CallOK
  <2>2. ASSUME queries[q].src.kind = "list", q \in DOMAIN queries
        PROVE  lists[queries[q].src.id] \in Seq(Obj)
    <3>1. Reaches(queries[q].src, Known)
      BY <2>2, QueryForm DEF QueryOK
    <3> QED
      BY <2>2, <3>1, SeqForm DEF Reaches, Shape, TypeOK
  <2> QED
    BY <1>1, <2>1, <2>2, AppendedKeeps DEF StoreResults, Stored
<1>3. CASE ResultsConsumed
  <2>1. lists' = Append(lists, call.got) /\ call.got \in Seq(Obj)
    BY <1>3 DEF ResultsConsumed, StoreResults, Stored, Shape, TypeOK, Calls
  <2> QED
    BY <2>1, AppendedKeeps
<1>4. ASSUME NEW o \in Added, AppendBase(o)
      PROVE  \A n \in DOMAIN lists : lists'[n] # lists[n] => MayGrow(n)
  BY <1>4 DEF AppendBase, MayGrow
<1>5. ASSUME NEW q \in DOMAIN queries, NEW o \in DOMAIN queries, Union(q, o)
      PROVE  \A n \in DOMAIN lists : lists'[n] # lists[n] => MayGrow(n)
  <2>1. queries[q].cache \in Refs /\ queries[q].cache.kind = "list"
    BY <1>5, QueryForm DEF Union, Both, IsList
  <2>2. queries[q].cache # ListRef(1) /\ queries[q].cache = ListRef(queries[q].cache.id)
    BY <2>1, QueryForm DEF QueryOK, NoRef, ListRef, Refs
  <2>3. \A n \in DOMAIN lists : lists'[n] # lists[n] => n = queries[q].cache.id
    BY <1>5 DEF Union
  <2>4. queries[q].cache.id # 1
    BY <2>2
  <2>5. \A n \in DOMAIN lists : lists'[n] # lists[n] => n # 1 /\ queries[q].cache = ListRef(n)
    BY <2>2, <2>3, <2>4
  <2> QED
    BY <1>5, <2>5 DEF MayGrow
<1>6. ASSUME NEW q \in DOMAIN queries, NEW o \in DOMAIN queries, NEW b \in BOOLEAN, Compare(q, o, b)
      PROVE  \A n \in DOMAIN lists : lists'[n] # lists[n] => MayGrow(n)
  <2>1. PICK places : lists' = Append(lists, Elements(Cached(q), places)) /\ places \subseteq DOMAIN Cached(q)
    BY <1>6 DEF Compare
  <2>2. Elements(Cached(q), places) \in Seq(Obj)
    BY <1>6, <2>1, CacheList, ElementsForm DEF Compare, Both
  <2> QED
    BY <2>1, <2>2, AppendedKeeps
<1>7. CASE Run
  BY <1>1, <1>2, <1>3, <1>7 DEF Run, Descend, Fetch, Skip, Yield, Raise, IterationEnds
<1>8. CASE Program
  <2>1. ASSUME NEW q \in DOMAIN queries,
               \/ OrderBy(q) \/ Ask(q) \/ Iterate(q) \/ Measure(q) \/ FirstOf(q) \/ LastOf(q) \/ ReverseOf(q)
               \/ \E o \in Added : LookFor(q, o)
               \/ \E r \in Refinements : Refine(q, r)
               \/ \E op \in {"next", "get"}, f \in Probes : Probe(op, q, f)
               \/ \E o \in DOMAIN queries : Union(q, o) \/ \E b \in BOOLEAN : Compare(q, o, b)
        PROVE  \A n \in DOMAIN lists : lists'[n] # lists[n] => MayGrow(n)
    <3>1. CASE OrderBy(q) \/ Ask(q) \/ Iterate(q) \/ Measure(q) \/ FirstOf(q) \/ LastOf(q) \/ ReverseOf(q)
      BY <1>1, <3>1 DEF OrderBy, Ask, Iterate, Begin, Measure, FirstOf, LastOf, ReverseOf
    <3>2. ASSUME NEW o \in Added, LookFor(q, o)
          PROVE  UNCHANGED lists
      BY <3>2 DEF LookFor
    <3>3. ASSUME NEW r \in Refinements, Refine(q, r)
          PROVE  UNCHANGED lists
      BY <3>3 DEF Refine
    <3>4. ASSUME NEW op \in {"next", "get"}, NEW f \in Probes, Probe(op, q, f)
          PROVE  UNCHANGED lists
      BY <3>4 DEF Probe, Begin
    <3> QED
      BY <1>1, <1>5, <1>6, <2>1, <3>1, <3>2, <3>3, <3>4
  <2> QED
    BY <1>1, <1>4, <1>8, <2>1 DEF Program, Make
<1> QED
  BY <1>7, <1>8 DEF Next

\* No call on a query changes a list that exists: not the queried list, and
\* not the results another query has cached.  union() alone does, and it makes
\* the results of its own query longer.
THEOREM OnlyUnionMakesLonger == Spec => OnlyUnionGrows
<1>1. Shape /\ [Next]_vars => [\A n \in DOMAIN lists : lists'[n] # lists[n] => MayGrow(n)]_vars
  <2>1. CASE Shape /\ Next
    BY <2>1, ListsAreKept
  <2> QED
    BY <2>1
<1>2. [\A n \in DOMAIN lists : lists'[n] # lists[n] => MayGrow(n)]_vars
        => [\A n \in DOMAIN lists : lists'[n] # lists[n] =>
              \/ n = 1 /\ queries' = queries
              \/ \E q, o \in DOMAIN queries :
                     Union(q, o) /\ n # 1 /\ queries[q].cache = ListRef(n)]_vars
  BY DEF MayGrow
<1> QED
  BY <1>1, <1>2, HeapKeepsItsShape, PTL DEF Spec, OnlyUnionGrows

-----------------------------------------------------------------------------
(* The results of the queries: what the objects that come out of a chain of  *)
(* generators went through.                                                  *)

\* An object that filter i yielded met its criteria as they were read then,
\* and is remembered if i is distinct.
Came(i, o) == LET it == iters[i] IN
    it.kind = "filter" =>
        /\ o \notin Falsy
        /\ \E r \in Readable[it.f] :
              /\ MeetsIn(r, i, o)
              /\ it.tests = Fresh(Criteria[it.f]) => r = Fresh(Criteria[it.f])
        /\ it.distinct => o \in it.seen /\ o \in Hashable

SomeDistinct(chain) == \E i \in chain : iters[i].distinct

Different(results) ==
    \A m, n \in DOMAIN results : results[m] \in EqualTo[results[n]] => m = n

\* Results that went through a chain.
Through(chain, results) ==
    /\ \A n \in DOMAIN results : \A i \in chain : Came(i, results[n])
    /\ SomeDistinct(chain) => Different(results)

\* The results are objects of list, at places up to limit that follow each other.
Trail(results, list, limit) ==
    \E at \in [DOMAIN results -> 1 .. limit] :
        /\ \A n \in DOMAIN results : list[at[n]] = results[n]
        /\ \A m, n \in DOMAIN results : m < n => at[m] < at[n]

Source(src) == IF src.kind = "iter" THEN ListOf(Root(src.id)) ELSE lists[src.id]

Results(q) ==
    /\ Through(ChainTo(queries[q].src), queries[q].pulled)
    /\ Trail(queries[q].pulled, Source(queries[q].src), Len(Source(queries[q].src)))

Got ==
    call.path # <<>> =>
        LET root == Root(call.path[1]) IN
        /\ Through(iters[call.path[1]].chain, call.got)
        /\ Trail(call.got, ListOf(root), IF call.obj = NoObj THEN Past(root) ELSE Past(root) - 1)

\* The object that climbs is the last that left the list.
Climbing ==
    call.obj # NoObj =>
        LET root == Root(call.path[1])
            below == ChainTo(Top.src)
        IN  /\ Past(root) \in 1 .. Len(ListOf(root)) /\ call.obj = ListOf(root)[Past(root)]
            /\ \A i \in below : Came(i, call.obj)
            /\ SomeDistinct(below) => \A n \in DOMAIN call.got : call.got[n] \notin EqualTo[call.obj]

Data ==
    /\ \A q \in DOMAIN queries : Results(q)
    /\ Got /\ Climbing

-----------------------------------------------------------------------------
(* What remains of the results in a step                                     *)

LEMMA CameStays ==
  ASSUME NEW i \in DOMAIN iters, Continues(i), NEW o, Came(i, o)
  PROVE  Came(i, o)'
<1>1. Follows(iters[i], iters'[i])
  BY DEF Continues
<1>2. CASE iters[i].kind # "filter"
  BY <1>1, <1>2 DEF Came, Follows
<1>3. CASE iters[i].kind = "filter"
  <2>1. PICK r \in Readable[iters[i].f] :
          /\ MeetsIn(r, i, o)
          /\ iters[i].tests = Fresh(Criteria[iters[i].f]) => r = Fresh(Criteria[iters[i].f])
    BY <1>3 DEF Came
  <2>2. /\ iters'[i].f = iters[i].f /\ iters'[i].negate = iters[i].negate
        /\ iters'[i].distinct = iters[i].distinct /\ iters[i].seen \subseteq iters'[i].seen
        /\ iters'[i].tests = Fresh(Criteria[iters[i].f]) => iters[i].tests = Fresh(Criteria[iters[i].f])
    BY <1>1, <1>3 DEF Follows
  <2>3. MeetsIn(r, i, o)'
    BY <2>1, <2>2 DEF MeetsIn
  <2> QED
    BY <1>3, <2>1, <2>2, <2>3 DEF Came
<1> QED
  BY <1>2, <1>3

LEMMA ThroughStays ==
  ASSUME NEW chain, chain \subseteq DOMAIN iters, \A i \in chain : Continues(i),
         NEW results, Through(chain, results)
  PROVE  Through(chain, results)'
<1>1. \A n \in DOMAIN results : \A i \in chain : Came(i, results[n])'
  BY CameStays DEF Through
<1>2. SomeDistinct(chain)' => SomeDistinct(chain)
  BY DEF SomeDistinct, Continues, Follows
<1> QED
  BY <1>1, <1>2 DEF Through, Different

LEMMA NothingThrough ==
  ASSUME NEW chain, NEW list, NEW limit
  PROVE  Through(chain, <<>>) /\ Trail(<<>>, list, limit)
<1>1. Trail(<<>>, list, limit)
  <2>1. PICK none : none = <<>>
    OBVIOUS
  <2>2. DOMAIN none = {} /\ none \in [DOMAIN none -> 1 .. limit]
    BY <2>1
  <2>3. Trail(none, list, limit)
    BY <2>2 DEF Trail
  <2> QED
    BY <2>1, <2>3
<1>2. Through(chain, <<>>)
  BY DEF Through, Different
<1> QED
  BY <1>1, <1>2

\* The places of the results, in a list that begins with d more objects.
LEMMA TrailShifts ==
  ASSUME NEW results, NEW list, NEW limit \in Int, Trail(results, list, limit),
         NEW longer, NEW d \in Nat, NEW further \in Int, limit + d <= further,
         \A k \in 1 .. limit : longer[k + d] = list[k]
  PROVE  Trail(results, longer, further)
<1>1. PICK at \in [DOMAIN results -> 1 .. limit] :
        /\ \A n \in DOMAIN results : list[at[n]] = results[n]
        /\ \A m, n \in DOMAIN results : m < n => at[m] < at[n]
  BY DEF Trail
<1> DEFINE to == [n \in DOMAIN results |-> at[n] + d]
<1>2. \A n \in DOMAIN results : at[n] \in 1 .. limit /\ at[n] + d \in 1 .. further
  BY <1>1
<1>3. to \in [DOMAIN results -> 1 .. further]
  BY <1>2
<1>4. \A n \in DOMAIN results : longer[to[n]] = results[n]
  BY <1>1, <1>2
<1>5. \A m, n \in DOMAIN results : m < n => to[m] < to[n]
  <2>1. \A m, n \in DOMAIN results : m < n => at[m] < at[n] /\ at[m] \in Int /\ at[n] \in Int
    BY <1>1, <1>2
  <2> QED
    BY <2>1
<1> HIDE DEF to
<1> QED
  BY <1>3, <1>4, <1>5 DEF Trail

LEMMA ReverseForm ==
  ASSUME NEW S, NEW s \in Seq(S)
  PROVE  /\ Reverse(s) \in Seq(S) /\ Len(Reverse(s)) = Len(s)
         /\ \A k \in 1 .. Len(s) : Reverse(s)[k] = s[Len(s) - k + 1]
<1>1. DOMAIN s = 1 .. Len(s) /\ Len(s) \in Nat /\ \A i \in 1 .. Len(s) : s[i] \in S
  BY SeqForm
<1>2. \A k \in 1 .. Len(s) : Len(s) - k + 1 \in 1 .. Len(s)
  BY <1>1
<1>3. Reverse(s) \in [1 .. Len(s) -> S]
  BY <1>1, <1>2 DEF Reverse
<1>4. \A k \in 1 .. Len(s) : Reverse(s)[k] = s[Len(s) - k + 1]
  BY <1>1 DEF Reverse
<1>5. Reverse(s) \in Seq(S) /\ Len(Reverse(s)) = Len(s)
  <2> HIDE DEF Reverse
  <2> QED
    BY <1>1, <1>3
<1> QED
  BY <1>4, <1>5

\* The list an iterator goes through, and how far it is.
Walk(i) == LET list == lists[iters[i].src.id] IN
    /\ iters[i].src.id \in DOMAIN lists /\ list \in Seq(Obj) /\ Len(list) \in Nat
    /\ ListOf(i) \in Seq(Obj) /\ Len(ListOf(i)) = Len(list)
    /\ Past(i) \in 0 .. Len(list) /\ Past(i) \in Nat /\ iters[i].pos \in Int
    /\ Past(i) = IF iters[i].kind = "reversed" THEN Len(list) - iters[i].pos ELSE iters[i].pos - 1
    /\ \A k \in 1 .. Len(list) :
          ListOf(i)[k] = IF iters[i].kind = "reversed" THEN list[Len(list) - k + 1] ELSE list[k]

LEMMA ListForm ==
  ASSUME Shape, NEW i \in DOMAIN iters, iters[i].src.kind = "list"
  PROVE  Walk(i)
<1>1. IterOK(i) /\ iters[i] \in Iterators
  BY SeqForm DEF Shape, TypeOK
<1>2. PICK list : list = lists[iters[i].src.id]
  OBVIOUS
<1>3. iters[i].src.id \in DOMAIN lists /\ iters[i].pos \in Int /\ Past(i) \in 0 .. Len(list)
  BY <1>1, <1>2 DEF IterOK, Reaches, Iterators
<1>4. list \in Seq(Obj) /\ Len(list) \in Nat
  BY <1>2, <1>3, SeqForm DEF Shape, TypeOK
<1>5. ListOf(i) = IF iters[i].kind = "reversed" THEN Reverse(list) ELSE list
  BY <1>2 DEF ListOf
<1>6. /\ ListOf(i) \in Seq(Obj) /\ Len(ListOf(i)) = Len(list)
      /\ \A k \in 1 .. Len(list) :
            ListOf(i)[k] = IF iters[i].kind = "reversed" THEN list[Len(list) - k + 1] ELSE list[k]
  <2>1. CASE iters[i].kind = "reversed"
    BY <1>4, <1>5, <2>1, ReverseForm
  <2>2. CASE iters[i].kind # "reversed"
    BY <1>4, <1>5, <2>2
  <2> QED
    BY <2>1, <2>2
<1>7. Past(i) = IF iters[i].kind = "reversed" THEN Len(list) - iters[i].pos ELSE iters[i].pos - 1
  BY <1>2 DEF Past
<1> QED
  BY <1>2, <1>3, <1>4, <1>6, <1>7 DEF Walk

Walks == \A i \in DOMAIN iters : iters[i].src.kind = "list" => Walk(i)

LEMMA WalksNow == Shape => Walks
BY ListForm DEF Walks

LEMMA WalksNext == Shape' => Walks'
BY WalksNow, PTL

\* What is left of a list an iterator goes through: d objects were added before
\* those it has not gone past, or before all of them when it goes backwards.
Shifted(i, d) ==
    /\ Past(i) + d <= Past(i)'
    /\ Len(ListOf(i)) + d <= Len(ListOf(i)')
    /\ \A k \in 1 .. Len(ListOf(i)) : ListOf(i)'[k + d] = ListOf(i)[k]

LEMMA RootMoves ==
  ASSUME Shape, Shape', Grown, NEW i \in DOMAIN iters, Continues(i), iters[i].src.kind = "list"
  PROVE  \E d \in Nat : Shifted(i, d)
<1>1. PICK n : n = iters[i].src.id
  OBVIOUS
<1>2. /\ iters'[i].src = iters[i].src /\ iters'[i].kind = iters[i].kind /\ i \in DOMAIN iters'
      /\ iters'[i].pos = iters[i].pos \/ (Left(iters[i]) # {} /\ iters'[i].pos = Advanced(iters[i]).pos)
  BY DEF Continues, Follows
<1>3. Walk(i) /\ Walk(i)'
  <2>1. Walks /\ Walks'
    BY WalksNow, WalksNext
  <2> QED
    BY <1>2, <2>1 DEF Walks
<1>4. PICK list, more : list = lists[n] /\ more = lists'[n]
  OBVIOUS
<1>5. /\ n \in DOMAIN lists /\ Len(list) \in Nat /\ Len(more) \in Nat
      /\ Len(ListOf(i)) = Len(list) /\ Len(ListOf(i)') = Len(more)
      /\ Past(i) \in Nat /\ Past(i)' \in Nat /\ iters[i].pos \in Int /\ iters'[i].pos \in Int
      /\ list \in Seq(Obj)
  BY <1>1, <1>2, <1>3, <1>4 DEF Walk
<1>6. Len(list) <= Len(more) /\ \A k \in 1 .. Len(list) : more[k] = list[k]
  BY <1>4, <1>5, SeqForm DEF Grown
<1>7. CASE iters[i].kind = "reversed"
  <2> PICK d : d = Len(more) - Len(list)
    OBVIOUS
  <2>1. d \in Nat /\ d = Len(more) - Len(list)
    BY <1>5, <1>6
  <2>2. /\ Past(i) = Len(list) - iters[i].pos /\ Past(i)' = Len(more) - iters'[i].pos
        /\ \A k \in 1 .. Len(list) : ListOf(i)[k] = list[Len(list) - k + 1]
        /\ \A k \in 1 .. Len(more) : ListOf(i)'[k] = more[Len(more) - k + 1]
    BY <1>1, <1>2, <1>3, <1>4, <1>7 DEF Walk
  <2>3. iters'[i].pos <= iters[i].pos
    BY <1>2, <1>5, <1>7 DEF Advanced
  <2>4. Past(i) + d <= Past(i)'
    BY <1>5, <2>1, <2>2, <2>3
  <2>5. ASSUME NEW k \in 1 .. Len(list)
        PROVE  ListOf(i)'[k + d] = ListOf(i)[k]
    <3>1. k + d \in 1 .. Len(more) /\ Len(more) - (k + d) + 1 = Len(list) - k + 1 /\ Len(list) - k + 1 \in 1 .. Len(list)
      BY <1>5, <2>1
    <3>2. ListOf(i)'[k + d] = more[Len(list) - k + 1]
      BY <2>2, <3>1
    <3> QED
      BY <1>6, <2>2, <3>1, <3>2
  <2>6. Len(ListOf(i)) + d <= Len(ListOf(i)')
    BY <1>5, <2>1
  <2>7. Shifted(i, d)
    BY <1>5, <2>4, <2>5, <2>6 DEF Shifted
  <2> QED
    BY <2>1, <2>7
<1>8. CASE iters[i].kind # "reversed"
  <2>1. /\ Past(i) = iters[i].pos - 1 /\ Past(i)' = iters'[i].pos - 1
        /\ \A k \in 1 .. Len(list) : ListOf(i)[k] = list[k]
        /\ \A k \in 1 .. Len(more) : ListOf(i)'[k] = more[k]
    BY <1>1, <1>2, <1>3, <1>4, <1>8 DEF Walk
  <2>2. iters[i].pos <= iters'[i].pos
    BY <1>2, <1>5, <1>8 DEF Advanced
  <2>3. ASSUME NEW k \in 1 .. Len(list)
        PROVE  ListOf(i)'[k + 0] = ListOf(i)[k]
    <3>1. k + 0 = k /\ k \in 1 .. Len(more)
      BY <1>5, <1>6
    <3> QED
      BY <1>6, <2>1, <3>1
  <2>4. Past(i) + 0 <= Past(i)' /\ Len(ListOf(i)) + 0 <= Len(ListOf(i)')
    BY <1>5, <1>6, <2>1, <2>2
  <2> QED
    BY <1>5, <2>3, <2>4 DEF Shifted
<1> QED
  BY <1>7, <1>8

\* The results of a chain stay where they were in the list it begins with.
LEMMA TrailStays ==
  ASSUME Shape, Shape', Grown, NEW i \in DOMAIN iters, \A j \in 1 .. i : Continues(j),
         NEW results, NEW root, root = Root(i)
  PROVE  /\ Root(i)' = root /\ root \in DOMAIN iters' /\ Continues(root)
         /\ Trail(results, ListOf(root), Len(ListOf(root))) => Trail(results, ListOf(root), Len(ListOf(root)))'
         /\ \A less \in {0, 1} : Trail(results, ListOf(root), Past(root) - less)
                                  => Trail(results, ListOf(root)', Past(root)' - less)
<1>1. Root(i)' = root
  BY IterStays DEF Shape
<1>2. root \in 1 .. i /\ root \in DOMAIN iters /\ iters[root].src.kind = "list" /\ Continues(root)
  BY RootForm
<1>3. iters'[root].src.kind = "list" /\ root \in DOMAIN iters'
  BY <1>2 DEF Continues, Follows
<1>4. Walk(root) /\ Walk(root)'
  BY <1>2, <1>3, WalksNow, WalksNext DEF Walks
<1>5. PICK d \in Nat : Shifted(root, d)
  BY <1>2, RootMoves
<1>6. PICK list, more, past, gone :
        list = ListOf(root) /\ more = ListOf(root)' /\ past = Past(root) /\ gone = Past(root)'
  OBVIOUS
<1>7. /\ Len(list) \in Nat /\ Len(more) \in Nat /\ past \in 0 .. Len(list) /\ past \in Nat /\ gone \in Nat
      /\ past + d <= gone /\ Len(list) + d <= Len(more) /\ \A k \in 1 .. Len(list) : more[k + d] = list[k]
  BY <1>4, <1>5, <1>6 DEF Walk, Shifted
<1>8. Trail(results, list, Len(list)) => Trail(results, more, Len(more))
  <2>1. Len(list) \in Int /\ Len(more) \in Int
    BY <1>7
  <2> QED
    BY <1>7, <2>1, TrailShifts
<1>9. ASSUME NEW less \in {0, 1}
      PROVE  Trail(results, list, past - less) => Trail(results, more, gone - less)
  <2>1. past - less \in Int /\ gone - less \in Int /\ past - less + d <= gone - less
    BY <1>7
  <2>2. \A k \in 1 .. past - less : more[k + d] = list[k]
    BY <1>7
  <2> QED
    BY <2>1, <2>2, TrailShifts
<1>10. Trail(results, ListOf(root), Len(ListOf(root)))' = Trail(results, more, Len(more))
  BY <1>6 DEF Trail
<1> QED
  BY <1>1, <1>2, <1>3, <1>6, <1>8, <1>9, <1>10

LEMMA SourceStays ==
  ASSUME Shape, Shape', Grown, NEW src, Reaches(src, Len(iters)),
         src.kind = "iter" => \A j \in 1 .. src.id : Continues(j),
         NEW results, Trail(results, Source(src), Len(Source(src)))
  PROVE  Trail(results, Source(src), Len(Source(src)))'
<1>1. CASE src.kind = "iter"
  <2>1. PICK i, root : i = src.id /\ root = Root(src.id)
    OBVIOUS
  <2>2. i \in DOMAIN iters
    BY <1>1, <2>1, SeqForm DEF Reaches, Shape, TypeOK
  <2>3. Source(src) = ListOf(root)
    BY <1>1, <2>1 DEF Source
  <2>4. /\ Root(i)' = root
        /\ Trail(results, ListOf(root), Len(ListOf(root))) => Trail(results, ListOf(root), Len(ListOf(root)))'
    BY <1>1, <2>1, <2>2, TrailStays
  <2>5. Source(src)' = ListOf(root)'
    BY <1>1, <2>1, <2>4 DEF Source
  <2>6. PICK more : more = ListOf(root)'
    OBVIOUS
  <2> QED
    BY <2>3, <2>4, <2>5, <2>6 DEF Trail
<1>2. CASE src.kind # "iter"
  <2>1. PICK n, list, more : n = src.id /\ list = lists[n] /\ more = lists'[n]
    OBVIOUS
  <2>2. Source(src) = list /\ Source(src)' = more
    BY <1>2, <2>1 DEF Source
  <2>3. n \in DOMAIN lists /\ n \in DOMAIN lists'
    <3>1. n \in DOMAIN lists
      BY <1>2, <2>1 DEF Reaches
    <3>2. /\ DOMAIN lists = 1 .. Len(lists) /\ Len(lists) \in Nat
          /\ DOMAIN lists' = 1 .. Len(lists') /\ Len(lists') \in Nat
      BY SeqForm DEF Shape, TypeOK
    <3> QED
      BY <3>1, <3>2 DEF Grown
  <2>4. list \in Seq(Obj) /\ more \in Seq(Obj)
    BY <2>1, <2>3, SeqForm DEF Shape, TypeOK
  <2>5. DOMAIN list = 1 .. Len(list) /\ Len(list) \in Nat /\ Len(more) \in Nat
    BY <2>4, SeqForm
  <2>6. Len(list) + 0 <= Len(more) /\ \A k \in 1 .. Len(list) : more[k + 0] = list[k]
    BY <2>1, <2>3, <2>5 DEF Grown
  <2>7. Trail(results, more, Len(more))
    <3>1. Trail(results, list, Len(list)) /\ Len(list) \in Int /\ Len(more) \in Int /\ 0 \in Nat
      BY <2>2, <2>5
    <3> QED
      BY <2>6, <3>1, TrailShifts
  <2>8. Trail(results, Source(src), Len(Source(src)))' = Trail(results, more, Len(more))
    BY <2>2 DEF Trail
  <2> QED
    BY <2>7, <2>8
<1> QED
  BY <1>1, <1>2

\* The chain of what a query refers to.
LEMMA ChainForm ==
  ASSUME Shape, NEW src, NEW n \in Nat, n <= Len(iters), Reaches(src, n)
  PROVE  /\ ChainTo(src) \subseteq 1 .. n /\ ChainTo(src) \subseteq DOMAIN iters
         /\ src.kind = "iter" => /\ src.id \in DOMAIN iters /\ ChainTo(src) = iters[src.id].chain
                                 /\ src.id \in 1 .. n
<1>1. DOMAIN iters = 1 .. Len(iters) /\ Len(iters) \in Nat
  BY SeqForm DEF Shape, TypeOK
<1>2. CASE src.kind = "iter"
  <2>1. src.id \in 1 .. n /\ src.id \in DOMAIN iters /\ ChainTo(src) = iters[src.id].chain
    BY <1>1, <1>2 DEF Reaches, ChainTo
  <2>2. iters[src.id].chain \subseteq 1 .. src.id
    BY <2>1 DEF Shape, IterOK
  <2> QED
    BY <1>1, <2>1, <2>2
<1>3. CASE src.kind # "iter"
  BY <1>3 DEF ChainTo
<1> QED
  BY <1>2, <1>3

\* The results of a query remain what they are.
LEMMA ResultsStay ==
  ASSUME Shape, Shape', Grown, \A i \in 1 .. Known : Continues(i),
         NEW q \in DOMAIN queries, Results(q), NEW p, queries'[p].src = queries[q].src, queries'[p].pulled = queries[q].pulled
  PROVE  Results(p)'
<1>1. PICK src, results : src = queries[q].src /\ results = queries[q].pulled
  OBVIOUS
<1>2. Known \in Nat /\ Known <= Len(iters) /\ DOMAIN iters = 1 .. Len(iters)
  <2>1. DOMAIN iters = 1 .. Len(iters) /\ Len(iters) \in Nat
    BY SeqForm DEF Shape, TypeOK
  <2>2. Probing => Len(iters) # 0
    <3>1. Probing => call.path \in Seq(Nat) /\ call.path # <<>> /\ call.path[1] = Len(iters)
      BY DEF Shape, TypeOK, CallOK, Calls, Probing
    <3>2. Probing => 1 \in DOMAIN call.path
      BY <3>1, EmptySeq, SeqForm
    <3>3. Probing => Len(iters) \in DOMAIN iters
      BY <3>1, <3>2 DEF Shape, CallOK
    <3> QED
      BY <2>1, <3>3
  <2> QED
    BY <2>1, <2>2 DEF Known
<1>3. Reaches(src, Known)
  BY <1>1, QueryForm DEF QueryOK
<1>4. PICK chain : chain = ChainTo(src)
  OBVIOUS
<1>5. /\ chain \subseteq 1 .. Known /\ chain \subseteq DOMAIN iters
      /\ src.kind = "iter" => src.id \in DOMAIN iters /\ chain = iters[src.id].chain /\ src.id \in 1 .. Known
  BY <1>2, <1>3, <1>4, ChainForm
<1>6. ChainTo(src)' = chain
  BY <1>4, <1>5 DEF ChainTo, Continues, Follows
<1>7. Through(chain, results)'
  <2>1. \A i \in chain : Continues(i)
    BY <1>5
  <2>2. Through(chain, results)
    BY <1>1, <1>4 DEF Results
  <2> QED
    BY <1>5, <2>1, <2>2, ThroughStays
<1>8. Trail(results, Source(src), Len(Source(src)))'
  <2>1. src.kind = "iter" => \A j \in 1 .. src.id : Continues(j)
    <3>1. src.kind = "iter" => \A j \in 1 .. src.id : j \in 1 .. Known
      BY <1>2, <1>5
    <3> QED
      BY <3>1
  <2>2. Reaches(src, Len(iters))
    BY <1>2, <1>3 DEF Reaches
  <2>3. Trail(results, Source(src), Len(Source(src)))
    BY <1>1 DEF Results
  <2> QED
    BY <2>1, <2>2, <2>3, SourceStays
<1>9. queries'[p].src = src /\ queries'[p].pulled = results
  BY <1>1
<1> QED
  BY <1>6, <1>7, <1>8, <1>9 DEF Results

-----------------------------------------------------------------------------
(* Steps that give no query its results                                      *)

\* No iterator a query refers to is dropped, and the queries but those of X
\* keep their results or, new, have none.
Quiet(X) ==
    /\ Grown /\ \A i \in 1 .. Known : Continues(i)
    /\ \A q \in DOMAIN queries' \ X :
          \/ queries'[q].pulled = <<>>
          \/ /\ q \in DOMAIN queries
             /\ queries'[q].src = queries[q].src /\ queries'[q].pulled = queries[q].pulled

\* A call that has no results so far.
Begins == call.got = <<>> /\ call.obj = NoObj

LEMMA NoResults == \A q : queries[q].pulled = <<>> => Results(q)
BY NothingThrough DEF Results

LEMMA NoResultsNext == \A q : queries'[q].pulled = <<>> => Results(q)'
<1>1. (\A q : queries[q].pulled = <<>> => Results(q))'
  BY NoResults, PTL
<1> QED
  BY <1>1

LEMMA NothingGot == Begins => Got /\ Climbing
BY NothingThrough DEF Begins, Got, Climbing

LEMMA NothingGotNext == Begins' => Got' /\ Climbing'
BY NothingGot, PTL

LEMMA ResultsKept ==
  ASSUME Shape, Shape', NEW X, Quiet(X), \A q \in DOMAIN queries : Results(q)
  PROVE  \A q \in DOMAIN queries' \ X : Results(q)'
<1>1. SUFFICES ASSUME NEW q \in DOMAIN queries' \ X
               PROVE  Results(q)'
  OBVIOUS
<1>2. CASE queries'[q].pulled = <<>>
  BY <1>2, NoResultsNext
<1>3. CASE /\ q \in DOMAIN queries
           /\ queries'[q].src = queries[q].src /\ queries'[q].pulled = queries[q].pulled
  BY <1>3, ResultsStay DEF Quiet
<1> QED
  BY <1>2, <1>3 DEF Quiet

LEMMA QuietData ==
  ASSUME Shape, Shape', Data, Quiet({}), Begins'
  PROVE  Data'
<1>1. \A q \in DOMAIN queries' : Results(q)'
  BY ResultsKept DEF Data
<1> QED
  BY <1>1, NothingGotNext DEF Data

\* A step that leaves the lists, the iterators and the queries.
LEMMA SameQuiet ==
  ASSUME Shape, UNCHANGED <<lists, queries>>, \A i \in 1 .. Known : Continues(i)
  PROVE  Quiet({})
BY SameLists DEF Shape, Quiet

LEMMA KnownIters ==
  ASSUME Shape
  PROVE  1 .. Known \subseteq DOMAIN iters
<1>1. DOMAIN iters = 1 .. Len(iters) /\ Len(iters) \in Nat
  BY SeqForm DEF Shape, TypeOK
<1> QED
  BY <1>1 DEF Known

LEMMA IdleQuiet ==
  ASSUME Shape, Idle
  PROVE  Begins
BY DEF Idle, NoCall, Begins

LEMMA AppendedIsIn ==
  ASSUME NEW S, NEW s \in Seq(S), NEW x, Append(s, x) \in Seq(S)
  PROVE  x \in S
<1>1. s \in Seq(S \cup {x})
  BY SeqMonotonic
<1>2. Append(s, x)[Len(s) + 1] = x /\ Len(Append(s, x)) = Len(s) + 1 /\ Len(s) \in Nat
  BY <1>1, AppendProperties, SeqForm
<1>3. Len(s) + 1 \in 1 .. Len(Append(s, x))
  BY <1>2
<1> QED
  BY <1>2, <1>3, SeqForm

\* A query is added, and perhaps an iterator.
LEMMA AddedQuiet ==
  ASSUME Shape, Shape', Grown,
         UNCHANGED iters \/ \E g : iters' = Append(iters, g),
         UNCHANGED queries \/ \E x : queries' = Append(queries, x) /\ x.pulled = <<>>
  PROVE  Quiet({})
<1>1. \A i \in 1 .. Known : Continues(i)
  <2>1. ASSUME NEW g, iters' = Append(iters, g)
        PROVE  \A i \in DOMAIN iters : Continues(i)
    <3>1. g \in Iterators
      BY <2>1, AppendedIsIn DEF Shape, TypeOK
    <3> QED
      BY <2>1, <3>1, IterAppended
  <2> QED
    BY <2>1, SameIters, KnownIters
<1>2. CASE UNCHANGED queries
  BY <1>1, <1>2 DEF Quiet
<1>3. ASSUME NEW x, queries' = Append(queries, x), x.pulled = <<>>
      PROVE  Quiet({})
  <2>1. x \in Queries
    BY <1>3, AppendedIsIn DEF Shape, TypeOK
  <2>2. /\ Len(queries) \in Nat
        /\ DOMAIN queries = 1 .. Len(queries) /\ DOMAIN queries' = 1 .. Len(queries) + 1
        /\ queries'[Len(queries) + 1] = x
        /\ \A q \in DOMAIN queries : q # Len(queries) + 1 /\ queries'[q] = queries[q]
    BY <1>3, <2>1, QueryAppended DEF Shape
  <2>3. ASSUME NEW q \in DOMAIN queries'
        PROVE  \/ queries'[q].pulled = <<>>
               \/ /\ q \in DOMAIN queries
                  /\ queries'[q].src = queries[q].src /\ queries'[q].pulled = queries[q].pulled
    <3>1. q \in DOMAIN queries \/ q = Len(queries) + 1
      BY <2>2
    <3> QED
      BY <1>3, <2>2, <3>1
  <2> QED
    BY <1>1, <2>3 DEF Quiet
<1> QED
  BY <1>2, <1>3

\* Calls of the program that give no query its results.
LEMMA MakingQuiet ==
  ASSUME Shape, Shape', Data,
         \/ \E flags \in Flags : Make(flags)
         \/ \E q \in DOMAIN queries : OrderBy(q) \/ ReverseOf(q) \/ \E r \in Refinements : Refine(q, r)
  PROVE  Data'
<1>1. Idle /\ UNCHANGED <<lists, call>>
  BY DEF Make, OrderBy, ReverseOf, Refine, CanMake
<1>2. Begins' /\ Grown
  BY <1>1, IdleQuiet, SameLists DEF Begins, Shape
<1>3. UNCHANGED iters \/ \E g : iters' = Append(iters, g)
  BY DEF Make, OrderBy, ReverseOf, Refine
<1>4. UNCHANGED queries \/ \E x : queries' = Append(queries, x) /\ x.pulled = <<>>
  <2>1. ASSUME NEW src, NEW distinct, NEW order, NEW reverse
        PROVE  NewQuery(src, distinct, order, reverse).pulled = <<>>
    BY DEF NewQuery
  <2>2. ASSUME NEW flags \in Flags, Make(flags)
        PROVE  \E x : queries' = Append(queries, x) /\ x.pulled = <<>>
    BY <2>1, <2>2 DEF Make
  <2>3. ASSUME NEW q \in DOMAIN queries, OrderBy(q)
        PROVE  \E x : queries' = Append(queries, x) /\ x.pulled = <<>>
    BY <2>1, <2>3 DEF OrderBy
  <2>4. ASSUME NEW q \in DOMAIN queries, NEW r \in Refinements, Refine(q, r)
        PROVE  \E x : queries' = Append(queries, x) /\ x.pulled = <<>>
    BY <2>1, <2>4 DEF Refine
  <2>5. ASSUME NEW q \in DOMAIN queries, ReverseOf(q)
        PROVE  UNCHANGED queries \/ \E x : queries' = Append(queries, x) /\ x.pulled = <<>>
    <3>1. queries[q] \in Queries
      BY QueryForm
    <3>2. CASE IsList(q)
      <4>1. PICK x : x = [queries[q] EXCEPT !.src = IterRef(Len(iters) + 1), !.cache = NoRef, !.pulled = <<>>]
        OBVIOUS
      <4>2. x.pulled = <<>>
        BY <3>1, <4>1 DEF Queries
      <4> QED
        BY <2>5, <3>2, <4>1, <4>2 DEF ReverseOf
    <3> QED
      BY <2>5, <3>2 DEF ReverseOf
  <2> QED
    BY <2>2, <2>3, <2>4, <2>5
<1> QED
  BY <1>2, <1>3, <1>4, AddedQuiet, QuietData

LEMMA ListGrown ==
  ASSUME Shape, \/ \E o \in Added : AppendBase(o)
                \/ \E q, o \in DOMAIN queries : Union(q, o) \/ \E b \in BOOLEAN : Compare(q, o, b)
  PROVE  Grown
<1>1. ASSUME NEW o \in Added, AppendBase(o)
      PROVE  Grown
  <2>1. 1 \in DOMAIN lists /\ lists[1] \in Seq(Obj)
    <3>1. lists \in Seq(Seq(Obj)) /\ lists # <<>>
      BY DEF Shape, TypeOK
    <3> QED
      BY <3>1, EmptySeq, SeqForm
  <2>2. o \in Obj /\ <<o>> \in Seq(Obj)
    BY ObjAssumption
  <2>3. Append(lists[1], o) = lists[1] \o <<o>>
    BY <2>1, <2>2, AppendIsConcat
  <2>4. lists' = [lists EXCEPT ![1] = @ \o <<o>>]
    BY <1>1, <2>3 DEF AppendBase
  <2> QED
    BY <2>1, <2>2, <2>4, ListLonger DEF Shape
<1>2. ASSUME NEW q \in DOMAIN queries, NEW o \in DOMAIN queries, Union(q, o)
      PROVE  Grown
  <2>1. PICK n, s : n = queries[q].cache.id /\ s = Cached(o)
    OBVIOUS
  <2>2. n \in DOMAIN lists /\ s \in Seq(Obj)
    BY <1>2, <2>1, CacheList DEF Union, Both
  <2>3. lists' = [lists EXCEPT ![n] = @ \o s]
    BY <1>2, <2>1 DEF Union
  <2> QED
    BY <2>2, <2>3, ListLonger DEF Shape
<1>3. ASSUME NEW q \in DOMAIN queries, NEW o \in DOMAIN queries, NEW b \in BOOLEAN, Compare(q, o, b)
      PROVE  Grown
  <2>1. PICK places : lists' = Append(lists, Elements(Cached(q), places))
    BY <1>3 DEF Compare
  <2>2. Elements(Cached(q), places) \in Seq(Obj)
    BY <1>3, CacheList, ElementsForm DEF Compare, Both
  <2> QED
    BY <2>1, <2>2, ListAdded DEF Shape
<1> QED
  BY <1>1, <1>2, <1>3

LEMMA ListQuiet ==
  ASSUME Shape, Shape', Data,
         \/ \E o \in Added : AppendBase(o)
         \/ \E q, o \in DOMAIN queries : Union(q, o) \/ \E b \in BOOLEAN : Compare(q, o, b)
  PROVE  Data'
<1>1. Idle /\ UNCHANGED <<iters, call>>
  BY DEF AppendBase, Union, Compare, Both
<1>2. Begins'
  BY <1>1, IdleQuiet DEF Begins
<1>3. Grown
  BY ListGrown
<1>4. ASSUME NEW ref, NEW q, queries' = Combined(ref, q)
      PROVE  \E x : queries' = Append(queries, x) /\ x.pulled = <<>>
  BY <1>4 DEF Combined, NewQuery
<1>5. UNCHANGED queries \/ \E x : queries' = Append(queries, x) /\ x.pulled = <<>>
  <2>1. UNCHANGED queries \/ \E ref, q : queries' = Combined(ref, q)
    BY DEF AppendBase, Union, Compare
  <2> QED
    BY <1>4, <2>1
<1> QED
  BY <1>1, <1>2, <1>3, <1>5, AddedQuiet, QuietData

\* A call begins.
LEMMA BeginsQuiet ==
  ASSUME Shape, Shape', Data,
         \E q \in DOMAIN queries :
            \/ Ask(q) \/ Iterate(q)
            \/ \E o \in Added : LookFor(q, o)
            \/ \E op \in {"next", "get"}, f \in Probes : Probe(op, q, f)
  PROVE  Data'
<1>1. UNCHANGED <<lists, queries>>
  BY DEF Ask, Iterate, LookFor, Probe, Begin
<1>2. UNCHANGED iters \/ \E g : iters' = Append(iters, g)
  BY DEF Ask, Iterate, LookFor, Probe, Begin
<1>3. Begins'
  BY DEF Ask, Iterate, LookFor, Probe, Begin, NoCall, Begins
<1>4. Grown
  BY <1>1, SameLists DEF Shape
<1> QED
  BY <1>1, <1>2, <1>3, <1>4, AddedQuiet, QuietData

-----------------------------------------------------------------------------
(* A call that runs                                                          *)

\* Where a call takes its results from.
LEMMA PathForm ==
  ASSUME Shape, Pulling
  PROVE  /\ 1 \in DOMAIN call.path /\ call.path[1] \in DOMAIN iters
         /\ iters[call.path[1]].chain \subseteq DOMAIN iters
         /\ Root(Place) = Root(call.path[1]) /\ iters[Place].chain \subseteq iters[call.path[1]].chain
         /\ Root(call.path[1]) \in DOMAIN iters
         /\ \A i \in 1 .. call.path[1] : i \in DOMAIN iters
<1>1. call.path \in Seq(Nat) /\ call.path # <<>>
  BY DEF Pulling, Shape, TypeOK, Calls
<1>2. DOMAIN call.path = 1 .. Len(call.path) /\ Len(call.path) \in Nat \ {0}
  BY <1>1, EmptySeq, SeqForm
<1>3. 1 \in DOMAIN call.path /\ Len(call.path) \in DOMAIN call.path
  BY <1>2
<1>4. call.path[1] \in DOMAIN iters /\ DOMAIN iters = 1 .. Len(iters) /\ Len(iters) \in Nat
  BY <1>3, SeqForm DEF Shape, TypeOK, CallOK
<1>5. iters[call.path[1]].chain \subseteq 1 .. call.path[1]
  BY <1>4 DEF Shape, IterOK
<1>6. iters[call.path[1]].chain \subseteq DOMAIN iters /\ \A i \in 1 .. call.path[1] : i \in DOMAIN iters
  BY <1>4, <1>5
<1>7. Root(Place) = Root(call.path[1]) /\ iters[Place].chain \subseteq iters[call.path[1]].chain
  BY <1>3 DEF Shape, CallOK, Place
<1>8. Root(call.path[1]) \in DOMAIN iters
  BY <1>4, RootForm
<1> QED
  BY <1>3, <1>4, <1>6, <1>7, <1>8

LEMMA GotStays ==
  ASSUME Shape, Shape', Grown, Pulling, Got, \A i \in DOMAIN iters : Continues(i),
         call'.path # <<>>, call'.path[1] = call.path[1], call'.got = call.got,
         call'.obj = NoObj \/ call.obj # NoObj
  PROVE  Got'
<1>1. PICK i, root, chain, results, less :
        /\ i = call.path[1] /\ root = Root(i) /\ chain = iters[i].chain /\ results = call.got
        /\ less = IF call.obj = NoObj THEN 0 ELSE 1
  OBVIOUS
<1>2. /\ i \in DOMAIN iters /\ chain \subseteq DOMAIN iters /\ \A j \in 1 .. i : j \in DOMAIN iters
      /\ root \in DOMAIN iters
  BY <1>1, PathForm
<1>3. Through(chain, results) /\ Trail(results, ListOf(root), Past(root) - less)
  <2>1. Through(chain, results)
    BY <1>1 DEF Got, Pulling
  <2>2. CASE call.obj = NoObj
    <3>1. Trail(results, ListOf(root), Past(root))
      BY <1>1, <2>2 DEF Got, Pulling
    <3>2. Past(root) \in Nat
      BY <1>1, <1>2, WalksNow, RootForm DEF Walks, Walk
    <3>3. Past(root) - less = Past(root)
      BY <1>1, <2>2, <3>2
    <3> QED
      BY <2>1, <3>1, <3>3
  <2>3. CASE call.obj # NoObj
    BY <1>1, <2>1, <2>3 DEF Got, Pulling
  <2> QED
    BY <2>2, <2>3
<1>4. Through(chain, results)'
  BY <1>2, <1>3, ThroughStays
<1>5. /\ Root(i)' = root /\ root \in DOMAIN iters' /\ Continues(root)
      /\ Trail(results, ListOf(root)', Past(root)' - less)
  <2>1. less \in {0, 1}
    BY <1>1
  <2> QED
    BY <1>1, <1>2, <1>3, <2>1, TrailStays
<1>6. PICK list, past, limit : /\ list = ListOf(root)' /\ past = Past(root)'
                               /\ limit = IF call'.obj = NoObj THEN past ELSE past - 1
  OBVIOUS
<1>7. past \in Nat
  <2>1. iters[root].src.kind = "list"
    BY <1>1, <1>2, RootForm
  <2>2. iters'[root].src.kind = "list"
    BY <1>5, <2>1 DEF Continues, Follows
  <2> QED
    BY <1>5, <1>6, <2>2, WalksNext DEF Walks, Walk
<1>8. Trail(results, list, limit)
  <2>1. past - less \in Int /\ limit \in Int /\ past - less + 0 <= limit
    BY <1>1, <1>6, <1>7
  <2>2. \A k \in 1 .. past - less : list[k + 0] = list[k]
    BY <2>1
  <2>3. Trail(results, list, past - less)
    BY <1>5, <1>6
  <2> QED
    BY <2>1, <2>2, <2>3, TrailShifts
<1>9. iters'[i].chain = chain
  BY <1>1, <1>2 DEF Continues, Follows
<1>10. call'.path[1] = i /\ call'.got = results
  BY <1>1
<1> QED
  BY <1>4, <1>5, <1>6, <1>8, <1>9, <1>10 DEF Got

LEMMA RunData ==
  ASSUME Shape, Shape', Data, UNCHANGED <<lists, queries>>, \A i \in DOMAIN iters : Continues(i), Got', Climbing'
  PROVE  Data'
<1>1. Quiet({})
  BY KnownIters, SameQuiet
<1>2. \A q \in DOMAIN queries' : Results(q)'
  BY <1>1, ResultsKept DEF Data
<1> QED
  BY <1>2 DEF Data

\* A step that leaves everything but the answer.
LEMMA AnswerData ==
  ASSUME Shape, Shape', Data, UNCHANGED <<lists, iters, queries, call>>
  PROVE  Data'
<1>1. \A i \in DOMAIN iters : Continues(i)
  BY SameIters
<1>2. Got'
  <2>1. CASE Pulling
    <3>1. Grown
      BY SameLists DEF Shape
    <3> QED
      BY <1>1, <2>1, <3>1, GotStays DEF Data, Pulling
  <2>2. CASE ~Pulling
    BY <2>2 DEF Got, Pulling
  <2> QED
    BY <2>1, <2>2
<1>3. Climbing'
  BY DEF Data, Climbing, SomeDistinct, Came, MeetsIn, ListOf, Past, Root, Top, ChainTo
<1> QED
  BY <1>1, <1>2, <1>3, RunData

\* The end of a call, which may drop its generator.
LEMMA EndData ==
  ASSUME Shape, Shape', Data, UNCHANGED <<lists, queries>>, call' = NoCall,
         NEW its \in Seq(Iterators), Len(its) = Len(iters),
         \A i \in DOMAIN iters : Follows(iters[i], its[i]), iters' = Kept(its)
  PROVE  Data'
<1>1. \A i \in 1 .. Known : Continues(i)
  <2>1. /\ DOMAIN iters = 1 .. Len(iters) /\ Len(iters) \in Nat /\ DOMAIN its = 1 .. Len(its)
        /\ DOMAIN iters' = 1 .. Len(iters') /\ Len(iters') \in Nat
    BY SeqForm DEF Shape, TypeOK
  <2>2. CASE Probing
    <3>1. CASE its = <<>>
      <4>1. Known = -1
        BY <2>1, <2>2, <3>1 DEF Known
      <4> QED
        BY <4>1
    <3>2. CASE its # <<>>
      <4>1. iters' = Front(its) /\ Known = Len(its) - 1
        BY <2>2 DEF Kept, Known, Probing
      <4>2. Len(Front(its)) = Len(its) - 1 /\ \A i \in 1 .. Len(its) - 1 : Front(its)[i] = its[i]
        BY <3>2, Fronted
      <4>3. \A i \in 1 .. Known : i \in DOMAIN iters /\ i \in DOMAIN iters' /\ iters'[i] = its[i]
        BY <2>1, <4>1, <4>2
      <4> QED
        BY <4>3 DEF Continues
    <3> QED
      BY <3>1, <3>2
  <2>3. CASE ~Probing
    BY <2>1, <2>3 DEF Kept, Known, Probing, Continues
  <2> QED
    BY <2>2, <2>3
<1>2. Begins'
  BY DEF NoCall, Begins
<1> QED
  BY <1>1, <1>2, SameQuiet, QuietData

\* One step of the generator that is resumed leaves the others.
LEMMA Moves ==
  ASSUME Shape, Shape', Pulling, NEW jt \in Iterators, Follows(Top, jt), iters' = WithTop(jt)
  PROVE  /\ \A i \in DOMAIN iters : Continues(i)
         /\ \A i \in DOMAIN iters : iters'[i] = IF i = Place THEN jt ELSE iters[i]
<1>1. /\ iters' \in Seq(Iterators) /\ Len(iters') = Len(iters)
      /\ \A i \in DOMAIN iters : Follows(iters[i], iters'[i])
  BY TopFollows
<1>2. Len(iters) <= Len(iters')
  BY <1>1, SeqForm
<1> QED
  BY <1>1, <1>2, AllContinue, WithTopForm

\* The place of an iterator that is not moved.
LEMMA SamePast ==
  ASSUME UNCHANGED lists, NEW i,
         iters'[i].kind = iters[i].kind, iters'[i].src = iters[i].src, iters'[i].pos = iters[i].pos
  PROVE  Past(i)' = Past(i) /\ ListOf(i)' = ListOf(i)
BY DEF Past, ListOf

LEMMA DescendData ==
  ASSUME Shape, Shape', Data, Descend
  PROVE  Data'
<1>1. /\ Pulling /\ call.obj = NoObj /\ UNCHANGED <<lists, iters, queries>>
      /\ call' = [call EXCEPT !.path = Append(@, Top.src.id)]
  BY DEF Descend
<1>2. call'.got = call.got /\ call'.obj = NoObj /\ call'.path = Append(call.path, Top.src.id)
  BY <1>1 DEF Shape, TypeOK, Calls
<1>3. call.path \in Seq(Nat) /\ call'.path \in Seq(Nat) /\ call.path # <<>>
  BY <1>1 DEF Shape, TypeOK, Calls, Pulling
<1>4. Top.src.id \in Nat
  BY <1>2, <1>3, AppendedIsIn
<1>5. call'.path # <<>> /\ call'.path[1] = call.path[1]
  <2>1. Len(call.path) \in Nat \ {0} /\ \A k \in 1 .. Len(call.path) : Append(call.path, Top.src.id)[k] = call.path[k]
    BY <1>3, <1>4, EmptySeq, AppendProperties
  <2>2. 1 \in 1 .. Len(call.path)
    BY <2>1
  <2> QED
    BY <1>2, <1>3, <1>4, <2>1, <2>2, AppendProperties
<1>6. Grown /\ \A i \in DOMAIN iters : Continues(i)
  BY <1>1, SameLists, SameIters DEF Shape
<1>7. Got'
  BY <1>1, <1>2, <1>5, <1>6, GotStays DEF Data
<1>8. Climbing'
  BY <1>2 DEF Climbing
<1> QED
  BY <1>1, <1>6, <1>7, <1>8, RunData

LEMMA SkipData ==
  ASSUME Shape, Shape', Data, Skip
  PROVE  Data'
<1>1. PICK jt : jt = Tested(Top, call.obj)
  OBVIOUS
<1>2. /\ Pulling /\ call.obj # NoObj /\ UNCHANGED <<lists, queries>>
      /\ call' = [call EXCEPT !.obj = NoObj] /\ iters' = WithTop(jt)
  BY <1>1 DEF Skip
<1>3. \A i \in DOMAIN iters : Continues(i)
  BY <1>1, <1>2, ClimbForm, Moves
<1>4. call'.got = call.got /\ call'.obj = NoObj /\ call'.path = call.path
  BY <1>2 DEF Shape, TypeOK, Calls
<1>5. Got'
  <2>1. Grown
    BY <1>2, SameLists DEF Shape
  <2> QED
    BY <1>2, <1>3, <1>4, <2>1, GotStays DEF Data, Pulling
<1>6. Climbing'
  BY <1>4 DEF Climbing
<1> QED
  BY <1>2, <1>3, <1>5, <1>6, RunData

LEMMA RaiseData ==
  ASSUME Shape, Shape', Data, Raise \/ IterationEnds
  PROVE  Data'
<1>1. PICK takers \in SUBSET Nat : iters' = Kept(Finished(takers))
  <2>1. {} \in SUBSET Nat /\ {0} \in SUBSET Nat
    OBVIOUS
  <2> QED
    BY <2>1 DEF Raise, IterationEnds
<1>2. UNCHANGED <<lists, queries>>
  BY DEF Raise, IterationEnds
<1>3. call' = NoCall
  <2>1. CASE Raise
    BY <2>1 DEF Raise, End
  <2>2. CASE IterationEnds
    <3>1. call.op \in {"none", "all", "iter", "in", "next", "get"} /\ call.op # "all"
      BY <2>2 DEF Shape, TypeOK, Calls, IterationEnds
    <3>2. call.op # "none"
      BY <2>2 DEF Shape, CallOK, IterationEnds, Exhausted, Pulling, NoCall
    <3> QED
      BY <2>2, <3>1, <3>2 DEF IterationEnds, End
  <2> QED
    BY <2>1, <2>2
<1>4. PICK its : its = Finished(takers)
  OBVIOUS
<1> QED
  BY <1>1, <1>2, <1>3, <1>4, FinishedFollows, EndData

\* The list moves: the object that leaves it is the last that did.
LEMMA FetchData ==
  ASSUME Shape, Shape', Data, Fetch
  PROVE  Data'
<1>1. PICK jt, o, root, i : /\ jt = Advanced(Top) /\ o = lists[Top.src.id][Top.pos]
                            /\ i = call.path[1] /\ root = Root(i)
  OBVIOUS
<1>2. /\ Pulling /\ call.obj = NoObj /\ Top.src.kind = "list" /\ Left(Top) # {} /\ UNCHANGED <<lists, queries>>
      /\ call' = [call EXCEPT !.obj = o] /\ iters' = WithTop(jt)
  BY <1>1 DEF Fetch
<1>3. /\ Top \in Iterators /\ Top = iters[Place] /\ IterOK(Place) /\ Place \in DOMAIN iters
  BY <1>2, TopForm
<1>4. /\ jt \in Iterators /\ Follows(Top, jt)
      /\ jt.kind = Top.kind /\ jt.src = Top.src /\ jt.pos = IF Top.kind = "reversed" THEN Top.pos - 1 ELSE Top.pos + 1
  <2>1. Top.kind = "filter" => Top.tests \in Readable[Top.f]
    BY <1>3 DEF IterOK
  <2> QED
    BY <1>1, <1>2, <1>3, <2>1 DEF Advanced, Follows, Iterators
<1>5. /\ \A k \in DOMAIN iters : Continues(k)
      /\ \A k \in DOMAIN iters : iters'[k] = IF k = Place THEN jt ELSE iters[k]
  BY <1>2, <1>4, Moves
<1>6. call'.got = call.got /\ call'.obj = o /\ call'.path = call.path /\ call.got \in Seq(Obj)
  BY <1>2 DEF Shape, TypeOK, Calls
<1>7. /\ Place = root /\ i \in DOMAIN iters /\ root \in DOMAIN iters
      /\ iters[i].chain \subseteq DOMAIN iters /\ Root(i)' = root /\ iters'[i].chain = iters[i].chain
  <2>1. i \in DOMAIN iters /\ iters[i].chain \subseteq DOMAIN iters /\ Root(Place) = root
    BY <1>1, <1>2, PathForm
  <2>2. Root(Place) = Place
    BY <1>2, <1>3, RootForm
  <2>3. iters'[i].chain = iters[i].chain
    BY <1>5, <2>1 DEF Continues, Follows
  <2> QED
    BY <1>1, <1>3, <2>1, <2>2, <2>3 DEF Root
<1>8. PICK list, past : list = ListOf(root) /\ past = Past(root)
  OBVIOUS
<1>9. ListOf(root)' = list /\ Past(root)' = past + 1 /\ past \in Nat /\ past + 1 \in 1 .. Len(list)
      /\ o = list[past + 1]
  <2>1. Walk(root) /\ iters[root] = Top /\ iters'[root] = jt
    BY <1>2, <1>3, <1>5, <1>7, WalksNow DEF Walks
  <2>2. ListOf(root)' = list
    BY <1>2, <1>4, <1>8, <2>1 DEF ListOf
  <2>3. PICK elems, pos : elems = lists[Top.src.id] /\ pos = Top.pos
    OBVIOUS
  <2>4. /\ Len(elems) \in Nat /\ Len(list) = Len(elems) /\ past \in Nat /\ past \in 0 .. Len(elems) /\ pos \in Int
        /\ past = IF Top.kind = "reversed" THEN Len(elems) - pos ELSE pos - 1
        /\ \A k \in 1 .. Len(elems) : list[k] = IF Top.kind = "reversed" THEN elems[Len(elems) - k + 1] ELSE elems[k]
    BY <1>8, <2>1, <2>3 DEF Walk
  <2>5. CASE Top.kind = "reversed"
    <3>1. Past(root)' = Len(elems) - (pos - 1)
      BY <1>2, <1>4, <2>1, <2>3, <2>5 DEF Past
    <3>2. pos >= 1
      BY <1>2, <2>3, <2>4, <2>5 DEF Left
    <3>3. past + 1 \in 1 .. Len(elems) /\ Len(elems) - (past + 1) + 1 = pos /\ Past(root)' = past + 1
      BY <2>4, <2>5, <3>1, <3>2
    <3> QED
      BY <1>1, <2>2, <2>3, <2>4, <2>5, <3>3
  <2>6. CASE Top.kind # "reversed"
    <3>1. Past(root)' = pos + 1 - 1
      <4>1. iters'[root].kind # "reversed" /\ iters'[root].pos = pos + 1
        BY <1>4, <2>1, <2>3, <2>6
      <4>2. Past(root)' = iters'[root].pos - 1
        BY <4>1 DEF Past
      <4> QED
        BY <2>4, <4>1, <4>2
    <3>2. pos <= Len(elems)
      BY <1>2, <2>3, <2>4, <2>6 DEF Left
    <3>3. past + 1 \in 1 .. Len(elems) /\ past + 1 = pos /\ Past(root)' = past + 1
      BY <2>4, <2>6, <3>1, <3>2
    <3> QED
      BY <1>1, <2>2, <2>3, <2>4, <2>6, <3>3
  <2> QED
    BY <2>5, <2>6
<1>10. o # NoObj
  <2>1. list \in Seq(Obj)
    BY <1>2, <1>3, <1>7, <1>8, WalksNow DEF Walks, Walk
  <2>2. o \in Obj
    BY <1>9, <2>1, SeqForm
  <2> QED
    BY <2>2, ObjAssumption
<1>11. Got'
  <2>1. PICK chain, results : chain = iters[i].chain /\ results = call.got
    OBVIOUS
  <2>2. Through(chain, results) /\ Trail(results, list, past)
    BY <1>1, <1>2, <1>8, <2>1 DEF Data, Got, Pulling
  <2>3. Through(chain, results)'
    BY <1>5, <1>7, <2>1, <2>2, ThroughStays
  <2>4. past + 1 - 1 = past /\ call'.path[1] = i /\ call'.got = results /\ iters'[i].chain = chain
    BY <1>1, <1>6, <1>7, <1>9, <2>1
  <2> QED
    BY <1>6, <1>7, <1>9, <1>10, <2>2, <2>3, <2>4 DEF Got
<1>12. Climbing'
  <2>1. Top' = jt
    BY <1>3, <1>5, <1>6 DEF Top, Place
  <2>2. ChainTo(Top.src)' = {}
    BY <1>2, <1>4, <2>1 DEF ChainTo
  <2>3. call'.path[1] = i
    BY <1>1, <1>6
  <2> QED
    BY <1>6, <1>7, <1>9, <2>2, <2>3 DEF Climbing, SomeDistinct
<1> QED
  BY <1>2, <1>5, <1>11, <1>12, RunData

\* An object that is yielded met the criteria, is remembered, and was not
\* yielded before.
LEMMA YieldedSaw ==
  ASSUME NEW it \in Iterators, NEW o \in Obj, TypeOK, it.distinct,
         it.kind = "filter" => it.f \in DOMAIN Criteria /\ it.tests \in Readable[it.f]
  PROVE  o \in Yielded(it, o).seen
<1>1. PICK jt : jt = Tested(it, o)
  OBVIOUS
<1>2. jt \in Iterators /\ jt.distinct
  BY <1>1, TestedForm
<1>3. PICK kt : kt = Saw(jt, o)
  OBVIOUS
<1>4. kt = [jt EXCEPT !.seen = @ \cup {o}]
  BY <1>2, <1>3 DEF Saw
<1>5. o \in kt.seen /\ kt = [jt EXCEPT !.seen = jt.seen \cup {o}]
  BY <1>2, <1>4 DEF Iterators
<1>6. Yielded(it, o) = [kt EXCEPT !.takers = @ \cup {call.query}]
  BY <1>1, <1>3 DEF Yielded
<1>7. kt \in [{"kind", "src", "pos", "f", "tests", "negate", "distinct", "seen", "done", "takers", "chain"} -> {kt[x] : x \in {"kind", "src", "pos", "f", "tests", "negate", "distinct", "seen", "done", "takers", "chain"}}]
  BY <1>2, <1>5 DEF Iterators
<1> QED
  BY <1>5, <1>6, <1>7

LEMMA Accepted ==
  ASSUME Shape, Shape', Data, Pulling, call.obj # NoObj, Accepts(Top, call.obj), ~Raises(Top, call.obj),
         iters' = WithTop(Yielded(Top, call.obj)),
         NEW o, o = call.obj, NEW chain, chain = iters[Place].chain
  PROVE  /\ \A i \in chain : Came(i, o)'
         /\ SomeDistinct(chain)' => \A n \in DOMAIN call.got : call.got[n] \notin EqualTo[o]
<1>1. PICK it, jt, below, place : /\ it = Top /\ jt = Yielded(Top, o) /\ below = ChainTo(Top.src)
                                 /\ place = Place
  OBVIOUS
<1>2. it \in Iterators /\ o \in Obj /\ jt \in Iterators /\ Follows(it, jt)
  BY <1>1, ClimbForm
<1>3. it = iters[place] /\ IterOK(place) /\ place \in DOMAIN iters
  BY <1>1, TopForm
<1>4. chain = below \cup {place} /\ chain \subseteq DOMAIN iters
  <2>1. chain \subseteq iters[call.path[1]].chain /\ iters[call.path[1]].chain \subseteq DOMAIN iters
    BY PathForm
  <2> QED
    BY <1>1, <1>3, <2>1 DEF IterOK
<1>5. /\ \A k \in DOMAIN iters : Continues(k)
      /\ \A k \in DOMAIN iters : iters'[k] = IF k = place THEN jt ELSE iters[k]
  BY <1>1, <1>2, Moves
<1>6. /\ \A i \in below : Came(i, o)
      /\ SomeDistinct(below) => \A n \in DOMAIN call.got : call.got[n] \notin EqualTo[o]
  BY <1>1 DEF Data, Climbing
<1>7. Came(place, o)'
  <2>1. SUFFICES ASSUME it.kind = "filter"
                 PROVE  Came(place, o)'
    BY <1>2, <1>3, <1>5 DEF Came, Follows
  <2>2. o \notin Falsy /\ Call(it, o).test # it.negate /\ ~Call(it, o).raised
    BY <1>1, <2>1 DEF Accepts, Passes, Raises
  <2>3. it.f \in DOMAIN Criteria /\ it.tests \in Readable[it.f]
    BY <1>3, <2>1 DEF IterOK
  <2>4. /\ iters'[place] = jt /\ jt.kind = "filter" /\ jt.f = it.f /\ jt.negate = it.negate /\ jt.distinct = it.distinct
        /\ jt.tests = Fresh(Criteria[it.f]) => it.tests = Fresh(Criteria[it.f])
    BY <1>2, <1>3, <1>5, <2>1 DEF Follows
  <2>5. MeetsIn(it.tests, place, o)'
    BY <2>2, <2>4 DEF MeetsIn, Call
  <2>6. it.distinct => o \in jt.seen
    BY <1>1, <1>2, <2>3, YieldedSaw DEF Shape
  <2>7. it.distinct => o \in Hashable
    BY <1>1, <2>1, <2>2 DEF Accepts, Raises
  <2> QED
    BY <2>2, <2>3, <2>4, <2>5, <2>6, <2>7 DEF Came
<1>8. ASSUME NEW i \in chain
      PROVE  Came(i, o)'
  <2>1. CASE i \in below
    BY <1>4, <1>5, <1>6, <2>1, CameStays
  <2>2. CASE i = place
    BY <1>7, <2>2
  <2> QED
    BY <1>4, <2>1, <2>2
<1>9. ASSUME it.distinct, NEW n \in DOMAIN call.got
      PROVE  call.got[n] \notin EqualTo[o]
  <2>1. it.kind = "filter"
    BY <1>2, <1>3, <1>9 DEF IterOK, Iterators
  <2>2. EqualTo[o] \cap it.seen = {}
    BY <1>1, <1>9, <2>1 DEF Accepts
  <2>3. Through(iters[call.path[1]].chain, call.got) /\ place \in iters[call.path[1]].chain
    BY <1>1, <1>4, PathForm DEF Data, Got, Pulling
  <2>4. Came(place, call.got[n])
    BY <1>9, <2>3 DEF Through
  <2>5. call.got[n] \in it.seen
    BY <1>3, <1>9, <2>1, <2>4 DEF Came
  <2> QED
    BY <2>2, <2>5
<1>10. SomeDistinct(chain)' => SomeDistinct(below) \/ it.distinct
  <2>1. SomeDistinct(chain)' => \E i \in chain : iters[i].distinct
    BY <1>4, <1>5 DEF SomeDistinct, Continues, Follows
  <2> QED
    BY <1>3, <1>4, <2>1 DEF SomeDistinct
<1> QED
  BY <1>6, <1>8, <1>9, <1>10

LEMMA EqualBack ==
  ASSUME NEW o \in Obj, NEW p \in Obj, p \in EqualTo[o]
  PROVE  o \in EqualTo[p]
BY DEF EqualTo

\* One more result, found after the others.
LEMMA OneMore ==
  ASSUME NEW results \in Seq(Obj), NEW o \in Obj, NEW list, NEW past \in Nat \ {0}, list[past] = o,
         Trail(results, list, past - 1)
  PROVE  Trail(Append(results, o), list, past)
<1>1. PICK at \in [DOMAIN results -> 1 .. past - 1] :
        /\ \A n \in DOMAIN results : list[at[n]] = results[n]
        /\ \A m, n \in DOMAIN results : m < n => at[m] < at[n]
  BY DEF Trail
<1>2. PICK more, len : more = Append(results, o) /\ len = Len(results)
  OBVIOUS
<1>3. /\ DOMAIN results = 1 .. len /\ DOMAIN more = 1 .. len + 1 /\ len \in Nat
      /\ more[len + 1] = o /\ \A n \in 1 .. len : more[n] = results[n]
  <2>1. more \in Seq(Obj) /\ Len(more) = len + 1
    BY <1>2, AppendProperties
  <2> QED
    BY <1>2, <2>1, SeqForm, AppendProperties
<1> DEFINE to == [n \in DOMAIN more |-> IF n = len + 1 THEN past ELSE at[n]]
<1>4. \A n \in 1 .. len : at[n] \in 1 .. past - 1 /\ to[n] = at[n] /\ n \in DOMAIN more
  BY <1>1, <1>3
<1>5. to[len + 1] = past /\ len + 1 \in DOMAIN more /\ past \in 1 .. past
  BY <1>3
<1>6. DOMAIN more = (1 .. len) \cup {len + 1}
  BY <1>3
<1>7. to \in [DOMAIN more -> 1 .. past]
  <2>1. ASSUME NEW n \in 1 .. len
        PROVE  to[n] \in 1 .. past
    <3>1. at[n] \in 1 .. past - 1 /\ to[n] = at[n]
      BY <1>4
    <3> HIDE DEF to
    <3> QED
      BY <3>1
  <2>2. to[len + 1] \in 1 .. past
    BY <1>5
  <2>3. \A n \in DOMAIN more : to[n] \in 1 .. past
    <3> HIDE DEF to
    <3> QED
      BY <1>6, <2>1, <2>2
  <2> QED
    BY <2>3
<1> HIDE DEF to
<1>8. \A n \in DOMAIN more : list[to[n]] = more[n]
  BY <1>1, <1>3, <1>4, <1>5, <1>6
<1>9. ASSUME NEW m \in DOMAIN more, NEW n \in DOMAIN more, m < n
      PROVE  to[m] < to[n]
  <2>1. m \in 1 .. len
    BY <1>3, <1>9
  <2>2. CASE n \in 1 .. len
    BY <1>1, <1>3, <1>4, <1>9, <2>1, <2>2
  <2>3. CASE n = len + 1
    <3>1. at[m] \in 1 .. past - 1 /\ to[m] = at[m] /\ to[n] = past
      BY <1>4, <1>5, <2>1, <2>3
    <3> QED
      BY <3>1
  <2> QED
    BY <1>6, <2>2, <2>3
<1> QED
  BY <1>2, <1>7, <1>8, <1>9 DEF Trail

LEMMA YieldData ==
  ASSUME Shape, Shape', Data, Yield
  PROVE  Data'
<1>1. PICK jt, o, place, chain, i, root, results :
        /\ jt = Yielded(Top, call.obj) /\ o = call.obj /\ place = Place /\ chain = iters[place].chain
        /\ i = call.path[1] /\ root = Root(i) /\ results = call.got
  OBVIOUS
<1>2. /\ Pulling /\ call.obj # NoObj /\ UNCHANGED <<lists, queries>>
      /\ Accepts(Top, call.obj) /\ ~Raises(Top, call.obj)
      /\ \/ Len(call.path) > 1 /\ call' = [call EXCEPT !.path = Front(@)] /\ iters' = WithTop(jt)
         \/ call' = NoCall /\ iters' = Kept(WithTop(jt))
         \/ ~(Len(call.path) > 1) /\ call' = [call EXCEPT !.got = Append(@, call.obj), !.obj = NoObj] /\ iters' = WithTop(jt)
  BY <1>1 DEF Yield, End
<1>3. jt \in Iterators /\ Follows(Top, jt) /\ o \in Obj
  BY <1>1, <1>2, ClimbForm
<1>4. CASE call' = NoCall /\ iters' = Kept(WithTop(jt))
  <2>1. PICK its : its = WithTop(jt)
    OBVIOUS
  <2> QED
    BY <1>2, <1>3, <1>4, <2>1, TopFollows, EndData
<1>5. ASSUME iters' = WithTop(jt)
      PROVE  /\ \A k \in DOMAIN iters : Continues(k)
             /\ i \in DOMAIN iters /\ root \in DOMAIN iters /\ Root(i)' = root /\ iters'[i].chain = iters[i].chain
             /\ place \in DOMAIN iters /\ iters'[place].chain = chain /\ chain \subseteq iters[i].chain
             /\ iters[i].chain \subseteq DOMAIN iters
             /\ Past(root)' = Past(root) /\ ListOf(root)' = ListOf(root)
             /\ \A k \in chain : Came(k, o)'
             /\ SomeDistinct(chain)' => \A n \in DOMAIN results : results[n] \notin EqualTo[o]
  <2>1. /\ \A k \in DOMAIN iters : Continues(k)
        /\ \A k \in DOMAIN iters : iters'[k] = IF k = Place THEN jt ELSE iters[k]
    BY <1>2, <1>3, <1>5, Moves
  <2>2. /\ i \in DOMAIN iters /\ root \in DOMAIN iters /\ chain \subseteq iters[i].chain
        /\ iters[i].chain \subseteq DOMAIN iters
    BY <1>1, <1>2, PathForm
  <2>3. /\ place \in DOMAIN iters /\ Top = iters[place] /\ IterOK(place)
    BY <1>1, <1>2, TopForm
  <2>4. \A k \in DOMAIN iters : iters'[k].chain = iters[k].chain
    BY <2>1 DEF Continues, Follows
  <2>5. iters'[root].kind = iters[root].kind /\ iters'[root].src = iters[root].src /\ iters'[root].pos = iters[root].pos
    <3>1. jt.kind = Top.kind /\ jt.src = Top.src /\ jt.pos = Top.pos
      <4>1. TypeOK /\ Top \in Iterators /\ (Top.kind = "filter" => Top.f \in DOMAIN Criteria /\ Top.tests \in Readable[Top.f])
        BY <1>2, <2>3, TopForm DEF IterOK, Shape
      <4> QED
        BY <1>1, <1>3, <4>1, TestedForm
    <3> QED
      BY <1>1, <2>1, <2>2, <2>3, <3>1
  <2>6. /\ \A k \in chain : Came(k, o)'
        /\ SomeDistinct(chain)' => \A n \in DOMAIN call.got : call.got[n] \notin EqualTo[o]
    BY <1>1, <1>2, <1>5, Accepted
  <2>7. Root(i)' = root
    BY <1>1, <2>2, <2>4 DEF Root
  <2> QED
    BY <1>1, <1>2, <2>1, <2>2, <2>3, <2>4, <2>5, <2>6, <2>7, SamePast
<1>6. /\ call \in Calls /\ call.path \in Seq(Nat) /\ call.path # <<>> /\ results \in Seq(Obj)
      /\ Len(call.path) \in Nat \ {0} /\ DOMAIN call.path = 1 .. Len(call.path)
  <2>1. call \in Calls /\ call.path \in Seq(Nat) /\ call.path # <<>> /\ results \in Seq(Obj)
    BY <1>1, <1>2 DEF Shape, TypeOK, Calls, Pulling
  <2> QED
    BY <2>1, EmptySeq, SeqForm
<1>7. PICK list, past : list = ListOf(root) /\ past = Past(root)
  OBVIOUS
<1>8. past \in 1 .. Len(list) /\ o = list[past] /\ past \in Nat \ {0}
  <2>1. past \in 1 .. Len(list) /\ o = list[past]
    BY <1>1, <1>2, <1>7 DEF Data, Climbing
  <2>2. past \in Nat
    <3>1. root \in DOMAIN iters /\ iters[root].src.kind = "list"
      BY <1>1, <1>2, PathForm, RootForm
    <3> QED
      BY <1>7, <3>1, WalksNow DEF Walks, Walk
  <2> QED
    BY <2>1, <2>2
<1>9. CASE Len(call.path) > 1 /\ call' = [call EXCEPT !.path = Front(@)] /\ iters' = WithTop(jt)
  <2>1. PICK n, before : n = Len(call.path) /\ before = call.path[n - 1]
    OBVIOUS
  <2>2. /\ Front(call.path) \in Seq(Nat) /\ Len(Front(call.path)) = n - 1
        /\ \A k \in 1 .. n - 1 : Front(call.path)[k] = call.path[k]
    BY <1>6, <2>1, Fronted
  <2>3. /\ call'.path = Front(call.path) /\ call'.got = call.got /\ call'.obj = call.obj
    BY <1>6, <1>9, <2>2 DEF Calls
  <2>4. n \in DOMAIN call.path /\ n > 1 /\ n - 1 \in 1 .. n - 1 /\ 1 \in 1 .. n - 1 /\ n - 1 \in DOMAIN call.path
    BY <1>6, <1>9, <2>1
  <2>5. Len(call'.path) = n - 1 /\ call'.path[n - 1] = before /\ call'.path[1] = i /\ call'.path # <<>>
    BY <1>1, <2>1, <2>2, <2>3, <2>4, EmptySeq
  <2>6. before \in DOMAIN iters /\ iters[before].src = IterRef(place)
    BY <1>1, <2>1, <2>4 DEF Shape, CallOK, Place
  <2>7. iters'[before].src = IterRef(place)
    BY <1>5, <1>9, <2>6 DEF Continues, Follows
  <2>8. Top' = iters'[before]
    BY <2>5 DEF Top
  <2>9. ChainTo(Top.src)' = chain
    BY <1>5, <1>9, <2>7, <2>8 DEF ChainTo, IterRef
  <2>10. Got'
    <3>1. Grown
      BY <1>2, SameLists DEF Shape
    <3> QED
      BY <1>1, <1>2, <1>5, <1>9, <2>3, <2>5, <3>1, GotStays DEF Data
  <2>11. Climbing'
    <3>1. Past(root)' = past /\ ListOf(root)' = list /\ Root(i)' = root
      BY <1>5, <1>7, <1>9
    <3>2. call'.path[1] = i /\ call'.obj = o /\ call'.got = results
      BY <1>1, <2>3, <2>5
    <3>3. /\ \A k \in chain : Came(k, o)'
          /\ SomeDistinct(chain)' => \A m \in DOMAIN results : results[m] \notin EqualTo[o]
      BY <1>5, <1>9
    <3> QED
      BY <1>8, <2>9, <3>1, <3>2, <3>3 DEF Climbing
  <2> QED
    BY <1>2, <1>5, <1>9, <2>10, <2>11, RunData
<1>10. CASE /\ ~(Len(call.path) > 1) /\ iters' = WithTop(jt)
            /\ call' = [call EXCEPT !.got = Append(@, call.obj), !.obj = NoObj]
  <2>1. Len(call.path) = 1 /\ place = i
    <3>1. Len(call.path) = 1
      <4>1. \A k \in Nat \ {0} : ~(k > 1) => k = 1
        OBVIOUS
      <4>2. ~(Len(call.path) > 1)
        BY <1>10
      <4> QED
        BY <1>6, <4>1, <4>2
    <3> QED
      BY <1>1, <3>1 DEF Place
  <2>2. PICK more : more = Append(results, o)
    OBVIOUS
  <2>3. /\ call'.path = call.path /\ call'.got = more /\ call'.obj = NoObj
        /\ more \in Seq(Obj) /\ Len(more) = Len(results) + 1 /\ DOMAIN more = 1 .. Len(results) + 1
        /\ DOMAIN results = 1 .. Len(results) /\ Len(results) \in Nat
        /\ more[Len(results) + 1] = o /\ \A n \in 1 .. Len(results) : more[n] = results[n] /\ results[n] \in Obj
    <3>1. /\ more \in Seq(Obj) /\ Len(more) = Len(results) + 1
          /\ more[Len(results) + 1] = o /\ \A n \in 1 .. Len(results) : more[n] = results[n]
      BY <1>3, <1>6, <2>2, AppendProperties
    <3> QED
      BY <1>1, <1>6, <1>10, <2>2, <3>1, SeqForm DEF Calls
  <2>4. Through(chain, results)' /\ chain \subseteq DOMAIN iters
    <3>1. Through(chain, results)
      BY <1>1, <1>2, <2>1 DEF Data, Got, Pulling
    <3> QED
      BY <1>5, <1>10, <3>1, ThroughStays
  <2>5. \A n \in DOMAIN more : n \in 1 .. Len(results) \/ n = Len(results) + 1
    BY <2>3
  <2>6. \A n \in DOMAIN more : \A k \in chain : Came(k, more[n])'
    <3>1. \A n \in DOMAIN results : \A k \in chain : Came(k, results[n])'
      BY <2>4 DEF Through
    <3>2. \A k \in chain : Came(k, o)'
      BY <1>5, <1>10
    <3>3. SUFFICES ASSUME NEW n \in DOMAIN more, NEW k \in chain
                   PROVE  Came(k, more[n])'
      OBVIOUS
    <3>4. CASE n \in 1 .. Len(results)
      BY <2>3, <3>1, <3>4
    <3>5. CASE n = Len(results) + 1
      BY <2>3, <3>2, <3>5
    <3> QED
      BY <2>5, <3>4, <3>5
  <2>7. SomeDistinct(chain)' => Different(more)
    <3>1. SUFFICES ASSUME SomeDistinct(chain)', NEW m \in DOMAIN more, NEW n \in DOMAIN more, more[m] \in EqualTo[more[n]]
                   PROVE  m = n
      BY DEF Different
    <3>2. \A k \in DOMAIN results : results[k] \notin EqualTo[o]
      BY <1>5, <1>10, <3>1
    <3>3. \A k \in DOMAIN results : o \notin EqualTo[results[k]]
      BY <1>3, <2>3, <3>2, EqualBack
    <3>4. \A k, l \in DOMAIN results : results[k] \in EqualTo[results[l]] => k = l
      BY <2>4, <3>1 DEF Through, Different
    <3>5. CASE m \in 1 .. Len(results) /\ n \in 1 .. Len(results)
      BY <2>3, <3>1, <3>4, <3>5
    <3>6. CASE m \in 1 .. Len(results) /\ n = Len(results) + 1
      BY <2>3, <3>1, <3>2, <3>6
    <3>7. CASE m = Len(results) + 1 /\ n \in 1 .. Len(results)
      BY <2>3, <3>1, <3>3, <3>7
    <3> QED
      BY <2>5, <3>5, <3>6, <3>7
  <2>8. Trail(more, list, past)
    <3>1. Trail(results, list, past - 1)
      BY <1>1, <1>2, <1>7 DEF Data, Got, Pulling
    <3> QED
      BY <1>3, <1>6, <1>8, <2>2, <3>1, OneMore
  <2>9. Got'
    <3>1. Past(root)' = past /\ ListOf(root)' = list /\ Root(i)' = root /\ iters'[i].chain = chain
      BY <1>1, <1>5, <1>7, <1>10, <2>1
    <3>2. call'.path[1] = i /\ call'.obj = NoObj /\ call'.got = more
      BY <1>1, <2>3
    <3>3. Through(chain, more)'
      BY <2>6, <2>7 DEF Through, Different
    <3> QED
      BY <2>8, <3>1, <3>2, <3>3 DEF Got
  <2>10. Climbing'
    BY <2>3 DEF Climbing
  <2> QED
    BY <1>2, <1>5, <1>10, <2>9, <2>10, RunData
<1> QED
  BY <1>2, <1>4, <1>9, <1>10

\* all() of a query, over a list and over a generator.
LEMMA ResultCacheData ==
  ASSUME Shape, Shape', Data, ResultCache
  PROVE  Data'
<1>1. PICK q, src : q = call.query /\ src = queries[q].src
  OBVIOUS
<1>2. call.op = "all" /\ call.path = <<>> /\ q \in DOMAIN queries /\ call.got = <<>> /\ call.obj = NoObj
  BY <1>1 DEF ResultCache, Pulling, Shape, CallOK
<1>3. CASE src.kind # "list"
  <2>1. call' = [call EXCEPT !.path = <<src.id>>] /\ UNCHANGED <<lists, iters, queries>>
    BY <1>1, <1>3 DEF ResultCache
  <2>2. Begins'
    BY <1>2, <2>1 DEF Begins, Shape, TypeOK, Calls
  <2>3. \A i \in DOMAIN iters : Continues(i)
    BY <2>1, SameIters
  <2> QED
    BY <2>1, <2>2, <2>3, NothingGotNext, RunData
<1>4. CASE src.kind = "list"
  <2>1. PICK elems : elems = lists[src.id]
    OBVIOUS
  <2>2. Reaches(src, Known) /\ queries \in Seq(Queries) /\ queries[q] \in Queries
    BY <1>1, <1>2, QueryForm DEF QueryOK, Shape, TypeOK
  <2>3. src.id \in DOMAIN lists /\ elems \in Seq(Obj)
    BY <1>4, <2>1, <2>2, SeqForm DEF Reaches, Shape, TypeOK
  <2>4. StoreResults(q, elems, iters)
    BY <1>1, <1>4, <2>1 DEF ResultCache
  <2>5. lists' = Append(lists, elems) /\ call' = NoCall
    BY <2>4 DEF StoreResults, Stored, End
  <2>6. PICK ref : queries' = [queries EXCEPT ![q].cache = ref, ![q].pulled = elems]
    BY <2>4 DEF StoreResults
  <2>7. Grown /\ lists'[src.id] = elems
    BY <2>1, <2>3, <2>5, ListAdded DEF Shape
  <2>8. UNCHANGED iters \/ \E g : iters' = Append(iters, g)
    BY <2>4 DEF StoreResults
  <2>9. \A i \in 1 .. Known : Continues(i)
    <3>1. ASSUME NEW g, iters' = Append(iters, g)
          PROVE  \A i \in DOMAIN iters : Continues(i)
      <4>1. g \in Iterators
        BY <3>1, AppendedIsIn DEF Shape, TypeOK
      <4> QED
        BY <3>1, <4>1, IterAppended
    <3> QED
      BY <2>8, <3>1, SameIters, KnownIters
  <2>10. /\ DOMAIN queries' = DOMAIN queries /\ \A k \in DOMAIN queries : k # q => queries'[k] = queries[k]
         /\ queries'[q].src = src /\ queries'[q].pulled = elems
    BY <1>1, <1>2, <2>2, <2>6 DEF Queries
  <2>11. Quiet({q})
    BY <2>7, <2>9, <2>10 DEF Quiet
  <2>12. \A k \in DOMAIN queries' \ {q} : Results(k)'
    BY <2>11, ResultsKept DEF Data
  <2>13. Results(q)'
    <3>1. Trail(elems, elems, Len(elems))
      <4>1. PICK at : at = [n \in 1 .. Len(elems) |-> n]
        OBVIOUS
      <4>2. DOMAIN elems = 1 .. Len(elems)
        BY <2>3, SeqForm
      <4>3. at \in [DOMAIN elems -> 1 .. Len(elems)] /\ \A n \in DOMAIN elems : at[n] = n
        BY <4>1, <4>2
      <4> QED
        BY <4>3 DEF Trail
    <3>2. Source(src)' = elems
      BY <1>4, <2>7 DEF Source
    <3>3. ChainTo(src)' = {}
      BY <1>4 DEF ChainTo
    <3>4. Through({}, elems)'
      BY DEF Through, SomeDistinct
    <3> QED
      BY <2>10, <3>1, <3>2, <3>3, <3>4 DEF Results
  <2>14. Begins'
    BY <2>5 DEF NoCall, Begins
  <2> QED
    BY <2>12, <2>13, <2>14, NothingGotNext DEF Data
<1> QED
  BY <1>3, <1>4

\* The results of a generator that has ended are those of its query.
LEMMA ResultsConsumedData ==
  ASSUME Shape, Shape', Data, ResultsConsumed
  PROVE  Data'
<1>1. PICK q, src, its, results, i, root, chain :
        /\ q = call.query /\ src = queries[q].src /\ its = Finished({}) /\ results = call.got
        /\ i = call.path[1] /\ root = Root(i) /\ chain = iters[i].chain
  OBVIOUS
<1>2. /\ call.op = "all" /\ Pulling /\ call.obj = NoObj /\ q \in DOMAIN queries /\ src = IterRef(i)
      /\ StoreResults(q, results, its) /\ results \in Seq(Obj)
  BY <1>1 DEF ResultsConsumed, Exhausted, Pulling, Shape, TypeOK, Calls, CallOK
<1>3. queries \in Seq(Queries) /\ queries[q] \in Queries
  BY <1>2, QueryForm DEF Shape, TypeOK
<1>4. lists' = Append(lists, results) /\ call' = NoCall
  BY <1>2 DEF StoreResults, Stored, End
<1>5. PICK ref : queries' = [queries EXCEPT ![q].cache = ref, ![q].pulled = results]
  BY <1>2 DEF StoreResults
<1>6. Grown
  BY <1>2, <1>4, ListAdded DEF Shape
<1>7. iters' = its \/ \E g : iters' = Append(its, g)
  BY <1>2 DEF StoreResults
<1>8. \A k \in DOMAIN iters : Continues(k)
  <2>1. /\ its \in Seq(Iterators) /\ Len(its) = Len(iters)
        /\ \A k \in DOMAIN iters : Follows(iters[k], its[k])
    BY <1>1, FinishedFollows
  <2>2. iters' \in Seq(Iterators) /\ DOMAIN iters = 1 .. Len(iters) /\ Len(iters) \in Nat
    BY SeqForm DEF Shape, TypeOK
  <2>3. ASSUME NEW g, iters' = Append(its, g)
        PROVE  Len(iters) <= Len(iters') /\ \A k \in DOMAIN iters : iters'[k] = its[k]
    <3>1. g \in Iterators
      BY <2>1, <2>2, <2>3, AppendedIsIn
    <3>2. Len(iters') = Len(its) + 1 /\ \A k \in 1 .. Len(its) : iters'[k] = its[k]
      BY <2>1, <2>3, <3>1, AppendProperties
    <3> QED
      BY <2>1, <2>2, <3>2
  <2>4. Len(iters) <= Len(iters') /\ \A k \in DOMAIN iters : iters'[k] = its[k]
    BY <1>7, <2>1, <2>2, <2>3
  <2> QED
    BY <2>1, <2>2, <2>4, AllContinue
<1>9. /\ DOMAIN queries' = DOMAIN queries /\ \A k \in DOMAIN queries : k # q => queries'[k] = queries[k]
      /\ queries'[q].src = src /\ queries'[q].pulled = results
  BY <1>1, <1>2, <1>3, <1>5 DEF Queries
<1>10. Quiet({q})
  BY <1>6, <1>8, <1>9, KnownIters DEF Quiet
<1>11. \A k \in DOMAIN queries' \ {q} : Results(k)'
  BY <1>10, ResultsKept DEF Data
<1>12. Results(q)'
  <2>1. /\ i \in DOMAIN iters /\ chain \subseteq DOMAIN iters /\ root \in DOMAIN iters
        /\ \A j \in 1 .. i : j \in DOMAIN iters
    BY <1>1, <1>2, PathForm
  <2>2. Through(chain, results) /\ Trail(results, ListOf(root), Past(root))
    BY <1>1, <1>2 DEF Data, Got, Pulling
  <2>3. Through(chain, results)'
    BY <1>8, <2>1, <2>2, ThroughStays
  <2>4. Trail(results, ListOf(root), Len(ListOf(root)))
    <3>1. PICK list, past : list = ListOf(root) /\ past = Past(root)
      OBVIOUS
    <3>2. past \in 0 .. Len(list) /\ Len(list) \in Nat /\ past \in Nat
      BY <1>1, <2>1, <3>1, WalksNow, RootForm DEF Walks, Walk
    <3>3. past \in Int /\ Len(list) \in Int /\ past + 0 <= Len(list) /\ \A k \in 1 .. past : list[k + 0] = list[k]
      BY <3>2
    <3> QED
      BY <2>2, <3>1, <3>3, TrailShifts
  <2>5. Root(i)' = root /\ Trail(results, ListOf(root), Len(ListOf(root)))'
    BY <1>1, <1>6, <1>8, <2>1, <2>4, TrailStays
  <2>6. iters'[i].chain = chain
    BY <1>1, <1>8, <2>1 DEF Continues, Follows
  <2>7. src.kind = "iter" /\ src.id = i
    BY <1>2 DEF IterRef
  <2>8. ChainTo(src)' = chain
    BY <2>6, <2>7 DEF ChainTo
  <2>9. PICK list : list = ListOf(root)'
    OBVIOUS
  <2>10. Source(src)' = list
    BY <2>5, <2>7, <2>9 DEF Source
  <2>11. Trail(results, list, Len(list))
    BY <2>5, <2>9 DEF Trail
  <2> QED
    BY <1>9, <2>3, <2>8, <2>10, <2>11 DEF Results
<1>13. Begins'
  BY <1>4 DEF NoCall, Begins
<1> QED
  BY <1>11, <1>12, <1>13, NothingGotNext DEF Data
-----------------------------------------------------------------------------
(* The theorems                                                              *)

IInv == Shape /\ Data

LEMMA InitData == Init => IInv
<1> SUFFICES ASSUME Init
             PROVE  IInv
  OBVIOUS
<1>1. Shape
  BY InitShape
<1>2. DOMAIN queries = {} /\ Begins
  BY DEF Init, NoCall, Begins
<1> QED
  BY <1>1, <1>2, NothingGot DEF IInv, Data

LEMMA NextData == IInv /\ [Next]_vars => IInv'
<1> SUFFICES ASSUME Shape, Data, [Next]_vars
             PROVE  Shape' /\ Data'
  BY DEF IInv
<1>1. Shape'
  BY NextShape
<1>2. CASE Run
  BY <1>1, <1>2, DescendData, FetchData, SkipData, YieldData, RaiseData, ResultCacheData,
     ResultsConsumedData DEF Run
<1>3. CASE Program
  <2>1. ASSUME NEW q \in DOMAIN queries,
               \/ OrderBy(q) \/ Ask(q) \/ Iterate(q) \/ Measure(q) \/ FirstOf(q) \/ LastOf(q) \/ ReverseOf(q)
               \/ \E o \in Added : LookFor(q, o)
               \/ \E r \in Refinements : Refine(q, r)
               \/ \E op \in {"next", "get"}, f \in Probes : Probe(op, q, f)
               \/ \E o \in DOMAIN queries : Union(q, o) \/ \E b \in BOOLEAN : Compare(q, o, b)
        PROVE  Data'
    <3>1. CASE OrderBy(q) \/ ReverseOf(q) \/ \E r \in Refinements : Refine(q, r)
      BY <1>1, <3>1, MakingQuiet
    <3>2. CASE Measure(q) \/ FirstOf(q) \/ LastOf(q)
      BY <1>1, <3>2, AnswerData DEF Measure, FirstOf, LastOf
    <3>3. CASE \/ Ask(q) \/ Iterate(q)
               \/ \E o \in Added : LookFor(q, o)
               \/ \E op \in {"next", "get"}, f \in Probes : Probe(op, q, f)
      BY <1>1, <3>3, BeginsQuiet
    <3>4. CASE \E o \in DOMAIN queries : Union(q, o) \/ \E b \in BOOLEAN : Compare(q, o, b)
      BY <1>1, <3>4, ListQuiet
    <3> QED
      BY <2>1, <3>1, <3>2, <3>3, <3>4
  <2> QED
    BY <1>1, <1>3, <2>1, MakingQuiet, ListQuiet DEF Program
<1>4. CASE UNCHANGED vars
  BY <1>1, <1>4, AnswerData DEF vars
<1> QED
  BY <1>1, <1>2, <1>3, <1>4 DEF Next

\* Whatever interleaves, every result of a query went through all of its
\* chain, and the results are where they were found, one after the other.
THEOREM ResultsAreTraced == Spec => []IInv
<1> QED
  BY InitData, NextData, PTL DEF Spec

LEMMA KnownForm ==
  ASSUME Shape
  PROVE  /\ DOMAIN iters = 1 .. Len(iters) /\ Len(iters) \in Nat /\ Known \in Nat /\ Known <= Len(iters)
         /\ 1 .. Known \subseteq DOMAIN iters
<1>1. DOMAIN iters = 1 .. Len(iters) /\ Len(iters) \in Nat
  BY SeqForm DEF Shape, TypeOK
<1>2. Probing => Len(iters) # 0
  <2>1. Probing => call.path \in Seq(Nat) /\ call.path # <<>> /\ call.path[1] = Len(iters)
    BY DEF Shape, TypeOK, CallOK, Calls, Probing
  <2>2. Probing => 1 \in DOMAIN call.path
    BY <2>1, EmptySeq, SeqForm
  <2>3. Probing => Len(iters) \in DOMAIN iters
    BY <2>1, <2>2 DEF Shape, CallOK
  <2> QED
    BY <1>1, <2>3
<1>3. Known \in Nat /\ Known <= Len(iters)
  BY <1>1, <1>2 DEF Known
<1> QED
  BY <1>1, <1>3

\* A query refined with distinct, directly or before, has no equal results,
\* and none that cannot be hashed, although other queries consume the generator
\* that remembers what it saw.
THEOREM DistinctResults == Spec => []ResultsDistinct
<1>1. ASSUME IInv
      PROVE  ResultsDistinct
  <2> SUFFICES ASSUME NEW q \in DOMAIN queries, NEW i \in ChainOf(q), iters[i].distinct
               PROVE  /\ ToSet(queries[q].pulled) \subseteq Hashable
                      /\ \A m, n \in DOMAIN queries[q].pulled :
                             queries[q].pulled[m] \in EqualTo[queries[q].pulled[n]] => m = n
    BY DEF ResultsDistinct
  <2>1. Through(ChainOf(q), queries[q].pulled)
    BY <1>1 DEF IInv, Data, Results, ChainOf
  <2>2. Different(queries[q].pulled)
    BY <2>1 DEF Through, SomeDistinct
  <2>3. i \in DOMAIN iters /\ iters[i].kind = "filter"
    <3>1. Shape /\ Known \in Nat /\ Known <= Len(iters)
      BY <1>1, KnownForm DEF IInv
    <3>2. Reaches(queries[q].src, Known)
      BY <3>1 DEF Shape, QueryOK
    <3>3. i \in DOMAIN iters
      BY <3>1, <3>2, ChainForm DEF ChainOf
    <3>4. iters[i] \in Iterators /\ IterOK(i)
      BY <3>1, <3>3 DEF Shape, TypeOK
    <3> QED
      BY <3>3, <3>4 DEF IterOK, Iterators
  <2>4. \A n \in DOMAIN queries[q].pulled : queries[q].pulled[n] \in Hashable
    BY <2>1, <2>3 DEF Through, Came
  <2> QED
    BY <2>2, <2>4 DEF Different, ToSet
<1> QED
  BY <1>1, ResultsAreTraced, PTL

\* A query holds only objects that meet the criteria of its whole chain: as they
\* were given while no filter of it was rewritten, and otherwise in one of the
\* ways the filter may come to be read.
THEOREM MatchingResults == Spec => []ResultsMatch
<1>1. ASSUME IInv
      PROVE  ResultsMatch
  <2>1. SUFFICES ASSUME NEW q \in DOMAIN queries, NEW n \in DOMAIN queries[q].pulled, NEW o, o = queries[q].pulled[n]
                 PROVE  IF Unmoved(q) THEN FreshMeets(q, o) ELSE MayMeet(q, o)
    BY DEF ResultsMatch
  <2>2. \A i \in ChainOf(q) : Came(i, o)
    BY <1>1, <2>1 DEF IInv, Data, Results, Through, ChainOf
  <2>3. \A i \in FiltersOf(q) : \E r \in Readable[iters[i].f] :
            /\ MeetsIn(r, i, o)
            /\ iters[i].tests = Fresh(Criteria[iters[i].f]) => r = Fresh(Criteria[iters[i].f])
    BY <2>2 DEF FiltersOf, Came
  <2> QED
    BY <2>3 DEF Unmoved, FreshMeets, MayMeet
<1> QED
  BY <1>1, ResultsAreTraced, PTL

\* Going through the list once finds what has places that follow each other.
LEMMA TrailFound ==
  ASSUME NEW results \in Seq(Obj), NEW list \in Seq(Obj), Trail(results, list, Len(list))
  PROVE  FoundInOrder(results, list)
<1> DEFINE N == Len(results)
           at[n \in 0 .. Len(results)] == IF n = 0 THEN 0 ELSE NextAt(list, results[n], at[n - 1])
           F == [n \in 1 .. N |-> [k \in Nat |-> NextAt(list, results[n], k)]]
           Finds(g) == g = [n \in 0 .. N |-> IF n = 0 THEN 0 ELSE NextAt(list, results[n], g[n - 1])]
<1>1. PICK to \in [DOMAIN results -> 1 .. Len(list)] :
        /\ \A n \in DOMAIN results : list[to[n]] = results[n]
        /\ \A m, n \in DOMAIN results : m < n => to[m] < to[n]
  BY DEF Trail
<1>2. N \in Nat /\ DOMAIN results = 1 .. N /\ DOMAIN list = 1 .. Len(list) /\ Len(list) \in Nat
  BY SeqForm
<1>3. ASSUME NEW o, NEW k \in Nat
      PROVE  /\ NextAt(list, o, k) \in Nat
             /\ \A i \in DOMAIN list : i > k /\ list[i] = o => NextAt(list, o, k) <= i
  <2> DEFINE T == {i \in DOMAIN list : i > k /\ list[i] = o} \cup {Len(list) + 1}
  <2>1. T \subseteq Nat /\ T # {}
    BY <1>2
  <2>2. NextAt(list, o, k) = Min(T)
    BY DEF NextAt
  <2>3. Min(T) \in T /\ \A i \in T : Min(T) <= i
    <3> HIDE DEF T
    <3> QED
      BY <2>1, MinIsLeast
  <2> QED
    BY <2>1, <2>2, <2>3
<1>4. F \in [1 .. N -> [Nat -> Nat]]
  BY <1>3
<1>5. PICK g : Iterates(g, Nat, 0, N, F)
  <2> HIDE DEF N, F
  <2> QED
    BY <1>2, <1>4, Iterated
<1>6. Finds(g)
  <2>1. ASSUME NEW n \in 0 .. N
        PROVE  g[n] = IF n = 0 THEN 0 ELSE NextAt(list, results[n], g[n - 1])
    <3>1. CASE n = 0
      BY <1>5, <3>1 DEF Iterates
    <3>2. CASE n # 0
      <4>1. n \in 1 .. N /\ n - 1 \in 0 .. N
        BY <1>2, <3>2
      <4>2. g[n - 1] \in Nat
        BY <1>5, <4>1 DEF Iterates
      <4>3. F[n][g[n - 1]] = NextAt(list, results[n], g[n - 1])
        BY <4>1, <4>2
      <4> QED
        BY <1>5, <3>2, <4>1, <4>3 DEF Iterates
    <3> QED
      BY <3>1, <3>2
  <2> HIDE DEF F
  <2> QED
    BY <1>5, <2>1 DEF Iterates
<1>7. Finds(at)
  <2>1. \E f : Finds(f)
    BY <1>6
  <2> QED
    BY <2>1
<1> HIDE DEF at, F
<1> DEFINE Behind(n) == at[n] \in Nat /\ (IF n = 0 THEN at[n] = 0 ELSE at[n] <= to[n])
           T == {n \in 0 .. N : ~Behind(n)}
<1>8. T = {}
  <2>1. SUFFICES ASSUME T # {}
                 PROVE  FALSE
    OBVIOUS
  <2>2. PICK n \in T : \A m \in T : n <= m
    <3>1. T \subseteq Nat
      BY <1>2
    <3> HIDE DEF T
    <3> QED
      BY <2>1, <3>1, LeastNumber
  <2>3. n # 0
    BY <1>2, <1>7, <2>2
  <2>4. n \in 1 .. N /\ n - 1 \in 0 .. N /\ ~(n <= n - 1)
    BY <1>2, <2>2, <2>3
  <2>5. Behind(n - 1)
    BY <2>2, <2>4
  <2>6. at[n] = NextAt(list, results[n], at[n - 1])
    BY <1>7, <2>2, <2>3, <2>4
  <2>7. to[n] \in DOMAIN list /\ list[to[n]] = results[n] /\ to[n] > at[n - 1]
    <3>1. to[n] \in DOMAIN list /\ list[to[n]] = results[n] /\ to[n] \in Nat \ {0}
      BY <1>1, <1>2, <2>4
    <3>2. CASE n - 1 = 0
      BY <2>5, <3>1, <3>2
    <3>3. CASE n - 1 # 0
      <4>1. n - 1 \in 1 .. N /\ n - 1 < n
        BY <1>2, <2>4, <3>3
      <4>2. to[n - 1] < to[n] /\ to[n - 1] \in Nat
        <5>1. n \in DOMAIN results /\ n - 1 \in DOMAIN results
          BY <1>2, <2>4, <4>1
        <5>2. PICK k : k = n - 1
          OBVIOUS
        <5>3. to[k] < to[n]
          BY <1>1, <4>1, <5>1, <5>2
        <5>4. to[k] \in 1 .. Len(list)
          BY <1>1, <5>1, <5>2
        <5>5. to[k] \in Nat
          BY <1>2, <5>4
        <5> QED
          BY <5>2, <5>3, <5>5
      <4>3. at[n - 1] <= to[n - 1] /\ at[n - 1] \in Nat
        BY <2>5, <3>3
      <4> QED
        BY <3>1, <4>2, <4>3
    <3> QED
      BY <3>2, <3>3
  <2>8. at[n] <= to[n] /\ at[n] \in Nat
    BY <1>3, <2>5, <2>6, <2>7
  <2> QED
    BY <2>2, <2>3, <2>8
<1>9. at[N] <= Len(list)
  <2>1. N \in 0 .. N /\ Behind(N)
    <3>1. N \in 0 .. N
      BY <1>2
    <3> HIDE DEF Behind
    <3> QED
      BY <1>8, <3>1
  <2>2. CASE N = 0
    BY <1>2, <2>1, <2>2
  <2>3. CASE N # 0
    <3>1. N \in DOMAIN results
      BY <1>2, <2>3
    <3>2. to[N] \in 1 .. Len(list)
      BY <1>1, <3>1
    <3> QED
      BY <1>2, <2>1, <2>3, <3>2
  <2> QED
    BY <2>2, <2>3
<1> QED
  BY <1>9 DEF FoundInOrder, at

\* The results of a query are in the order of the list it goes through, and
\* no object of the list comes twice, although several queries move the same
\* generator and the list grows meanwhile.
THEOREM OrderedResults == Spec => []ResultsInOrder
<1>1. ASSUME IInv, NEW q \in DOMAIN queries, NEW list, list = Gone(q)
      PROVE  /\ FoundInOrder(queries[q].pulled, list)
             /\ call.query = q => FoundInOrder(call.got, list)
  <2>1. Shape /\ Data
    BY <1>1 DEF IInv
  <2>2. PICK src : src = queries[q].src
    OBVIOUS
  <2>3. Reaches(src, Known) /\ queries[q] \in Queries /\ q \in Nat \ {0}
    <3>1. Reaches(src, Known) /\ queries[q] \in Queries
      BY <2>1, <2>2, QueryForm DEF QueryOK
    <3>2. q \in Nat \ {0}
      BY <2>1, SeqForm DEF Shape, TypeOK
    <3> QED
      BY <3>1, <3>2
  <2>4. list = Source(src) /\ list \in Seq(Obj)
    <3>1. CASE src.kind = "iter"
      <4>1. PICK i, root : i = src.id /\ root = Root(src.id)
        OBVIOUS
      <4>2. i \in DOMAIN iters /\ ChainOf(q) = iters[i].chain
        BY <2>1, <2>2, <3>1, <4>1, QueryForm DEF ChainOf, ChainTo
      <4>3. root \in DOMAIN iters /\ iters[root].src.kind = "list" /\ root \in iters[i].chain
        BY <2>1, <4>1, <4>2, RootForm
      <4>4. list = ListOf(root)
        BY <1>1, <4>1, <4>2, <4>3 DEF Gone, ListOf, Root
      <4>5. Walk(root)
        BY <2>1, <4>3, WalksNow DEF Walks
      <4> QED
        BY <3>1, <4>1, <4>4, <4>5 DEF Source, Walk
    <3>2. CASE src.kind # "iter"
      <4>1. ChainOf(q) = {} /\ src.id \in DOMAIN lists
        BY <2>2, <2>3, <3>2 DEF ChainOf, ChainTo, Reaches
      <4>2. lists[src.id] \in Seq(Obj)
        BY <2>1, <4>1, SeqForm DEF Shape, TypeOK
      <4> QED
        BY <1>1, <2>2, <3>2, <4>1, <4>2 DEF Gone, Source
    <3> QED
      BY <3>1, <3>2
  <2>5. FoundInOrder(queries[q].pulled, list)
    <3>1. Trail(queries[q].pulled, list, Len(list)) /\ queries[q].pulled \in Seq(Obj)
      BY <2>1, <2>2, <2>3, <2>4 DEF Data, Results, Queries
    <3> QED
      BY <2>4, <3>1, TrailFound
  <2>6. ASSUME call.query = q
        PROVE  FoundInOrder(call.got, list)
    <3>1. call.op = "all" /\ call.got \in Seq(Obj)
      BY <2>1, <2>3, <2>6 DEF Shape, TypeOK, Calls, CallOK
    <3>2. CASE call.path = <<>>
      <4>1. call.got = <<>>
        BY <2>1, <3>2 DEF Shape, CallOK
      <4>2. Trail(call.got, list, Len(list))
        BY <4>1, NothingThrough
      <4> QED
        BY <2>4, <3>1, <4>2, TrailFound
    <3>3. CASE call.path # <<>>
      <4>1. PICK i, root, past : i = call.path[1] /\ root = Root(i) /\ past = Past(root)
        OBVIOUS
      <4>2. src = IterRef(i)
        BY <2>1, <2>2, <2>6, <3>1, <3>3, <4>1 DEF Shape, CallOK
      <4>3. list = ListOf(root)
        BY <2>4, <4>1, <4>2 DEF Source, IterRef
      <4>4. root \in DOMAIN iters /\ iters[root].src.kind = "list"
        BY <2>1, <3>3, <4>1, PathForm, RootForm DEF Pulling
      <4>5. Walk(root)
        BY <2>1, <4>4, WalksNow DEF Walks
      <4>6. past \in 0 .. Len(list) /\ past \in Nat /\ Len(list) \in Nat
        BY <4>1, <4>3, <4>5 DEF Walk
      <4>7. PICK limit : limit = IF call.obj = NoObj THEN past ELSE past - 1
        OBVIOUS
      <4>8. Trail(call.got, list, limit)
        BY <2>1, <3>3, <4>1, <4>3, <4>7 DEF Data, Got
      <4>9. limit \in Int /\ Len(list) \in Int /\ limit + 0 <= Len(list) /\ \A k \in 1 .. limit : list[k + 0] = list[k]
        BY <4>6, <4>7
      <4>10. Trail(call.got, list, Len(list))
        BY <4>8, <4>9, TrailShifts
      <4> QED
        BY <2>4, <3>1, <4>10, TrailFound
    <3> QED
      BY <3>2, <3>3
  <2> QED
    BY <2>5, <2>6
<1>2. IInv => ResultsInOrder
  BY <1>1 DEF ResultsInOrder
<1> QED
  BY <1>2, ResultsAreTraced, PTL

-----------------------------------------------------------------------------
(* The objects a query has not got: what became of each object that left the *)
(* list, on its way to the query.                                            *)

\* What a query was given: its results, and those of a call in progress.
Given(q) ==
    ToSet(queries[q].pulled) \cup (IF call.op = "all" /\ call.query = q THEN ToSet(call.got) ELSE {})

\* Filter i refused the object, or one equal to it, as it read its criteria then.
Refused(i, o) == LET it == iters[i] IN
    /\ it.kind = "filter"
    /\ \E r \in Readable[it.f] :
          /\ ~MeetsIn(r, i, o)
          /\ it.tests = Fresh(Criteria[it.f]) => r = Fresh(Criteria[it.f])

\* An object was refused on its way to the query, or the query was given an
\* equal one, or an equal one climbs to it, from a generator above low.
Settled(q, o, low) ==
    \/ \E i \in ChainOf(q) : Refused(i, o)
    \/ \E p \in Given(q) : p \in EqualTo[o]
    \/ Pulling /\ call.obj \in EqualTo[o] /\ Place \in ChainOf(q) /\ low < Place

\* The generators of the query yielded to no one else.
Unshared(q) == \A i \in ChainOf(q) : iters[i].takers \subseteq {q}

\* The query goes through a list forwards.
Base(q) == Min(ChainOf(q))
Forwards(q) == ChainOf(q) # {} /\ iters[Base(q)].kind = "filter"

\* The objects that left the list are settled, and so are those a distinct
\* generator remembers, each above that generator: an object it skips because
\* it remembers an equal one is not what settles the one it remembers.
Counted(q) ==
    Unshared(q) /\ Forwards(q) =>
        /\ \A n \in DOMAIN lists[iters[Base(q)].src.id] :
              n < iters[Base(q)].pos => Settled(q, lists[iters[Base(q)].src.id][n], 0)
        /\ \A i \in ChainOf(q) : \A o \in iters[i].seen : Settled(q, o, i)

\* A query without a cache has no results; one that was given something is
\* among the takers of its iterator; one with a cache has seen it end.
QueryHeld(q) ==
    /\ queries[q].cache = NoRef => queries[q].pulled = <<>>
    /\ queries[q].src.kind = "iter" =>
          /\ Given(q) # {} => q \in iters[queries[q].src.id].takers
          /\ queries[q].cache # NoRef => iters[queries[q].src.id].done

\* An iterator that has ended went through all there was, unless it raised.
Sound(its, n) ==
    \A i \in DOMAIN its :
        /\ its[i].takers \subseteq 0 .. n
        /\ its[i].src.kind = "iter" =>
              /\ its[i].src.id \in 1 .. i - 1
              /\ its[i].done => its[its[i].src.id].done \/ 0 \in its[i].takers

\* The generators that are being resumed have not ended.
CallHeld ==
    /\ call.op = "all" => queries[call.query].cache = NoRef /\ call.wants = {}
    /\ \A k \in DOMAIN call.path :
          k > 1 \/ k < Len(call.path) \/ call.obj # NoObj => ~iters[call.path[k]].done

Held == CallHeld /\ Sound(iters, Len(queries)) /\ \A q \in DOMAIN queries : QueryHeld(q)

-----------------------------------------------------------------------------
(* What a step leaves of what was yielded                                    *)

Leads(it, jt) == Follows(it, jt) /\ it.takers \subseteq jt.takers /\ (it.done => jt.done)
Goes(i) == i \in DOMAIN iters' /\ Leads(iters[i], iters'[i])

\* Testing an object and yielding it.
LEMMA YieldedForm ==
  ASSUME NEW it \in Iterators, NEW o \in Obj, TypeOK,
         it.kind = "filter" => it.f \in DOMAIN Criteria /\ it.tests \in Readable[it.f]
  PROVE  /\ Tested(it, o).takers = it.takers /\ Tested(it, o).done = it.done /\ Tested(it, o).seen = it.seen
         /\ Yielded(it, o).takers = it.takers \cup {call.query} /\ Yielded(it, o).done = it.done
         /\ Yielded(it, o).seen = IF it.distinct THEN it.seen \cup {o} ELSE it.seen
<1>1. PICK jt, kt, lt : jt = Tested(it, o) /\ kt = Saw(jt, o) /\ lt = Yielded(it, o)
  OBVIOUS
<1>2. jt \in Iterators /\ jt.distinct = it.distinct
  BY <1>1, TestedForm
<1>3. jt.takers = it.takers /\ jt.done = it.done /\ jt.seen = it.seen
  <2>1. CASE it.kind = "filter" /\ o \notin Falsy
    <3>1. jt = [it EXCEPT !.tests = Call(it, o).tests]
      BY <1>1, <2>1 DEF Tested
    <3> QED
      BY <3>1 DEF Iterators
  <2>2. CASE ~(it.kind = "filter" /\ o \notin Falsy)
    BY <1>1, <2>2 DEF Tested
  <2> QED
    BY <2>1, <2>2
<1>4. /\ kt.takers = jt.takers /\ kt.done = jt.done
      /\ kt.seen = IF jt.distinct THEN jt.seen \cup {o} ELSE jt.seen
      /\ DOMAIN kt = DOMAIN jt
  <2>1. CASE jt.distinct
    <3>1. kt = [jt EXCEPT !.seen = @ \cup {o}]
      BY <1>1, <2>1 DEF Saw
    <3> QED
      BY <1>2, <2>1, <3>1 DEF Iterators
  <2>2. CASE ~jt.distinct
    BY <1>1, <2>2 DEF Saw
  <2> QED
    BY <2>1, <2>2
<1>5. lt = [kt EXCEPT !.takers = @ \cup {call.query}]
  BY <1>1 DEF Yielded
<1>6. lt.takers = kt.takers \cup {call.query} /\ lt.done = kt.done /\ lt.seen = kt.seen
  BY <1>2, <1>4, <1>5 DEF Iterators
<1> QED
  BY <1>1, <1>2, <1>3, <1>4, <1>6

LEMMA EndedForm ==
  ASSUME Shape, NEW takers \in SUBSET Nat, NEW i \in DOMAIN iters
  PROVE  /\ Finished(takers)[i].done = (iters[i].done \/ i \in ToSet(call.path))
         /\ Finished(takers)[i].takers = iters[i].takers \cup (IF i \in ToSet(call.path) THEN takers ELSE {})
<1>1. iters[i] \in Iterators
  BY SeqForm DEF Shape, TypeOK
<1>2. CASE i \in ToSet(call.path)
  <2>1. Finished(takers)[i] = [iters[i] EXCEPT !.done = TRUE, !.takers = @ \cup takers]
    BY <1>2 DEF Finished
  <2> QED
    BY <1>1, <1>2, <2>1 DEF Iterators
<1>3. CASE i \notin ToSet(call.path)
  <2>1. Finished(takers)[i] = iters[i]
    BY <1>3 DEF Finished
  <2> QED
    BY <1>1, <1>3, <2>1 DEF Iterators
<1> QED
  BY <1>2, <1>3

LEMMA TopLeads ==
  ASSUME Shape, Pulling, NEW jt \in Iterators, Leads(Top, jt)
  PROVE  /\ WithTop(jt) \in Seq(Iterators) /\ Len(WithTop(jt)) = Len(iters)
         /\ \A i \in DOMAIN iters : Leads(iters[i], WithTop(jt)[i])
<1>1. /\ WithTop(jt) \in Seq(Iterators) /\ Len(WithTop(jt)) = Len(iters)
      /\ \A i \in DOMAIN iters : Follows(iters[i], WithTop(jt)[i])
  BY TopFollows DEF Leads
<1>2. Top = iters[Place]
  BY TopForm
<1> QED
  BY <1>1, <1>2, WithTopForm DEF Leads

LEMMA FinishedLeads ==
  ASSUME Shape, NEW takers \in SUBSET Nat
  PROVE  /\ Finished(takers) \in Seq(Iterators) /\ Len(Finished(takers)) = Len(iters)
         /\ \A i \in DOMAIN iters : Leads(iters[i], Finished(takers)[i])
BY FinishedFollows, EndedForm DEF Leads

LEMMA SameLead ==
  ASSUME Shape
  PROVE  iters \in Seq(Iterators) /\ \A i \in DOMAIN iters : Leads(iters[i], iters[i])
<1>1. \A i \in DOMAIN iters : iters[i].kind = "filter" => iters[i].tests \in Readable[iters[i].f]
  BY DEF Shape, IterOK
<1> QED
  BY <1>1 DEF Leads, Follows, Shape, TypeOK

\* An object that climbs, and the list that moves.
LEMMA ClimbLeads ==
  ASSUME Shape, Pulling, call.obj # NoObj
  PROVE  \A jt \in {Tested(Top, call.obj), Yielded(Top, call.obj)} : jt \in Iterators /\ Leads(Top, jt)
<1>1. Top \in Iterators /\ Top = iters[Place] /\ IterOK(Place) /\ TypeOK
  BY TopForm DEF Shape
<1>2. Top.kind = "filter" => Top.f \in DOMAIN Criteria /\ Top.tests \in Readable[Top.f]
  BY <1>1 DEF IterOK
<1>3. call.obj \in Obj /\ \A jt \in {Tested(Top, call.obj), Yielded(Top, call.obj)} : jt \in Iterators /\ Follows(Top, jt)
  BY ClimbForm
<1>4. /\ Tested(Top, call.obj).takers = Top.takers /\ Tested(Top, call.obj).done = Top.done
      /\ Yielded(Top, call.obj).takers = Top.takers \cup {call.query} /\ Yielded(Top, call.obj).done = Top.done
  BY <1>1, <1>2, <1>3, YieldedForm
<1> QED
  BY <1>3, <1>4 DEF Leads

LEMMA FetchLeads ==
  ASSUME Shape, Pulling, Left(Top) # {}
  PROVE  /\ Advanced(Top) \in Iterators /\ Leads(Top, Advanced(Top))
         /\ Advanced(Top).seen = Top.seen /\ Advanced(Top).takers = Top.takers /\ Advanced(Top).done = Top.done
         /\ Top.kind # "reversed" => Advanced(Top).pos = Top.pos + 1
<1>1. Top \in Iterators /\ Top = iters[Place] /\ IterOK(Place)
  BY TopForm
<1>2. Top.kind = "filter" => Top.tests \in Readable[Top.f]
  BY <1>1 DEF IterOK
<1> QED
  BY <1>1, <1>2 DEF Advanced, Leads, Follows, Iterators

-----------------------------------------------------------------------------
(* How the iterators go on in a step                                         *)

\* A call in progress leaves the iterators like this, then drops the last or
\* adds one.
LEMMA RunIters ==
  ASSUME Shape, Run
  PROVE  \E its \in Seq(Iterators) :
            /\ Len(its) = Len(iters) /\ \A i \in DOMAIN iters : Leads(iters[i], its[i])
            /\ \/ iters' = its
               \/ iters' = Kept(its)
               \/ \E g : iters' = Append(its, g)
<1>1. CASE Descend
  BY <1>1, SameLead DEF Descend
<1>2. CASE Fetch
  <2>1. PICK jt : jt = Advanced(Top)
    OBVIOUS
  <2>2. Pulling /\ Left(Top) # {} /\ iters' = WithTop(jt)
    BY <1>2, <2>1 DEF Fetch
  <2> QED
    BY <2>1, <2>2, FetchLeads, TopLeads
<1>3. CASE Skip
  <2>1. PICK jt : jt = Tested(Top, call.obj)
    OBVIOUS
  <2>2. Pulling /\ call.obj # NoObj /\ iters' = WithTop(jt)
    BY <1>3, <2>1 DEF Skip
  <2> QED
    BY <2>1, <2>2, ClimbLeads, TopLeads
<1>4. CASE Yield
  <2>1. PICK jt : jt = Yielded(Top, call.obj)
    OBVIOUS
  <2>2. Pulling /\ call.obj # NoObj /\ (iters' = WithTop(jt) \/ iters' = Kept(WithTop(jt)))
    BY <1>4, <2>1 DEF Yield
  <2> QED
    BY <2>1, <2>2, ClimbLeads, TopLeads
<1>5. CASE Raise
  <2>1. {0} \in SUBSET Nat /\ iters' = Kept(Finished({0}))
    BY <1>5 DEF Raise
  <2> QED
    BY <2>1, FinishedLeads
<1>6. CASE ResultCache
  <2>1. UNCHANGED iters \/ \E g : iters' = Append(iters, g)
    BY <1>6 DEF ResultCache, StoreResults
  <2> QED
    BY <2>1, SameLead
<1>7. CASE ResultsConsumed \/ IterationEnds
  <2>1. PICK its : its = Finished({})
    OBVIOUS
  <2>2. iters' = its \/ iters' = Kept(its) \/ \E g : iters' = Append(its, g)
    BY <1>7, <2>1 DEF ResultsConsumed, IterationEnds, StoreResults
  <2> QED
    BY <2>1, <2>2, FinishedLeads
<1> QED
  BY <1>1, <1>2, <1>3, <1>4, <1>5, <1>6, <1>7 DEF Run

\* Dropping the generator of next() or get() leaves those that are known.
LEMMA KeptForm ==
  ASSUME Shape, NEW its \in Seq(Iterators), Len(its) = Len(iters)
  PROVE  /\ Kept(its) \in Seq(Iterators) /\ Len(Kept(its)) = Known
         /\ \A i \in 1 .. Known : Kept(its)[i] = its[i]
<1>1. CASE Probing
  <2>1. Known = Len(its) - 1 /\ Known \in Nat /\ Len(its) \in Nat
    BY <1>1, KnownForm DEF Known
  <2>2. its # <<>>
    <3>1. Len(<<>>) = 0
      BY EmptySeq
    <3> QED
      BY <2>1, <3>1
  <2>3. Kept(its) = Front(its)
    BY <1>1 DEF Kept, Probing
  <2> QED
    BY <2>1, <2>2, <2>3, Fronted
<1>2. CASE ~Probing
  BY <1>2 DEF Kept, Known, Probing
<1> QED
  BY <1>1, <1>2

LEMMA Advances ==
  ASSUME Shape, Shape', NEW its \in Seq(Iterators), Len(its) = Len(iters),
         \A i \in DOMAIN iters : Leads(iters[i], its[i]),
         iters' = its \/ iters' = Kept(its) \/ \E g : iters' = Append(its, g)
  PROVE  /\ \A i \in 1 .. Known : Goes(i) /\ iters'[i] = its[i] /\ Continues(i)
<1>1. /\ DOMAIN iters = 1 .. Len(iters) /\ Len(iters) \in Nat /\ Known \in Nat /\ Known <= Len(iters)
  BY KnownForm
<1>2. /\ DOMAIN iters' = 1 .. Len(iters') /\ Len(iters') \in Nat /\ iters' \in Seq(Iterators)
  BY SeqForm DEF Shape, TypeOK
<1>3. Known <= Len(iters') /\ \A i \in 1 .. Known : iters'[i] = its[i]
  <2>1. CASE iters' = its
    BY <1>1, <2>1
  <2>2. CASE iters' = Kept(its)
    BY <1>1, <2>2, KeptForm
  <2>3. ASSUME NEW g, iters' = Append(its, g)
        PROVE  Known <= Len(iters') /\ \A i \in 1 .. Known : iters'[i] = its[i]
    <3>1. g \in Iterators
      BY <1>2, <2>3, AppendedIsIn
    <3>2. Len(iters') = Len(its) + 1 /\ \A k \in 1 .. Len(its) : iters'[k] = its[k]
      BY <2>3, <3>1, AppendProperties
    <3> QED
      BY <1>1, <3>2
  <2> QED
    BY <2>1, <2>2, <2>3
<1>4. ASSUME NEW i \in 1 .. Known
      PROVE  i \in DOMAIN iters /\ i \in DOMAIN iters'
  <2>1. PICK k, m, n : k = Known /\ m = Len(iters) /\ n = Len(iters')
    OBVIOUS
  <2>2. k \in Nat /\ m \in Nat /\ n \in Nat /\ k <= m /\ k <= n /\ i \in 1 .. k
    BY <1>1, <1>2, <1>3, <2>1
  <2>3. i \in 1 .. m /\ i \in 1 .. n
    BY <2>2
  <2> QED
    BY <1>1, <1>2, <2>1, <2>3
<1> QED
  BY <1>3, <1>4 DEF Goes, Continues, Leads

LEMMA ProgramIters ==
  ASSUME Shape, Program
  PROVE  Idle /\ (UNCHANGED iters \/ \E g : iters' = Append(iters, g))
<1>1. ASSUME NEW q \in DOMAIN queries,
             \/ OrderBy(q) \/ Ask(q) \/ Iterate(q) \/ Measure(q) \/ FirstOf(q) \/ LastOf(q) \/ ReverseOf(q)
             \/ \E o \in Added : LookFor(q, o)
             \/ \E r \in Refinements : Refine(q, r)
             \/ \E op \in {"next", "get"}, f \in Probes : Probe(op, q, f)
             \/ \E o \in DOMAIN queries : Union(q, o) \/ \E b \in BOOLEAN : Compare(q, o, b)
      PROVE  Idle /\ (UNCHANGED iters \/ \E g : iters' = Append(iters, g))
  BY <1>1 DEF OrderBy, Ask, Iterate, Measure, FirstOf, LastOf, ReverseOf, LookFor, Refine, Probe, Union,
              Compare, CanMake, Begin, Both
<1> QED
  BY <1>1 DEF Program, Make, AppendBase, CanMake

LEMMA StepsGo ==
  ASSUME Shape, Shape', Next
  PROVE  \A i \in 1 .. Known : Goes(i) /\ Continues(i)
<1>1. CASE Run
  <2>1. PICK its \in Seq(Iterators) :
            /\ Len(its) = Len(iters) /\ \A i \in DOMAIN iters : Leads(iters[i], its[i])
            /\ \/ iters' = its
               \/ iters' = Kept(its)
               \/ \E g : iters' = Append(its, g)
    BY <1>1, RunIters
  <2> QED
    BY <2>1, Advances
<1>2. CASE Program
  BY <1>2, ProgramIters, SameLead, Advances
<1> QED
  BY <1>1, <1>2 DEF Next

-----------------------------------------------------------------------------
(* Iterators that ended went through all there was, unless they raised       *)

LEMMA SoundAdd ==
  ASSUME NEW its \in Seq(Iterators), NEW n \in Nat, Sound(its, n), NEW m \in Nat, n <= m,
         NEW g \in Iterators, g.takers = {}, ~g.done, g.src.kind = "iter" => g.src.id \in 1 .. Len(its)
  PROVE  Sound(Append(its, g), m)
<1>1. PICK more, len : more = Append(its, g) /\ len = Len(its)
  OBVIOUS
<1>2. /\ len \in Nat /\ DOMAIN its = 1 .. len /\ more[len + 1] = g /\ \A i \in 1 .. len : more[i] = its[i]
      /\ DOMAIN more = 1 .. len + 1
  <2>1. more \in Seq(Iterators) /\ Len(more) = len + 1
    BY <1>1, AppendProperties
  <2> QED
    BY <1>1, <2>1, AppendProperties, SeqForm
<1>3. SUFFICES ASSUME NEW i \in DOMAIN more
               PROVE  /\ more[i].takers \subseteq 0 .. m
                      /\ more[i].src.kind = "iter" =>
                            /\ more[i].src.id \in 1 .. i - 1
                            /\ more[i].done => more[more[i].src.id].done \/ 0 \in more[i].takers
  BY <1>1 DEF Sound
<1>4. CASE i \in 1 .. len
  <2>1. more[i] = its[i] /\ i \in DOMAIN its
    BY <1>2, <1>4
  <2>2. /\ its[i].takers \subseteq 0 .. n
        /\ its[i].src.kind = "iter" =>
              /\ its[i].src.id \in 1 .. i - 1
              /\ its[i].done => its[its[i].src.id].done \/ 0 \in its[i].takers
    BY <2>1 DEF Sound
  <2>3. its[i].src.kind = "iter" => more[its[i].src.id] = its[its[i].src.id]
    <3>1. \A k \in 1 .. i - 1 : k \in 1 .. len
      BY <1>2, <1>4
    <3> QED
      BY <1>2, <2>2, <3>1
  <2>4. 0 .. n \subseteq 0 .. m
    OBVIOUS
  <2> QED
    BY <2>1, <2>2, <2>3, <2>4
<1>5. CASE i = len + 1
  <2>1. more[i] = g /\ i - 1 = len
    BY <1>2, <1>5
  <2> QED
    BY <1>1, <2>1
<1>6. i \in 1 .. len \/ i = len + 1
  BY <1>2
<1> QED
  BY <1>4, <1>5, <1>6

LEMMA SoundKept ==
  ASSUME Shape, NEW its \in Seq(Iterators), Len(its) = Len(iters), NEW n \in Nat, Sound(its, n)
  PROVE  Sound(Kept(its), n)
<1>1. PICK less, k : less = Kept(its) /\ k = Known
  OBVIOUS
<1>2. less \in Seq(Iterators) /\ Len(less) = k /\ \A i \in 1 .. k : less[i] = its[i]
  BY <1>1, KeptForm
<1>3. DOMAIN less = 1 .. k /\ k \in Nat /\ DOMAIN its = 1 .. Len(its) /\ Len(its) \in Nat /\ k <= Len(its)
  BY <1>1, <1>2, KnownForm, SeqForm
<1>4. ASSUME NEW i \in DOMAIN less
      PROVE  /\ less[i].takers \subseteq 0 .. n
             /\ less[i].src.kind = "iter" =>
                   /\ less[i].src.id \in 1 .. i - 1
                   /\ less[i].done => less[less[i].src.id].done \/ 0 \in less[i].takers
  <2>1. less[i] = its[i] /\ i \in DOMAIN its /\ \A j \in 1 .. i - 1 : less[j] = its[j]
    <3>1. i \in 1 .. k /\ i \in DOMAIN its /\ \A j \in 1 .. i - 1 : j \in 1 .. k
      BY <1>3
    <3> QED
      BY <1>2, <3>1
  <2> QED
    BY <2>1 DEF Sound
<1> QED
  BY <1>1, <1>4 DEF Sound

LEMMA SoundTop ==
  ASSUME Shape, Pulling, NEW n \in Nat, Sound(iters, n), NEW jt \in Iterators, jt.src = Top.src,
         jt.done = Top.done, Top.takers \subseteq jt.takers, jt.takers \subseteq 0 .. n
  PROVE  /\ Sound(WithTop(jt), n) /\ WithTop(jt) \in Seq(Iterators) /\ Len(WithTop(jt)) = Len(iters)
         /\ \A i \in DOMAIN iters : WithTop(jt)[i].done = iters[i].done
<1>1. PICK its, place : its = WithTop(jt) /\ place = Place
  OBVIOUS
<1>2. /\ its \in Seq(Iterators) /\ Len(its) = Len(iters) /\ \A i \in DOMAIN iters : its[i] = IF i = place THEN jt ELSE iters[i]
      /\ Top = iters[place] /\ place \in DOMAIN iters
  BY <1>1, WithTopForm, TopForm
<1>3. DOMAIN its = DOMAIN iters /\ DOMAIN iters = 1 .. Len(iters) /\ Len(iters) \in Nat
  BY <1>2, KnownForm, SeqForm
<1>4. \A i \in DOMAIN iters : its[i].done = iters[i].done /\ its[i].src = iters[i].src
                              /\ iters[i].takers \subseteq its[i].takers
  BY <1>2
<1>5. ASSUME NEW i \in DOMAIN its
      PROVE  /\ its[i].takers \subseteq 0 .. n
             /\ its[i].src.kind = "iter" =>
                   /\ its[i].src.id \in 1 .. i - 1
                   /\ its[i].done => its[its[i].src.id].done \/ 0 \in its[i].takers
  <2>1. i \in DOMAIN iters /\ \A j \in 1 .. i - 1 : j \in DOMAIN iters
    BY <1>3
  <2>2. its[i].takers \subseteq 0 .. n
    BY <1>2, <2>1 DEF Sound
  <2> QED
    BY <1>4, <2>1, <2>2 DEF Sound
<1> QED
  BY <1>1, <1>2, <1>4, <1>5 DEF Sound

LEMMA PathEnds ==
  ASSUME Shape, Pulling, NEW i \in DOMAIN iters, i \in ToSet(call.path), i # Place, iters[i].src.kind = "iter"
  PROVE  iters[i].src.id \in ToSet(call.path)
<1>1. call.path \in Seq(Nat)
  BY DEF Shape, TypeOK, Calls
<1>2. PICK k \in DOMAIN call.path : i = call.path[k]
  BY DEF ToSet
<1>3. k + 1 \in DOMAIN call.path
  <2>1. DOMAIN call.path = 1 .. Len(call.path) /\ Len(call.path) \in Nat
    BY <1>1, SeqForm
  <2>2. k # Len(call.path)
    BY <1>2 DEF Place
  <2> QED
    BY <2>1, <2>2
<1>4. iters[call.path[k]].src = IterRef(call.path[k + 1])
  <2>1. k \in Nat /\ k >= 1
    BY <1>1, SeqForm
  <2>2. k + 1 > 1 /\ (k + 1) - 1 = k
    BY <2>1
  <2>3. PICK j : j = k + 1
    OBVIOUS
  <2>4. iters[call.path[j - 1]].src = IterRef(call.path[j])
    BY <1>3, <2>2, <2>3 DEF Shape, CallOK
  <2> QED
    BY <2>2, <2>3, <2>4
<1> QED
  BY <1>2, <1>3, <1>4 DEF IterRef, ToSet

LEMMA SoundFinished ==
  ASSUME Shape, Pulling, NEW n \in Nat, Sound(iters, n), NEW takers \in SUBSET {0}, Exhausted \/ 0 \in takers
  PROVE  Sound(Finished(takers), n)
<1>1. PICK its : its = Finished(takers)
  OBVIOUS
<1>2. takers \in SUBSET Nat /\ takers \subseteq 0 .. n
  OBVIOUS
<1>3. /\ its \in Seq(Iterators) /\ Len(its) = Len(iters)
      /\ \A i \in DOMAIN iters : /\ its[i].src = iters[i].src
                                 /\ its[i].done = (iters[i].done \/ i \in ToSet(call.path))
                                 /\ its[i].takers = iters[i].takers \cup (IF i \in ToSet(call.path) THEN takers ELSE {})
  BY <1>1, <1>2, FinishedForm, EndedForm
<1>4. DOMAIN its = DOMAIN iters /\ DOMAIN iters = 1 .. Len(iters) /\ Len(iters) \in Nat
  BY <1>3, KnownForm, SeqForm
<1>5. ASSUME NEW i \in DOMAIN its
      PROVE  /\ its[i].takers \subseteq 0 .. n
             /\ its[i].src.kind = "iter" =>
                   /\ its[i].src.id \in 1 .. i - 1
                   /\ its[i].done => its[its[i].src.id].done \/ 0 \in its[i].takers
  <2>1. i \in DOMAIN iters /\ \A j \in 1 .. i - 1 : j \in DOMAIN iters
    BY <1>4
  <2>2. its[i].takers \subseteq 0 .. n
    BY <1>2, <1>3, <2>1 DEF Sound
  <2>3. SUFFICES ASSUME its[i].src.kind = "iter", its[i].done, 0 \notin its[i].takers
                 PROVE  its[its[i].src.id].done
    BY <1>3, <2>1, <2>2 DEF Sound
  <2>4. PICK k : k = iters[i].src.id
    OBVIOUS
  <2>5. its[i].src.id = k /\ iters[i].src.kind = "iter" /\ k \in DOMAIN iters
    BY <1>3, <2>1, <2>3, <2>4 DEF Sound
  <2>6. CASE iters[i].done
    <3>1. 0 \notin iters[i].takers
      BY <1>3, <2>1, <2>3
    <3>2. iters[k].done
      BY <2>1, <2>4, <2>5, <2>6, <3>1 DEF Sound
    <3> QED
      BY <1>3, <2>5, <3>2
  <2>7. CASE ~iters[i].done
    <3>1. i \in ToSet(call.path)
      BY <1>3, <2>1, <2>3, <2>7
    <3>2. Exhausted
      BY <1>3, <2>1, <2>3, <3>1
    <3>3. CASE i = Place
      <4>1. Top = iters[i]
        BY <3>3, TopForm
      <4>2. iters[k].done
        BY <2>4, <2>5, <2>7, <3>2, <4>1 DEF Exhausted
      <4> QED
        BY <1>3, <2>5, <4>2
    <3>4. CASE i # Place
      <4>1. k \in ToSet(call.path)
        BY <2>1, <2>4, <2>5, <3>1, <3>4, PathEnds
      <4> QED
        BY <1>3, <2>5, <4>1
    <3> QED
      BY <3>3, <3>4
  <2> QED
    BY <2>6, <2>7
<1> QED
  BY <1>1, <1>5 DEF Sound

\* A query is asked by its number, and 0 stands for no query.
LEMMA QueryNumber ==
  ASSUME Shape
  PROVE  /\ Len(queries) \in Nat /\ DOMAIN queries = 1 .. Len(queries)
         /\ call.query \in 0 .. Len(queries)
<1>1. DOMAIN queries = 1 .. Len(queries) /\ Len(queries) \in Nat
  BY SeqForm DEF Shape, TypeOK
<1>2. call.query = 0 \/ call.query \in DOMAIN queries
  BY DEF Shape, CallOK
<1> QED
  BY <1>1, <1>2

LEMMA BackwardsUnused ==
  ASSUME TypeOK, NEW n \in Nat, NEW m \in Nat, NEW g, g = Backwards(ListRef(n), m)
  PROVE  /\ g \in Iterators /\ g.takers = {} /\ ~g.done /\ g.seen = {} /\ g.src.kind = "list" /\ g.kind = "reversed"
<1>1. ListRef(n) \in Refs /\ ListRef(n).kind = "list"
  BY DEF ListRef, Refs
<1>2. g \in Iterators /\ g.src = ListRef(n) /\ g.kind = "reversed"
  BY <1>1, BackwardsForm
<1>3. g.takers = {} /\ ~g.done /\ g.seen = {}
  BY DEF Backwards, NewIter
<1> QED
  BY <1>1, <1>2, <1>3

\* What result_cache does to the iterators and to the queries.
LEMMA StoreForm ==
  ASSUME Shape, NEW q \in DOMAIN queries, NEW got \in Seq(Obj), NEW its, StoreResults(q, got, its)
  PROVE  /\ call' = NoCall /\ lists' = Append(lists, got)
         /\ iters' = its \/ \E g : iters' = Append(its, g) /\ g = Backwards(ListRef(Len(lists) + 1), Len(got))
         /\ DOMAIN queries' = DOMAIN queries /\ Len(queries') = Len(queries)
         /\ \A k \in DOMAIN queries : k # q => queries'[k] = queries[k]
         /\ queries'[q].src = queries[q].src /\ queries'[q].pulled = got
<1>1. /\ call' = NoCall /\ lists' = Append(lists, got)
      /\ iters' = its \/ \E g : iters' = Append(its, g) /\ g = Backwards(ListRef(Len(lists) + 1), Len(got))
  BY DEF StoreResults, Stored, End
<1>2. PICK ref : queries' = [queries EXCEPT ![q].cache = ref, ![q].pulled = got]
  BY DEF StoreResults
<1>3. queries[q] \in Queries /\ queries \in Seq(Queries)
  BY QueryForm DEF Shape, TypeOK
<1>4. /\ DOMAIN queries' = DOMAIN queries
      /\ \A k \in DOMAIN queries : k # q => queries'[k] = queries[k]
      /\ queries'[q].src = queries[q].src /\ queries'[q].pulled = got
  BY <1>2, <1>3 DEF Queries
<1>5. Len(queries') = Len(queries)
  <2>1. Len(queries) \in Nat /\ DOMAIN queries' = 1 .. Len(queries)
    BY <1>4, QueryNumber
  <2> QED
    BY <1>2, <1>3, <2>1
<1> QED
  BY <1>1, <1>4, <1>5

LEMMA RunSound ==
  ASSUME Shape, Shape', Held, Run
  PROVE  Sound(iters', Len(queries'))
<1>1. PICK n : n = Len(queries)
  OBVIOUS
<1>2. n \in Nat /\ Sound(iters, n) /\ call.query \in 0 .. n
  BY <1>1, QueryNumber DEF Held
<1>3. ASSUME NEW its \in Seq(Iterators), Sound(its, n), NEW len \in Nat, NEW got \in Seq(Obj),
             \/ iters' = its
             \/ \E g : iters' = Append(its, g) /\ g = Backwards(ListRef(len), Len(got))
      PROVE  Sound(iters', n)
  <2>1. Len(got) \in Nat /\ TypeOK
    BY SeqForm DEF Shape
  <2>2. ASSUME NEW g, iters' = Append(its, g), g = Backwards(ListRef(len), Len(got))
        PROVE  Sound(iters', n)
    <3>1. g \in Iterators /\ g.takers = {} /\ ~g.done /\ g.src.kind = "list"
      BY <2>1, <2>2, BackwardsUnused
    <3>2. n <= n
      BY <1>2
    <3>3. Sound(Append(its, g), n)
      BY <1>2, <1>3, <3>1, <3>2, SoundAdd
    <3> QED
      BY <2>2, <3>3
  <2> QED
    BY <1>3, <2>2
<1>4. Len(lists) + 1 \in Nat
  BY SeqForm DEF Shape, TypeOK
<1>5. ASSUME NEW takers \in SUBSET {0}, Pulling, Exhausted \/ 0 \in takers
      PROVE  /\ Finished(takers) \in Seq(Iterators) /\ Len(Finished(takers)) = Len(iters)
             /\ Sound(Finished(takers), n) /\ Sound(Kept(Finished(takers)), n)
  <2>1. Finished(takers) \in Seq(Iterators) /\ Len(Finished(takers)) = Len(iters)
    <3>1. takers \in SUBSET Nat
      OBVIOUS
    <3> QED
      BY <3>1, FinishedForm
  <2>2. Sound(Finished(takers), n)
    BY <1>2, <1>5, SoundFinished
  <2> QED
    BY <1>2, <2>1, <2>2, SoundKept
<1>6. CASE Descend
  BY <1>1, <1>2, <1>6 DEF Descend
<1>7. CASE Fetch
  <2>1. PICK jt : jt = Advanced(Top)
    OBVIOUS
  <2>2. Pulling /\ Left(Top) # {} /\ iters' = WithTop(jt) /\ UNCHANGED queries
    BY <1>7, <2>1 DEF Fetch
  <2>3. jt \in Iterators /\ jt.src = Top.src /\ jt.done = Top.done /\ jt.takers = Top.takers
    BY <2>1, <2>2, FetchLeads DEF Leads, Follows
  <2>4. Top.takers \subseteq 0 .. n
    BY <1>2, <2>2, TopForm DEF Sound
  <2> QED
    BY <1>1, <1>2, <2>2, <2>3, <2>4, SoundTop
<1>8. ASSUME NEW jt \in {Tested(Top, call.obj), Yielded(Top, call.obj)}, Pulling, call.obj # NoObj
      PROVE  /\ Sound(WithTop(jt), n) /\ WithTop(jt) \in Seq(Iterators) /\ Len(WithTop(jt)) = Len(iters)
             /\ Sound(Kept(WithTop(jt)), n)
  <2>1. Top \in Iterators /\ Top = iters[Place] /\ Place \in DOMAIN iters /\ IterOK(Place) /\ TypeOK
    BY <1>8, TopForm DEF Shape
  <2>2. Top.kind = "filter" => Top.f \in DOMAIN Criteria /\ Top.tests \in Readable[Top.f]
    BY <2>1 DEF IterOK
  <2>3. call.obj \in Obj /\ jt \in Iterators /\ Follows(Top, jt)
    BY <1>8, ClimbForm
  <2>4. jt.done = Top.done /\ Top.takers \subseteq jt.takers /\ jt.takers \subseteq Top.takers \cup {call.query}
    <3>1. /\ Tested(Top, call.obj).takers = Top.takers /\ Tested(Top, call.obj).done = Top.done
          /\ Yielded(Top, call.obj).takers = Top.takers \cup {call.query} /\ Yielded(Top, call.obj).done = Top.done
      BY <2>1, <2>2, <2>3, YieldedForm
    <3>2. jt = Tested(Top, call.obj) \/ jt = Yielded(Top, call.obj)
      OBVIOUS
    <3> QED
      BY <3>1, <3>2
  <2>5. jt.takers \subseteq 0 .. n
    BY <1>2, <2>1, <2>4 DEF Sound
  <2>6. jt.src = Top.src
    BY <2>3 DEF Follows
  <2>7. /\ Sound(WithTop(jt), n) /\ WithTop(jt) \in Seq(Iterators) /\ Len(WithTop(jt)) = Len(iters)
    BY <1>2, <1>8, <2>3, <2>4, <2>5, <2>6, SoundTop
  <2> QED
    BY <1>2, <2>7, SoundKept
<1>9. CASE Skip
  BY <1>1, <1>8, <1>9 DEF Skip
<1>10. CASE Yield
  BY <1>1, <1>8, <1>10 DEF Yield
<1>11. CASE Raise
  <2>1. {0} \in SUBSET {0} /\ Pulling /\ iters' = Kept(Finished({0})) /\ UNCHANGED queries
    BY <1>11 DEF Raise
  <2> QED
    BY <1>1, <1>5, <2>1
<1>12. CASE IterationEnds
  <2>1. {} \in SUBSET {0} /\ Pulling /\ Exhausted /\ iters' = Kept(Finished({})) /\ UNCHANGED queries
    BY <1>12 DEF IterationEnds, Exhausted
  <2> QED
    BY <1>1, <1>5, <2>1
<1>13. CASE ResultsConsumed
  <2>1. /\ {} \in SUBSET {0} /\ Pulling /\ Exhausted /\ call.query \in DOMAIN queries /\ call.got \in Seq(Obj)
        /\ StoreResults(call.query, call.got, Finished({}))
    BY <1>13 DEF ResultsConsumed, Exhausted, Shape, TypeOK, Calls, CallOK
  <2>2. /\ Len(queries') = n
        /\ \/ iters' = Finished({})
           \/ \E g : iters' = Append(Finished({}), g) /\ g = Backwards(ListRef(Len(lists) + 1), Len(call.got))
    BY <1>1, <2>1, StoreForm
  <2> QED
    BY <1>3, <1>4, <1>5, <2>1, <2>2
<1>14. CASE ResultCache
  <2>1. CASE UNCHANGED <<iters, queries>>
    BY <1>1, <1>2, <2>1
  <2>2. CASE ~UNCHANGED <<iters, queries>>
    <3>1. PICK q, got : /\ q = call.query /\ got = lists[queries[q].src.id] /\ q \in DOMAIN queries
                        /\ queries[q].src.kind = "list" /\ StoreResults(q, got, iters)
      BY <1>14, <2>2 DEF ResultCache, Shape, CallOK
    <3>2. got \in Seq(Obj)
      <4>1. Reaches(queries[q].src, Known)
        BY <3>1, QueryForm DEF QueryOK
      <4> QED
        BY <3>1, <4>1, SeqForm DEF Reaches, Shape, TypeOK
    <3>3. /\ Len(queries') = n
          /\ \/ iters' = iters
             \/ \E g : iters' = Append(iters, g) /\ g = Backwards(ListRef(Len(lists) + 1), Len(got))
      BY <1>1, <3>1, <3>2, StoreForm
    <3>4. iters \in Seq(Iterators)
      BY DEF Shape, TypeOK
    <3> QED
      BY <1>2, <1>3, <1>4, <3>2, <3>3, <3>4
  <2> QED
    BY <2>1, <2>2
<1> QED
  BY <1>6, <1>7, <1>9, <1>10, <1>11, <1>12, <1>13, <1>14 DEF Run

-----------------------------------------------------------------------------
(* What the program does between calls: a query or an iterator is added, or  *)
(* a call begins.                                                            *)

Unused(g) ==
    /\ g.takers = {} /\ ~g.done /\ g.seen = {}
    /\ g.src.kind = "iter" => g.src.id \in DOMAIN iters

\* A new query iterates a list, what another query iterates, or what was just
\* made: a list gone through backwards, or a generator over what another iterates.
Drawn(src) ==
    \/ src.kind # "iter"
    \/ \E q \in DOMAIN queries : src = queries[q].src
    \/ \E g \in Iterators :
          /\ iters' = Append(iters, g) /\ Unused(g) /\ src = IterRef(Len(iters) + 1)
          /\ \/ g.kind = "reversed" /\ g.src.kind = "list"
             \/ g.pos = 1 /\ \E q \in DOMAIN queries : g.src = queries[q].src

Prepares ==
    /\ Idle /\ call'.got = <<>> /\ call'.obj = NoObj /\ Len(call'.path) <= 1 /\ call' \in Calls
    /\ call'.op = "all" =>
          call'.query \in DOMAIN queries /\ queries[call'.query].cache = NoRef /\ call'.wants = {}
    /\ UNCHANGED iters \/ \E g \in Iterators : iters' = Append(iters, g) /\ Unused(g)
    /\ \/ UNCHANGED queries
       \/ \E x \in Queries : /\ queries' = Append(queries, x)
                             /\ x.cache = NoRef /\ x.pulled = <<>> /\ Drawn(x.src)

LEMMA GeneratorUnused ==
  ASSUME Shape, NEW q \in DOMAIN queries, NEW f \in DOMAIN Criteria, NEW negate \in BOOLEAN,
         NEW distinct \in BOOLEAN, NEW g, g = Generator(queries[q].src, f, negate, distinct)
  PROVE  g \in Iterators /\ Unused(g) /\ g.pos = 1 /\ g.src = queries[q].src
<1>1. PICK src : src = queries[q].src
  OBVIOUS
<1>2. /\ src \in Refs /\ ChainTo(src) \subseteq Nat
      /\ src.kind = "iter" => src.id \in DOMAIN iters
  BY <1>1, QueryForm DEF ChainOf
<1>3. g \in Iterators /\ g.pos = 1 /\ g.src = src
  BY <1>1, <1>2, GeneratorForm DEF Shape
<1>4. g.takers = {} /\ ~g.done /\ g.seen = {}
  BY DEF Generator, NewIter
<1> QED
  BY <1>1, <1>2, <1>3, <1>4 DEF Unused

LEMMA CallNone ==
  ASSUME call' = NoCall
  PROVE  /\ call'.got = <<>> /\ call'.obj = NoObj /\ Len(call'.path) <= 1 /\ call' \in Calls
         /\ call'.op # "all"
<1>1. call' \in Calls
  BY CallEnds
<1>2. Len(<<>>) = 0
  BY EmptySeq
<1> QED
  BY <1>1, <1>2 DEF NoCall

LEMMA RefinePrepares ==
  ASSUME Shape, NEW q \in DOMAIN queries, NEW r \in Refinements, Refine(q, r)
  PROVE  Prepares
<1> DEFINE both == r.distinct \/ queries[q].distinct
<1>1. PICK g, src, x : /\ src = IterRef(Len(iters) + 1) /\ g = Generator(queries[q].src, r.f, r.negate, both)
                       /\ x = NewQuery(src, both, queries[q].order, queries[q].reverse)
  OBVIOUS
<1>2. /\ Idle /\ UNCHANGED call /\ iters' = Append(iters, g) /\ queries' = Append(queries, x)
  BY <1>1 DEF Refine, CanMake
<1>3. r.f \in DOMAIN Criteria /\ r.negate \in BOOLEAN /\ r.distinct \in BOOLEAN
  BY ObjAssumption
<1>4. queries[q].distinct \in BOOLEAN /\ queries[q].order \in BOOLEAN /\ queries[q].reverse \in BOOLEAN
  BY QueryForm DEF Queries
<1>5. both \in BOOLEAN
  OBVIOUS
<1> HIDE DEF both
<1>6. g \in Iterators /\ Unused(g) /\ g.pos = 1 /\ g.src = queries[q].src
  BY <1>1, <1>3, <1>5, GeneratorUnused
<1>7. src \in Refs
  <2>1. Len(iters) + 1 \in Nat
    BY KnownForm
  <2> QED
    BY <1>1, <2>1 DEF IterRef, Refs
<1>8. x \in Queries /\ x.src = src /\ x.cache = NoRef /\ x.pulled = <<>>
  BY <1>1, <1>4, <1>5, <1>7, NewQueryForm
<1>9. Drawn(x.src)
  BY <1>1, <1>2, <1>6, <1>8 DEF Drawn
<1>10. call' = NoCall
  BY <1>2 DEF Idle
<1> QED
  BY <1>2, <1>6, <1>8, <1>9, <1>10, CallNone DEF Prepares

LEMMA ReversePrepares ==
  ASSUME Shape, NEW q \in DOMAIN queries, ReverseOf(q)
  PROVE  Prepares
<1>1. Idle /\ call' = NoCall
  BY DEF ReverseOf, Idle
<1>2. CASE ~IsList(q)
  BY <1>1, <1>2, CallNone DEF ReverseOf, Prepares
<1>3. CASE IsList(q)
  <2>1. PICK n, len, g, x : /\ n = queries[q].cache.id /\ len = Len(Cached(q)) /\ g = Backwards(queries[q].cache, len)
                            /\ x = [queries[q] EXCEPT !.src = IterRef(Len(iters) + 1), !.cache = NoRef, !.pulled = <<>>]
    OBVIOUS
  <2>2. iters' = Append(iters, g) /\ queries' = Append(queries, x)
    BY <1>3, <2>1 DEF ReverseOf
  <2>3. queries[q].cache = ListRef(n) /\ n \in Nat /\ queries[q] \in Queries
    BY <1>3, <2>1, QueryForm DEF IsList, ListRef, Refs
  <2>4. len \in Nat
    BY <1>3, <2>1, CacheList, SeqForm
  <2>5. /\ g \in Iterators /\ g.takers = {} /\ ~g.done /\ g.seen = {} /\ g.src.kind = "list" /\ g.kind = "reversed"
    BY <2>1, <2>3, <2>4, BackwardsUnused DEF Shape
  <2>6. x \in Queries /\ x.src = IterRef(Len(iters) + 1) /\ x.cache = NoRef /\ x.pulled = <<>>
    <3>1. Len(iters) + 1 \in Nat
      BY KnownForm
    <3>2. IterRef(Len(iters) + 1) \in Refs /\ NoRef \in Refs /\ <<>> \in Seq(Obj)
      BY <3>1, EmptySeq DEF IterRef, NoRef, Refs
    <3> QED
      BY <2>1, <2>3, <3>2 DEF Queries
  <2>7. Unused(g)
    BY <2>5 DEF Unused
  <2>8. Drawn(x.src)
    BY <2>2, <2>5, <2>6, <2>7 DEF Drawn
  <2> QED
    BY <1>1, <2>2, <2>5, <2>6, <2>7, <2>8, CallNone DEF Prepares
<1> QED
  BY <1>2, <1>3

\* Queries over a list, or over what another query iterates.
LEMMA NewPrepares ==
  ASSUME Shape, Idle, UNCHANGED <<iters, call>>, NEW src \in Refs,
         src.kind # "iter" \/ \E q \in DOMAIN queries : src = queries[q].src,
         NEW distinct \in BOOLEAN, NEW order \in BOOLEAN, NEW reverse \in BOOLEAN,
         queries' = Append(queries, NewQuery(src, distinct, order, reverse))
  PROVE  Prepares
<1>1. PICK x : x = NewQuery(src, distinct, order, reverse)
  OBVIOUS
<1>2. x \in Queries /\ x.src = src /\ x.cache = NoRef /\ x.pulled = <<>>
  BY <1>1, NewQueryForm
<1>3. Drawn(x.src)
  BY <1>2 DEF Drawn
<1>4. call' = NoCall
  BY DEF Idle
<1> QED
  BY <1>1, <1>2, <1>3, <1>4, CallNone DEF Prepares

LEMMA CombinedPrepares ==
  ASSUME Shape, NEW q \in DOMAIN queries, NEW o \in DOMAIN queries,
         Union(q, o) \/ \E b \in BOOLEAN : Compare(q, o, b)
  PROVE  Prepares
<1>1. Idle /\ UNCHANGED <<iters, call>> /\ IsList(q)
  BY DEF Union, Compare, Both
<1>2. PICK ref : ref \in {queries[q].cache, ListRef(Len(lists) + 1)} /\ queries' = Combined(ref, q)
  BY DEF Union, Compare
<1>3. ref \in Refs /\ ref.kind # "iter"
  <2>1. Len(lists) + 1 \in Nat
    BY SeqForm DEF Shape, TypeOK
  <2>2. ListRef(Len(lists) + 1) \in Refs /\ ListRef(Len(lists) + 1).kind = "list"
    BY <2>1 DEF ListRef, Refs
  <2>3. queries[q].cache \in Refs /\ queries[q].cache.kind = "list"
    BY <1>1, QueryForm DEF IsList
  <2> QED
    BY <1>2, <2>2, <2>3
<1>4. queries[q].distinct \in BOOLEAN /\ queries[q].order \in BOOLEAN
  BY QueryForm DEF Queries
<1> QED
  BY <1>1, <1>2, <1>3, <1>4, NewPrepares DEF Combined

LEMMA MakePrepares ==
  ASSUME Shape, \/ \E flags \in Flags : Make(flags)
                \/ \E q \in DOMAIN queries : OrderBy(q)
  PROVE  Prepares
<1>1. ASSUME NEW flags \in Flags, Make(flags)
      PROVE  Prepares
  <2>1. flags.distinct \in BOOLEAN /\ flags.order \in BOOLEAN /\ flags.reverse \in BOOLEAN
    BY ObjAssumption
  <2>2. ListRef(1) \in Refs /\ ListRef(1).kind # "iter"
    BY DEF ListRef, Refs
  <2> QED
    BY <1>1, <2>1, <2>2, NewPrepares DEF Make, CanMake
<1>2. ASSUME NEW q \in DOMAIN queries, OrderBy(q)
      PROVE  Prepares
  <2>1. queries[q].src \in Refs /\ queries[q].distinct \in BOOLEAN
    BY QueryForm DEF Queries
  <2>2. queries' = Append(queries, NewQuery(queries[q].src, queries[q].distinct, TRUE, FALSE))
    BY <1>2 DEF OrderBy
  <2>3. Idle /\ UNCHANGED <<iters, call>>
    BY <1>2 DEF OrderBy, CanMake
  <2> QED
    BY <2>1, <2>2, <2>3, NewPrepares
<1> QED
  BY <1>1, <1>2

LEMMA BeginPrepares ==
  ASSUME Shape, Idle, UNCHANGED queries,
         UNCHANGED iters \/ \E g \in Iterators : iters' = Append(iters, g) /\ Unused(g),
         NEW op \in {"all", "iter", "in", "next", "get"}, NEW q, NEW path, NEW wants,
         call' = [op |-> op, query |-> q, got |-> <<>>, path |-> path, obj |-> NoObj, wants |-> wants],
         call' \in Calls, Len(path) <= 1,
         op = "all" => q \in DOMAIN queries /\ queries[q].cache = NoRef /\ wants = {}
  PROVE  Prepares
<1>1. /\ call'.op = op /\ call'.query = q /\ call'.path = path /\ call'.got = <<>>
      /\ call'.obj = NoObj /\ call'.wants = wants
  BY DEF NoCall
<1> QED
  BY <1>1 DEF Prepares

LEMMA ProgramPrepares ==
  ASSUME Shape, Shape', Program
  PROVE  Prepares
<1>1. call' \in Calls
  BY DEF Shape, TypeOK
<1>2. \A path : /\ path = <<>> => Len(path) <= 1
                /\ \A i : path = <<i>> => Len(path) <= 1
  BY EmptySeq
<1>3. ASSUME NEW o \in Added, AppendBase(o)
      PROVE  Prepares
  <2>1. Idle /\ call' = NoCall /\ UNCHANGED <<iters, queries>>
    BY <1>3 DEF AppendBase, Idle
  <2> QED
    BY <2>1, CallNone DEF Prepares
<1>4. ASSUME NEW q \in DOMAIN queries, Measure(q) \/ FirstOf(q) \/ LastOf(q)
      PROVE  Prepares
  <2>1. Idle /\ call' = NoCall /\ UNCHANGED <<iters, queries>>
    BY <1>4 DEF Measure, FirstOf, LastOf, Idle
  <2> QED
    BY <2>1, CallNone DEF Prepares
<1>5. ASSUME NEW q \in DOMAIN queries, Ask(q)
      PROVE  Prepares
  <2>1. /\ Idle /\ UNCHANGED <<iters, queries>> /\ queries[q].cache = NoRef
        /\ call' = [op |-> "all", query |-> q, got |-> <<>>, path |-> <<>>, obj |-> NoObj, wants |-> {}]
    BY <1>5 DEF Ask, Begin, NoCall
  <2> QED
    BY <1>1, <1>2, <2>1, BeginPrepares
<1>6. ASSUME NEW q \in DOMAIN queries, Iterate(q)
      PROVE  Prepares
  <2>1. PICK i : i = queries[q].cache.id
    OBVIOUS
  <2>2. /\ Idle /\ UNCHANGED <<iters, queries>>
        /\ call' = [op |-> "iter", query |-> 0, got |-> <<>>, path |-> <<i>>, obj |-> NoObj, wants |-> {}]
    BY <1>6, <2>1 DEF Iterate, Begin, NoCall
  <2> QED
    BY <1>1, <1>2, <2>2, BeginPrepares
<1>7. ASSUME NEW q \in DOMAIN queries, NEW o \in Added, LookFor(q, o)
      PROVE  Prepares
  <2>1. PICK i, wants : i = queries[q].cache.id /\ wants = EqualTo[o]
    OBVIOUS
  <2>2. /\ Idle /\ UNCHANGED <<iters, queries>>
        /\ call' = [op |-> "in", query |-> 0, got |-> <<>>, path |-> <<i>>, obj |-> NoObj, wants |-> wants]
    BY <1>7, <2>1 DEF LookFor, NoCall
  <2> QED
    BY <1>1, <1>2, <2>2, BeginPrepares
<1>8. ASSUME NEW q \in DOMAIN queries, NEW op \in {"next", "get"}, NEW f \in Probes, Probe(op, q, f)
      PROVE  Prepares
  <2>1. PICK g, i : g = Generator(queries[q].src, f, FALSE, queries[q].distinct) /\ i = Len(iters) + 1
    OBVIOUS
  <2>2. /\ Idle /\ UNCHANGED queries /\ iters' = Append(iters, g)
        /\ call' = [op |-> op, query |-> 0, got |-> <<>>, path |-> <<i>>, obj |-> NoObj, wants |-> {}]
    BY <1>8, <2>1 DEF Probe, Begin, NoCall
  <2>3. f \in DOMAIN Criteria /\ queries[q].distinct \in BOOLEAN
    BY QueryForm, ObjAssumption DEF Queries
  <2>4. g \in Iterators /\ Unused(g)
    BY <2>1, <2>3, GeneratorUnused
  <2> QED
    BY <1>1, <1>2, <2>2, <2>4, BeginPrepares
<1>9. ASSUME NEW q \in DOMAIN queries,
             \/ OrderBy(q) \/ Ask(q) \/ Iterate(q) \/ Measure(q) \/ FirstOf(q) \/ LastOf(q) \/ ReverseOf(q)
             \/ \E o \in Added : LookFor(q, o)
             \/ \E r \in Refinements : Refine(q, r)
             \/ \E op \in {"next", "get"}, f \in Probes : Probe(op, q, f)
             \/ \E o \in DOMAIN queries : Union(q, o) \/ \E b \in BOOLEAN : Compare(q, o, b)
      PROVE  Prepares
  BY <1>4, <1>5, <1>6, <1>7, <1>8, <1>9, MakePrepares, ReversePrepares, RefinePrepares, CombinedPrepares
<1> QED
  BY <1>3, <1>9, MakePrepares DEF Program

-----------------------------------------------------------------------------
(* What a step makes of the call in progress                                 *)

SameCall == call'.op = call.op /\ call'.query = call.query /\ call'.wants = call.wants

LEMMA CallForm ==
  ASSUME Shape
  PROVE  /\ call \in Calls /\ call.path \in Seq(Nat) /\ call.got \in Seq(Obj)
         /\ DOMAIN call.path = 1 .. Len(call.path) /\ Len(call.path) \in Nat
         /\ Pulling => Len(call.path) \in Nat \ {0}
<1>1. call \in Calls
  BY DEF Shape, TypeOK
<1>2. call.path \in Seq(Nat) /\ call.got \in Seq(Obj)
  BY <1>1 DEF Calls
<1>3. DOMAIN call.path = 1 .. Len(call.path) /\ Len(call.path) \in Nat
  BY <1>2, SeqForm
<1>4. Pulling => Len(call.path) \in Nat \ {0}
  BY <1>2, EmptySeq DEF Pulling
<1> QED
  BY <1>1, <1>2, <1>3, <1>4

Descended ==
    /\ Pulling /\ SameCall /\ call'.got = call.got /\ call'.obj = NoObj /\ call.obj = NoObj
    /\ ~Top.done /\ ~iters[Top.src.id].done /\ UNCHANGED <<lists, iters, queries>>
    /\ DOMAIN call'.path = 1 .. Len(call.path) + 1 /\ Len(call'.path) = Len(call.path) + 1
    /\ call'.path[Len(call.path) + 1] = Top.src.id
    /\ \A k \in 1 .. Len(call.path) : call'.path[k] = call.path[k]

LEMMA DescendForm ==
  ASSUME Shape, Shape', Descend
  PROVE  Descended
<1>1. PICK i, len : i = Top.src.id /\ len = Len(call.path)
  OBVIOUS
<1>2. /\ Pulling /\ call.obj = NoObj /\ ~Top.done /\ ~iters[i].done /\ UNCHANGED <<lists, iters, queries>>
      /\ call' = [call EXCEPT !.path = Append(@, i)]
  BY <1>1 DEF Descend
<1>3. SameCall /\ call'.got = call.got /\ call'.obj = NoObj /\ call'.path = Append(call.path, i)
  BY <1>2, CallForm DEF Calls, SameCall
<1>4. call.path \in Seq(Nat) /\ call'.path \in Seq(Nat)
  BY DEF Shape, TypeOK, Calls
<1>5. i \in Nat
  BY <1>3, <1>4, AppendedIsIn
<1>6. /\ Len(call'.path) = len + 1 /\ call'.path[len + 1] = i
      /\ \A k \in 1 .. len : call'.path[k] = call.path[k]
  BY <1>1, <1>3, <1>4, <1>5, AppendProperties
<1>7. DOMAIN call'.path = 1 .. len + 1
  BY <1>4, <1>6, SeqForm
<1> QED
  BY <1>1, <1>2, <1>3, <1>6, <1>7 DEF Descended

LEMMA FetchForm ==
  ASSUME Shape, Fetch
  PROVE  /\ Pulling /\ SameCall /\ call'.got = call.got /\ call'.path = call.path /\ call.obj = NoObj
         /\ call'.obj = lists[Top.src.id][Top.pos] /\ ~Top.done /\ Top.src.kind = "list" /\ Left(Top) # {}
         /\ iters' = WithTop(Advanced(Top)) /\ UNCHANGED <<lists, queries>>
<1>1. /\ Pulling /\ call.obj = NoObj /\ ~Top.done /\ Top.src.kind = "list" /\ Left(Top) # {}
      /\ iters' = WithTop(Advanced(Top)) /\ UNCHANGED <<lists, queries>>
      /\ call' = [call EXCEPT !.obj = lists[Top.src.id][Top.pos]]
  BY DEF Fetch
<1> QED
  BY <1>1, CallForm DEF Calls, SameCall

LEMMA SkipForm ==
  ASSUME Shape, Skip
  PROVE  /\ Pulling /\ SameCall /\ call'.got = call.got /\ call'.path = call.path /\ call.obj # NoObj
         /\ call'.obj = NoObj /\ ~Accepts(Top, call.obj) /\ ~Raises(Top, call.obj)
         /\ iters' = WithTop(Tested(Top, call.obj)) /\ UNCHANGED <<lists, queries>>
<1>1. /\ Pulling /\ call.obj # NoObj /\ ~Accepts(Top, call.obj) /\ ~Raises(Top, call.obj)
      /\ iters' = WithTop(Tested(Top, call.obj)) /\ UNCHANGED <<lists, queries>>
      /\ call' = [call EXCEPT !.obj = NoObj]
  BY DEF Skip
<1> QED
  BY <1>1, CallForm DEF Calls, SameCall

\* To the generator that consumes it, to the call, which ends or goes on.
YieldedUp ==
    /\ Len(call.path) > 1 /\ SameCall /\ call'.got = call.got /\ call'.obj = call.obj
    /\ Len(call'.path) = Len(call.path) - 1 /\ DOMAIN call'.path = 1 .. Len(call.path) - 1
    /\ \A k \in 1 .. Len(call.path) - 1 : call'.path[k] = call.path[k]
    /\ iters' = WithTop(Yielded(Top, call.obj))

YieldedLast ==
    /\ call' = NoCall /\ (call.op = "next" \/ call.obj \in call.wants)
    /\ iters' = Kept(WithTop(Yielded(Top, call.obj)))

YieldedOut ==
    /\ Len(call.path) = 1 /\ SameCall /\ call'.obj = NoObj /\ call'.path = call.path
    /\ ToSet(call'.got) = ToSet(call.got) \cup {call.obj}
    /\ iters' = WithTop(Yielded(Top, call.obj))

LEMMA AppendedSet ==
  ASSUME NEW S, NEW s \in Seq(S), NEW x \in S
  PROVE  ToSet(Append(s, x)) = ToSet(s) \cup {x}
<1>1. PICK t, n : t = Append(s, x) /\ n = Len(s)
  OBVIOUS
<1>2. /\ DOMAIN s = 1 .. n /\ n \in Nat /\ DOMAIN t = 1 .. n + 1 /\ t[n + 1] = x
      /\ \A i \in 1 .. n : t[i] = s[i]
  <2>1. t \in Seq(S) /\ Len(t) = n + 1
    BY <1>1, AppendProperties
  <2> QED
    BY <1>1, <2>1, AppendProperties, SeqForm
<1>3. DOMAIN t = (1 .. n) \cup {n + 1}
  BY <1>2
<1>4. ToSet(t) = ToSet(s) \cup {x}
  BY <1>2, <1>3 DEF ToSet
<1> QED
  BY <1>1, <1>4

LEMMA YieldForm ==
  ASSUME Shape, Yield
  PROVE  /\ Pulling /\ call.obj # NoObj /\ Accepts(Top, call.obj) /\ ~Raises(Top, call.obj)
         /\ UNCHANGED <<lists, queries>>
         /\ YieldedUp \/ YieldedLast \/ YieldedOut
<1>1. PICK its : its = WithTop(Yielded(Top, call.obj))
  OBVIOUS
<1>2. /\ Pulling /\ call.obj # NoObj /\ Accepts(Top, call.obj) /\ ~Raises(Top, call.obj)
      /\ UNCHANGED <<lists, queries>>
      /\ \/ Len(call.path) > 1 /\ call' = [call EXCEPT !.path = Front(@)] /\ iters' = its
         \/ YieldedLast
         \/ ~(Len(call.path) > 1) /\ call' = [call EXCEPT !.got = Append(@, call.obj), !.obj = NoObj] /\ iters' = its
  BY <1>1 DEF Yield, End, YieldedLast
<1>3. call \in Calls /\ call.path \in Seq(Nat) /\ Len(call.path) \in Nat \ {0} /\ call.obj \in Obj
  BY <1>2, CallForm, ClimbForm
<1>4. CASE Len(call.path) > 1 /\ call' = [call EXCEPT !.path = Front(@)] /\ iters' = its
  <2>1. /\ Front(call.path) \in Seq(Nat) /\ Len(Front(call.path)) = Len(call.path) - 1
        /\ \A i \in 1 .. Len(call.path) - 1 : Front(call.path)[i] = call.path[i]
    <3>1. call.path # <<>>
      BY <1>2 DEF Pulling
    <3> QED
      BY <1>3, <3>1, Fronted
  <2>2. SameCall /\ call'.got = call.got /\ call'.obj = call.obj /\ call'.path = Front(call.path)
    BY <1>3, <1>4 DEF Calls, SameCall
  <2>3. DOMAIN call'.path = 1 .. Len(call.path) - 1
    BY <2>1, <2>2, SeqForm
  <2> QED
    BY <1>1, <1>2, <1>4, <2>1, <2>2, <2>3 DEF YieldedUp
<1>5. CASE ~(Len(call.path) > 1) /\ call' = [call EXCEPT !.got = Append(@, call.obj), !.obj = NoObj] /\ iters' = its
  <2>1. Len(call.path) = 1
    <3>1. \A n \in Nat \ {0} : ~(n > 1) => n = 1
      OBVIOUS
    <3>2. ~(Len(call.path) > 1)
      BY <1>5
    <3> QED
      BY <1>3, <3>1, <3>2
  <2>2. /\ SameCall /\ call'.got = Append(call.got, call.obj) /\ call'.obj = NoObj /\ call'.path = call.path
    BY <1>3, <1>5 DEF Calls, SameCall
  <2>3. ToSet(call'.got) = ToSet(call.got) \cup {call.obj}
    BY <1>3, <2>2, CallForm, AppendedSet
  <2> QED
    BY <1>1, <1>2, <1>5, <2>1, <2>2, <2>3 DEF YieldedOut
<1> QED
  BY <1>2, <1>4, <1>5

\* The call ends with an exception, or with the iteration.
LEMMA EndForm ==
  ASSUME Shape, Raise \/ IterationEnds
  PROVE  /\ Pulling /\ call' = NoCall /\ UNCHANGED <<lists, queries>>
         /\ \/ Raise /\ iters' = Kept(Finished({0}))
            \/ call.op # "all" /\ call.obj = NoObj /\ iters' = Kept(Finished({}))
<1>1. CASE Raise
  BY <1>1 DEF Raise, End
<1>2. CASE IterationEnds
  <2>1. call.op \in {"none", "all", "iter", "in", "next", "get"} /\ call.op # "all"
    BY <1>2 DEF Shape, TypeOK, Calls, IterationEnds
  <2>2. call.op # "none"
    BY <1>2 DEF Shape, CallOK, IterationEnds, Exhausted, Pulling, NoCall
  <2>3. call' = NoCall
    BY <1>2, <2>1, <2>2 DEF IterationEnds, End
  <2> QED
    BY <1>2, <2>1, <2>3 DEF IterationEnds, Exhausted
<1> QED
  BY <1>1, <1>2

LEMMA ConsumedForm ==
  ASSUME Shape, ResultsConsumed
  PROVE  /\ Pulling /\ Exhausted /\ call.op = "all" /\ call.obj = NoObj /\ call.query \in DOMAIN queries
         /\ 1 \in DOMAIN call.path /\ queries[call.query].src = IterRef(call.path[1])
         /\ StoreResults(call.query, call.got, Finished({})) /\ call.got \in Seq(Obj)
<1>1. Pulling /\ Exhausted /\ call.op = "all" /\ call.obj = NoObj /\ StoreResults(call.query, call.got, Finished({}))
  BY DEF ResultsConsumed, Exhausted
<1> QED
  BY <1>1, CallForm, PathForm DEF Shape, CallOK, Pulling

CacheStored(q, got) ==
    /\ q = call.query /\ got = lists[queries[q].src.id] /\ q \in DOMAIN queries /\ got \in Seq(Obj)
    /\ queries[q].src.kind = "list" /\ StoreResults(q, got, iters)

LEMMA CacheForm ==
  ASSUME Shape, ResultCache
  PROVE  /\ call.op = "all" /\ call.path = <<>> /\ call.got = <<>> /\ call.obj = NoObj
         /\ \/ \E q, got : CacheStored(q, got)
            \/ /\ UNCHANGED <<lists, iters, queries>>
               /\ SameCall /\ call'.got = <<>> /\ call'.obj = NoObj /\ Len(call'.path) <= 1
<1>1. call.op = "all" /\ call.path = <<>> /\ call.got = <<>> /\ call.obj = NoObj /\ call.query \in DOMAIN queries
  BY DEF ResultCache, Pulling, Shape, CallOK
<1>2. PICK q, got : q = call.query /\ got = lists[queries[q].src.id]
  OBVIOUS
<1>3. CASE queries[q].src.kind = "list"
  <2>1. got \in Seq(Obj)
    <3>1. Reaches(queries[q].src, Known)
      BY <1>1, <1>2, QueryForm DEF QueryOK
    <3> QED
      BY <1>2, <1>3, <3>1, SeqForm DEF Reaches, Shape, TypeOK
  <2> QED
    BY <1>1, <1>2, <1>3, <2>1 DEF ResultCache, CacheStored
<1>4. CASE queries[q].src.kind # "list"
  <2>1. call' = [call EXCEPT !.path = <<queries[q].src.id>>] /\ UNCHANGED <<lists, iters, queries>>
    BY <1>2, <1>4 DEF ResultCache
  <2>2. SameCall /\ call'.got = call.got /\ call'.obj = call.obj /\ call'.path = <<queries[q].src.id>>
    BY <2>1, CallForm DEF Calls, SameCall
  <2>3. Len(call'.path) <= 1
    BY <2>2
  <2> QED
    BY <1>1, <2>1, <2>2, <2>3
<1> QED
  BY <1>1, <1>3, <1>4

-----------------------------------------------------------------------------
(* What queries and calls hold is kept                                       *)

\* Those that have not ended are those that had not.
LEMMA DoneStays ==
  ASSUME Shape, Pulling, NEW jt \in Iterators, jt.done = Top.done, iters' = WithTop(jt)
  PROVE  DOMAIN iters' = DOMAIN iters /\ \A i \in DOMAIN iters : iters'[i].done = iters[i].done
<1>1. PICK its : its = WithTop(jt)
  OBVIOUS
<1>2. /\ its \in Seq(Iterators) /\ Len(its) = Len(iters)
      /\ \A i \in DOMAIN iters : its[i] = IF i = Place THEN jt ELSE iters[i]
  BY <1>1, WithTopForm
<1>3. DOMAIN its = DOMAIN iters
  BY <1>2, KnownForm, SeqForm
<1> QED
  BY <1>1, <1>2, <1>3, TopForm

LEMMA ClimbDone ==
  ASSUME Shape, Pulling, call.obj # NoObj
  PROVE  \A jt \in {Tested(Top, call.obj), Yielded(Top, call.obj)} : jt \in Iterators /\ jt.done = Top.done
<1>1. Top \in Iterators /\ Top = iters[Place] /\ IterOK(Place) /\ TypeOK
  BY TopForm DEF Shape
<1>2. Top.kind = "filter" => Top.f \in DOMAIN Criteria /\ Top.tests \in Readable[Top.f]
  BY <1>1 DEF IterOK
<1>3. call.obj \in Obj /\ \A jt \in {Tested(Top, call.obj), Yielded(Top, call.obj)} : jt \in Iterators
  BY ClimbForm
<1>4. Tested(Top, call.obj).done = Top.done /\ Yielded(Top, call.obj).done = Top.done
  BY <1>1, <1>2, <1>3, YieldedForm
<1> QED
  BY <1>3, <1>4

LEMMA NoCallHeld ==
  ASSUME call' = NoCall
  PROVE  CallHeld'
BY DEF NoCall, CallHeld

LEMMA RunCallHeld ==
  ASSUME Shape, Shape', CallHeld, Run
  PROVE  CallHeld'
<1>1. /\ DOMAIN call.path = 1 .. Len(call.path) /\ Len(call.path) \in Nat
      /\ \A k \in DOMAIN call.path : call.path[k] \in DOMAIN iters
  BY CallForm DEF Shape, CallOK
<1>2. /\ DOMAIN call'.path = 1 .. Len(call'.path) /\ Len(call'.path) \in Nat
  <2>1. call'.path \in Seq(Nat)
    BY DEF Shape, TypeOK, Calls
  <2> QED
    BY <2>1, SeqForm
<1>3. ASSUME SameCall, UNCHANGED queries,
             \A k \in DOMAIN call'.path :
                k > 1 \/ k < Len(call'.path) \/ call'.obj # NoObj => ~iters'[call'.path[k]].done
      PROVE  CallHeld'
  BY <1>3 DEF CallHeld, SameCall
<1>4. CASE Descend
  <2>1. Descended
    BY <1>4, DescendForm
  <2>2. SUFFICES ASSUME NEW k \in DOMAIN call'.path
                 PROVE  ~iters'[call'.path[k]].done
    BY <1>3, <2>1 DEF Descended
  <2>3. CASE k = Len(call.path) + 1
    BY <2>1, <2>3 DEF Descended
  <2>4. CASE k = Len(call.path)
    <3>1. call'.path[k] = Place
      BY <1>1, <2>1, <2>4, CallForm DEF Descended, Place
    <3> QED
      BY <2>1, <3>1, TopForm DEF Descended
  <2>5. CASE k # Len(call.path) + 1 /\ k # Len(call.path)
    <3>1. k \in 1 .. Len(call.path) + 1
      BY <2>1 DEF Descended
    <3>2. k \in 1 .. Len(call.path) /\ k < Len(call.path)
      BY <1>1, <2>5, <3>1
    <3>3. ~iters[call.path[k]].done
      BY <1>1, <3>2 DEF CallHeld
    <3> QED
      BY <2>1, <3>2, <3>3 DEF Descended
  <2> QED
    BY <2>3, <2>4, <2>5
<1>5. CASE Fetch
  <2>1. /\ Pulling /\ SameCall /\ call'.path = call.path /\ ~Top.done /\ Left(Top) # {}
        /\ iters' = WithTop(Advanced(Top)) /\ UNCHANGED queries
    BY <1>5, FetchForm
  <2>2. \A i \in DOMAIN iters : iters'[i].done = iters[i].done
    BY <2>1, FetchLeads, DoneStays
  <2>3. SUFFICES ASSUME NEW k \in DOMAIN call.path
                 PROVE  ~iters[call.path[k]].done
    BY <1>1, <1>3, <2>1, <2>2
  <2>4. CASE k = Len(call.path)
    BY <2>1, <2>4, TopForm DEF Place
  <2>5. CASE k # Len(call.path)
    <3>1. k < Len(call.path)
      BY <1>1, <2>5
    <3> QED
      BY <3>1 DEF CallHeld
  <2> QED
    BY <2>4, <2>5
<1>6. CASE Skip
  <2>1. /\ Pulling /\ SameCall /\ call'.path = call.path /\ call.obj # NoObj /\ call'.obj = NoObj
        /\ iters' = WithTop(Tested(Top, call.obj)) /\ UNCHANGED queries
    BY <1>6, SkipForm
  <2>2. \A i \in DOMAIN iters : iters'[i].done = iters[i].done
    BY <2>1, ClimbDone, DoneStays
  <2>3. \A k \in DOMAIN call.path : ~iters[call.path[k]].done
    BY <2>1 DEF CallHeld
  <2> QED
    BY <1>1, <1>3, <2>1, <2>2, <2>3
<1>7. CASE Yield
  <2>1. /\ Pulling /\ call.obj # NoObj /\ UNCHANGED queries /\ (YieldedUp \/ YieldedLast \/ YieldedOut)
    BY <1>7, YieldForm
  <2>2. CASE YieldedLast
    BY <2>2, NoCallHeld DEF YieldedLast
  <2>3. CASE YieldedUp \/ YieldedOut
    <3>1. SameCall /\ iters' = WithTop(Yielded(Top, call.obj))
      BY <2>3 DEF YieldedUp, YieldedOut
    <3>2. \A i \in DOMAIN iters : iters'[i].done = iters[i].done
      BY <2>1, <3>1, ClimbDone, DoneStays
    <3>3. \A k \in DOMAIN call'.path : k \in DOMAIN call.path /\ call'.path[k] = call.path[k]
      <4>1. CASE YieldedUp
        <5>1. \A k \in 1 .. Len(call.path) - 1 : k \in 1 .. Len(call.path)
          BY <1>1
        <5> QED
          BY <1>1, <4>1, <5>1 DEF YieldedUp
      <4>2. CASE YieldedOut
        BY <4>2 DEF YieldedOut
      <4> QED
        BY <2>3, <4>1, <4>2
    <3>4. \A k \in DOMAIN call.path : ~iters[call.path[k]].done
      BY <2>1 DEF CallHeld
    <3> QED
      BY <1>1, <1>3, <2>1, <3>1, <3>2, <3>3, <3>4
  <2> QED
    BY <2>1, <2>2, <2>3
<1>8. CASE Raise \/ IterationEnds
  BY <1>8, EndForm, NoCallHeld
<1>9. CASE ResultsConsumed
  <2>1. call' = NoCall
    BY <1>9, ConsumedForm, StoreForm
  <2> QED
    BY <2>1, NoCallHeld
<1>10. CASE ResultCache
  <2>1. \/ \E q, got : CacheStored(q, got)
        \/ UNCHANGED <<lists, iters, queries>> /\ SameCall /\ call'.obj = NoObj /\ Len(call'.path) <= 1
    BY <1>10, CacheForm
  <2>2. ASSUME NEW q, NEW got, CacheStored(q, got)
        PROVE  CallHeld'
    BY <2>2, StoreForm, NoCallHeld DEF CacheStored
  <2>3. CASE UNCHANGED <<lists, iters, queries>> /\ SameCall /\ call'.obj = NoObj /\ Len(call'.path) <= 1
    <3>1. \A k \in DOMAIN call'.path : ~(k > 1 \/ k < Len(call'.path) \/ call'.obj # NoObj)
      BY <1>2, <2>3
    <3> QED
      BY <1>3, <2>3, <3>1
  <2> QED
    BY <2>1, <2>2, <2>3
<1> QED
  BY <1>4, <1>5, <1>6, <1>7, <1>8, <1>9, <1>10 DEF Run

\* The iterator of a query is one that is never dropped.
LEMMA SourceGoes ==
  ASSUME Shape, \A i \in 1 .. Known : Goes(i), NEW q \in DOMAIN queries, queries[q].src.kind = "iter",
         NEW i, i = queries[q].src.id
  PROVE  /\ i \in 1 .. Known /\ i \in DOMAIN iters /\ i \in DOMAIN iters' /\ Goes(i)
         /\ iters[i].takers \subseteq iters'[i].takers /\ (iters[i].done => iters'[i].done)
         /\ ChainOf(q) = iters[i].chain
<1>1. Reaches(queries[q].src, Known)
  BY QueryForm DEF QueryOK
<1>2. i \in 1 .. Known
  BY <1>1 DEF Reaches
<1> QED
  BY <1>2, KnownForm DEF Goes, Leads, ChainOf, ChainTo

LEMMA QueryHeldStays ==
  ASSUME Shape, \A i \in 1 .. Known : Goes(i), NEW q \in DOMAIN queries, QueryHeld(q),
         queries'[q].src = queries[q].src, queries'[q].cache = queries[q].cache,
         queries'[q].pulled = queries[q].pulled,
         Given(q)' # {} /\ queries[q].src.kind = "iter" =>
            Given(q) # {} \/ q \in iters'[queries[q].src.id].takers
  PROVE  QueryHeld(q)'
<1>1. PICK src : src = queries[q].src
  OBVIOUS
<1>2. CASE src.kind = "iter"
  <2>1. PICK i : i = src.id
    OBVIOUS
  <2>2. iters[i].takers \subseteq iters'[i].takers /\ (iters[i].done => iters'[i].done)
    BY <1>1, <1>2, <2>1, SourceGoes
  <2>3. /\ Given(q) # {} => q \in iters[i].takers
        /\ queries[q].cache # NoRef => iters[i].done
    BY <1>1, <1>2, <2>1 DEF QueryHeld
  <2>4. Given(q)' # {} => q \in iters'[i].takers
    BY <1>1, <1>2, <2>1, <2>2, <2>3
  <2> QED
    BY <1>1, <2>1, <2>2, <2>3, <2>4 DEF QueryHeld
<1>3. CASE src.kind # "iter"
  BY <1>1, <1>3 DEF QueryHeld
<1> QED
  BY <1>2, <1>3

\* What a query was given after a step.
LEMMA GivenThen ==
  ASSUME NEW q, queries'[q].pulled = queries[q].pulled
  PROVE  /\ call' = NoCall => Given(q)' \subseteq Given(q)
         /\ call'.got = <<>> => Given(q)' \subseteq Given(q)
         /\ SameCall /\ call'.got = call.got => Given(q)' = Given(q)
         /\ call.op # "all" \/ call.query # q => Given(q) = ToSet(queries[q].pulled)
<1>1. call' = NoCall => call'.got = <<>>
  BY DEF NoCall
<1>2. \A s : s = <<>> => ToSet(s) = {}
  BY DEF ToSet
<1>3. call'.got = <<>> => Given(q)' \subseteq Given(q)
  BY <1>2 DEF Given
<1>4. SameCall /\ call'.got = call.got => Given(q)' = Given(q)
  BY DEF Given, SameCall
<1> QED
  BY <1>1, <1>3, <1>4 DEF Given

\* The results are cached: those of the query that was asked.
LEMMA StoredHeld ==
  ASSUME Shape, Held, \A i \in 1 .. Known : Goes(i),
         NEW q \in DOMAIN queries, q = call.query, call.op = "all", NEW got \in Seq(Obj), NEW its,
         StoreResults(q, got, its),
         queries[q].src.kind = "iter" => got = call.got /\ iters'[queries[q].src.id].done
  PROVE  \A p \in DOMAIN queries' : QueryHeld(p)'
<1>1. /\ call' = NoCall /\ DOMAIN queries' = DOMAIN queries
      /\ \A k \in DOMAIN queries : k # q => queries'[k] = queries[k]
      /\ queries'[q].src = queries[q].src /\ queries'[q].pulled = got
  BY StoreForm
<1>2. ASSUME NEW p \in DOMAIN queries, p # q
      PROVE  QueryHeld(p)'
  BY <1>1, <1>2, GivenThen, QueryHeldStays DEF Held
<1>3. queries'[q].cache # NoRef
  <2>1. \E ref : /\ ref = IterRef(Len(its) + 1) \/ ref = ListRef(Len(lists) + 1)
                 /\ queries' = [queries EXCEPT ![q].cache = ref, ![q].pulled = got]
    BY DEF StoreResults, Stored
  <2>2. PICK ref : /\ ref = IterRef(Len(its) + 1) \/ ref = ListRef(Len(lists) + 1)
                   /\ queries' = [queries EXCEPT ![q].cache = ref, ![q].pulled = got]
    BY <2>1
  <2>3. ref.kind # "none"
    BY <2>2 DEF IterRef, ListRef
  <2>4. queries'[q].cache = ref
    BY <2>2, QueryForm DEF Queries
  <2> QED
    BY <2>3, <2>4 DEF NoRef
<1>4. QueryHeld(q)'
  <2>1. PICK src : src = queries[q].src
    OBVIOUS
  <2>2. CASE src.kind = "iter"
    <3>1. PICK i : i = src.id
      OBVIOUS
    <3>2. iters[i].takers \subseteq iters'[i].takers /\ iters'[i].done /\ got = call.got
      BY <2>1, <2>2, <3>1, SourceGoes
    <3>3. Given(q)' = ToSet(got)
      <4>1. call'.op # "all"
        BY <1>1 DEF NoCall
      <4> QED
        BY <1>1, <4>1 DEF Given
    <3>4. ToSet(got) \subseteq Given(q)
      BY <3>2 DEF Given
    <3>5. Given(q) # {} => q \in iters[i].takers
      BY <2>1, <2>2, <3>1 DEF Held, QueryHeld
    <3>6. Given(q)' # {} => q \in iters'[i].takers
      BY <3>2, <3>3, <3>4, <3>5
    <3> QED
      BY <1>1, <1>3, <2>1, <3>1, <3>2, <3>6 DEF QueryHeld
  <2>3. CASE src.kind # "iter"
    BY <1>1, <1>3, <2>1, <2>3 DEF QueryHeld
  <2> QED
    BY <2>2, <2>3
<1>5. SUFFICES ASSUME NEW p \in DOMAIN queries
               PROVE  QueryHeld(p)'
  BY <1>1
<1> QED
  BY <1>2, <1>4

LEMMA RunQueryHeld ==
  ASSUME Shape, Shape', Held, Run, \A i \in 1 .. Known : Goes(i)
  PROVE  \A q \in DOMAIN queries' : QueryHeld(q)'
<1>1. ASSUME UNCHANGED queries,
             \/ call' = NoCall \/ call'.got = <<>> \/ (SameCall /\ call'.got = call.got)
      PROVE  \A q \in DOMAIN queries' : QueryHeld(q)'
  <2>1. SUFFICES ASSUME NEW q \in DOMAIN queries
                 PROVE  QueryHeld(q)'
    BY <1>1
  <2>2. Given(q)' \subseteq Given(q)
    BY <1>1, GivenThen
  <2>3. QueryHeld(q) /\ queries'[q] = queries[q]
    BY <1>1 DEF Held
  <2> QED
    BY <2>2, <2>3, QueryHeldStays
<1>2. CASE Descend
  BY <1>1, <1>2, DescendForm DEF Descended
<1>3. CASE Fetch
  BY <1>1, <1>3, FetchForm
<1>4. CASE Skip
  BY <1>1, <1>4, SkipForm
<1>5. CASE Raise \/ IterationEnds
  <2>1. call' = NoCall /\ UNCHANGED queries
    BY <1>5, EndForm
  <2> QED
    BY <1>1, <2>1
<1>6. CASE Yield
  <2>1. Pulling /\ call.obj # NoObj /\ UNCHANGED <<lists, queries>> /\ (YieldedUp \/ YieldedLast \/ YieldedOut)
    BY <1>6, YieldForm
  <2>2. CASE YieldedUp \/ YieldedLast
    <3>1. call' = NoCall \/ call'.got = <<>> \/ (SameCall /\ call'.got = call.got)
      BY <2>2 DEF YieldedUp, YieldedLast
    <3>2. UNCHANGED queries
      BY <2>1
    <3> QED
      BY <1>1, <3>1, <3>2
  <2>3. CASE YieldedOut
    <3>1. SUFFICES ASSUME NEW q \in DOMAIN queries
                   PROVE  QueryHeld(q)'
      BY <2>1
    <3>2. CASE call.op = "all" /\ call.query = q
      <4>1. 1 \in DOMAIN call.path /\ queries[q].src = IterRef(call.path[1])
        BY <2>1, <3>2, PathForm DEF Shape, CallOK, Pulling
      <4>2. Place = call.path[1] /\ queries[q].src.id = Place
        BY <2>3, <4>1 DEF YieldedOut, Place, IterRef
      <4>3. q \in iters'[Place].takers
        <5>1. Top \in Iterators /\ Top = iters[Place] /\ IterOK(Place) /\ TypeOK /\ Place \in DOMAIN iters
          BY <2>1, TopForm DEF Shape
        <5>2. Top.kind = "filter" => Top.f \in DOMAIN Criteria /\ Top.tests \in Readable[Top.f]
          BY <5>1 DEF IterOK
        <5>3. call.obj \in Obj /\ Yielded(Top, call.obj) \in Iterators
          BY <2>1, ClimbForm
        <5>4. Yielded(Top, call.obj).takers = Top.takers \cup {call.query}
          BY <5>1, <5>2, <5>3, YieldedForm
        <5>5. iters'[Place] = Yielded(Top, call.obj)
          BY <2>1, <2>3, <5>1, <5>3, WithTopForm DEF YieldedOut
        <5> QED
          BY <3>2, <5>4, <5>5
      <4> QED
        BY <2>1, <4>2, <4>3, QueryHeldStays DEF Held
    <3>3. CASE ~(call.op = "all" /\ call.query = q)
      <4>1. ~(call'.op = "all" /\ call'.query = q)
        BY <2>3, <3>3 DEF YieldedOut, SameCall
      <4>2. Given(q)' = Given(q)
        BY <2>1, <3>3, <4>1 DEF Given
      <4> QED
        BY <2>1, <4>2, QueryHeldStays DEF Held
    <3> QED
      BY <3>2, <3>3
  <2> QED
    BY <2>1, <2>2, <2>3
<1>7. CASE ResultsConsumed
  <2>1. PICK q, got, its, i : q = call.query /\ got = call.got /\ its = Finished({}) /\ i = call.path[1]
    OBVIOUS
  <2>2. /\ call.op = "all" /\ q \in DOMAIN queries /\ queries[q].src = IterRef(i)
        /\ StoreResults(q, got, its) /\ got \in Seq(Obj) /\ 1 \in DOMAIN call.path /\ Pulling
    BY <1>7, <2>1, ConsumedForm
  <2>3. its \in Seq(Iterators) /\ Len(its) = Len(iters) /\ \A k \in DOMAIN iters : Leads(iters[k], its[k])
    <3>1. {} \in SUBSET Nat
      OBVIOUS
    <3> QED
      BY <2>1, <3>1, FinishedLeads
  <2>4. iters' = its \/ iters' = Kept(its) \/ \E g : iters' = Append(its, g)
    BY <2>2, StoreForm
  <2>5. queries[q].src.kind = "iter" /\ queries[q].src.id = i /\ i \in 1 .. Known /\ i \in DOMAIN iters
    <3>1. queries[q].src.kind = "iter" /\ queries[q].src.id = i
      BY <2>2 DEF IterRef
    <3> QED
      BY <2>2, <3>1, SourceGoes
  <2>6. iters'[i] = its[i]
    BY <2>3, <2>4, <2>5, Advances
  <2>7. its[i].done
    <3>1. i \in ToSet(call.path) /\ {} \in SUBSET Nat
      BY <2>1, <2>2 DEF ToSet
    <3> QED
      BY <2>1, <2>5, <3>1, EndedForm
  <2> QED
    BY <2>1, <2>2, <2>5, <2>6, <2>7, StoredHeld
<1>8. CASE ResultCache
  <2>1. /\ call.op = "all"
        /\ \/ \E q, got : CacheStored(q, got)
           \/ UNCHANGED <<lists, iters, queries>> /\ call'.got = <<>>
    BY <1>8, CacheForm
  <2>2. ASSUME NEW q, NEW got, CacheStored(q, got)
        PROVE  \A p \in DOMAIN queries' : QueryHeld(p)'
    <3>1. /\ q = call.query /\ q \in DOMAIN queries /\ got \in Seq(Obj)
          /\ queries[q].src.kind = "list" /\ StoreResults(q, got, iters)
      BY <2>2 DEF CacheStored
    <3>2. queries[q].src.kind # "iter"
      BY <3>1
    <3> QED
      BY <2>1, <3>1, <3>2, StoredHeld
  <2>3. CASE UNCHANGED <<lists, iters, queries>> /\ call'.got = <<>>
    <3>1. UNCHANGED queries /\ call'.got = <<>>
      BY <2>3
    <3> QED
      BY <1>1, <3>1
  <2> QED
    BY <2>1, <2>2, <2>3
<1> QED
  BY <1>2, <1>3, <1>4, <1>5, <1>6, <1>7, <1>8 DEF Run

LEMMA RunHeld ==
  ASSUME Shape, Shape', Held, Run, \A i \in 1 .. Known : Goes(i)
  PROVE  Held'
BY RunSound, RunCallHeld, RunQueryHeld DEF Held

\* A query or an iterator is added, or a call begins.
LEMMA PreparesHeld ==
  ASSUME Shape, Shape', Held, Prepares, \A i \in 1 .. Known : Goes(i)
  PROVE  Held'
<1>1. /\ Idle /\ call'.got = <<>> /\ call'.obj = NoObj /\ Len(call'.path) <= 1
      /\ call'.op = "all" =>
            call'.query \in DOMAIN queries /\ queries[call'.query].cache = NoRef /\ call'.wants = {}
      /\ UNCHANGED iters \/ \E g \in Iterators : iters' = Append(iters, g) /\ Unused(g)
  BY DEF Prepares
<1>2. /\ Len(queries') \in Nat /\ Len(queries) \in Nat /\ Len(queries) <= Len(queries')
      /\ \A q \in DOMAIN queries : q \in DOMAIN queries' /\ queries'[q] = queries[q]
      /\ \A q \in DOMAIN queries' \ DOMAIN queries :
            queries'[q].cache = NoRef /\ queries'[q].pulled = <<>>
  <2>1. CASE UNCHANGED queries
    <3>1. Len(queries) \in Nat
      BY QueryNumber
    <3> QED
      BY <2>1, <3>1
  <2>2. ASSUME NEW x \in Queries, queries' = Append(queries, x), x.cache = NoRef, x.pulled = <<>>
        PROVE  /\ Len(queries') = Len(queries) + 1 /\ Len(queries) \in Nat
               /\ \A q \in DOMAIN queries : q \in DOMAIN queries' /\ queries'[q] = queries[q]
               /\ \A q \in DOMAIN queries' \ DOMAIN queries :
                     queries'[q].cache = NoRef /\ queries'[q].pulled = <<>>
    <3>1. /\ queries' \in Seq(Queries) /\ Len(queries) \in Nat
          /\ DOMAIN queries = 1 .. Len(queries) /\ DOMAIN queries' = 1 .. Len(queries) + 1
          /\ queries'[Len(queries) + 1] = x
          /\ \A q \in DOMAIN queries : q # Len(queries) + 1 /\ queries'[q] = queries[q]
      BY <2>2, QueryAppended DEF Shape
    <3>2. Len(queries') = Len(queries) + 1
      BY <2>2, <3>1, AppendProperties DEF Shape, TypeOK
    <3>3. \A q \in DOMAIN queries' \ DOMAIN queries : q = Len(queries) + 1
      BY <3>1
    <3> QED
      BY <2>2, <3>1, <3>2, <3>3
  <2> QED
    BY <2>1, <2>2 DEF Prepares
<1>3. Sound(iters', Len(queries'))
  <2>1. Sound(iters, Len(queries)) /\ iters \in Seq(Iterators)
    BY DEF Held, Shape, TypeOK
  <2>2. CASE UNCHANGED iters
    <3>1. 0 .. Len(queries) \subseteq 0 .. Len(queries')
      BY <1>2
    <3> QED
      BY <2>1, <2>2, <3>1 DEF Sound
  <2>3. ASSUME NEW g \in Iterators, iters' = Append(iters, g), Unused(g)
        PROVE  Sound(iters', Len(queries'))
    <3>1. g.takers = {} /\ ~g.done /\ (g.src.kind = "iter" => g.src.id \in 1 .. Len(iters))
      BY <2>3, KnownForm DEF Unused
    <3> QED
      BY <1>2, <2>1, <2>3, <3>1, SoundAdd
  <2> QED
    BY <1>1, <2>2, <2>3
<1>4. CallHeld'
  <2>1. DOMAIN call'.path = 1 .. Len(call'.path) /\ Len(call'.path) \in Nat
    <3>1. call'.path \in Seq(Nat)
      BY DEF Shape, TypeOK, Calls
    <3> QED
      BY <3>1, SeqForm
  <2>2. \A k \in DOMAIN call'.path : ~(k > 1 \/ k < Len(call'.path) \/ call'.obj # NoObj)
    BY <1>1, <2>1
  <2> QED
    BY <1>1, <1>2, <2>2 DEF CallHeld
<1>5. \A q \in DOMAIN queries' : QueryHeld(q)'
  <2>1. ASSUME NEW q \in DOMAIN queries
        PROVE  QueryHeld(q)'
    <3>1. Given(q)' \subseteq Given(q) /\ queries'[q] = queries[q]
      BY <1>1, <1>2, GivenThen
    <3> QED
      BY <3>1, QueryHeldStays DEF Held
  <2>2. ASSUME NEW q \in DOMAIN queries' \ DOMAIN queries
        PROVE  QueryHeld(q)'
    <3>1. queries'[q].cache = NoRef /\ queries'[q].pulled = <<>>
      BY <1>2
    <3>2. Given(q)' = {}
      BY <1>1, <3>1 DEF Given, ToSet
    <3> QED
      BY <3>1, <3>2 DEF QueryHeld
  <2> QED
    BY <2>1, <2>2
<1> QED
  BY <1>3, <1>4, <1>5 DEF Held

-----------------------------------------------------------------------------
(* What is settled stays settled                                             *)

LEMMA RefusedStays ==
  ASSUME NEW i \in DOMAIN iters, Continues(i), NEW o, Refused(i, o)
  PROVE  Refused(i, o)'
<1>1. Follows(iters[i], iters'[i]) /\ iters[i].kind = "filter"
  BY DEF Continues, Refused
<1>2. PICK r \in Readable[iters[i].f] :
        /\ ~MeetsIn(r, i, o)
        /\ iters[i].tests = Fresh(Criteria[iters[i].f]) => r = Fresh(Criteria[iters[i].f])
  BY DEF Refused
<1>3. /\ iters'[i].f = iters[i].f /\ iters'[i].negate = iters[i].negate /\ iters'[i].kind = "filter"
      /\ iters'[i].tests = Fresh(Criteria[iters[i].f]) => iters[i].tests = Fresh(Criteria[iters[i].f])
  BY <1>1 DEF Follows
<1>4. ~MeetsIn(r, i, o)'
  BY <1>2, <1>3 DEF MeetsIn
<1> QED
  BY <1>2, <1>3, <1>4 DEF Refused

LEMMA EqualOnes ==
  ASSUME NEW o \in Obj, NEW p \in EqualTo[o]
  PROVE  /\ p \in Obj /\ Value[p] = Value[o] /\ o \in EqualTo[p] /\ (p \in Falsy <=> o \in Falsy)
         /\ \A x \in EqualTo[p] : x \in EqualTo[o]
         /\ \A f \in DOMAIN Criteria : \A r \in Readable[f] : Outcomes[f][r][p] = Outcomes[f][r][o]
<1>1. p \in Obj /\ Value[p] = Value[o]
  BY DEF EqualTo
<1>2. o \in EqualTo[p] /\ \A x \in EqualTo[p] : x \in EqualTo[o]
  BY <1>1 DEF EqualTo
<1>3. p \in Falsy <=> o \in Falsy
  BY <1>1 DEF Falsy
<1>4. ASSUME NEW f \in DOMAIN Criteria, NEW r \in Readable[f]
      PROVE  Outcomes[f][r][p] = Outcomes[f][r][o]
  <2>1. \A x \in Obj : Outcomes[f][r][x] = Called(Criteria[f], r, Value[x])
    BY DEF Outcomes
  <2> QED
    BY <1>1, <2>1
<1> QED
  BY <1>1, <1>2, <1>3, <1>4

\* A filter that refuses an object refuses those that hold the same.
LEMMA EqualRefused ==
  ASSUME Shape, NEW i \in DOMAIN iters, NEW o \in Obj, NEW p \in EqualTo[o], Refused(i, p)
  PROVE  Refused(i, o)
<1>1. iters[i].kind = "filter" /\ iters[i].f \in DOMAIN Criteria
  BY DEF Refused, Shape, IterOK
<1>2. PICK r \in Readable[iters[i].f] :
        /\ ~MeetsIn(r, i, p)
        /\ iters[i].tests = Fresh(Criteria[iters[i].f]) => r = Fresh(Criteria[iters[i].f])
  BY DEF Refused
<1>3. Outcomes[iters[i].f][r][p] = Outcomes[iters[i].f][r][o] /\ (p \in Falsy <=> o \in Falsy)
  BY <1>1, EqualOnes
<1>4. ~MeetsIn(r, i, o)
  BY <1>2, <1>3 DEF MeetsIn
<1> QED
  BY <1>1, <1>2, <1>4 DEF Refused

\* The chain of a query, which does not change.
LEMMA ChainOfForm ==
  ASSUME Shape, NEW q \in DOMAIN queries
  PROVE  /\ ChainOf(q) \subseteq 1 .. Known /\ ChainOf(q) \subseteq DOMAIN iters
         /\ queries[q].src.kind = "iter" =>
               /\ queries[q].src.id \in 1 .. Known /\ queries[q].src.id \in ChainOf(q)
               /\ ChainOf(q) = iters[queries[q].src.id].chain /\ Base(q) = Root(queries[q].src.id)
         /\ queries[q].src.kind # "iter" => ChainOf(q) = {}
<1>1. QueryOK(q) /\ Known \in Nat /\ Known <= Len(iters)
  BY QueryForm, KnownForm
<1>2. ChainOf(q) \subseteq 1 .. Known /\ ChainOf(q) \subseteq DOMAIN iters
  BY <1>1, ChainForm DEF QueryOK, ChainOf
<1>3. ASSUME queries[q].src.kind = "iter", NEW i, i = queries[q].src.id
      PROVE  i \in 1 .. Known /\ i \in ChainOf(q) /\ ChainOf(q) = iters[i].chain /\ Base(q) = Root(i)
  <2>1. i \in 1 .. Known /\ ChainOf(q) = iters[i].chain /\ i \in DOMAIN iters
    BY <1>1, <1>3, ChainForm DEF QueryOK, ChainOf
  <2>2. IterOK(i)
    BY <2>1 DEF Shape
  <2> QED
    BY <2>1, <2>2 DEF IterOK, Base, Root
<1> QED
  BY <1>2, <1>3 DEF ChainOf, ChainTo

LEMMA BaseForm ==
  ASSUME Shape, NEW q \in DOMAIN queries, ChainOf(q) # {}, NEW b, b = Base(q)
  PROVE  b \in ChainOf(q) /\ b \in 1 .. Known /\ b \in DOMAIN iters /\ iters[b].src.kind = "list"
<1>1. queries[q].src.kind = "iter"
  BY ChainOfForm
<1>2. PICK i : i = queries[q].src.id
  OBVIOUS
<1>3. i \in DOMAIN iters /\ i \in ChainOf(q) /\ ChainOf(q) = iters[i].chain /\ b = Root(i)
  BY <1>1, <1>2, ChainOfForm
<1>4. Root(i) \in iters[i].chain /\ iters[Root(i)].src.kind = "list"
  BY <1>3, RootForm
<1> QED
  BY <1>3, <1>4, ChainOfForm

LEMMA ChainKept ==
  ASSUME Shape, \A i \in 1 .. Known : Goes(i), NEW q \in DOMAIN queries,
         NEW p, queries'[p].src = queries[q].src
  PROVE  ChainOf(p)' = ChainOf(q) /\ Base(p)' = Base(q)
<1>1. PICK src : src = queries[q].src
  OBVIOUS
<1>2. ChainOf(p)' = ChainOf(q)
  <2>1. CASE src.kind = "iter"
    <3>1. PICK i : i = src.id
      OBVIOUS
    <3>2. i \in 1 .. Known
      BY <1>1, <2>1, <3>1, ChainOfForm
    <3>3. iters'[i].chain = iters[i].chain
      BY <3>2 DEF Goes, Leads, Follows
    <3> QED
      BY <1>1, <2>1, <3>1, <3>3 DEF ChainOf, ChainTo
  <2>2. CASE src.kind # "iter"
    BY <1>1, <2>2 DEF ChainOf, ChainTo
  <2> QED
    BY <2>1, <2>2
<1> QED
  BY <1>2 DEF Base

\* What is settled stays so, when what the query was given stays and so does
\* what was on its way.
LEMMA SettledStays ==
  ASSUME Shape, \A i \in 1 .. Known : Goes(i) /\ Continues(i), NEW q \in DOMAIN queries,
         queries'[q].src = queries[q].src, Given(q) \subseteq Given(q)',
         NEW o, NEW low, Settled(q, o, low),
         Pulling /\ call.obj \in EqualTo[o] /\ Place \in ChainOf(q) /\ low < Place => Settled(q, o, low)'
  PROVE  Settled(q, o, low)'
<1>1. ChainOf(q)' = ChainOf(q) /\ ChainOf(q) \subseteq 1 .. Known /\ ChainOf(q) \subseteq DOMAIN iters
  BY ChainKept, ChainOfForm
<1>2. ASSUME NEW i \in ChainOf(q), Refused(i, o)
      PROVE  Settled(q, o, low)'
  <2>1. Refused(i, o)'
    BY <1>1, <1>2, RefusedStays
  <2> QED
    BY <1>1, <1>2, <2>1 DEF Settled
<1>3. ASSUME NEW p \in Given(q), p \in EqualTo[o]
      PROVE  Settled(q, o, low)'
  BY <1>3 DEF Settled
<1> QED
  BY <1>2, <1>3 DEF Settled

\* Query p, as it is after the step, goes through what query q went through.
Counts(q, p) ==
    /\ Unshared(q)
    /\ \A o \in Obj : \A low \in Nat : Settled(q, o, low) => Settled(p, o, low)'
    /\ \/ iters'[Base(q)].pos = iters[Base(q)].pos
       \/ /\ iters'[Base(q)].pos = iters[Base(q)].pos + 1
          /\ \E o : o = lists'[iters[Base(q)].src.id][iters[Base(q)].pos] /\ Settled(p, o, 0)'
    /\ \A i \in ChainOf(q) : \A o \in iters'[i].seen : o \in iters[i].seen \/ Settled(p, o, i)'

LEMMA CountedOver ==
  ASSUME Shape, Shape', Grown, \A i \in 1 .. Known : Goes(i) /\ Continues(i),
         NEW q \in DOMAIN queries, ChainOf(q) # {}, Counted(q),
         NEW p, Base(p)' = Base(q), ChainOf(q) \subseteq ChainOf(p)',
         \A i \in ChainOf(p)' : i \notin ChainOf(q) => iters'[i].seen = {},
         Unshared(p)' /\ Forwards(q) => Counts(q, p)
  PROVE  Counted(p)'
<1>1. PICK b : b = Base(q)
  OBVIOUS
<1>2. b \in ChainOf(q) /\ b \in 1 .. Known /\ b \in DOMAIN iters /\ iters[b].src.kind = "list"
  BY <1>1, BaseForm
<1>3. iters'[b].kind = iters[b].kind /\ iters'[b].src = iters[b].src
  BY <1>2 DEF Goes, Leads, Follows
<1>4. SUFFICES ASSUME Unshared(p)', Forwards(p)'
               PROVE  /\ \A n \in DOMAIN lists'[iters[b].src.id] :
                            n < iters'[b].pos => Settled(p, lists[iters[b].src.id][n], 0)'
                      /\ \A i \in ChainOf(q) : \A o \in iters'[i].seen : Settled(p, o, i)'
  BY <1>1, <1>3 DEF Counted
<1>5. Forwards(q)
  BY <1>1, <1>3, <1>4 DEF Forwards
<1>6. Counts(q, p) /\ iters[b].kind = "filter"
  BY <1>1, <1>4, <1>5 DEF Forwards
<1>7. PICK s, t, k : s = lists[iters[b].src.id] /\ t = lists'[iters[b].src.id] /\ k = iters[b].pos
  OBVIOUS
<1>8. /\ \A n \in DOMAIN s : n < k => Settled(q, s[n], 0)
      /\ \A i \in ChainOf(q) : \A o \in iters[i].seen : Settled(q, o, i)
  BY <1>1, <1>5, <1>6, <1>7 DEF Counted, Counts
<1>9. ASSUME NEW n \in DOMAIN t, n < iters'[b].pos
      PROVE  Settled(p, lists[iters[b].src.id][n], 0)'
  <2>1. Walk(b) /\ Walk(b)'
    <3>1. b \in DOMAIN iters' /\ iters'[b].src.kind = "list"
      BY <1>2, <1>3 DEF Goes
    <3> QED
      BY <1>2, <3>1, WalksNow, WalksNext DEF Walks
  <2>2. /\ DOMAIN s = 1 .. Len(s) /\ Len(s) \in Nat /\ k \in Int /\ k - 1 <= Len(s)
        /\ \A m \in DOMAIN s : t[m] = s[m] /\ s[m] \in Obj
    <3>1. iters[b].src.id \in DOMAIN lists /\ s \in Seq(Obj) /\ k \in Int /\ Past(b) = k - 1 /\ Past(b) \in 0 .. Len(s)
      BY <1>6, <1>7, <2>1 DEF Walk
    <3>2. DOMAIN s = 1 .. Len(s) /\ Len(s) \in Nat
      BY <3>1, SeqForm
    <3> QED
      BY <1>7, <3>1, <3>2, SeqForm DEF Grown
  <2>3. DOMAIN t = 1 .. Len(t) /\ Len(t) \in Nat
    <3>1. t \in Seq(Obj)
      BY <1>3, <1>7, <2>1 DEF Walk
    <3> QED
      BY <3>1, SeqForm
  <2>4. CASE n < k
    <3>1. n \in DOMAIN s
      BY <1>9, <2>2, <2>3, <2>4
    <3>2. Settled(p, s[n], 0)' /\ t[n] = s[n]
      BY <1>6, <1>8, <2>2, <2>4, <3>1 DEF Counts
    <3> QED
      BY <1>3, <1>7, <3>2
  <2>5. CASE ~(n < k)
    <3>1. n = k /\ iters'[b].pos = k + 1
      BY <1>1, <1>6, <1>7, <1>9, <2>2, <2>3, <2>5 DEF Counts
    <3>2. \E o : o = t[k] /\ Settled(p, o, 0)'
      BY <1>1, <1>6, <1>7, <2>2, <3>1 DEF Counts
    <3> QED
      BY <1>3, <1>7, <3>1, <3>2
  <2> QED
    BY <2>4, <2>5
<1>10. ASSUME NEW i \in ChainOf(q), NEW o \in iters'[i].seen
       PROVE  Settled(p, o, i)'
  <2>1. iters[i].seen \subseteq Obj /\ i \in Nat
    <3>1. i \in DOMAIN iters /\ i \in Nat
      BY ChainOfForm, QueryForm
    <3>2. iters[i] \in Iterators
      BY <3>1, SeqForm DEF Shape, TypeOK
    <3> QED
      BY <3>1, <3>2 DEF Iterators
  <2> QED
    BY <1>6, <1>8, <2>1 DEF Counts
<1> QED
  BY <1>7, <1>9, <1>10

LEMMA CountedMoves ==
  ASSUME Shape, Shape', Grown, \A i \in 1 .. Known : Goes(i) /\ Continues(i),
         NEW q \in DOMAIN queries, NEW p, queries'[p].src = queries[q].src, Counted(q),
         Unshared(p)' /\ Forwards(q) => Counts(q, p)
  PROVE  Counted(p)'
<1>1. ChainOf(p)' = ChainOf(q) /\ Base(p)' = Base(q)
  BY ChainKept
<1>2. CASE ChainOf(q) = {}
  BY <1>1, <1>2 DEF Counted, Forwards
<1>3. CASE ChainOf(q) # {}
  BY <1>1, <1>3, CountedOver
<1> QED
  BY <1>2, <1>3

-----------------------------------------------------------------------------
(* Each step of a call settles the objects it moves                          *)

\* What one step may do to a query q that keeps what it goes through: the
\* object on its way, the position and what is remembered are settled.
Settles(q) ==
    /\ queries'[q].src = queries[q].src /\ Given(q) \subseteq Given(q)'
    /\ \A o \in Obj : \A low \in Nat :
          Pulling /\ call.obj \in EqualTo[o] /\ Place \in ChainOf(q) /\ low < Place => Settled(q, o, low)'
    /\ \/ iters'[Base(q)].pos = iters[Base(q)].pos
       \/ /\ iters'[Base(q)].pos = iters[Base(q)].pos + 1
          /\ \E o : o = lists'[iters[Base(q)].src.id][iters[Base(q)].pos] /\ Settled(q, o, 0)'
    /\ \A i \in ChainOf(q) : \A o \in iters'[i].seen : o \in iters[i].seen \/ Settled(q, o, i)'

\* What a step assumes of a query.
Before(q) == Counted(q) /\ Unshared(q) /\ Forwards(q) /\ Unshared(q)'

LEMMA UnsharedBefore ==
  ASSUME Shape, \A i \in 1 .. Known : Goes(i), NEW q \in DOMAIN queries,
         queries'[q].src = queries[q].src, Unshared(q)'
  PROVE  Unshared(q)
<1>1. ChainOf(q)' = ChainOf(q) /\ ChainOf(q) \subseteq 1 .. Known
  BY ChainKept, ChainOfForm
<1>2. \A i \in ChainOf(q) : iters[i].takers \subseteq iters'[i].takers
  BY <1>1 DEF Goes, Leads
<1> QED
  BY <1>1, <1>2 DEF Unshared

LEMMA SettlesCounts ==
  ASSUME Shape, Shape', Grown, \A i \in 1 .. Known : Goes(i) /\ Continues(i),
         NEW q \in DOMAIN queries, queries'[q].src = queries[q].src, Counted(q),
         Before(q) => Settles(q)
  PROVE  Counted(q)'
<1>1. SUFFICES ASSUME Unshared(q)', Forwards(q)
               PROVE  Counts(q, q)
  BY CountedMoves
<1>2. Unshared(q)
  BY <1>1, UnsharedBefore
<1>3. Settles(q)
  BY <1>1, <1>2 DEF Before
<1>4. ASSUME NEW o \in Obj, NEW low \in Nat, Settled(q, o, low)
      PROVE  Settled(q, o, low)'
  BY <1>3, <1>4, SettledStays DEF Settles
<1> QED
  BY <1>2, <1>3, <1>4 DEF Settles, Counts

\* A step that moves nothing the query goes through.
LEMMA AsideSettles ==
  ASSUME Shape, NEW q \in DOMAIN queries, Forwards(q),
         queries'[q].src = queries[q].src, Given(q) \subseteq Given(q)',
         call.obj = NoObj \/ Place \notin ChainOf(q),
         \A i \in ChainOf(q) : iters'[i].pos = iters[i].pos /\ iters'[i].seen = iters[i].seen
  PROVE  Settles(q)
<1>1. Base(q) \in ChainOf(q)
  BY BaseForm DEF Forwards
<1>2. \A o \in Obj : NoObj \notin EqualTo[o]
  BY ObjAssumption DEF EqualTo
<1> QED
  BY <1>1, <1>2 DEF Settles

LEMMA GivenKept ==
  ASSUME NEW q, queries'[q].pulled = queries[q].pulled,
         ~(call.op = "all" /\ call.query = q) \/ (SameCall /\ call'.got = call.got)
  PROVE  Given(q) \subseteq Given(q)'
BY DEF Given, SameCall

\* The query that was asked is the one that its generators run for.
LEMMA AskedGoes ==
  ASSUME Shape, Pulling, NEW q \in DOMAIN queries, call.op = "all", call.query = q
  PROVE  /\ ChainOf(q) = iters[call.path[1]].chain /\ Place \in ChainOf(q)
         /\ \A k \in DOMAIN call.path : call.path[k] \in ChainOf(q)
<1>1. queries[q].src = IterRef(call.path[1]) /\ 1 \in DOMAIN call.path
  BY PathForm DEF Shape, CallOK, Pulling
<1>2. ChainOf(q) = iters[call.path[1]].chain
  BY <1>1 DEF ChainOf, ChainTo, IterRef
<1>3. ASSUME NEW k \in DOMAIN call.path
      PROVE  call.path[k] \in ChainOf(q)
  <2>1. call.path[k] \in DOMAIN iters /\ iters[call.path[k]].chain \subseteq iters[call.path[1]].chain
    BY DEF Shape, CallOK
  <2>2. IterOK(call.path[k])
    BY <2>1 DEF Shape
  <2> QED
    BY <1>2, <2>1, <2>2 DEF IterOK
<1>4. Len(call.path) \in DOMAIN call.path
  BY CallForm
<1> QED
  BY <1>2, <1>3, <1>4 DEF Place

\* Each object of a chain, in a step that changes only what is at the top.
LEMMA TopOnly ==
  ASSUME Shape, Shape', Pulling, NEW jt \in Iterators,
         iters' = WithTop(jt) \/ iters' = Kept(WithTop(jt)),
         NEW i \in 1 .. Known
  PROVE  iters'[i] = IF i = Place THEN jt ELSE iters[i]
<1>1. PICK its : its = WithTop(jt)
  OBVIOUS
<1>2. /\ its \in Seq(Iterators) /\ Len(its) = Len(iters)
      /\ \A k \in DOMAIN iters : its[k] = IF k = Place THEN jt ELSE iters[k]
  BY <1>1, WithTopForm
<1>3. i \in DOMAIN iters /\ (iters' = its \/ iters' = Kept(its))
  BY <1>1, KnownForm
<1>4. iters'[i] = its[i]
  BY <1>2, <1>3, KeptForm
<1> QED
  BY <1>2, <1>3, <1>4

LEMMA FetchSettles ==
  ASSUME Shape, Shape', NEW q \in DOMAIN queries, Before(q), Fetch
  PROVE  Settles(q)
<1>1. /\ Pulling /\ SameCall /\ call'.got = call.got /\ call'.path = call.path /\ call.obj = NoObj
      /\ call'.obj = lists[Top.src.id][Top.pos] /\ Top.src.kind = "list" /\ Left(Top) # {}
      /\ iters' = WithTop(Advanced(Top)) /\ UNCHANGED <<lists, queries>>
  BY FetchForm
<1>2. /\ Advanced(Top) \in Iterators /\ Advanced(Top).seen = Top.seen
      /\ Top.kind # "reversed" => Advanced(Top).pos = Top.pos + 1
  BY <1>1, FetchLeads
<1>3. Top = iters[Place] /\ Place \in DOMAIN iters /\ Place \in Nat \ {0}
  BY <1>1, TopForm
<1>4. \A i \in ChainOf(q) : iters'[i] = IF i = Place THEN Advanced(Top) ELSE iters[i]
  BY <1>1, <1>2, TopOnly, ChainOfForm
<1>5. Given(q) \subseteq Given(q)'
  BY <1>1, GivenKept
<1>6. CASE Place # Base(q)
  <2>1. Forwards(q) /\ ChainOf(q) # {}
    BY DEF Before, Forwards
  <2>2. Base(q) \in ChainOf(q) /\ iters[Base(q)].src.kind = "list"
    BY <2>1, BaseForm
  <2>3. \A i \in ChainOf(q) : iters'[i].seen = iters[i].seen
    BY <1>2, <1>3, <1>4
  <2>4. iters'[Base(q)].pos = iters[Base(q)].pos
    BY <1>4, <1>6, <2>2
  <2>5. \A o \in Obj : NoObj \notin EqualTo[o]
    BY ObjAssumption DEF EqualTo
  <2> QED
    BY <1>1, <1>5, <2>3, <2>4, <2>5 DEF Settles
<1>7. CASE Place = Base(q)
  <2>1. Forwards(q) /\ ChainOf(q) # {} /\ Top.kind = "filter"
    BY <1>3, <1>7 DEF Before, Forwards
  <2>2. Base(q) \in ChainOf(q)
    BY <2>1, BaseForm
  <2>3. \A i \in ChainOf(q) : iters'[i].seen = iters[i].seen
    BY <1>2, <1>3, <1>4
  <2>4. iters'[Base(q)].pos = iters[Base(q)].pos + 1
    BY <1>2, <1>3, <1>4, <1>7, <2>1, <2>2
  <2>5. \A o \in Obj : NoObj \notin EqualTo[o]
    BY ObjAssumption DEF EqualTo
  <2>6. PICK o : o = lists[Top.src.id][Top.pos]
    OBVIOUS
  <2>7. o \in Obj
    <3>1. Walk(Place) /\ Top.kind # "reversed"
      BY <1>1, <1>3, <2>1, WalksNow DEF Walks
    <3>2. PICK s, k : s = lists[Top.src.id] /\ k = Top.pos
      OBVIOUS
    <3>3. s \in Seq(Obj) /\ k \in Int /\ k - 1 \in Nat
      BY <1>3, <2>1, <3>1, <3>2 DEF Walk
    <3>4. k .. Len(s) # {}
      BY <1>1, <2>1, <3>2 DEF Left
    <3>5. k \in DOMAIN s
      <4>1. DOMAIN s = 1 .. Len(s) /\ Len(s) \in Nat
        BY <3>3, SeqForm
      <4> QED
        BY <3>3, <3>4, <4>1
    <3> QED
      BY <2>6, <3>2, <3>3, <3>5, SeqForm
  <2>8. Settled(q, o, 0)'
    <3>1. ChainOf(q)' = ChainOf(q)
      <4>1. \A i \in ChainOf(q) : iters'[i].chain = iters[i].chain
        <5>1. Advanced(Top).chain = Top.chain
          BY <1>1, FetchLeads DEF Leads, Follows
        <5> QED
          BY <1>3, <1>4, <5>1
      <4> QED
        BY <1>1, <4>1, ChainOfForm DEF ChainOf, ChainTo
    <3>2. o \in EqualTo[o]
      BY <2>7 DEF EqualTo
    <3>3. Pulling' /\ Place' = Place /\ call'.obj = o /\ 0 < Place
      BY <1>1, <1>3, <2>6 DEF Pulling, Place
    <3> QED
      BY <1>7, <2>2, <3>1, <3>2, <3>3 DEF Settled
  <2>9. o = lists'[iters[Base(q)].src.id][iters[Base(q)].pos]
    BY <1>1, <1>3, <1>7, <2>6
  <2> QED
    BY <1>1, <1>5, <2>3, <2>4, <2>5, <2>8, <2>9 DEF Settles
<1> QED
  BY <1>6, <1>7

LEMMA SkipSettles ==
  ASSUME Shape, Shape', \A i \in 1 .. Known : Goes(i) /\ Continues(i),
         NEW q \in DOMAIN queries, Before(q), Skip
  PROVE  Settles(q)
<1>1. /\ Pulling /\ SameCall /\ call'.got = call.got /\ call'.path = call.path /\ call.obj # NoObj
      /\ ~Accepts(Top, call.obj) /\ iters' = WithTop(Tested(Top, call.obj)) /\ UNCHANGED <<lists, queries>>
  BY SkipForm
<1>2. /\ Tested(Top, call.obj) \in Iterators
      /\ Tested(Top, call.obj).seen = Top.seen /\ Tested(Top, call.obj).pos = Top.pos
  <2>1. Top \in Iterators /\ Top = iters[Place] /\ IterOK(Place) /\ TypeOK /\ call.obj \in Obj
    BY <1>1, TopForm, ClimbForm DEF Shape
  <2>2. Top.kind = "filter" => Top.f \in DOMAIN Criteria /\ Top.tests \in Readable[Top.f]
    BY <2>1 DEF IterOK
  <2> QED
    BY <2>1, <2>2, TestedForm, YieldedForm
<1>3. Top = iters[Place] /\ Place \in DOMAIN iters /\ IterOK(Place) /\ call.obj \in Obj
  BY <1>1, TopForm, ClimbForm
<1>4. \A i \in ChainOf(q) : iters'[i] = IF i = Place THEN Tested(Top, call.obj) ELSE iters[i]
  BY <1>1, <1>2, TopOnly, ChainOfForm
<1>5. \A i \in ChainOf(q) : iters'[i].pos = iters[i].pos /\ iters'[i].seen = iters[i].seen
  BY <1>2, <1>3, <1>4
<1>6. Given(q) \subseteq Given(q)'
  BY <1>1, GivenKept
<1>7. Forwards(q) /\ ChainOf(q) # {}
  BY DEF Before, Forwards
<1>8. Base(q) \in ChainOf(q)
  BY <1>7, BaseForm
<1>9. ASSUME NEW o \in Obj, NEW low, call.obj \in EqualTo[o], Place \in ChainOf(q), low < Place
      PROVE  Settled(q, o, low)'
  <2>1. ChainOf(q)' = ChainOf(q) /\ ChainOf(q) \subseteq 1 .. Known /\ ChainOf(q) \subseteq DOMAIN iters
    <3>1. queries'[q].src = queries[q].src
      BY <1>1
    <3> QED
      BY <3>1, ChainKept, ChainOfForm
  <2>2. ASSUME NEW i \in ChainOf(q), NEW p \in EqualTo[o], Refused(i, p)
        PROVE  Settled(q, o, low)'
    <3>1. Refused(i, o)
      BY <2>1, <2>2, EqualRefused
    <3>2. Refused(i, o)'
      BY <2>1, <3>1, RefusedStays
    <3> QED
      BY <2>1, <3>2 DEF Settled
  <2>3. Top.kind = "filter" /\ Top.f \in DOMAIN Criteria /\ Top.tests \in Readable[Top.f]
    BY <1>1, <1>3 DEF Accepts, IterOK
  <2>4. CASE ~Passes(Top, call.obj)
    <3>1. CASE call.obj \in Falsy
      <4>1. Fresh(Criteria[Top.f]) \in Readable[Top.f] /\ ~MeetsIn(Fresh(Criteria[Top.f]), Place, call.obj)
        BY <2>3, <3>1, FreshReads DEF MeetsIn
      <4>2. Refused(Place, call.obj)
        BY <1>3, <2>3, <4>1 DEF Refused
      <4> QED
        BY <1>9, <2>2, <4>2
    <3>2. CASE call.obj \notin Falsy
      <4>1. Outcomes[Top.f][Top.tests][call.obj].test = Top.negate
        BY <2>4, <3>2 DEF Passes, Call
      <4>2. ~MeetsIn(Top.tests, Place, call.obj)
        BY <1>3, <4>1 DEF MeetsIn
      <4>3. Refused(Place, call.obj)
        BY <1>3, <2>3, <4>2 DEF Refused
      <4> QED
        BY <1>9, <2>2, <4>3
    <3> QED
      BY <3>1, <3>2
  <2>5. CASE Passes(Top, call.obj)
    <3>1. EqualTo[call.obj] \cap Top.seen # {}
      BY <1>1, <2>3, <2>5 DEF Accepts
    <3>2. PICK p \in Top.seen : p \in EqualTo[call.obj]
      BY <3>1
    <3>3. p \in EqualTo[o] /\ p \in Obj /\ \A x \in EqualTo[p] : x \in EqualTo[o]
      <4>1. call.obj \in Obj /\ \A x \in EqualTo[call.obj] : x \in EqualTo[o]
        BY <1>3, <1>9, EqualOnes
      <4> QED
        BY <3>2, <4>1, EqualOnes
    <3>4. Settled(q, p, Place)
      BY <1>3, <1>9, <3>2 DEF Before, Counted
    <3>5. CASE \E i \in ChainOf(q) : Refused(i, p)
      BY <2>2, <3>3, <3>5
    <3>6. CASE \E x \in Given(q) : x \in EqualTo[p]
      BY <1>6, <3>3, <3>6 DEF Settled
    <3>7. ~(Place < Place)
      BY <1>3, TopForm, <1>1
    <3> QED
      BY <3>4, <3>5, <3>6, <3>7 DEF Settled
  <2> QED
    BY <2>4, <2>5
<1> QED
  BY <1>1, <1>5, <1>6, <1>8, <1>9 DEF Settles

LEMMA YieldSettles ==
  ASSUME Shape, Shape', CallHeld, \A i \in 1 .. Known : Goes(i) /\ Continues(i),
         NEW q \in DOMAIN queries, Before(q), Yield
  PROVE  Settles(q)
<1>1. /\ Pulling /\ call.obj # NoObj /\ UNCHANGED <<lists, queries>>
      /\ YieldedUp \/ YieldedLast \/ YieldedOut
  BY YieldForm
<1>2. PICK jt, x, pl : jt = Yielded(Top, call.obj) /\ x = call.obj /\ pl = Place
  OBVIOUS
<1>3. Top = iters[Place] /\ Place \in DOMAIN iters /\ IterOK(Place) /\ call.obj \in Obj /\ Place \in Nat
  BY <1>1, TopForm, ClimbForm
<1>4. /\ jt \in Iterators /\ jt.seen \subseteq Top.seen \cup {call.obj} /\ jt.pos = Top.pos
      /\ jt.takers = Top.takers \cup {call.query}
  <2>1. Top \in Iterators /\ TypeOK
    BY <1>1, TopForm DEF Shape
  <2>2. Top.kind = "filter" => Top.f \in DOMAIN Criteria /\ Top.tests \in Readable[Top.f]
    BY <1>3 DEF IterOK
  <2>3. jt \in Iterators /\ jt.pos = Top.pos
    BY <1>2, <1>3, <2>1, <2>2, TestedForm
  <2>4. jt.takers = Top.takers \cup {call.query} /\ jt.seen = IF Top.distinct THEN Top.seen \cup {call.obj} ELSE Top.seen
    BY <1>2, <1>3, <2>1, <2>2, YieldedForm
  <2> QED
    BY <2>3, <2>4
<1>5. iters' = WithTop(jt) \/ iters' = Kept(WithTop(jt))
  BY <1>1, <1>2 DEF YieldedUp, YieldedLast, YieldedOut
<1>6. \A i \in ChainOf(q) : iters'[i] = IF i = Place THEN jt ELSE iters[i]
  BY <1>1, <1>4, <1>5, TopOnly, ChainOfForm
<1>7. Forwards(q) /\ ChainOf(q) # {} /\ queries'[q] = queries[q]
  BY <1>1 DEF Before, Forwards
<1>8. CASE Place \notin ChainOf(q)
  <2>1. \A i \in ChainOf(q) : iters'[i].pos = iters[i].pos /\ iters'[i].seen = iters[i].seen
    BY <1>6, <1>8
  <2>2. ~(call.op = "all" /\ call.query = q)
    BY <1>1, <1>8, AskedGoes
  <2>3. Given(q) \subseteq Given(q)'
    BY <1>7, <2>2, GivenKept
  <2> QED
    BY <1>7, <1>8, <2>1, <2>3, AsideSettles
<1>9. CASE Place \in ChainOf(q)
  <2>1. ChainOf(q)' = ChainOf(q)
    BY <1>7, ChainKept
  <2>2. call.query = q
    <3>1. iters'[Place].takers \subseteq {q}
      BY <1>9, <2>1 DEF Before, Unshared
    <3> QED
      BY <1>4, <1>6, <1>9, <3>1
  <2>3. call.op = "all"
    <3>1. q # 0
      BY QueryNumber
    <3> QED
      BY <2>2, <3>1 DEF Shape, CallOK
  <2>4. ~YieldedLast
    BY <2>3 DEF YieldedLast, CallHeld
  <2>5. Base(q) \in ChainOf(q)
    BY <1>7, BaseForm
  <2>6. iters'[Base(q)].pos = iters[Base(q)].pos
    BY <1>3, <1>4, <1>6, <2>5
  <2>7. \A i \in ChainOf(q) : \A o \in iters'[i].seen : o \in iters[i].seen \/ (i = pl /\ o = x)
    BY <1>2, <1>3, <1>4, <1>6
  <2>8. CASE YieldedUp
    <3>1. Given(q) \subseteq Given(q)'
      BY <1>7, <2>8, GivenKept DEF YieldedUp
    <3>2. Len(call.path) \in Nat /\ DOMAIN call.path = 1 .. Len(call.path) /\ Len(call.path) > 1
      BY <2>8, CallForm DEF YieldedUp
    <3>3. PICK k : k = Len(call.path) - 1
      OBVIOUS
    <3>4. k \in DOMAIN call.path /\ k \in 1 .. Len(call.path) - 1 /\ k + 1 = Len(call.path)
      BY <3>2, <3>3
    <3>5. Place' = call.path[k] /\ Pulling' /\ call'.obj = call.obj
      <4>1. call'.path[k] = call.path[k] /\ Len(call'.path) = k /\ DOMAIN call'.path = 1 .. k
        BY <2>8, <3>3, <3>4 DEF YieldedUp
      <4>2. call'.path # <<>>
        BY <3>4, <4>1
      <4> QED
        BY <2>8, <4>1, <4>2 DEF Place, Pulling, YieldedUp
    <3>6. Place' \in ChainOf(q)' /\ Place < Place'
      <4>1. call.path[k] \in ChainOf(q)
        BY <1>1, <2>2, <2>3, <3>4, AskedGoes
      <4>2. call.path[k] \in DOMAIN iters /\ iters[call.path[k]].src = IterRef(Place)
        <5>1. Len(call.path) > 1 /\ Len(call.path) \in DOMAIN call.path
          BY <3>2
        <5>2. iters[call.path[Len(call.path) - 1]].src = IterRef(call.path[Len(call.path)])
          BY <5>1 DEF Shape, CallOK
        <5> QED
          BY <3>3, <3>4, <5>2 DEF Shape, CallOK, Place
      <4>3. Place \in 1 .. call.path[k] - 1 /\ call.path[k] \in Nat
        BY <4>2, RootForm DEF IterRef
      <4>4. Place < call.path[k]
        BY <4>3
      <4> QED
        BY <2>1, <3>5, <4>1, <4>4
    <3>7. ASSUME NEW o \in Obj, NEW low, call.obj \in EqualTo[o], low < Place, low \in Nat
          PROVE  Settled(q, o, low)'
      <4>1. low < Place'
        <5>1. Place' \in Nat
          <6>1. ChainOf(q) \subseteq Nat
            BY QueryForm
          <6> QED
            BY <2>1, <3>6, <6>1
        <5> QED
          BY <1>3, <3>6, <3>7, <5>1
      <4> QED
        BY <3>5, <3>6, <3>7, <4>1 DEF Settled
    <3>8. Settled(q, x, pl)'
      <4>1. call.obj \in EqualTo[call.obj]
        BY <1>3 DEF EqualTo
      <4> QED
        BY <1>2, <3>5, <3>6, <4>1 DEF Settled
    <3> QED
      BY <1>7, <2>6, <2>7, <3>1, <3>7, <3>8 DEF Settles
  <2>9. CASE YieldedOut
    <3>1. ToSet(call'.got) = ToSet(call.got) \cup {call.obj} /\ call'.op = "all" /\ call'.query = q
      BY <2>2, <2>3, <2>9 DEF YieldedOut, SameCall
    <3>2. Given(q) \subseteq Given(q)' /\ call.obj \in Given(q)'
      BY <1>7, <3>1 DEF Given
    <3>3. \A o \in Obj : \A low : call.obj \in EqualTo[o] => Settled(q, o, low)'
      BY <3>2 DEF Settled
    <3>4. Settled(q, x, pl)'
      <4>1. call.obj \in EqualTo[call.obj]
        BY <1>3 DEF EqualTo
      <4> QED
        BY <1>2, <1>3, <3>3, <4>1
    <3> QED
      BY <1>7, <2>6, <2>7, <3>2, <3>3, <3>4 DEF Settles
  <2> QED
    BY <1>1, <2>4, <2>8, <2>9
<1> QED
  BY <1>8, <1>9

LEMMA EndSettles ==
  ASSUME Shape, Shape', \A i \in 1 .. Known : Goes(i) /\ Continues(i),
         NEW q \in DOMAIN queries, Before(q), Raise \/ IterationEnds
  PROVE  Settles(q)
<1>1. PICK takers \in SUBSET {0} :
        /\ Pulling /\ UNCHANGED <<lists, queries>> /\ iters' = Kept(Finished(takers))
        /\ 0 \in takers \/ (call.op # "all" /\ call.obj = NoObj)
  <2>1. /\ Pulling /\ UNCHANGED <<lists, queries>>
        /\ \/ Raise /\ iters' = Kept(Finished({0}))
           \/ call.op # "all" /\ call.obj = NoObj /\ iters' = Kept(Finished({}))
    BY EndForm
  <2>2. {0} \in SUBSET {0} /\ {} \in SUBSET {0} /\ 0 \in {0}
    OBVIOUS
  <2> QED
    BY <2>1, <2>2
<1>2. takers \in SUBSET Nat
  OBVIOUS
<1>3. PICK its : its = Finished(takers)
  OBVIOUS
<1>4. its \in Seq(Iterators) /\ Len(its) = Len(iters)
  BY <1>2, <1>3, FinishedForm
<1>5. \A i \in ChainOf(q) : i \in DOMAIN iters /\ iters'[i] = its[i]
  BY <1>1, <1>3, <1>4, KeptForm, ChainOfForm
<1>6. \A i \in ChainOf(q) : iters'[i].pos = iters[i].pos /\ iters'[i].seen = iters[i].seen
  BY <1>2, <1>3, <1>5, FinishedForm
<1>7. Forwards(q) /\ queries'[q] = queries[q]
  BY <1>1 DEF Before
<1>8. CASE Place \notin ChainOf(q)
  <2>1. ~(call.op = "all" /\ call.query = q)
    BY <1>1, <1>8, AskedGoes
  <2>2. Given(q) \subseteq Given(q)'
    BY <1>7, <2>1, GivenKept
  <2> QED
    BY <1>6, <1>7, <1>8, <2>2, AsideSettles
<1>9. CASE Place \in ChainOf(q) /\ 0 \in takers
  <2>1. Place \in ToSet(call.path)
    <3>1. Len(call.path) \in DOMAIN call.path
      BY <1>1, CallForm
    <3> QED
      BY <3>1 DEF Place, ToSet
  <2>2. takers \subseteq its[Place].takers
    BY <1>2, <1>3, <1>5, <1>9, <2>1, EndedForm
  <2>3. iters'[Place].takers \subseteq {q}
    <3>1. ChainOf(q)' = ChainOf(q)
      BY <1>7, ChainKept
    <3> QED
      BY <1>9, <3>1 DEF Before, Unshared
  <2>4. q # 0
    BY QueryNumber
  <2> QED
    BY <1>5, <1>9, <2>2, <2>3, <2>4
<1>10. CASE 0 \notin takers
  <2>1. Given(q) \subseteq Given(q)'
    BY <1>1, <1>7, <1>10, GivenKept
  <2> QED
    BY <1>1, <1>6, <1>7, <1>10, <2>1, AsideSettles
<1> QED
  BY <1>8, <1>9, <1>10

\* Results are cached: those that the query that was asked had been given.
LEMMA StoreSettles ==
  ASSUME Shape, Shape', NEW p \in DOMAIN queries, NEW got \in Seq(Obj), NEW its \in Seq(Iterators),
         Len(its) = Len(iters), StoreResults(p, got, its), call.obj = NoObj, call.op = "all", p = call.query,
         \A i \in DOMAIN iters : its[i].pos = iters[i].pos /\ its[i].seen = iters[i].seen,
         NEW q \in DOMAIN queries, Forwards(q), q = p => Given(q) \subseteq ToSet(got), ~Probing
  PROVE  Settles(q)
<1>1. /\ iters' = its \/ \E g : iters' = Append(its, g)
      /\ \A k \in DOMAIN queries : k # p => queries'[k] = queries[k]
      /\ queries'[p].src = queries[p].src /\ queries'[p].pulled = got
  BY StoreForm
<1>2. \A i \in ChainOf(q) : i \in DOMAIN iters /\ iters'[i] = its[i]
  <2>1. \A i \in ChainOf(q) : i \in DOMAIN iters /\ i \in 1 .. Len(its) /\ i \in Nat
    BY ChainOfForm, KnownForm
  <2>2. \A g : iters' = Append(its, g) => \A i \in 1 .. Len(its) : iters'[i] = its[i]
    BY AppendProperties
  <2> QED
    BY <1>1, <2>1, <2>2
<1>3. queries'[q].src = queries[q].src
  BY <1>1
<1>4. Given(q) \subseteq Given(q)'
  <2>1. CASE q = p
    BY <1>1, <2>1 DEF Given
  <2>2. CASE q # p
    BY <1>1, <2>2, GivenKept
  <2> QED
    BY <2>1, <2>2
<1> QED
  BY <1>2, <1>3, <1>4, AsideSettles

LEMMA ConsumedSettles ==
  ASSUME Shape, Shape', Held, NEW q \in DOMAIN queries, Before(q), ResultsConsumed
  PROVE  Settles(q)
<1>1. PICK p, got, its : p = call.query /\ got = call.got /\ its = Finished({})
  OBVIOUS
<1>2. /\ call.op = "all" /\ call.obj = NoObj /\ p \in DOMAIN queries /\ StoreResults(p, got, its)
      /\ got \in Seq(Obj)
  BY <1>1, ConsumedForm
<1>3. {} \in SUBSET Nat
  OBVIOUS
<1>4. /\ its \in Seq(Iterators) /\ Len(its) = Len(iters)
      /\ \A i \in DOMAIN iters : its[i].pos = iters[i].pos /\ its[i].seen = iters[i].seen
  BY <1>1, <1>3, FinishedForm
<1>5. q = p => Given(q) \subseteq ToSet(got)
  <2>1. SUFFICES ASSUME q = p
                 PROVE  Given(q) \subseteq ToSet(got)
    OBVIOUS
  <2>2. queries[q].pulled = <<>>
    BY <1>1, <1>2, <2>1 DEF Held, CallHeld, QueryHeld
  <2>3. ToSet(queries[q].pulled) = {}
    BY <2>2 DEF ToSet
  <2> QED
    BY <1>1, <1>2, <2>1, <2>3 DEF Given
<1> QED
  BY <1>1, <1>2, <1>4, <1>5, StoreSettles DEF Before, Probing

LEMMA CacheSettles ==
  ASSUME Shape, Shape', Held, NEW q \in DOMAIN queries, Before(q), ResultCache
  PROVE  Settles(q)
<1>1. /\ call.op = "all" /\ call.got = <<>> /\ call.obj = NoObj
      /\ \/ \E p, got : CacheStored(p, got)
         \/ UNCHANGED <<lists, iters, queries>> /\ SameCall /\ call'.got = <<>>
  BY CacheForm
<1>2. ASSUME NEW p, NEW got, CacheStored(p, got)
      PROVE  Settles(q)
  <2>1. /\ p = call.query /\ p \in DOMAIN queries /\ got \in Seq(Obj)
        /\ queries[p].src.kind = "list" /\ StoreResults(p, got, iters)
    BY <1>2 DEF CacheStored
  <2>2. q # p
    <3>1. ChainOf(p) = {}
      BY <2>1, ChainOfForm
    <3> QED
      BY <3>1 DEF Before, Forwards
  <2>3. iters \in Seq(Iterators)
    BY DEF Shape, TypeOK
  <2> QED
    BY <1>1, <2>1, <2>2, <2>3, StoreSettles DEF Before, Probing
<1>3. CASE UNCHANGED <<lists, iters, queries>> /\ SameCall /\ call'.got = <<>>
  <2>1. Given(q) \subseteq Given(q)'
    BY <1>1, <1>3, GivenKept
  <2> QED
    BY <1>1, <1>3, <2>1, AsideSettles DEF Before
<1> QED
  BY <1>1, <1>2, <1>3

LEMMA DescendSettles ==
  ASSUME Shape, Shape', NEW q \in DOMAIN queries, Before(q), Descend
  PROVE  Settles(q)
<1>1. Descended
  BY DescendForm
<1>2. Given(q) \subseteq Given(q)'
  BY <1>1, GivenKept DEF Descended
<1> QED
  BY <1>1, <1>2, AsideSettles DEF Before, Descended

\* A call keeps the queries there are, and only adds lists.
LEMMA RunQueries ==
  ASSUME Shape, Run
  PROVE  /\ Grown /\ DOMAIN queries' = DOMAIN queries
         /\ \A q \in DOMAIN queries : queries'[q].src = queries[q].src
<1>1. TypeOK
  BY DEF Shape
<1>2. ASSUME UNCHANGED <<lists, queries>>
      PROVE  Grown /\ DOMAIN queries' = DOMAIN queries /\ \A q \in DOMAIN queries : queries'[q].src = queries[q].src
  BY <1>1, <1>2, SameLists
<1>3. ASSUME NEW q \in DOMAIN queries, NEW got \in Seq(Obj), NEW its, StoreResults(q, got, its)
      PROVE  Grown /\ DOMAIN queries' = DOMAIN queries /\ \A p \in DOMAIN queries : queries'[p].src = queries[p].src
  <2>1. /\ lists' = Append(lists, got) /\ DOMAIN queries' = DOMAIN queries
        /\ \A k \in DOMAIN queries : k # q => queries'[k] = queries[k]
        /\ queries'[q].src = queries[q].src
    BY <1>3, StoreForm
  <2> QED
    BY <1>1, <2>1, ListAdded
<1>4. CASE Descend \/ Fetch \/ Skip \/ Yield \/ Raise \/ IterationEnds
  BY <1>2, <1>4 DEF Descend, Fetch, Skip, Yield, Raise, IterationEnds
<1>5. CASE ResultsConsumed
  BY <1>3, <1>5, ConsumedForm
<1>6. CASE ResultCache
  <2>1. \/ \E q, got : CacheStored(q, got)
        \/ UNCHANGED <<lists, iters, queries>>
    BY <1>6, CacheForm
  <2> QED
    BY <1>2, <1>3, <2>1 DEF CacheStored
<1> QED
  BY <1>4, <1>5, <1>6 DEF Run

LEMMA RunCounted ==
  ASSUME Shape, Shape', Held, \A i \in 1 .. Known : Goes(i) /\ Continues(i), Run,
         \A q \in DOMAIN queries : Counted(q)
  PROVE  \A q \in DOMAIN queries' : Counted(q)'
<1>1. /\ Grown /\ DOMAIN queries' = DOMAIN queries
      /\ \A q \in DOMAIN queries : queries'[q].src = queries[q].src
  BY RunQueries
<1>2. SUFFICES ASSUME NEW q \in DOMAIN queries
               PROVE  Counted(q)'
  BY <1>1
<1>3. ASSUME Before(q)
      PROVE  Settles(q)
  BY <1>3, DescendSettles, FetchSettles, SkipSettles, YieldSettles, EndSettles, ConsumedSettles,
     CacheSettles DEF Run, Held
<1> QED
  BY <1>1, <1>3, SettlesCounts

-----------------------------------------------------------------------------
(* Queries that are made go through what no one has consumed, or are not     *)
(* alone                                                                     *)

\* Nothing was consumed of what query q goes through: all that left the list
\* was refused.
LEMMA Untaken ==
  ASSUME Shape, Held, Idle, NEW q \in DOMAIN queries, Counted(q), Forwards(q),
         \A i \in ChainOf(q) : iters[i].takers = {}
  PROVE  \A o : \A low : Settled(q, o, low) => \E i \in ChainOf(q) : Refused(i, o)
<1>1. queries[q].src.kind = "iter" /\ queries[q].src.id \in ChainOf(q)
  BY ChainOfForm DEF Forwards
<1>2. Given(q) = {}
  BY <1>1 DEF Held, QueryHeld
<1>3. ~Pulling
  BY DEF Idle, NoCall, Pulling
<1> QED
  BY <1>2, <1>3 DEF Settled

\* The new query goes through the generators of query q, and maybe through one
\* that has not started.
LEMMA NewOver ==
  ASSUME Shape, Shape', Held, Idle, Grown, \A i \in 1 .. Known : Goes(i) /\ Continues(i),
         NEW q \in DOMAIN queries, ChainOf(q) # {}, Counted(q),
         NEW p, p = Len(queries) + 1, Base(p)' = Base(q), ChainOf(q) \subseteq ChainOf(p)',
         \A i \in ChainOf(p)' : i \notin ChainOf(q) => iters'[i].seen = {},
         \A i \in ChainOf(q) : iters'[i] = iters[i]
  PROVE  Counted(p)'
<1>1. SUFFICES ASSUME Unshared(p)', Forwards(q)
               PROVE  Counts(q, p)
  BY CountedOver
<1>2. ChainOf(q) \subseteq DOMAIN iters
  BY ChainOfForm
<1>3. ASSUME NEW i \in ChainOf(q)
      PROVE  iters[i].takers = {}
  <2>1. iters[i].takers \subseteq 0 .. Len(queries)
    BY <1>2 DEF Held, Sound
  <2>2. iters[i].takers \subseteq {p}
    BY <1>1 DEF Unshared
  <2>3. p \notin 0 .. Len(queries)
    BY QueryNumber
  <2> QED
    BY <2>1, <2>2, <2>3
<1>4. Unshared(q)
  BY <1>3 DEF Unshared
<1>5. ASSUME NEW o \in Obj, NEW low \in Nat, Settled(q, o, low)
      PROVE  Settled(p, o, low)'
  <2>1. PICK i \in ChainOf(q) : Refused(i, o)
    BY <1>1, <1>3, <1>5, Untaken
  <2>2. i \in 1 .. Known
    BY <2>1, ChainOfForm
  <2>3. Refused(i, o)'
    BY <1>2, <2>1, <2>2, RefusedStays
  <2> QED
    BY <2>3 DEF Settled
<1>6. Base(q) \in ChainOf(q)
  BY BaseForm
<1> QED
  BY <1>4, <1>5, <1>6 DEF Counts

LEMMA LeastOf ==
  ASSUME NEW n \in Nat, NEW T, T \subseteq 1 .. n
  PROVE  /\ Min({n + 1}) = n + 1
         /\ T # {} => Min(T \cup {n + 1}) = Min(T)
<1>1. Min({n + 1}) \in {n + 1}
  BY MinIsLeast
<1>2. ASSUME T # {}
      PROVE  Min(T \cup {n + 1}) = Min(T)
  <2>1. PICK a, b : a = Min(T) /\ b = Min(T \cup {n + 1})
    OBVIOUS
  <2>2. a \in T /\ \A m \in T : a <= m
    <3>1. T \subseteq Nat
      OBVIOUS
    <3> QED
      BY <1>2, <2>1, <3>1, MinIsLeast
  <2>3. b \in T \cup {n + 1} /\ \A m \in T \cup {n + 1} : b <= m
    <3>1. T \cup {n + 1} \subseteq Nat
      OBVIOUS
    <3> QED
      BY <1>2, <2>1, <3>1, MinIsLeast
  <2>4. a \in 1 .. n /\ b <= a
    BY <2>2, <2>3
  <2>5. b \in T
    BY <2>3, <2>4
  <2>6. a <= b /\ b \in 1 .. n
    BY <2>2, <2>5
  <2> QED
    BY <2>1, <2>4, <2>6
<1> QED
  BY <1>1, <1>2

\* A query through a generator that was made for it.
LEMMA FirstCounted ==
  ASSUME Shape, Shape', Held, Idle, Grown, \A i \in 1 .. Known : Goes(i) /\ Continues(i),
         \A q \in DOMAIN queries : Counted(q),
         NEW p, p = Len(queries) + 1, NEW g \in Iterators, iters' = Append(iters, g), Unused(g),
         queries'[p].src = IterRef(Len(iters) + 1),
         \/ g.kind = "reversed" /\ g.src.kind = "list"
         \/ g.pos = 1 /\ \E q \in DOMAIN queries : g.src = queries[q].src
  PROVE  Counted(p)'
<1>1. PICK j : j = Len(iters) + 1
  OBVIOUS
<1>2. /\ Len(iters) \in Nat /\ DOMAIN iters = 1 .. Len(iters) /\ DOMAIN iters' = 1 .. Len(iters) + 1
      /\ iters'[j] = g /\ j \in DOMAIN iters' /\ \A i \in 1 .. Len(iters) : iters'[i] = iters[i]
  <2>1. iters \in Seq(Iterators)
    BY DEF Shape, TypeOK
  <2>2. \A i \in 1 .. Len(iters) : iters'[i] = iters[i]
    BY <2>1, AppendProperties
  <2> QED
    BY <1>1, <2>2, IterAppended
<1>3. ChainOf(p)' = ChainTo(g.src)' \cup {j}
  <2>1. ChainOf(p)' = g.chain
    BY <1>1, <1>2 DEF ChainOf, ChainTo, IterRef
  <2>2. IterOK(j)'
    BY <1>2 DEF Shape
  <2> QED
    BY <1>2, <2>1, <2>2 DEF IterOK
<1>4. CASE g.kind = "reversed" /\ g.src.kind = "list"
  <2>1. ChainOf(p)' = {j}
    BY <1>3, <1>4 DEF ChainTo
  <2>2. Base(p)' = j
    BY <1>1, <1>2, <2>1, LeastOf DEF Base
  <2> QED
    BY <1>2, <1>4, <2>2 DEF Counted, Forwards
<1>5. ASSUME NEW q \in DOMAIN queries, g.pos = 1, g.src = queries[q].src
      PROVE  Counted(p)'
  <2>1. ChainTo(g.src)' = ChainOf(q) /\ ChainOf(q) \subseteq 1 .. Len(iters)
    <3>1. ChainOf(q) \subseteq DOMAIN iters
      BY ChainOfForm
    <3>2. g.src.kind = "iter" => iters'[g.src.id] = iters[g.src.id]
      BY <1>2, <1>5, QueryForm
    <3> QED
      BY <1>2, <1>5, <3>1, <3>2 DEF ChainOf, ChainTo
  <2>2. CASE ChainOf(q) = {}
    <3>1. ChainOf(p)' = {j}
      BY <1>3, <2>1, <2>2
    <3>2. Base(p)' = j
      BY <1>1, <1>2, <3>1, LeastOf DEF Base
    <3>3. iters'[j].src.kind = "list"
      <4>1. g.src.kind # "iter"
        BY <1>5, <2>2, ChainOfForm
      <4>2. Reaches(g.src, Known)
        BY <1>5, QueryForm DEF QueryOK
      <4> QED
        BY <1>2, <4>1, <4>2 DEF Reaches
    <3>4. Walk(j)'
      BY <1>2, <3>3, WalksNext DEF Walks
    <3>5. PICK t : t = lists'[iters'[j].src.id]
      OBVIOUS
    <3>6. DOMAIN t = 1 .. Len(t) /\ Len(t) \in Nat
      BY <3>4, <3>5, SeqForm DEF Walk
    <3>7. \A n \in DOMAIN t : ~(n < 1)
      BY <3>6
    <3>8. iters'[j].pos = 1 /\ iters'[j].seen = {}
      BY <1>2, <1>5 DEF Unused
    <3> QED
      BY <3>1, <3>2, <3>5, <3>7, <3>8 DEF Counted
  <2>3. CASE ChainOf(q) # {}
    <3>1. Base(p)' = Base(q)
      <4>1. PICK c : c = ChainOf(q)
        OBVIOUS
      <4>2. Min(c \cup {j}) = Min(c)
        BY <1>1, <1>2, <2>1, <2>3, <4>1, LeastOf
      <4>3. ChainOf(p)' = c \cup {j}
        BY <1>3, <2>1, <4>1
      <4> QED
        BY <4>1, <4>2, <4>3 DEF Base
    <3>2. \A i \in ChainOf(p)' : i \notin ChainOf(q) => iters'[i].seen = {}
      BY <1>2, <1>3, <2>1 DEF Unused
    <3>3. \A i \in ChainOf(q) : iters'[i] = iters[i]
      BY <1>2, <2>1
    <3> QED
      BY <1>3, <2>1, <2>3, <3>1, <3>2, <3>3, NewOver
  <2> QED
    BY <2>2, <2>3
<1> QED
  BY <1>4, <1>5

LEMMA PreparesCounted ==
  ASSUME Shape, Shape', Held, Grown, \A i \in 1 .. Known : Goes(i) /\ Continues(i), Prepares,
         \A q \in DOMAIN queries : Counted(q)
  PROVE  \A q \in DOMAIN queries' : Counted(q)'
<1>1. /\ Idle /\ call'.got = <<>>
      /\ UNCHANGED iters \/ \E g \in Iterators : iters' = Append(iters, g) /\ Unused(g)
  BY DEF Prepares
<1>2. \A i \in DOMAIN iters : iters'[i] = iters[i]
  <2>1. iters \in Seq(Iterators) /\ DOMAIN iters = 1 .. Len(iters)
    BY SeqForm DEF Shape, TypeOK
  <2>2. \A g \in Iterators : iters' = Append(iters, g) => \A i \in 1 .. Len(iters) : iters'[i] = iters[i]
    BY <2>1, AppendProperties
  <2> QED
    BY <1>1, <2>1, <2>2
<1>3. ASSUME NEW q \in DOMAIN queries, queries'[q] = queries[q]
      PROVE  Counted(q)'
  <2>1. call.obj = NoObj /\ ~(call.op = "all" /\ call.query = q)
    BY <1>1 DEF Idle, NoCall
  <2>2. Given(q) \subseteq Given(q)'
    BY <1>3, <2>1, GivenKept
  <2>3. \A i \in ChainOf(q) : iters'[i].pos = iters[i].pos /\ iters'[i].seen = iters[i].seen
    BY <1>2, ChainOfForm
  <2>4. Before(q) => Settles(q)
    BY <1>3, <2>1, <2>2, <2>3, AsideSettles DEF Before
  <2> QED
    BY <1>3, <2>4, SettlesCounts
<1>4. CASE UNCHANGED queries
  BY <1>3, <1>4
<1>5. ASSUME NEW x \in Queries, queries' = Append(queries, x), Drawn(x.src)
      PROVE  \A q \in DOMAIN queries' : Counted(q)'
  <2>1. PICK p : p = Len(queries) + 1
    OBVIOUS
  <2>2. /\ Len(queries) \in Nat /\ DOMAIN queries = 1 .. Len(queries) /\ DOMAIN queries' = 1 .. Len(queries) + 1
        /\ queries'[p] = x /\ \A q \in DOMAIN queries : queries'[q] = queries[q]
    BY <1>5, <2>1, QueryAppended DEF Shape
  <2>3. ASSUME x.src.kind # "iter"
        PROVE  Counted(p)'
    BY <2>2, <2>3 DEF Counted, Forwards, ChainOf, ChainTo
  <2>4. ASSUME NEW q \in DOMAIN queries, x.src = queries[q].src
        PROVE  Counted(p)'
    <3>1. ChainOf(p)' = ChainOf(q) /\ Base(p)' = Base(q)
      BY <2>2, <2>4, ChainKept
    <3>2. CASE ChainOf(q) = {}
      BY <3>1, <3>2 DEF Counted, Forwards
    <3>3. CASE ChainOf(q) # {}
      <4>1. \A i \in ChainOf(q) : iters'[i] = iters[i]
        BY <1>2, ChainOfForm
      <4> QED
        BY <1>1, <2>1, <3>1, <3>3, <4>1, NewOver
    <3> QED
      BY <3>2, <3>3
  <2>5. ASSUME NEW g \in Iterators, iters' = Append(iters, g), Unused(g), x.src = IterRef(Len(iters) + 1),
               \/ g.kind = "reversed" /\ g.src.kind = "list"
               \/ g.pos = 1 /\ \E q \in DOMAIN queries : g.src = queries[q].src
        PROVE  Counted(p)'
    <3>1. queries'[p].src = IterRef(Len(iters) + 1)
      BY <2>2, <2>5
    <3> QED
      BY <1>1, <2>1, <2>5, <3>1, FirstCounted
  <2>6. Counted(p)'
    BY <1>5, <2>3, <2>4, <2>5 DEF Drawn
  <2>7. SUFFICES ASSUME NEW q \in DOMAIN queries'
                 PROVE  Counted(q)'
    OBVIOUS
  <2>8. q \in DOMAIN queries \/ q = p
    BY <2>1, <2>2
  <2> QED
    BY <1>3, <2>2, <2>6, <2>8
<1> QED
  BY <1>4, <1>5 DEF Prepares

LEMMA ProgramGrown ==
  ASSUME Shape, Program
  PROVE  Grown
<1>1. TypeOK
  BY DEF Shape
<1>2. ASSUME UNCHANGED lists
      PROVE  Grown
  BY <1>1, <1>2, SameLists
<1>3. ASSUME NEW q \in DOMAIN queries,
             \/ OrderBy(q) \/ Ask(q) \/ Iterate(q) \/ Measure(q) \/ FirstOf(q) \/ LastOf(q) \/ ReverseOf(q)
             \/ \E o \in Added : LookFor(q, o)
             \/ \E r \in Refinements : Refine(q, r)
             \/ \E op \in {"next", "get"}, f \in Probes : Probe(op, q, f)
      PROVE  UNCHANGED lists
  BY <1>3 DEF OrderBy, Ask, Iterate, Measure, FirstOf, LastOf, ReverseOf, LookFor, Refine, Probe, Begin
<1>4. ASSUME NEW flags \in Flags, Make(flags)
      PROVE  UNCHANGED lists
  BY <1>4 DEF Make
<1> QED
  BY <1>2, <1>3, <1>4, ListGrown DEF Program

-----------------------------------------------------------------------------
(* A query that has its results has them all                                 *)

\* Where nothing raised, what an iterator that has ended goes through has ended.
LEMMA AllDone ==
  ASSUME Shape, Held, NEW i \in DOMAIN iters, iters[i].done, \A k \in iters[i].chain : 0 \notin iters[k].takers
  PROVE  \A k \in iters[i].chain : iters[k].done
<1> DEFINE Bad(n) == /\ iters[n].done /\ \A k \in iters[n].chain : 0 \notin iters[k].takers
                     /\ ~\A k \in iters[n].chain : iters[k].done
           T == {n \in DOMAIN iters : Bad(n)}
<1>1. T \subseteq Nat
  BY KnownForm
<1>2. ASSUME T # {}
      PROVE  FALSE
  <2>1. \E n \in T : \A m \in T : n <= m
    <3> HIDE DEF T
    <3> QED
      BY <1>1, <1>2, LeastNumber
  <2>2. PICK n \in T : \A m \in T : n <= m
    BY <2>1
  <2>3. n \in DOMAIN iters /\ Bad(n) /\ n \in Nat
    BY <1>1, <2>2
  <2>4. /\ iters[n].chain = ChainTo(iters[n].src) \cup {n}
        /\ iters[n].src.kind = "iter" => iters[n].src.id \in 1 .. n - 1 /\ iters[n].src.id \in DOMAIN iters
        /\ iters[n].src.kind = "iter" => iters[iters[n].src.id].done \/ 0 \in iters[n].takers
    BY <2>3, RootForm DEF Shape, IterOK, Held, Sound
  <2>5. CASE iters[n].src.kind = "iter"
    <3>1. PICK m : m = iters[n].src.id
      OBVIOUS
    <3>2. m \in 1 .. n - 1 /\ m \in DOMAIN iters /\ iters[n].chain = iters[m].chain \cup {n} /\ iters[m].done
      BY <2>3, <2>4, <2>5, <3>1 DEF ChainTo
    <3>3. m \notin T
      BY <2>2, <2>3, <3>2
    <3> QED
      BY <2>3, <3>2, <3>3
  <2>6. CASE iters[n].src.kind # "iter"
    BY <2>3, <2>4, <2>6 DEF ChainTo
  <2> QED
    BY <2>5, <2>6
<1> QED
  BY <1>2

\* A query with a cache, whose generators yielded to it alone and never
\* raised: nothing is on its way any more.
LEMMA NothingFlies ==
  ASSUME Shape, Held, NEW q \in DOMAIN queries, queries[q].cache # NoRef, Unshared(q), ChainOf(q) # {}
  PROVE  /\ Given(q) = ToSet(queries[q].pulled)
         /\ Pulling /\ call.obj # NoObj => Place \notin ChainOf(q)
<1>1. ~(call.op = "all" /\ call.query = q)
  BY DEF Held, CallHeld
<1>2. Given(q) = ToSet(queries[q].pulled)
  BY <1>1 DEF Given
<1>3. ASSUME Pulling, call.obj # NoObj, Place \in ChainOf(q)
      PROVE  FALSE
  <2>1. PICK i : i = queries[q].src.id
    OBVIOUS
  <2>2. queries[q].src.kind = "iter" /\ i \in ChainOf(q) /\ ChainOf(q) = iters[i].chain /\ i \in DOMAIN iters
    BY <2>1, ChainOfForm
  <2>3. iters[i].done
    BY <2>1, <2>2 DEF Held, QueryHeld
  <2>4. \A k \in iters[i].chain : 0 \notin iters[k].takers
    <3>1. q # 0
      BY QueryNumber
    <3> QED
      BY <2>2, <3>1 DEF Unshared
  <2>5. iters[Place].done
    BY <1>3, <2>2, <2>3, <2>4, AllDone
  <2>6. Len(call.path) \in DOMAIN call.path
    BY <1>3, CallForm
  <2> QED
    BY <1>3, <2>5, <2>6 DEF Held, CallHeld, Place
<1> QED
  BY <1>2, <1>3

CInv == Shape /\ Held /\ \A q \in DOMAIN queries : Counted(q)

LEMMA CountedIsComplete ==
  ASSUME CInv, NEW q \in DOMAIN queries, queries[q].cache # NoRef, Unshared(q)
  PROVE  Complete(q)
<1>1. SUFFICES ASSUME ChainOf(q) # {}, iters[Base(q)].kind = "filter",
                      NEW n \in DOMAIN lists[iters[Base(q)].src.id], n < iters[Base(q)].pos,
                      NEW o, o = lists[iters[Base(q)].src.id][n],
                      IF Unmoved(q) THEN FreshMeets(q, o) ELSE MustMeet(q, o)
               PROVE  \E m \in DOMAIN queries[q].pulled : queries[q].pulled[m] \in EqualTo[o]
  BY DEF Complete, Base
<1>2. Shape /\ Held /\ Counted(q)
  BY DEF CInv
<1>3. o \in Obj
  <2>1. PICK b : b = Base(q)
    OBVIOUS
  <2>2. b \in DOMAIN iters /\ iters[b].src.kind = "list"
    BY <1>1, <1>2, <2>1, BaseForm
  <2>3. Walk(b)
    BY <1>2, <2>2, WalksNow DEF Walks
  <2> QED
    BY <1>1, <2>1, <2>3, SeqForm DEF Walk
<1>4. Settled(q, o, 0)
  BY <1>1, <1>2 DEF Counted, Forwards
<1>5. ASSUME NEW i \in ChainOf(q), Refused(i, o)
      PROVE  FALSE
  <2>1. i \in FiltersOf(q)
    BY <1>5 DEF FiltersOf, Refused
  <2>2. PICK r \in Readable[iters[i].f] :
          /\ ~MeetsIn(r, i, o)
          /\ iters[i].tests = Fresh(Criteria[iters[i].f]) => r = Fresh(Criteria[iters[i].f])
    BY <1>5 DEF Refused
  <2>3. CASE Unmoved(q)
    BY <1>1, <2>1, <2>2, <2>3 DEF Unmoved, FreshMeets
  <2>4. CASE ~Unmoved(q)
    BY <1>1, <2>1, <2>2, <2>4 DEF MustMeet
  <2> QED
    BY <2>3, <2>4
<1>6. PICK p \in Given(q) : p \in EqualTo[o]
  <2>1. NoObj \notin EqualTo[o]
    BY <1>3, ObjAssumption DEF EqualTo
  <2>2. Pulling /\ call.obj # NoObj => Place \notin ChainOf(q)
    BY <1>1, <1>2, NothingFlies
  <2> QED
    BY <1>4, <1>5, <2>1, <2>2 DEF Settled
<1>7. p \in ToSet(queries[q].pulled)
  BY <1>1, <1>2, NothingFlies
<1> QED
  BY <1>6, <1>7 DEF ToSet

LEMMA InitCounted == Init => CInv
<1>1. SUFFICES ASSUME Init
               PROVE  CInv
  OBVIOUS
<1>2. Shape
  BY <1>1, InitShape
<1>3. queries = <<>> /\ iters = <<>> /\ call = NoCall
  BY <1>1 DEF Init
<1>4. DOMAIN queries = {} /\ DOMAIN iters = {} /\ DOMAIN call.path = {} /\ call.op = "none"
  BY <1>3 DEF NoCall
<1> QED
  BY <1>2, <1>4 DEF CInv, Held, CallHeld, Sound

LEMMA SameCounted ==
  ASSUME CInv, UNCHANGED vars
  PROVE  CInv'
<1>1. UNCHANGED <<lists, iters, queries, call>>
  BY DEF vars
<1>2. Shape'
  BY NextShape DEF CInv
<1>3. Held'
  BY <1>1 DEF CInv, Held, CallHeld, Sound, QueryHeld, Given
<1>4. \A q \in DOMAIN queries' : Counted(q)'
  <2>1. SUFFICES ASSUME NEW q \in DOMAIN queries
                 PROVE  Counted(q)'
    BY <1>1
  <2>2. ChainOf(q)' = ChainOf(q) /\ Base(q)' = Base(q) /\ Given(q)' = Given(q)
    BY <1>1 DEF Base, Given, ChainOf, ChainTo
  <2>3. \A i, o : Refused(i, o)' <=> Refused(i, o)
    BY <1>1 DEF Refused, MeetsIn
  <2>4. \A o, low : Settled(q, o, low)' <=> Settled(q, o, low)
    BY <1>1, <2>2, <2>3 DEF Settled, Pulling, Place
  <2>5. (Unshared(q)' <=> Unshared(q)) /\ (Forwards(q)' <=> Forwards(q))
    BY <1>1, <2>2 DEF Unshared, Forwards
  <2>6. Counted(q)
    BY DEF CInv
  <2> QED
    BY <1>1, <2>2, <2>4, <2>5, <2>6 DEF Counted
<1> QED
  BY <1>2, <1>3, <1>4 DEF CInv

LEMMA NextCounted == CInv /\ [Next]_vars => CInv'
<1>1. SUFFICES ASSUME CInv, [Next]_vars
               PROVE  CInv'
  OBVIOUS
<1>2. Shape /\ Shape' /\ Held /\ \A q \in DOMAIN queries : Counted(q)
  BY <1>1, NextShape DEF CInv
<1>3. CASE Next
  <2>1. \A i \in 1 .. Known : Goes(i) /\ Continues(i)
    BY <1>2, <1>3, StepsGo
  <2>2. \A i \in 1 .. Known : Goes(i)
    BY <2>1
  <2>3. CASE Run
    <3>1. Held'
      BY <1>2, <2>2, <2>3, RunHeld
    <3>2. \A q \in DOMAIN queries' : Counted(q)'
      BY <1>2, <2>1, <2>3, RunCounted
    <3> QED
      BY <1>2, <3>1, <3>2 DEF CInv
  <2>4. CASE Program
    <3>1. Prepares /\ Grown
      BY <1>2, <2>4, ProgramPrepares, ProgramGrown
    <3>2. Held'
      BY <1>2, <2>2, <3>1, PreparesHeld
    <3>3. \A q \in DOMAIN queries' : Counted(q)'
      BY <1>2, <2>1, <3>1, PreparesCounted
    <3> QED
      BY <1>2, <3>2, <3>3 DEF CInv
  <2> QED
    BY <1>3, <2>3, <2>4 DEF Next
<1>4. CASE UNCHANGED vars
  BY <1>1, <1>4, SameCounted
<1> QED
  BY <1>1, <1>3, <1>4

\* Whatever the program asks meanwhile, every object that left the list a query
\* goes through is settled, while its generators yielded to it alone: refused
\* on its way, among what the query was given, or still on its way.
THEOREM ObjectsAreCounted == Spec => []CInv
<1> QED
  BY InitCounted, NextCounted, PTL DEF Spec

\* A query whose generators yielded to no other query, to no next() or get(),
\* and never raised, holds, up to equality, every object that meets the
\* criteria of its whole chain, of the list as far as it was gone through.
THEOREM UnsharedResultsAreComplete == Spec => []UnsharedIsComplete
<1>1. CInv => UnsharedIsComplete
  BY CountedIsComplete DEF UnsharedIsComplete, Unshared
<1> QED
  BY <1>1, ObjectsAreCounted, PTL
=============================================================================
