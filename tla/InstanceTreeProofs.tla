-------------------------- MODULE InstanceTreeProofs --------------------------
(* What is proved of InstanceTree: parents follow owners, names are current.  *)
EXTENDS InstanceTree, FiniteSetTheorems, SequenceTheorems, WellFoundedInduction, TLAPS

LEMMA LeastNumber ==
  ASSUME NEW T, T \subseteq Nat, T # {}
  PROVE  \E n \in T : \A m \in T : n <= m
<1> DEFINE R == OpToRel(<, Nat)
<1>1. IsWellFoundedOn(R, Nat)
  BY NatLessThanWellFounded
<1>2. PICK n \in T : \A m \in T : ~(<<m, n>> \in R)
  <2> HIDE DEF R
  <2> QED
    BY <1>1, WFMin
<1>3. \A m \in T : ~(m < n)
  BY <1>2 DEF OpToRel
<1> QED
  BY <1>3

\* A function defined step by step, from start, exists.
Iterates(g, X, start, N, F) ==
    g \in [0 .. N -> X] /\ g[0] = start /\ \A n \in 1 .. N : g[n] = F[n][g[n - 1]]

LEMMA Iterated ==
  ASSUME NEW X, NEW start \in X, NEW N \in Nat, NEW F \in [1 .. N -> [X -> X]]
  PROVE  \E g : Iterates(g, X, start, N, F)
<1> DEFINE Computes(g, k) == g[0] = start /\ \A n \in 1 .. k : g[n] = F[n][g[n - 1]]
           T == {k \in 0 .. N : ~\E g \in [0 .. N -> X] : Computes(g, k)}
<1>1. SUFFICES ASSUME T # {}
               PROVE  FALSE
  <2>1. N \in 0 .. N
    OBVIOUS
  <2> HIDE DEF Computes
  <2>2. T = {} => \E g \in [0 .. N -> X] : Computes(g, N)
    BY <2>1
  <2> QED
    BY <2>2 DEF Computes, Iterates
<1>2. PICK k \in T : \A m \in T : k <= m
  <2>1. T \subseteq Nat
    OBVIOUS
  <2> HIDE DEF T
  <2> QED
    BY <1>1, <2>1, LeastNumber
<1>3. k # 0
  <2>1. Computes([n \in 0 .. N |-> start], 0)
    OBVIOUS
  <2>2. [n \in 0 .. N |-> start] \in [0 .. N -> X]
    OBVIOUS
  <2> HIDE DEF Computes
  <2> QED
    BY <1>2, <2>1, <2>2
<1>4. k \in 1 .. N /\ k - 1 \in 0 .. N
  BY <1>2, <1>3
<1>5. PICK g \in [0 .. N -> X] : Computes(g, k - 1)
  <2>1. k - 1 \notin T
    <3> HIDE DEF T
    <3> QED
      BY <1>2, <1>4
  <2> HIDE DEF Computes
  <2> QED
    BY <1>4, <2>1
<1> DEFINE h == [g EXCEPT ![k] = F[k][g[k - 1]]]
<1>6. h \in [0 .. N -> X]
  <2>1. F[k] \in [X -> X] /\ g[k - 1] \in X
    BY <1>4, <1>5
  <2>2. F[k][g[k - 1]] \in X
    BY <2>1
  <2> QED
    BY <1>4, <1>5, <2>2
<1>7. \A n \in 0 .. N : h[n] = IF n = k THEN F[k][g[k - 1]] ELSE g[n]
  BY <1>4, <1>5
<1> HIDE DEF h
<1>8. h[0] = start
  <2>1. 0 \in 0 .. N /\ g[0] = start
    BY <1>5
  <2> QED
    BY <1>3, <1>7, <2>1
<1>9. ASSUME NEW n \in 1 .. k
      PROVE  h[n] = F[n][h[n - 1]]
  <2>1. n \in 0 .. N /\ n - 1 \in 0 .. N /\ n - 1 # k
    BY <1>4
  <2>2. h[n - 1] = g[n - 1]
    BY <1>7, <2>1
  <2>3. CASE n = k
    BY <1>7, <2>1, <2>2, <2>3
  <2>4. CASE n # k
    <3>1. n \in 1 .. k - 1
      BY <1>4, <2>4
    <3>2. g[n] = F[n][g[n - 1]]
      BY <1>5, <3>1
    <3> QED
      BY <1>7, <2>1, <2>2, <2>4, <3>2
  <2> QED
    BY <2>3, <2>4
<1>10. Computes(h, k)
  BY <1>8, <1>9
<1> HIDE DEF Computes
<1> QED
  BY <1>2, <1>6, <1>10

-----------------------------------------------------------------------------
(* What is above an object.                                                  *)

Chains == [Objs -> Objs \cup {Nothing}]

LEMMA AboveIsClosed ==
  ASSUME NEW f \in Chains, NEW o \in Objs
  PROVE  Closed(f, Above(f, o)) /\ f[o] \in Above(f, o) \cup {Nothing}
<1>1. f[o] \in Above(f, o) \cup {Nothing}
  BY DEF Above, Chains
<1>2. ASSUME NEW p \in Above(f, o)
      PROVE  f[p] \in Above(f, o) \cup {Nothing}
  BY DEF Above, Closed, Chains
<1> QED
  BY <1>1, <1>2 DEF Closed

\* It is the least such set.
LEMMA AboveIsLeast ==
  ASSUME NEW f \in Chains, NEW o \in Objs, NEW S \in SUBSET Objs,
         Closed(f, S), f[o] \in S \cup {Nothing}
  PROVE  Above(f, o) \subseteq S
BY DEF Above

LEMMA AboveAbove ==
  ASSUME NEW f \in Chains, NEW o \in Objs, NEW p \in Above(f, o)
  PROVE  p \in Objs /\ Above(f, p) \subseteq Above(f, o)
<1>1. p \in Objs /\ Above(f, o) \in SUBSET Objs
  BY DEF Above
<1>2. f[p] \in Above(f, o) \cup {Nothing}
  BY AboveIsClosed DEF Closed
<1> QED
  BY <1>1, <1>2, AboveIsClosed, AboveIsLeast

\* It is the same in two chains that agree from the object on.
LEMMA SameAbove ==
  ASSUME NEW f \in Chains, NEW g \in Chains, NEW o \in Objs,
         \A p \in {o} \cup Above(f, o) : g[p] = f[p]
  PROVE  Above(g, o) = Above(f, o)
<1> DEFINE A == Above(f, o)
           B == Above(g, o)
<1>1. A \in SUBSET Objs /\ B \in SUBSET Objs
  BY DEF Above
<1>2. B \subseteq A
  <2>1. Closed(g, A) /\ g[o] \in A \cup {Nothing}
    BY AboveIsClosed DEF Closed
  <2> QED
    BY <1>1, <2>1, AboveIsLeast
<1>3. A \subseteq B
  <2>1. Closed(f, A \cap B) /\ f[o] \in (A \cap B) \cup {Nothing}
    BY AboveIsClosed DEF Closed
  <2>2. A \subseteq A \cap B
    BY <1>1, <2>1, AboveIsLeast
  <2> QED
    BY <2>2
<1> QED
  BY <1>2, <1>3

-----------------------------------------------------------------------------
(* The first of a sequence of maps.                                          *)

LEMMA FirstIs ==
  ASSUME NEW maps \in Seq(Objs), NEW S, NEW o
  PROVE  \/ First(maps, S, o) = Nothing /\ \A i \in 1 .. Len(maps) : maps[i] \notin S \ {o}
         \/ \E k \in 1 .. Len(maps) :
              /\ First(maps, S, o) = maps[k] /\ maps[k] \in S \ {o}
              /\ \A i \in 1 .. k - 1 : maps[i] \notin S \ {o}
<1> DEFINE at == {i \in DOMAIN maps : maps[i] \in S \ {o}}
<1>1. DOMAIN maps = 1 .. Len(maps) /\ Len(maps) \in Nat
  OBVIOUS
<1>2. CASE at = {}
  BY <1>1, <1>2 DEF First
<1>3. CASE at # {}
  <2>1. PICK k \in at : \A m \in at : k <= m
    <3>1. at \subseteq Nat
      BY <1>1
    <3> HIDE DEF at
    <3> QED
      BY <1>3, <3>1, LeastNumber
  <2>2. Min(at) = k
    <3>1. at \subseteq Nat
      BY <1>1
    <3>2. \A x \in at : (\A m \in at : x <= m) => x = k
      BY <2>1, <3>1
    <3> HIDE DEF at
    <3> QED
      BY <2>1, <3>2 DEF Min
  <2>3. First(maps, S, o) = maps[k]
    BY <1>3, <2>2 DEF First
  <2>4. \A i \in 1 .. k - 1 : maps[i] \notin S \ {o}
    <3> TAKE i \in 1 .. k - 1
    <3>1. k \in Nat /\ k <= Len(maps)
      BY <1>1, <2>1
    <3>2. i \in DOMAIN maps /\ ~(k <= i)
      BY <1>1, <3>1
    <3> QED
      BY <2>1, <3>2
  <2> QED
    BY <1>1, <2>1, <2>3, <2>4
<1> QED
  BY <1>2, <1>3

\* It is found at one place only.
LEMMA FirstAt ==
  ASSUME NEW maps \in Seq(Objs), NEW S, NEW o, NEW k \in 1 .. Len(maps),
         maps[k] \in S \ {o}, \A i \in 1 .. k - 1 : maps[i] \notin S \ {o}
  PROVE  First(maps, S, o) = maps[k]
<1>1. Len(maps) \in Nat
  OBVIOUS
<1>2. PICK j \in 1 .. Len(maps) :
        /\ First(maps, S, o) = maps[j] /\ maps[j] \in S \ {o}
        /\ \A i \in 1 .. j - 1 : maps[i] \notin S \ {o}
  BY FirstIs
<1>3. j = k
  <2>1. j \in Nat /\ k \in Nat
    BY <1>1
  <2>2. ~(j < k) /\ ~(k < j)
    BY <1>2, <2>1
  <2> QED
    BY <2>1, <2>2
<1> QED
  BY <1>2, <1>3

LEMMA FirstNone ==
  ASSUME NEW maps \in Seq(Objs), NEW S, NEW o,
         \A i \in 1 .. Len(maps) : maps[i] \notin S \ {o}
  PROVE  First(maps, S, o) = Nothing
BY FirstIs

\* The object itself, in front, is passed over.
LEMMA FirstOfChild ==
  ASSUME NEW maps \in Seq(Objs), NEW S, NEW o \in Objs
  PROVE  First(<<o>> \o maps, S, o) = First(maps, S, o)
<1> DEFINE all == <<o>> \o maps
<1>1. /\ all \in Seq(Objs) /\ Len(all) = Len(maps) + 1 /\ Len(maps) \in Nat
      /\ all[1] = o /\ \A i \in 1 .. Len(maps) : all[i + 1] = maps[i]
  OBVIOUS
<1>2. \A i \in 1 .. Len(all) : i = 1 \/ (i - 1 \in 1 .. Len(maps) /\ all[i] = maps[i - 1])
  <2> TAKE i \in 1 .. Len(all)
  <2>1. i # 1 => i - 1 \in 1 .. Len(maps) /\ (i - 1) + 1 = i
    BY <1>1
  <2> HIDE DEF all
  <2> QED
    BY <1>1, <2>1
<1> HIDE DEF all
<1>3. CASE \A i \in 1 .. Len(maps) : maps[i] \notin S \ {o}
  <2>1. \A i \in 1 .. Len(all) : all[i] \notin S \ {o}
    BY <1>1, <1>2, <1>3
  <2> QED
    BY <1>1, <1>3, <2>1, FirstNone DEF all
<1>4. CASE ~\A i \in 1 .. Len(maps) : maps[i] \notin S \ {o}
  <2>1. PICK k \in 1 .. Len(maps) :
          /\ First(maps, S, o) = maps[k] /\ maps[k] \in S \ {o}
          /\ \A i \in 1 .. k - 1 : maps[i] \notin S \ {o}
    BY <1>4, FirstIs
  <2>2. k + 1 \in 1 .. Len(all) /\ all[k + 1] = maps[k]
    BY <1>1
  <2>3. \A i \in 1 .. (k + 1) - 1 : all[i] \notin S \ {o}
    <3> TAKE i \in 1 .. (k + 1) - 1
    <3>1. i \in 1 .. Len(all) /\ (i # 1 => i - 1 \in 1 .. k - 1)
      BY <1>1
    <3> QED
      BY <1>1, <1>2, <2>1, <3>1
  <2>4. First(all, S, o) = all[k + 1]
    BY <1>1, <2>1, <2>2, <2>3, FirstAt
  <2> QED
    BY <2>1, <2>2, <2>4 DEF all
<1> QED
  BY <1>3, <1>4

-----------------------------------------------------------------------------
(* The invariant                                                             *)

Types ==
  /\ context \in [Objs -> Contexts \cup {Nothing}]
  /\ arrays \in [Objs -> Contexts \cup {Nothing}]
  /\ parent \in Chains /\ owner \in Chains
  /\ parentInstance \in [Objs -> Instances \cup {Nothing}]
  /\ name \in [Instances -> Names]
  /\ canonicalName \in [Objs -> Seq(Names) \cup {Nothing}]
  /\ regular \in [Objs -> BOOLEAN] /\ moved \in [Objs -> BOOLEAN] /\ renamed \in [Objs -> BOOLEAN]

AllMade(c) == \A i \in DOMAIN c.maps : Made(c.maps[i])

\* An object that is not made yet is nowhere.
MadeOK(o) ==
  /\ Made(o) => AllMade(context[o])
  /\ arrays[o] # Nothing => Made(o) /\ AllMade(arrays[o])
  /\ owner[o] # Nothing => Made(o) /\ Made(owner[o])
  /\ ~Made(o) => ~moved[o] /\ ~regular[o] /\ canonicalName[o] = Nothing /\ parentInstance[o] = Nothing

\* What set_context takes from the maps.
ParentsOK(o) ==
  Made(o) =>
    /\ parent[o] = First(context[o].maps, Objs, o)
    /\ parentInstance[o] = IF o \in Instances THEN First(context[o].maps, Instances, o) ELSE Nothing

\* An object that was not moved has itself in front of the maps of its owner,
\* and its array has its context.
StayedOK(o) ==
  Made(o) /\ ~moved[o] =>
    /\ regular[o] /\ owner[o] # o
    /\ arrays[o] \in {Nothing, context[o]}
    /\ owner[o] = Nothing => context[o].maps = <<o>>
    /\ owner[o] # Nothing /\ ~moved[owner[o]] =>
         /\ context[o].maps = <<o>> \o context[owner[o]].maps
         /\ context[o].session = context[owner[o]].session

\* One that was put where it is by a call that sets contexts has that of its owner.
PlacedOK(o) ==
  Made(o) /\ moved[o] /\ regular[o] =>
    /\ owner[o] # Nothing /\ owner[o] # o
    /\ ~moved[owner[o]] => context[o] = context[owner[o]]

\* A cached name is that of the tree.
NameOK(o) ==
  o \in Instances /\ canonicalName[o] # Nothing /\ ~renamed[o] /\ HasPath(o) =>
    canonicalName[o] = Path(o)

PlacesOK == \A o \in Objs : MadeOK(o) /\ ParentsOK(o) /\ StayedOK(o) /\ PlacedOK(o)
NamesOK == \A o \in Objs : NameOK(o)
IInv == Types /\ PlacesOK /\ NamesOK

LEMMA InitIInv ==
  ASSUME Init
  PROVE  IInv
<1>1. Types
  BY InstanceTreeAssumption DEF Init, None, Types, Chains
<1>2. PlacesOK
  BY DEF Init, None, PlacesOK, Made, MadeOK, ParentsOK, StayedOK, PlacedOK
<1>3. NamesOK
  BY DEF Init, None, NamesOK, NameOK
<1> QED
  BY <1>1, <1>2, <1>3 DEF IInv

-----------------------------------------------------------------------------
(* Contexts                                                                  *)

LEMMA FirstType ==
  ASSUME NEW maps \in Seq(Objs), NEW S, NEW o
  PROVE  First(maps, S, o) \in (S \cap Objs) \cup {Nothing}
<1>1. \A k \in 1 .. Len(maps) : maps[k] \in Objs
  OBVIOUS
<1> QED
  BY <1>1, FirstIs

LEMMA SetContextTypes ==
  ASSUME Types, NEW o \in Objs, NEW c \in Contexts, SetContext(o, c)
  PROVE  /\ context' \in [Objs -> Contexts \cup {Nothing}]
         /\ parent' \in Chains
         /\ parentInstance' \in [Objs -> Instances \cup {Nothing}]
         /\ context'[o] = c /\ c # Nothing /\ \A x \in Objs \ {o} : context'[x] = context[x]
<1>1. c.maps \in Seq(Objs)
  BY DEF Contexts
<1>2. First(c.maps, Objs, o) \in Objs \cup {Nothing}
  BY <1>1, FirstType
<1>3. First(c.maps, Instances, o) \in Instances \cup {Nothing}
  BY <1>1, FirstType
<1> QED
  BY <1>2, <1>3, InstanceTreeAssumption DEF SetContext, Types, Chains

\* Setting a context sets the parents of the object and of no other.
LEMMA SetContextParents ==
  ASSUME Types, PlacesOK, NEW o \in Objs, NEW c \in Contexts, SetContext(o, c)
  PROVE  \A x \in Objs : ParentsOK(x)'
<1> SUFFICES ASSUME NEW x \in Objs
             PROVE  ParentsOK(x)'
  OBVIOUS
<1>1. CASE x = o
  BY <1>1 DEF SetContext, ParentsOK, Types, Chains
<1>2. CASE x # o
  <2>1. context'[x] = context[x] /\ parent'[x] = parent[x] /\ parentInstance'[x] = parentInstance[x]
    BY <1>2 DEF SetContext, Types, Chains
  <2> QED
    BY <2>1 DEF ParentsOK, PlacesOK, Made
<1> QED
  BY <1>1, <1>2

LEMMA ArrayContextType ==
  ASSUME Types, PlacesOK, NEW p \in Objs, Made(p)
  PROVE  /\ ArrayContext(p) \in Contexts /\ AllMade(ArrayContext(p))
         /\ ~moved[p] => ArrayContext(p) = context[p]
<1>1. MadeOK(p) /\ StayedOK(p)
  BY DEF PlacesOK
<1>2. context[p] \in Contexts /\ arrays[p] \in Contexts \cup {Nothing}
  BY DEF Types, Made
<1>3. CASE arrays[p] = Nothing
  BY <1>1, <1>2, <1>3 DEF ArrayContext, MadeOK
<1>4. CASE arrays[p] # Nothing
  BY <1>1, <1>2, <1>4 DEF ArrayContext, MadeOK, StayedOK
<1> QED
  BY <1>3, <1>4

LEMMA ChildType ==
  ASSUME NEW o \in Objs, NEW c \in Contexts
  PROVE  Child(o, c) \in Contexts
<1>1. c.maps \in Seq(Objs)
  BY DEF Contexts
<1>2. <<o>> \o c.maps \in Seq(Objs)
  BY <1>1
<1> QED
  BY <1>2 DEF Child, Contexts

LEMMA DefaultType == Default \in Contexts /\ AllMade(Default)
BY DEF Default, Contexts, AllMade

-----------------------------------------------------------------------------
(* Names                                                                     *)

Trees == [Objs -> Instances \cup {Nothing}]
Namings == [Instances -> Names]

\* The names of the k instances above each, found step by step.
NamesAbove(f, n, path, k) ==
  [p \in Instances |-> IF k = 0 \/ f[p] = Nothing THEN <<n[p]>>
                       ELSE Append(path[k - 1][f[p]], n[p])]
Names0(n) == [p \in Instances |-> <<n[p]>>]

LEMMA PathsForm ==
  ASSUME NEW f \in Trees, NEW n \in Namings
  PROVE  \E path : /\ Paths(f, n) = path[Cardinality(Objs)]
                   /\ path = [k \in 0 .. Cardinality(Objs) |-> NamesAbove(f, n, path, k)]
<1> DEFINE N == Cardinality(Objs)
           X == [Instances -> Seq(Names)]
           F == [k \in 1 .. N |-> [g \in X |->
                  [p \in Instances |-> IF f[p] = Nothing THEN <<n[p]>> ELSE Append(g[f[p]], n[p])]]]
           Finds(path) == path = [k \in 0 .. N |-> NamesAbove(f, n, path, k)]
<1>1. N \in Nat
  BY InstanceTreeAssumption, FS_CardinalityType
<1>2. \A p \in Instances : p \in Objs /\ n[p] \in Names /\ f[p] \in Instances \cup {Nothing}
  BY InstanceTreeAssumption DEF Trees, Namings
<1>3. F \in [1 .. N -> [X -> X]]
  <2>1. ASSUME NEW g \in X, NEW p \in Instances
        PROVE  (IF f[p] = Nothing THEN <<n[p]>> ELSE Append(g[f[p]], n[p])) \in Seq(Names)
    <3>1. CASE f[p] = Nothing
      BY <1>2, <3>1
    <3>2. CASE f[p] # Nothing
      <4>1. g[f[p]] \in Seq(Names) /\ n[p] \in Names
        BY <1>2, <3>2
      <4> QED
        BY <3>2, <4>1
    <3> QED
      BY <3>1, <3>2
  <2> QED
    BY <2>1
<1>4. Names0(n) \in X
  BY <1>2 DEF Names0
<1>5. PICK path : Iterates(path, X, Names0(n), N, F)
  <2> HIDE DEF X, N, F
  <2> QED
    BY <1>1, <1>3, <1>4, Iterated
<1>6. Finds(path)
  <2>1. path \in [0 .. N -> X]
    BY <1>5 DEF Iterates
  <2>2. ASSUME NEW k \in 0 .. N
        PROVE  path[k] = NamesAbove(f, n, path, k)
    <3>1. CASE k = 0
      BY <1>5, <3>1 DEF Iterates, NamesAbove, Names0
    <3>2. CASE k # 0
      <4>1. k \in 1 .. N /\ k - 1 \in 0 .. N
        BY <1>1, <3>2
      <4>2. path[k] = F[k][path[k - 1]] /\ path[k - 1] \in X
        <5> HIDE DEF F, X, N
        <5> QED
          BY <1>5, <2>1, <4>1 DEF Iterates
      <4> QED
        BY <3>2, <4>1, <4>2 DEF NamesAbove
    <3> QED
      BY <3>1, <3>2
  <2> QED
    BY <2>1, <2>2
<1> HIDE DEF N
<1>7. Finds(CHOOSE g : Finds(g))
  <2> HIDE DEF Finds
  <2> QED
    BY <1>6
<1>8. Paths(f, n) = (CHOOSE g : Finds(g))[N]
  BY DEF Paths, NamesAbove, N
<1> HIDE DEF Finds
<1> QED
  BY <1>7, <1>8 DEF Finds, N

\* Paths are alike where the parents and the names are.
LEMMA PathsAgree ==
  ASSUME NEW f \in Trees, NEW g \in Trees, NEW n \in Namings, NEW m \in Namings,
         NEW C \in SUBSET Instances,
         \A p \in C : f[p] = g[p] /\ n[p] = m[p] /\ f[p] \in C \cup {Nothing}
  PROVE  \A p \in C : Paths(f, n)[p] = Paths(g, m)[p]
<1> DEFINE N == Cardinality(Objs)
<1>1. N \in Nat
  BY InstanceTreeAssumption, FS_CardinalityType
<1>2. PICK fs : Paths(f, n) = fs[N] /\ fs = [k \in 0 .. N |-> NamesAbove(f, n, fs, k)]
  BY PathsForm
<1>3. PICK gs : Paths(g, m) = gs[N] /\ gs = [k \in 0 .. N |-> NamesAbove(g, m, gs, k)]
  BY PathsForm
<1> HIDE DEF N
<1> DEFINE T == {k \in 0 .. N : \E p \in C : fs[k][p] # gs[k][p]}
<1>4. SUFFICES ASSUME T # {}
               PROVE  FALSE
  <2>1. N \in 0 .. N
    BY <1>1
  <2> QED
    BY <1>2, <1>3, <1>4, <2>1
<1>5. PICK k \in T : \A j \in T : k <= j
  <2>1. T \subseteq Nat
    OBVIOUS
  <2> HIDE DEF T
  <2> QED
    BY <1>4, <2>1, LeastNumber
<1>6. k \in 0 .. N
  OBVIOUS
<1>7. PICK p \in C : fs[k][p] # gs[k][p]
  BY <1>5
<1>8. p \in Instances /\ fs[k] = NamesAbove(f, n, fs, k) /\ gs[k] = NamesAbove(g, m, gs, k)
  BY <1>2, <1>3, <1>6
<1>9. k # 0 /\ f[p] # Nothing
  BY <1>7, <1>8 DEF NamesAbove
<1>10. fs[k - 1][f[p]] # gs[k - 1][f[p]]
  BY <1>7, <1>8, <1>9 DEF NamesAbove
<1>11. k - 1 \in 0 .. N /\ ~(k <= k - 1)
  BY <1>1, <1>6, <1>9
<1>12. f[p] \in C
  BY <1>9
<1> HIDE DEF T
<1> QED
  BY <1>5, <1>10, <1>11, <1>12 DEF T

LEMMA PathType ==
  ASSUME NEW f \in Trees, NEW n \in Namings, NEW p \in Instances
  PROVE  Paths(f, n)[p] \in Seq(Names)
<1> DEFINE N == Cardinality(Objs)
<1>1. N \in Nat
  BY InstanceTreeAssumption, FS_CardinalityType
<1>2. PICK fs : Paths(f, n) = fs[N] /\ fs = [k \in 0 .. N |-> NamesAbove(f, n, fs, k)]
  BY PathsForm
<1>3. \A q \in Instances : q \in Objs /\ n[q] \in Names /\ f[q] \in Instances \cup {Nothing}
  BY InstanceTreeAssumption DEF Trees, Namings
<1> HIDE DEF N
<1> DEFINE T == {k \in 0 .. N : \E q \in Instances : fs[k][q] \notin Seq(Names)}
<1>4. SUFFICES ASSUME T # {}
               PROVE  FALSE
  <2>1. N \in 0 .. N
    BY <1>1
  <2> QED
    BY <1>2, <1>4, <2>1
<1>5. PICK k \in T : \A j \in T : k <= j
  <2>1. T \subseteq Nat
    OBVIOUS
  <2> HIDE DEF T
  <2> QED
    BY <1>4, <2>1, LeastNumber
<1>6. k \in 0 .. N
  OBVIOUS
<1>7. PICK q \in Instances : fs[k][q] \notin Seq(Names)
  BY <1>5
<1>8. fs[k] = NamesAbove(f, n, fs, k)
  BY <1>2, <1>6
<1>9. k # 0 /\ f[q] # Nothing
  BY <1>3, <1>7, <1>8 DEF NamesAbove
<1>10. fs[k - 1][f[q]] \notin Seq(Names)
  BY <1>3, <1>7, <1>8, <1>9 DEF NamesAbove
<1>11. k - 1 \in 0 .. N /\ ~(k <= k - 1)
  BY <1>1, <1>6, <1>9
<1>12. f[q] \in Instances
  BY <1>3, <1>9
<1> HIDE DEF T
<1> QED
  BY <1>5, <1>10, <1>11, <1>12 DEF T

\* No member of a chain, nor the object it starts at, is above itself.
Acyclic(f, o) == o \notin Above(f, o) /\ \A p \in Above(f, o) : p \notin Above(f, p)

LEMMA TreesAreChains == Trees \subseteq Chains
BY InstanceTreeAssumption DEF Trees, Chains

LEMMA InstancesAbove ==
  ASSUME NEW f \in Trees, NEW o \in Objs
  PROVE  Above(f, o) \subseteq Instances
<1>1. f \in Chains /\ Instances \in SUBSET Objs
  BY TreesAreChains, InstanceTreeAssumption
<1>2. Closed(f, Instances) /\ f[o] \in Instances \cup {Nothing}
  BY InstanceTreeAssumption DEF Closed, Trees
<1> QED
  BY <1>1, <1>2, AboveIsLeast

\* Two trees that agree from an instance on give it the same path.
LEMMA SamePath ==
  ASSUME NEW f \in Trees, NEW g \in Trees, NEW n \in Namings, NEW m \in Namings, NEW o \in Instances,
         \A p \in {o} \cup Above(f, o) : g[p] = f[p] /\ m[p] = n[p]
  PROVE  /\ Acyclic(f, o) <=> Acyclic(g, o)
         /\ Paths(f, n)[o] = Paths(g, m)[o]
<1>1. f \in Chains /\ g \in Chains /\ o \in Objs
  BY TreesAreChains, InstanceTreeAssumption
<1>2. Above(g, o) = Above(f, o)
  BY <1>1, SameAbove
<1>3. ASSUME NEW p \in Above(f, o)
      PROVE  Above(g, p) = Above(f, p)
  BY <1>1, AboveAbove, SameAbove
<1>4. Paths(f, n)[o] = Paths(g, m)[o]
  <2> DEFINE C == {o} \cup Above(f, o)
  <2>1. C \in SUBSET Instances
    BY <1>1, InstancesAbove
  <2>2. \A p \in C : f[p] = g[p] /\ n[p] = m[p] /\ f[p] \in C \cup {Nothing}
    BY <1>1, AboveIsClosed DEF Closed
  <2>3. o \in C
    OBVIOUS
  <2> HIDE DEF C
  <2> QED
    BY <2>1, <2>2, <2>3, PathsAgree
<1> QED
  BY <1>2, <1>3, <1>4 DEF Acyclic

\* Whatever is above an object is made.
LEMMA AboveAreMade ==
  ASSUME Types, PlacesOK, NEW o \in Objs
  PROVE  \A p \in Above(parentInstance, o) : Made(p)
<1> DEFINE S == {p \in Objs : Made(p)}
<1>1. ASSUME NEW p \in Objs
      PROVE  parentInstance[p] \in S \cup {Nothing}
  <2>1. MadeOK(p) /\ ParentsOK(p)
    BY DEF PlacesOK
  <2>2. CASE ~Made(p)
    BY <2>1, <2>2 DEF MadeOK
  <2>3. CASE Made(p) /\ p \notin Instances
    BY <2>1, <2>3 DEF ParentsOK
  <2>4. CASE Made(p) /\ p \in Instances
    <3>1. context[p].maps \in Seq(Objs)
      BY <2>4 DEF Types, Made, Contexts
    <3>2. \A i \in 1 .. Len(context[p].maps) : context[p].maps[i] \in S
      BY <2>1, <2>4, <3>1 DEF MadeOK, AllMade
    <3>3. parentInstance[p] = First(context[p].maps, Instances, p)
      BY <2>1, <2>4 DEF ParentsOK
    <3> HIDE DEF S
    <3> QED
      BY <3>1, <3>2, <3>3, FirstIs
  <2> QED
    BY <2>2, <2>3, <2>4
<1>2. parentInstance \in Chains
  BY InstanceTreeAssumption DEF Types, Chains
<1>3. Closed(parentInstance, S) /\ parentInstance[o] \in S \cup {Nothing} /\ S \in SUBSET Objs
  BY <1>1 DEF Closed
<1> HIDE DEF S
<1>4. Above(parentInstance, o) \subseteq S
  BY <1>2, <1>3, AboveIsLeast
<1> QED
  BY <1>4 DEF S

\* A cached name stays right while nothing changes from the instance up.
LEMMA NameStays ==
  ASSUME Types, Types', PlacesOK, NEW q \in Instances, NameOK(q),
         canonicalName'[q] = canonicalName[q], ~renamed[q],
         \A p \in {q} \cup Above(parentInstance, q) :
           parentInstance'[p] = parentInstance[p] /\ name'[p] = name[p]
  PROVE  NameOK(q)'
<1>1. parentInstance \in Trees /\ parentInstance' \in Trees /\ name \in Namings /\ name' \in Namings
  BY DEF Types, Trees, Namings
<1>2. /\ Acyclic(parentInstance, q) <=> Acyclic(parentInstance', q)
      /\ Paths(parentInstance, name)[q] = Paths(parentInstance', name')[q]
  BY <1>1, SamePath
<1>3. q \in Objs /\ MadeOK(q)
  BY InstanceTreeAssumption DEF PlacesOK
<1>4. SUFFICES ASSUME canonicalName[q] # Nothing, HasPath(q)'
               PROVE  canonicalName[q] = Path(q)'
  BY DEF NameOK
<1>5. Acyclic(parentInstance', q)
  BY <1>4 DEF HasPath, Acyclic, Above, Closed
<1>6. HasPath(q)
  BY <1>2, <1>3, <1>4, <1>5 DEF HasPath, Acyclic, MadeOK
<1>7. canonicalName[q] = Paths(parentInstance, name)[q]
  BY <1>4, <1>6 DEF NameOK, Path
<1>8. Path(q)' = Paths(parentInstance', name')[q]
  BY DEF Path, Paths
<1> QED
  BY <1>2, <1>7, <1>8

-----------------------------------------------------------------------------
(* Steps                                                                     *)

\* What every call that makes or moves o does to it and to the others.
Changes(o) ==
  /\ \A x \in Objs \ {o} :
       /\ context'[x] = context[x] /\ parentInstance'[x] = parentInstance[x]
       /\ owner'[x] = owner[x] /\ regular'[x] = regular[x] /\ moved'[x] = moved[x]
  /\ \A x \in Objs :
       arrays'[x] = arrays[x] \/ (x # o /\ Made(x) /\ arrays'[x] = ArrayContext(x))
  /\ context'[o] # Nothing
  /\ \A i \in DOMAIN context'[o].maps : context'[context'[o].maps[i]] # Nothing
  /\ owner'[o] # Nothing => Made(owner'[o])
  /\ canonicalName' = canonicalName
  /\ ~Made(o) \/ moved'[o]

LEMMA OthersStay ==
  ASSUME Types, Types', PlacesOK, NEW o \in Objs, Changes(o)
  PROVE  /\ MadeOK(o)'
         /\ \A x \in Objs \ {o} : MadeOK(x)' /\ StayedOK(x)' /\ PlacedOK(x)'
<1>1. \A x \in Objs : Made(x) => context'[x] # Nothing
  BY DEF Changes, Made
<1>2. ASSUME NEW c \in Contexts, AllMade(c)
      PROVE  \A i \in DOMAIN c.maps : context'[c.maps[i]] # Nothing
  <2>1. c.maps \in Seq(Objs)
    BY DEF Contexts
  <2>2. \A i \in DOMAIN c.maps : c.maps[i] \in Objs
    BY <2>1
  <2> QED
    BY <1>1, <1>2, <2>2 DEF AllMade
<1>3. ASSUME NEW x \in Objs, arrays'[x] # Nothing
      PROVE  /\ Made(x)
             /\ \A i \in DOMAIN arrays'[x].maps : context'[arrays'[x].maps[i]] # Nothing
             /\ x # o /\ ~moved[x] => arrays'[x] = context[x]
  <2>1. MadeOK(x) /\ StayedOK(x)
    BY DEF PlacesOK
  <2>2. CASE arrays'[x] = arrays[x]
    <3>1. arrays[x] \in Contexts /\ Made(x) /\ AllMade(arrays[x])
      BY <1>3, <2>1, <2>2 DEF Types, MadeOK
    <3> QED
      BY <1>2, <1>3, <2>1, <2>2, <3>1 DEF StayedOK
  <2>3. CASE Made(x) /\ arrays'[x] = ArrayContext(x)
    BY <1>2, <2>3, ArrayContextType
  <2> QED
    BY <2>2, <2>3 DEF Changes
<1>4. MadeOK(o)'
  <2>1. owner'[o] \in Objs \cup {Nothing}
    BY DEF Types, Chains
  <2> QED
    BY <1>1, <1>3, <2>1 DEF MadeOK, Made, AllMade, Changes
<1>5. ASSUME NEW x \in Objs \ {o}
      PROVE  MadeOK(x)' /\ StayedOK(x)' /\ PlacedOK(x)'
  <2>1. MadeOK(x) /\ StayedOK(x) /\ PlacedOK(x)
    BY DEF PlacesOK
  <2>2. /\ context'[x] = context[x] /\ parentInstance'[x] = parentInstance[x]
        /\ owner'[x] = owner[x] /\ regular'[x] = regular[x] /\ moved'[x] = moved[x]
        /\ canonicalName'[x] = canonicalName[x]
    BY DEF Changes
  <2>3. owner[x] \in Objs \cup {Nothing}
    BY DEF Types, Chains
  <2>4. MadeOK(x)'
    <3>1. context[x] # Nothing => context[x] \in Contexts
      BY DEF Types
    <3>2. Made(x) => \A i \in DOMAIN context[x].maps : context'[context[x].maps[i]] # Nothing
      BY <1>2, <2>1, <3>1 DEF MadeOK, Made
    <3> QED
      BY <1>1, <1>3, <2>1, <2>2, <2>3, <3>2 DEF MadeOK, Made, AllMade
  <2>5. owner[x] # Nothing /\ ~moved'[owner[x]] =>
          ~moved[owner[x]] /\ context'[owner[x]] = context[owner[x]]
    <3>1. CASE owner[x] = o
      BY <2>1, <3>1 DEF Changes, MadeOK
    <3>2. CASE owner[x] # o
      BY <2>3, <3>2 DEF Changes
    <3> QED
      BY <3>1, <3>2
  <2>6. StayedOK(x)'
    BY <1>3, <2>1, <2>2, <2>5 DEF StayedOK, Made
  <2>7. PlacedOK(x)'
    BY <2>1, <2>2, <2>5 DEF PlacedOK, Made
  <2> QED
    BY <2>4, <2>6, <2>7
<1> QED
  BY <1>4, <1>5

\* Making an object changes no cached name, ...
LEMMA NamesOfNew ==
  ASSUME Types, Types', PlacesOK, NamesOK, NEW o \in Objs, ~Made(o),
         canonicalName' = canonicalName, renamed' = renamed,
         \A x \in Objs \ {o} : parentInstance'[x] = parentInstance[x],
         \A x \in Instances \ {o} : name'[x] = name[x]
  PROVE  NamesOK'
<1> SUFFICES ASSUME NEW q \in Objs
             PROVE  NameOK(q)'
  BY DEF NamesOK
<1>1. CASE q \notin Instances \/ canonicalName[q] = Nothing \/ renamed[q]
  BY <1>1 DEF NameOK
<1>2. CASE q \in Instances /\ canonicalName[q] # Nothing /\ ~renamed[q]
  <2>1. MadeOK(q) /\ NameOK(q)
    BY DEF PlacesOK, NamesOK
  <2>2. q # o /\ \A p \in Above(parentInstance, q) : p # o
    BY <1>2, <2>1, AboveAreMade DEF MadeOK
  <2>3. \A p \in {q} \cup Above(parentInstance, q) : p \in Instances
    BY <1>2, InstancesAbove DEF Types, Trees
  <2>4. \A p \in {q} \cup Above(parentInstance, q) :
           parentInstance'[p] = parentInstance[p] /\ name'[p] = name[p]
    BY <2>2, <2>3, InstanceTreeAssumption
  <2> QED
    BY <1>2, <2>1, <2>4, NameStays
<1> QED
  BY <1>1, <1>2

\* ... and moving one those that are marked.
LEMMA NamesOfMoved ==
  ASSUME Types, Types', PlacesOK, NamesOK, NEW o \in Objs,
         canonicalName' = canonicalName, name' = name, Renamed(o),
         \A x \in Objs \ {o} : parentInstance'[x] = parentInstance[x]
  PROVE  NamesOK'
<1> SUFFICES ASSUME NEW q \in Objs, q \in Instances, canonicalName[q] # Nothing, ~renamed'[q]
             PROVE  NameOK(q)'
  BY DEF NamesOK, NameOK
<1>1. ~renamed[q] /\ q # o /\ o \notin Above(parentInstance, q)
  BY DEF Renamed
<1>2. \A p \in Above(parentInstance, q) : p \in Objs
  BY DEF Above
<1>3. \A p \in {q} \cup Above(parentInstance, q) :
         parentInstance'[p] = parentInstance[p] /\ name'[p] = name[p]
  BY <1>1, <1>2
<1> QED
  BY <1>1, <1>3, NameStays DEF NamesOK

\* A new object has itself in front of the maps it is given.
LEMMA NewObject ==
  ASSUME Types, PlacesOK, NEW o \in Objs, NEW c \in Contexts, AllMade(c),
         NEW session \in Sessions \cup {Nothing}, New(o, c, session)
  PROVE  /\ context' \in [Objs -> Contexts \cup {Nothing}]
         /\ parent' \in Chains /\ parentInstance' \in [Objs -> Instances \cup {Nothing}]
         /\ \A x \in Objs : ParentsOK(x)'
         /\ \A x \in Objs \ {o} : context'[x] = context[x] /\ parentInstance'[x] = parentInstance[x]
         /\ context'[o] # Nothing /\ context'[o].maps = <<o>> \o c.maps
         /\ session = Nothing => context'[o].session = c.session
         /\ \A i \in DOMAIN context'[o].maps : context'[context'[o].maps[i]] # Nothing
<1> DEFINE k == Child(o, c)
           d == [k EXCEPT !.session = IF session # Nothing THEN session ELSE @]
<1>1. k \in Contexts /\ k.maps = <<o>> \o c.maps /\ k.session = c.session
  BY ChildType DEF Child
<1>2. /\ d \in Contexts /\ d.maps = <<o>> \o c.maps
      /\ session = Nothing => d.session = c.session
  <2> HIDE DEF k
  <2> QED
    BY <1>1 DEF Contexts
<1>3. SetContext(o, d)
  BY DEF New
<1> HIDE DEF d
<1>4. /\ context' \in [Objs -> Contexts \cup {Nothing}]
      /\ parent' \in Chains
      /\ parentInstance' \in [Objs -> Instances \cup {Nothing}]
      /\ context'[o] = d /\ d # Nothing /\ \A x \in Objs \ {o} : context'[x] = context[x]
  BY <1>2, <1>3, SetContextTypes
<1>5. \A x \in Objs : ParentsOK(x)'
  BY <1>2, <1>3, SetContextParents
<1>6. \A x \in Objs \ {o} : parentInstance'[x] = parentInstance[x]
  BY <1>3 DEF SetContext, Types
<1>7. \A i \in DOMAIN d.maps : context'[d.maps[i]] # Nothing
  <2>1. c.maps \in Seq(Objs)
    BY DEF Contexts
  <2>2. ASSUME NEW i \in DOMAIN d.maps
        PROVE  d.maps[i] = o \/ \E j \in DOMAIN c.maps : d.maps[i] = c.maps[j]
    <3>1. i \in 1 .. Len(c.maps) + 1 /\ Len(c.maps) \in Nat
      BY <1>2, <2>1, <2>2
    <3>2. CASE i = 1
      BY <1>2, <2>1, <3>2
    <3>3. CASE i # 1
      <4>1. i - 1 \in DOMAIN c.maps /\ d.maps[i] = c.maps[i - 1]
        BY <1>2, <2>1, <3>1, <3>3
      <4> QED
        BY <4>1
    <3> QED
      BY <3>2, <3>3
  <2>3. \A j \in DOMAIN c.maps : c.maps[j] \in Objs /\ context[c.maps[j]] # Nothing
    BY <2>1 DEF AllMade, Made
  <2>4. \A j \in DOMAIN c.maps : context'[c.maps[j]] # Nothing
    BY <1>4, <2>3
  <2> QED
    BY <1>4, <2>2, <2>4
<1> QED
  BY <1>2, <1>4, <1>5, <1>6, <1>7

LEMMA PlacesStep ==
  ASSUME Types, Types', PlacesOK, NEW o \in Objs, Changes(o),
         \A x \in Objs : ParentsOK(x)', StayedOK(o)', PlacedOK(o)'
  PROVE  PlacesOK'
BY OthersStay DEF PlacesOK

LEMMA OwnedTypes ==
  ASSUME Types, NEW o \in Objs, NEW p \in Objs \cup {Nothing}, NEW sets \in BOOLEAN,
         NEW moves \in BOOLEAN, Owned(o, p, sets, moves)
  PROVE  /\ owner' \in Chains /\ regular' \in [Objs -> BOOLEAN] /\ moved' \in [Objs -> BOOLEAN]
         /\ owner'[o] = p /\ regular'[o] = sets /\ moved'[o] = (moved[o] \/ moves)
         /\ \A x \in Objs \ {o} :
              owner'[x] = owner[x] /\ regular'[x] = regular[x] /\ moved'[x] = moved[x]
BY DEF Owned, Types, Chains

LEMMA MakeArrayTypes ==
  ASSUME Types, PlacesOK, NEW p \in Objs, Made(p), MakeArray(p)
  PROVE  /\ arrays' \in [Objs -> Contexts \cup {Nothing}]
         /\ arrays'[p] = ArrayContext(p) /\ \A x \in Objs \ {p} : arrays'[x] = arrays[x]
BY ArrayContextType DEF MakeArray, Types

LEMMA UnmadeIs ==
  ASSUME PlacesOK, NEW o \in Objs, ~Made(o)
  PROVE  ~moved[o] /\ arrays[o] = Nothing /\ canonicalName[o] = Nothing
BY DEF PlacesOK, MadeOK

LEMMA NewRootKeeps ==
  ASSUME IInv, NEW o \in Objs, NEW s \in Sessions \cup {Nothing}, NewRoot(o, s)
  PROVE  IInv'
<1>1. Types /\ PlacesOK /\ NamesOK /\ ~Made(o) /\ New(o, Default, s)
  BY DEF IInv, NewRoot, New
<1>2. /\ context' \in [Objs -> Contexts \cup {Nothing}]
      /\ parent' \in Chains /\ parentInstance' \in [Objs -> Instances \cup {Nothing}]
      /\ \A x \in Objs : ParentsOK(x)'
      /\ \A x \in Objs \ {o} : context'[x] = context[x] /\ parentInstance'[x] = parentInstance[x]
      /\ context'[o] # Nothing /\ context'[o].maps = <<o>> \o Default.maps
      /\ \A i \in DOMAIN context'[o].maps : context'[context'[o].maps[i]] # Nothing
  BY <1>1, DefaultType, NewObject
<1>3. /\ owner' \in Chains /\ regular' \in [Objs -> BOOLEAN] /\ moved' \in [Objs -> BOOLEAN]
      /\ owner'[o] = Nothing /\ regular'[o] = TRUE /\ (moved'[o] <=> moved[o])
      /\ \A x \in Objs \ {o} :
           owner'[x] = owner[x] /\ regular'[x] = regular[x] /\ moved'[x] = moved[x]
  BY <1>1, OwnedTypes DEF NewRoot
<1>4. UNCHANGED <<arrays, name, canonicalName, renamed>>
  BY DEF NewRoot
<1>5. Types'
  BY <1>1, <1>2, <1>3, <1>4 DEF Types
<1>6. ~moved[o] /\ arrays[o] = Nothing
  BY <1>1, UnmadeIs
<1>7. Changes(o)
  BY <1>1, <1>2, <1>3, <1>4 DEF Changes
<1>8. context'[o].maps = <<o>>
  BY <1>2 DEF Default
<1>9. StayedOK(o)' /\ PlacedOK(o)'
  BY <1>3, <1>4, <1>6, <1>8, InstanceTreeAssumption DEF StayedOK, PlacedOK
<1>10. PlacesOK'
  BY <1>1, <1>2, <1>5, <1>7, <1>9, PlacesStep
<1>11. NamesOK'
  BY <1>1, <1>2, <1>4, <1>5, NamesOfNew
<1> QED
  BY <1>5, <1>10, <1>11 DEF IInv

\* A child read from p, in its array or in a property, has p above it.
LEMMA ReadKeeps ==
  ASSUME IInv, NEW o \in Objs, NEW p \in Objs, NEW c \in Contexts, AllMade(c),
         Made(p), ~moved[p] => c = context[p],
         New(o, c, Nothing), Owned(o, p, TRUE, FALSE),
         \/ arrays' = arrays
         \/ MakeArray(p),
         UNCHANGED <<name, canonicalName, renamed>>
  PROVE  IInv'
<1>1. Types /\ PlacesOK /\ NamesOK /\ ~Made(o) /\ p # o
  BY DEF IInv, New
<1>2. /\ context' \in [Objs -> Contexts \cup {Nothing}]
      /\ parent' \in Chains /\ parentInstance' \in [Objs -> Instances \cup {Nothing}]
      /\ \A x \in Objs : ParentsOK(x)'
      /\ \A x \in Objs \ {o} : context'[x] = context[x] /\ parentInstance'[x] = parentInstance[x]
      /\ context'[o] # Nothing /\ context'[o].maps = <<o>> \o c.maps
      /\ context'[o].session = c.session
      /\ \A i \in DOMAIN context'[o].maps : context'[context'[o].maps[i]] # Nothing
  BY <1>1, NewObject
<1>3. /\ owner' \in Chains /\ regular' \in [Objs -> BOOLEAN] /\ moved' \in [Objs -> BOOLEAN]
      /\ owner'[o] = p /\ regular'[o] = TRUE /\ (moved'[o] <=> moved[o])
      /\ \A x \in Objs \ {o} :
           owner'[x] = owner[x] /\ regular'[x] = regular[x] /\ moved'[x] = moved[x]
  BY <1>1, OwnedTypes
<1>4. /\ arrays' \in [Objs -> Contexts \cup {Nothing}] /\ arrays'[o] = arrays[o]
      /\ \A x \in Objs : arrays'[x] = arrays[x]
                           \/ (x # o /\ Made(x) /\ arrays'[x] = ArrayContext(x))
  <2>1. CASE arrays' = arrays
    BY <1>1, <2>1 DEF Types
  <2>2. CASE MakeArray(p)
    BY <1>1, <2>2, MakeArrayTypes
  <2> QED
    BY <2>1, <2>2
<1>5. Types'
  BY <1>1, <1>2, <1>3, <1>4 DEF Types
<1>6. ~moved[o] /\ arrays[o] = Nothing
  BY <1>1, UnmadeIs
<1>7. Changes(o)
  BY <1>1, <1>2, <1>3, <1>4 DEF Changes
<1>8. StayedOK(o)' /\ PlacedOK(o)'
  BY <1>1, <1>2, <1>3, <1>4, <1>6, InstanceTreeAssumption DEF StayedOK, PlacedOK
<1>9. PlacesOK'
  BY <1>1, <1>2, <1>5, <1>7, <1>8, PlacesStep
<1>10. NamesOK'
  BY <1>1, <1>2, <1>5, NamesOfNew
<1> QED
  BY <1>5, <1>9, <1>10 DEF IInv

LEMMA ReadChildKeeps ==
  ASSUME IInv, NEW o \in Objs, NEW p \in Objs, ReadChild(o, p)
  PROVE  IInv'
<1>1. context[p] \in Contexts /\ AllMade(context[p])
  BY DEF IInv, Types, PlacesOK, MadeOK, ReadChild, Made
<1> QED
  BY <1>1, ReadKeeps DEF ReadChild

LEMMA ReadItemKeeps ==
  ASSUME IInv, NEW o \in Objs, NEW p \in Objs, ReadItem(o, p)
  PROVE  IInv'
<1>1. /\ ArrayContext(p) \in Contexts /\ AllMade(ArrayContext(p))
      /\ ~moved[p] => ArrayContext(p) = context[p]
  BY ArrayContextType DEF IInv, ReadItem
<1> QED
  BY <1>1, ReadKeeps DEF ReadItem

LEMMA CopyKeeps ==
  ASSUME IInv, NEW o \in Objs, NEW p \in Objs, Copy(o, p)
  PROVE  IInv'
<1>1. Types /\ PlacesOK /\ NamesOK /\ ~Made(o) /\ p # o /\ Made(p)
  BY DEF IInv, Copy, New
<1>2. context[p] \in Contexts /\ AllMade(context[p]) /\ New(o, context[p], Nothing)
  BY <1>1 DEF Types, PlacesOK, MadeOK, Copy, Made
<1>3. /\ context' \in [Objs -> Contexts \cup {Nothing}]
      /\ parent' \in Chains /\ parentInstance' \in [Objs -> Instances \cup {Nothing}]
      /\ \A x \in Objs : ParentsOK(x)'
      /\ \A x \in Objs \ {o} : context'[x] = context[x] /\ parentInstance'[x] = parentInstance[x]
      /\ context'[o] # Nothing
      /\ \A i \in DOMAIN context'[o].maps : context'[context'[o].maps[i]] # Nothing
  BY <1>1, <1>2, NewObject
<1>4. /\ owner' \in Chains /\ regular' \in [Objs -> BOOLEAN] /\ moved' \in [Objs -> BOOLEAN]
      /\ owner'[o] = Nothing /\ regular'[o] = FALSE /\ moved'[o]
      /\ \A x \in Objs \ {o} :
           owner'[x] = owner[x] /\ regular'[x] = regular[x] /\ moved'[x] = moved[x]
  BY <1>1, OwnedTypes DEF Copy
<1>5. name' \in [Instances -> Names] /\ \A x \in Instances \ {o} : name'[x] = name[x]
  BY <1>1 DEF Copy, Types
<1>6. UNCHANGED <<arrays, canonicalName, renamed>>
  BY DEF Copy
<1>7. Types'
  BY <1>1, <1>3, <1>4, <1>5, <1>6 DEF Types
<1>8. Changes(o)
  BY <1>1, <1>3, <1>4, <1>6 DEF Changes
<1>9. StayedOK(o)' /\ PlacedOK(o)'
  BY <1>4 DEF StayedOK, PlacedOK
<1>10. PlacesOK'
  BY <1>1, <1>3, <1>7, <1>8, <1>9, PlacesStep
<1>11. NamesOK'
  BY <1>1, <1>3, <1>5, <1>6, <1>7, NamesOfNew
<1> QED
  BY <1>7, <1>10, <1>11 DEF IInv

LEMMA RenamedType ==
  ASSUME Types, NEW o \in Objs, Renamed(o)
  PROVE  renamed' \in [Objs -> BOOLEAN]
BY DEF Renamed

LEMMA InsertKeeps ==
  ASSUME IInv, NEW o \in Objs, NEW p \in Objs, Insert(o, p)
  PROVE  IInv'
<1>1. Types /\ PlacesOK /\ NamesOK /\ Made(o) /\ p # o /\ Made(p)
  BY DEF IInv, Insert, Elsewhere
<1> DEFINE c == ArrayContext(p)
<1>2. c \in Contexts /\ AllMade(c) /\ (~moved[p] => c = context[p]) /\ SetContext(o, c)
  BY <1>1, ArrayContextType DEF Insert
<1> HIDE DEF c
<1>3. /\ context' \in [Objs -> Contexts \cup {Nothing}]
      /\ parent' \in Chains /\ parentInstance' \in [Objs -> Instances \cup {Nothing}]
      /\ context'[o] = c /\ c # Nothing /\ \A x \in Objs \ {o} : context'[x] = context[x]
  BY <1>1, <1>2, SetContextTypes
<1>4. \A x \in Objs : ParentsOK(x)'
  BY <1>1, <1>2, SetContextParents
<1>5. \A x \in Objs \ {o} : parentInstance'[x] = parentInstance[x]
  BY <1>1, <1>2 DEF SetContext, Types
<1>6. \A i \in DOMAIN c.maps : context'[c.maps[i]] # Nothing
  <2>1. c.maps \in Seq(Objs)
    BY <1>2 DEF Contexts
  <2>2. \A i \in DOMAIN c.maps : c.maps[i] \in Objs /\ context[c.maps[i]] # Nothing
    BY <1>2, <2>1 DEF AllMade, Made
  <2> QED
    BY <1>3, <2>2
<1>7. /\ owner' \in Chains /\ regular' \in [Objs -> BOOLEAN] /\ moved' \in [Objs -> BOOLEAN]
      /\ owner'[o] = p /\ regular'[o] = TRUE /\ moved'[o]
      /\ \A x \in Objs \ {o} :
           owner'[x] = owner[x] /\ regular'[x] = regular[x] /\ moved'[x] = moved[x]
  BY <1>1, OwnedTypes DEF Insert
<1>8. /\ arrays' \in [Objs -> Contexts \cup {Nothing}]
      /\ arrays'[p] = ArrayContext(p) /\ \A x \in Objs \ {p} : arrays'[x] = arrays[x]
  BY <1>1, MakeArrayTypes DEF Insert
<1>9. UNCHANGED <<name, canonicalName>> /\ Renamed(o)
  BY DEF Insert
<1>10. Types'
  BY <1>1, <1>3, <1>7, <1>8, <1>9, RenamedType DEF Types
<1>11. Changes(o)
  BY <1>1, <1>3, <1>5, <1>6, <1>7, <1>8, <1>9 DEF Changes
<1>12. StayedOK(o)' /\ PlacedOK(o)'
  BY <1>1, <1>2, <1>3, <1>7, InstanceTreeAssumption DEF StayedOK, PlacedOK
<1>13. PlacesOK'
  BY <1>1, <1>4, <1>10, <1>11, <1>12, PlacesStep
<1>14. NamesOK'
  BY <1>1, <1>5, <1>9, <1>10, NamesOfMoved
<1> QED
  BY <1>10, <1>13, <1>14 DEF IInv

\* Nothing but the owner of a made object changes, and perhaps an array.
LEMMA OwnedKeeps ==
  ASSUME IInv, NEW o \in Objs, NEW p \in Objs \cup {Nothing}, Made(o),
         p # Nothing => Made(p), p # o,
         Owned(o, p, FALSE, TRUE), arrays' = arrays \/ (p # Nothing /\ MakeArray(p)),
         UNCHANGED <<context, parent, parentInstance, name, canonicalName, renamed>>
  PROVE  IInv'
<1>1. Types /\ PlacesOK /\ NamesOK
  BY DEF IInv
<1>2. /\ owner' \in Chains /\ regular' \in [Objs -> BOOLEAN] /\ moved' \in [Objs -> BOOLEAN]
      /\ owner'[o] = p /\ regular'[o] = FALSE /\ moved'[o]
      /\ \A x \in Objs \ {o} :
           owner'[x] = owner[x] /\ regular'[x] = regular[x] /\ moved'[x] = moved[x]
  BY <1>1, OwnedTypes
<1>3. /\ arrays' \in [Objs -> Contexts \cup {Nothing}]
      /\ \A x \in Objs : arrays'[x] = arrays[x]
                           \/ (x # o /\ Made(x) /\ arrays'[x] = ArrayContext(x))
  <2>1. CASE arrays' = arrays
    BY <1>1, <2>1 DEF Types
  <2>2. CASE p # Nothing /\ MakeArray(p)
    BY <1>1, <2>2, MakeArrayTypes
  <2> QED
    BY <2>1, <2>2
<1>4. Types'
  BY <1>1, <1>2, <1>3 DEF Types
<1>5. context[o] \in Contexts /\ AllMade(context[o])
  BY <1>1 DEF Types, PlacesOK, MadeOK, Made
<1>6. Changes(o)
  BY <1>1, <1>2, <1>3, <1>5 DEF Changes, AllMade, Made
<1>7. StayedOK(o)' /\ PlacedOK(o)'
  BY <1>2 DEF StayedOK, PlacedOK
<1>8. \A x \in Objs : ParentsOK(x)'
  BY <1>1 DEF PlacesOK, ParentsOK, Made
<1>9. PlacesOK'
  BY <1>1, <1>4, <1>6, <1>7, <1>8, PlacesStep
<1>10. NamesOK'
  <2>1. ASSUME NEW q \in Objs, q \in Instances, ~renamed[q]
        PROVE  NameOK(q)'
    BY <1>1, <1>4, <2>1, NameStays DEF NamesOK
  <2> QED
    BY <2>1 DEF NamesOK, NameOK
<1> QED
  BY <1>4, <1>9, <1>10 DEF IInv

LEMMA InsertEagerKeeps ==
  ASSUME IInv, NEW o \in Objs, NEW p \in Objs, InsertEager(o, p)
  PROVE  IInv'
<1>1. Made(o) /\ Made(p) /\ p # o /\ p # Nothing
  BY InstanceTreeAssumption DEF InsertEager, Elsewhere
<1> QED
  BY <1>1, OwnedKeeps DEF InsertEager

LEMMA AssignKeeps ==
  ASSUME IInv, NEW o \in Objs, NEW p \in Objs, Assign(o, p)
  PROVE  IInv'
<1>1. Made(o) /\ Made(p) /\ p # o
  BY DEF Assign, Elsewhere
<1> QED
  BY <1>1, OwnedKeeps DEF Assign, contexts

LEMMA Remove1Keeps ==
  ASSUME IInv, NEW o \in Objs, Remove1(o)
  PROVE  IInv'
<1>1. Made(o) /\ Nothing # o
  BY InstanceTreeAssumption DEF Remove1, IInv, PlacesOK, MadeOK
<1> QED
  BY <1>1, OwnedKeeps DEF Remove1, contexts

\* Only names change.
LEMMA PlacesUnchanged ==
  ASSUME PlacesOK, UNCHANGED <<contexts, histories>>,
         \A x \in Objs : ~Made(x) => canonicalName'[x] = Nothing
  PROVE  PlacesOK'
<1> SUFFICES ASSUME NEW x \in Objs
             PROVE  (MadeOK(x) /\ ParentsOK(x) /\ StayedOK(x) /\ PlacedOK(x))'
  BY DEF PlacesOK
<1>1. MadeOK(x) /\ ParentsOK(x) /\ StayedOK(x) /\ PlacedOK(x)
  BY DEF PlacesOK
<1>2. MadeOK(x)'
  BY <1>1 DEF MadeOK, AllMade, Made, contexts, histories
<1>3. ParentsOK(x)'
  BY <1>1 DEF ParentsOK, Made, contexts
<1>4. StayedOK(x)'
  BY <1>1 DEF StayedOK, Made, contexts, histories
<1>5. PlacedOK(x)'
  BY <1>1 DEF PlacedOK, Made, contexts, histories
<1> QED
  BY <1>2, <1>3, <1>4, <1>5

LEMMA ReadCanonicalNameKeeps ==
  ASSUME IInv, NEW o \in Objs, ReadCanonicalName(o)
  PROVE  IInv'
<1>1. Types /\ PlacesOK /\ NamesOK /\ HasPath(o) /\ o \in Instances /\ Made(o)
  BY DEF IInv, ReadCanonicalName, HasPath
<1>2. Path(o) \in Seq(Names)
  BY <1>1, PathType DEF Path, Types, Trees, Namings
<1>3. CanonicalName(o) \in Seq(Names) \cup {Nothing}
  BY <1>1, <1>2 DEF CanonicalName, Types
<1>4. UNCHANGED <<contexts, name, histories, renamed>>
  BY DEF ReadCanonicalName
<1>5. /\ canonicalName' \in [Objs -> Seq(Names) \cup {Nothing}]
      /\ canonicalName'[o] = CanonicalName(o)
      /\ \A x \in Objs \ {o} : canonicalName'[x] = canonicalName[x]
  BY <1>1, <1>3 DEF ReadCanonicalName, Types
<1>6. Types'
  BY <1>1, <1>4, <1>5 DEF Types, contexts, histories
<1>7. PlacesOK'
  <2>1. \A x \in Objs : ~Made(x) => canonicalName'[x] = Nothing
    BY <1>1, <1>5 DEF PlacesOK, MadeOK
  <2> QED
    BY <1>1, <1>4, <2>1, PlacesUnchanged
<1>8. NamesOK'
  <2> SUFFICES ASSUME NEW q \in Objs, q \in Instances, ~renamed[q]
               PROVE  NameOK(q)'
    BY <1>4 DEF NamesOK, NameOK
  <2>1. CASE canonicalName'[q] = canonicalName[q]
    BY <1>1, <1>4, <1>6, <2>1, NameStays DEF NamesOK, contexts
  <2>2. CASE canonicalName'[q] # canonicalName[q]
    <3>1. q = o /\ canonicalName'[o] = Path(o)
      BY <1>5, <2>2 DEF CanonicalName
    <3>2. Path(o)' = Path(o)
      BY <1>4 DEF Path, Paths, contexts
    <3> QED
      BY <3>1, <3>2 DEF NameOK
  <2> QED
    BY <2>1, <2>2
<1> QED
  BY <1>6, <1>7, <1>8 DEF IInv

LEMMA RenameKeeps ==
  ASSUME IInv, NEW o \in Objs, NEW n \in Names, Rename(o, n)
  PROVE  IInv'
<1>1. Types /\ PlacesOK /\ NamesOK /\ o \in Instances /\ Made(o)
  BY DEF IInv, Rename
<1>2. UNCHANGED <<contexts, histories>>
  BY DEF Rename
<1>3. /\ name' \in [Instances -> Names] /\ \A x \in Instances \ {o} : name'[x] = name[x]
      /\ canonicalName' \in [Objs -> Seq(Names) \cup {Nothing}]
      /\ canonicalName'[o] = Nothing
      /\ \A x \in Objs \ {o} : canonicalName'[x] = canonicalName[x]
  BY <1>1 DEF Rename, Types
<1>4. renamed' \in [Objs -> BOOLEAN]
  BY DEF Rename
<1>5. Types'
  BY <1>1, <1>2, <1>3, <1>4 DEF Types, contexts, histories
<1>6. PlacesOK'
  <2>1. \A x \in Objs : ~Made(x) => canonicalName'[x] = Nothing
    BY <1>1, <1>3 DEF PlacesOK, MadeOK
  <2> QED
    BY <1>1, <1>2, <2>1, PlacesUnchanged
<1>7. NamesOK'
  <2> SUFFICES ASSUME NEW q \in Objs, q \in Instances, canonicalName'[q] # Nothing, ~renamed'[q]
               PROVE  NameOK(q)'
    BY DEF NamesOK, NameOK
  <2>1. q # o /\ canonicalName'[q] = canonicalName[q]
    BY <1>3
  <2>2. ~renamed[q] /\ o \notin Above(parentInstance, q)
    BY <2>1 DEF Rename
  <2>3. \A p \in {q} \cup Above(parentInstance, q) : p \in Instances \ {o}
    BY <1>1, <2>1, <2>2, InstancesAbove DEF Types, Trees
  <2>4. \A p \in {q} \cup Above(parentInstance, q) :
           parentInstance'[p] = parentInstance[p] /\ name'[p] = name[p]
    BY <1>2, <1>3, <2>3 DEF contexts
  <2> QED
    BY <1>1, <1>5, <2>1, <2>2, <2>4, NameStays DEF NamesOK
<1> QED
  BY <1>5, <1>6, <1>7 DEF IInv

LEMMA NextIInv ==
  ASSUME IInv, [Next]_vars
  PROVE  IInv'
<1>1. CASE \E o \in Objs : \E s \in Sessions \cup {Nothing} : NewRoot(o, s)
  BY <1>1, NewRootKeeps
<1>2. CASE \E o \in Objs : Remove1(o)
  BY <1>2, Remove1Keeps
<1>3. CASE \E o \in Objs : ReadCanonicalName(o)
  BY <1>3, ReadCanonicalNameKeeps
<1>4. CASE \E o \in Objs : \E n \in Names : Rename(o, n)
  BY <1>4, RenameKeeps
<1>5. CASE \E o, p \in Objs : ReadChild(o, p)
  BY <1>5, ReadChildKeeps
<1>6. CASE \E o, p \in Objs : ReadItem(o, p)
  BY <1>6, ReadItemKeeps
<1>7. CASE \E o, p \in Objs : Copy(o, p)
  BY <1>7, CopyKeeps
<1>8. CASE \E o, p \in Objs : Insert(o, p)
  BY <1>8, InsertKeeps
<1>9. CASE \E o, p \in Objs : InsertEager(o, p)
  BY <1>9, InsertEagerKeeps
<1>10. CASE \E o, p \in Objs : Assign(o, p)
  BY <1>10, AssignKeeps
<1>11. CASE UNCHANGED vars
  <2>1. UNCHANGED <<contexts, histories>> /\ UNCHANGED <<name, canonicalName, renamed>>
    BY <1>11 DEF vars
  <2>2. Types /\ PlacesOK /\ NamesOK
    BY DEF IInv
  <2>3. Types'
    BY <2>1, <2>2 DEF Types, contexts, histories
  <2>4. PlacesOK'
    BY <2>1, <2>2, PlacesUnchanged DEF PlacesOK, MadeOK
  <2>5. ASSUME NEW q \in Objs, q \in Instances, ~renamed[q]
        PROVE  NameOK(q)'
    BY <2>1, <2>2, <2>3, <2>5, NameStays DEF NamesOK, contexts
  <2>6. NamesOK'
    BY <2>1, <2>5 DEF NamesOK, NameOK
  <2> QED
    BY <2>3, <2>4, <2>6 DEF IInv
<1> QED
  BY <1>1, <1>2, <1>3, <1>4, <1>5, <1>6, <1>7, <1>8, <1>9, <1>10, <1>11 DEF Next

\* Contexts, parents and cached names have the shape the code relies on, in
\* every state that calls of Context and Instance lead to.
THEOREM Invariance == Spec => []IInv
<1>1. Init => IInv
  BY InitIInv
<1>2. IInv /\ [Next]_vars => IInv'
  BY NextIInv
<1> QED
  BY <1>1, <1>2, PTL DEF Spec

\* A cached canonical name is made of the names above the instance, unless one
\* of these was renamed or put elsewhere: Instance.get_canonicalName.
THEOREM NamesStayCurrent == Spec => []NamesAreCurrent
<1>1. IInv => NamesAreCurrent
  <2> SUFFICES ASSUME IInv, NEW o \in Instances, HasPath(o), ~renamed[o], canonicalName[o] # Nothing
               PROVE  canonicalName[o] = Path(o)
    BY DEF NamesAreCurrent, CanonicalName
  <2>1. NameOK(o)
    BY InstanceTreeAssumption DEF IInv, NamesOK
  <2> QED
    BY <2>1 DEF NameOK
<1> QED
  BY <1>1, Invariance, PTL

-----------------------------------------------------------------------------
(* Parents and owners                                                        *)

\* It was not moved since it was made, and nothing above it was.
Settled(q) == Made(q) /\ ~moved[q] /\ \A p \in Above(owner, q) : ~moved[p]

\* The maps of a settled object are the chain of its owners.
Lineage(q, s) ==
  /\ s \in Seq(Objs) /\ Len(s) >= 1 /\ s[1] = q
  /\ \A i \in 1 .. Len(s) :
       /\ s[i] \in {q} \cup Above(owner, q)
       /\ Len(context[s[i]].maps) = Len(s) + 1 - i
       /\ i < Len(s) => owner[s[i]] = s[i + 1]
       /\ i = Len(s) => owner[s[i]] = Nothing

\* One object more at the end of a lineage.
LEMMA LineageOfChild ==
  ASSUME Types, NEW q \in Objs, NEW p \in Objs, owner[q] = p,
         Lineage(p, context[p].maps), context[q].maps = <<q>> \o context[p].maps
  PROVE  Lineage(q, context[q].maps)
<1> DEFINE s == context[q].maps
           t == context[p].maps
<1>1. t \in Seq(Objs) /\ Len(t) \in Nat /\ Len(t) >= 1 /\ t[1] = p
  BY DEF Lineage
<1>2. /\ s \in Seq(Objs) /\ Len(s) = Len(t) + 1 /\ s[1] = q
      /\ \A i \in 1 .. Len(t) : s[i + 1] = t[i]
  BY <1>1
<1>3. owner \in Chains /\ p # Nothing
  BY InstanceTreeAssumption DEF Types
<1>4. p \in Above(owner, q) /\ Above(owner, p) \subseteq Above(owner, q)
  BY <1>3, AboveIsClosed, AboveAbove
<1>5. ASSUME NEW j \in 1 .. Len(t)
      PROVE  /\ t[j] \in {p} \cup Above(owner, p)
             /\ Len(context[t[j]].maps) = Len(t) + 1 - j
             /\ j < Len(t) => owner[t[j]] = t[j + 1]
             /\ j = Len(t) => owner[t[j]] = Nothing
  BY DEF Lineage
<1> HIDE DEF s, t
<1>6. ASSUME NEW i \in 1 .. Len(s)
      PROVE  /\ s[i] \in {q} \cup Above(owner, q)
             /\ Len(context[s[i]].maps) = Len(s) + 1 - i
             /\ i < Len(s) => owner[s[i]] = s[i + 1]
             /\ i = Len(s) => owner[s[i]] = Nothing
  <2>1. CASE i = 1
    <3>1. s[2] = p /\ Len(s) > 1
      <4>1. 1 \in 1 .. Len(t) /\ 1 + 1 = 2
        BY <1>1
      <4> QED
        BY <1>1, <1>2, <4>1
    <3> QED
      BY <1>1, <1>2, <2>1, <3>1 DEF s
  <2>2. CASE i # 1
    <3>1. /\ i - 1 \in 1 .. Len(t) /\ (i - 1) + 1 = i
          /\ Len(t) + 1 - (i - 1) = Len(s) + 1 - i
          /\ i < Len(s) <=> i - 1 < Len(t)
          /\ i = Len(s) <=> i - 1 = Len(t)
      BY <1>1, <1>2, <2>2
    <3>2. s[i] = t[i - 1]
      BY <1>2, <3>1
    <3>3. i < Len(s) => s[i + 1] = t[i]
      <4>1. i < Len(s) => i \in 1 .. Len(t)
        BY <1>1, <1>2
      <4> QED
        BY <1>2, <4>1
    <3> QED
      BY <1>4, <1>5, <3>1, <3>2, <3>3
  <2> QED
    BY <2>1, <2>2
<1>7. Len(s) >= 1
  BY <1>1, <1>2
<1>8. Lineage(q, s)
  BY <1>2, <1>6, <1>7 DEF Lineage
<1> QED
  BY <1>8 DEF s

LEMMA SettledLineage ==
  ASSUME IInv, NEW q \in Objs, Settled(q)
  PROVE  Lineage(q, context[q].maps)
<1> DEFINE T == {n \in Nat : \E x \in Objs : /\ Settled(x) /\ ~Lineage(x, context[x].maps)
                                            /\ n = Len(context[x].maps)}
<1>1. \A x \in Objs : Made(x) =>
         context[x].maps \in Seq(Objs) /\ Len(context[x].maps) \in Nat
  BY DEF IInv, Types, Made, Contexts
<1>2. SUFFICES ASSUME T # {}
               PROVE  FALSE
  BY <1>1, <1>2 DEF Settled
<1>3. PICK n \in T : \A m \in T : n <= m
  <2>1. T \subseteq Nat
    OBVIOUS
  <2> HIDE DEF T
  <2> QED
    BY <1>2, <2>1, LeastNumber
<1>4. PICK x \in Objs : Settled(x) /\ ~Lineage(x, context[x].maps) /\ n = Len(context[x].maps)
  BY <1>3
<1>5. Types /\ MadeOK(x) /\ StayedOK(x) /\ Made(x) /\ ~moved[x] /\ owner \in Chains
  BY <1>4 DEF IInv, PlacesOK, Settled, Types
<1>6. CASE owner[x] = Nothing
  <2>1. context[x].maps = <<x>>
    BY <1>5, <1>6 DEF StayedOK
  <2>2. Len(context[x].maps) = 1 /\ context[x].maps[1] = x /\ context[x].maps \in Seq(Objs)
    BY <2>1
  <2>3. ASSUME NEW i \in 1 .. Len(context[x].maps)
        PROVE  i = 1
    BY <2>2
  <2> DEFINE s == context[x].maps
  <2>4. ASSUME NEW i \in 1 .. Len(s)
        PROVE  /\ s[i] \in {x} \cup Above(owner, x)
               /\ Len(context[s[i]].maps) = Len(s) + 1 - i
               /\ i < Len(s) => owner[s[i]] = s[i + 1]
               /\ i = Len(s) => owner[s[i]] = Nothing
    <3>1. i = 1
      BY <2>3
    <3>2. s[i] = x /\ Len(s) = 1 /\ Len(context[s[i]].maps) = 1
      BY <2>2, <3>1
    <3> HIDE DEF s
    <3> QED
      BY <1>6, <3>1, <3>2
  <2>5. Len(s) >= 1 /\ s \in Seq(Objs) /\ s[1] = x
    BY <2>2
  <2> HIDE DEF s
  <2>6. Lineage(x, s)
    BY <2>4, <2>5 DEF Lineage
  <2> QED
    BY <1>4, <2>6 DEF s
<1>7. CASE owner[x] # Nothing
  <2> DEFINE p == owner[x]
  <2>1. p \in Objs /\ Made(p) /\ p \in Above(owner, x) /\ Above(owner, p) \subseteq Above(owner, x)
    <3>1. p \in Objs
      BY <1>5, <1>7 DEF Chains
    <3>2. p \in Above(owner, x)
      BY <1>5, <1>7, AboveIsClosed
    <3> QED
      BY <1>5, <1>7, <3>1, <3>2, AboveAbove DEF MadeOK
  <2>2. Settled(p)
    BY <1>4, <2>1 DEF Settled
  <2>3. context[x].maps = <<x>> \o context[p].maps
    BY <1>5, <1>7, <2>2 DEF StayedOK, Settled
  <2>4. Len(context[p].maps) < n /\ Len(context[p].maps) \in Nat
    BY <1>1, <1>4, <2>1, <2>3
  <2>5. n \in Nat /\ Len(context[p].maps) \notin T
    <3> HIDE DEF T
    <3> QED
      BY <1>3, <2>4 DEF T
  <2>6. Lineage(p, context[p].maps)
    BY <2>1, <2>2, <2>4, <2>5
  <2>7. Lineage(x, context[x].maps)
    BY <1>5, <2>1, <2>3, <2>6, LineageOfChild
  <2> QED
    BY <1>4, <2>7
<1> QED
  BY <1>6, <1>7

\* An object that was put by a call that sets contexts, under settled owners,
\* finds what its owner does: it is not itself in the maps of that owner.
LEMMA Placed ==
  ASSUME IInv, NEW o \in Objs, Made(o), regular[o], owner[o] # Nothing,
         \A p \in Above(owner, o) : ~moved[p]
  PROVE  LET t == context[owner[o]].maps IN
           /\ Lineage(owner[o], t)
           /\ \A i \in 1 .. Len(t) : t[i] # o
           /\ \A S : First(context[o].maps, S, o) = First(t, S, o)
           /\ context[o].session = context[owner[o]].session
<1> DEFINE p == owner[o]
           t == context[p].maps
<1>1. owner \in Chains /\ MadeOK(o) /\ StayedOK(o) /\ PlacedOK(o)
  BY DEF IInv, Types, PlacesOK
<1>2. p \in Objs /\ Made(p) /\ p \in Above(owner, o) /\ Above(owner, p) \subseteq Above(owner, o)
  <2>1. p \in Objs
    BY <1>1 DEF Chains
  <2>2. p \in Above(owner, o)
    BY <1>1, AboveIsClosed
  <2> QED
    BY <1>1, <2>1, <2>2, AboveAbove DEF MadeOK
<1>3. Settled(p)
  BY <1>2 DEF Settled
<1>4. Lineage(p, t)
  BY <1>2, <1>3, SettledLineage
<1>5. t \in Seq(Objs)
  BY <1>4 DEF Lineage
<1>6. CASE moved[o]
  <2>1. context[o] = context[p]
    BY <1>1, <1>2, <1>6 DEF PlacedOK
  <2>2. \A i \in 1 .. Len(t) : t[i] # o
    <3>1. \A i \in 1 .. Len(t) : t[i] \in {p} \cup Above(owner, p)
      BY <1>4 DEF Lineage
    <3> HIDE DEF t, p
    <3> QED
      BY <1>2, <1>6, <3>1
  <2> QED
    BY <1>4, <2>1, <2>2
<1>7. CASE ~moved[o]
  <2>1. context[o].maps = <<o>> \o t /\ context[o].session = context[p].session
    BY <1>1, <1>2, <1>7 DEF StayedOK
  <2>2. \A S : First(context[o].maps, S, o) = First(t, S, o)
    BY <1>5, <2>1, FirstOfChild
  <2>3. \A i \in 1 .. Len(t) : t[i] # o
    <3>1. Len(context[o].maps) = Len(t) + 1 /\ Len(t) \in Nat
      BY <1>5, <2>1
    <3>2. \A i \in 1 .. Len(t) : Len(context[t[i]].maps) = Len(t) + 1 - i
      BY <1>4 DEF Lineage
    <3> HIDE DEF t
    <3>3. ASSUME NEW i \in 1 .. Len(t), t[i] = o
          PROVE  FALSE
      <4>1. Len(t) + 1 = Len(t) + 1 - i
        BY <3>1, <3>2, <3>3
      <4> QED
        BY <3>1, <4>1
    <3> QED
      BY <3>3
  <2> QED
    BY <1>4, <2>1, <2>2, <2>3
<1> QED
  BY <1>6, <1>7

\* The chain of the owners, ended at the first instance, has that one in it and
\* no other.
Until(o) == [p \in Objs |-> IF p \in Instances \ {o} THEN Nothing ELSE owner[p]]

LEMMA UntilFirst ==
  ASSUME Types, NEW o \in Objs, NEW t, Lineage(owner[o], t), owner[o] # Nothing,
         \A i \in 1 .. Len(t) : t[i] # o
  PROVE  {First(t, Instances, o)} \ {Nothing} = Above(Until(o), o) \cap Instances
<1> DEFINE f == Until(o)
           A == Above(f, o)
<1>1. owner \in Chains /\ f \in Chains
  BY DEF Types, Chains, Until
<1>2. t \in Seq(Objs) /\ Len(t) \in Nat /\ Len(t) >= 1 /\ t[1] = owner[o]
  BY DEF Lineage
<1>3. ASSUME NEW i \in 1 .. Len(t)
      PROVE  /\ i < Len(t) => owner[t[i]] = t[i + 1]
             /\ i = Len(t) => owner[t[i]] = Nothing
             /\ t[i] \in Objs /\ t[i] # o /\ t[i] # Nothing
             /\ f[t[i]] = IF t[i] \in Instances THEN Nothing ELSE owner[t[i]]
  BY <1>2, InstanceTreeAssumption DEF Lineage, Until
<1>4. f[o] = t[1]
  BY <1>2 DEF Until
<1>5. Closed(f, A) /\ f[o] \in A \cup {Nothing} /\ A \in SUBSET Objs
  BY <1>1, AboveIsClosed DEF Above
<1> HIDE DEF f, A
\* Nothing is above that the first k maps do not have, if the chain ends there.
<1>6. ASSUME NEW k \in 1 .. Len(t), k = Len(t) \/ t[k] \in Instances
      PROVE  \A p \in A : \E i \in 1 .. k : p = t[i]
  <2> DEFINE S == {p \in Objs : \E i \in 1 .. k : p = t[i]}
  <2>1. \A i \in 1 .. k : i \in 1 .. Len(t) /\ t[i] \in S
    BY <1>2, <1>3
  <2>2. ASSUME NEW i \in 1 .. k
        PROVE  f[t[i]] \in S \cup {Nothing}
    <3>1. CASE i < k
      <4>1. i < Len(t) /\ i + 1 \in 1 .. k /\ i \in 1 .. Len(t)
        BY <1>2, <3>1
      <4>2. f[t[i]] \in {Nothing, t[i + 1]}
        BY <1>3, <4>1
      <4> HIDE DEF S
      <4> QED
        BY <2>1, <4>1, <4>2
    <3>2. CASE i = k
      BY <1>3, <1>6, <3>2
    <3> QED
      BY <1>2, <3>1, <3>2
  <2>3. Closed(f, S) /\ f[o] \in S \cup {Nothing} /\ S \in SUBSET Objs
    <3>1. 1 \in 1 .. k
      BY <1>2
    <3>2. \A p \in S : f[p] \in S \cup {Nothing}
      BY <2>2
    <3> QED
      BY <1>4, <2>1, <3>1, <3>2 DEF Closed
  <2>4. A \subseteq S
    <3> HIDE DEF S
    <3> QED
      BY <1>1, <2>3, AboveIsLeast DEF A
  <2> QED
    BY <2>4
<1>7. CASE First(t, Instances, o) = Nothing /\ \A i \in 1 .. Len(t) : t[i] \notin Instances \ {o}
  <2>1. \A p \in A : p \notin Instances
    <3>1. Len(t) \in 1 .. Len(t)
      BY <1>2
    <3>2. \A p \in A : \E i \in 1 .. Len(t) : p = t[i]
      BY <1>6, <3>1
    <3> QED
      BY <1>3, <1>7, <3>2
  <2> QED
    BY <1>7, <2>1 DEF A, f
<1>8. CASE \E k \in 1 .. Len(t) :
             /\ First(t, Instances, o) = t[k] /\ t[k] \in Instances \ {o}
             /\ \A i \in 1 .. k - 1 : t[i] \notin Instances \ {o}
  <2>1. PICK k \in 1 .. Len(t) :
          /\ First(t, Instances, o) = t[k] /\ t[k] \in Instances \ {o}
          /\ \A i \in 1 .. k - 1 : t[i] \notin Instances \ {o}
    BY <1>8
  <2>2. \A p \in A : p \in Instances => p = t[k]
    <3>1. \A p \in A : \E i \in 1 .. k : p = t[i]
      BY <1>6, <2>1
    <3>2. \A i \in 1 .. k : i = k \/ (i \in 1 .. k - 1 /\ i \in 1 .. Len(t))
      BY <1>2
    <3> QED
      BY <1>3, <2>1, <3>1, <3>2
  <2>3. t[k] \in A
    <3> DEFINE T == {i \in 1 .. k : t[i] \notin A}
    <3>1. SUFFICES ASSUME T # {}
                   PROVE  FALSE
      <4>1. k \in 1 .. k
        BY <1>2
      <4> QED
        BY <3>1, <4>1
    <3>2. PICK j \in T : \A m \in T : j <= m
      <4>1. T \subseteq Nat
        BY <1>2
      <4> HIDE DEF T
      <4> QED
        BY <3>1, <4>1, LeastNumber
    <3>3. j \in 1 .. k /\ t[j] \notin A
      OBVIOUS
    <3>4. j # 1
      BY <1>2, <1>4, <1>5, <3>3
    <3>5. /\ j - 1 \in 1 .. k /\ j - 1 \in 1 .. k - 1 /\ j - 1 \in 1 .. Len(t)
          /\ j - 1 < Len(t) /\ (j - 1) + 1 = j /\ ~(j <= j - 1)
      BY <1>2, <3>3, <3>4
    <3>6. t[j - 1] \in A
      <4>1. j - 1 \notin T
        <5> HIDE DEF T
        <5> QED
          BY <3>2, <3>5
      <4> QED
        BY <3>5, <4>1
    <3>7. f[t[j - 1]] = t[j] /\ t[j] # Nothing
      <4>1. owner[t[j - 1]] = t[j] /\ t[j - 1] \notin Instances
        BY <1>3, <2>1, <3>5
      <4>2. j \in 1 .. Len(t)
        BY <1>2, <3>3
      <4> QED
        BY <1>3, <3>5, <4>1, <4>2
    <3> QED
      BY <1>5, <3>3, <3>6, <3>7 DEF Closed
  <2>4. t[k] # Nothing
    BY <1>3
  <2> QED
    BY <2>1, <2>2, <2>3, <2>4 DEF A, f
<1> QED
  BY <1>2, <1>7, <1>8, FirstIs

\* Parents follow owners: set_context looks for the parent and for the instance
\* above in the maps that the call that places the object hands down.
THEOREM ParentsAreOwners == Spec => []ParentsFollowOwners
<1>1. IInv => ParentsFollowOwners
  <2> SUFFICES ASSUME IInv, NEW o \in Objs, Made(o), regular[o],
                      \A p \in Above(owner, o) : regular[p] /\ ~moved[p]
               PROVE  /\ parent[o] = owner[o]
                      /\ owner[o] # Nothing => context[o].session = context[owner[o]].session
                      /\ o \in Instances => {parentInstance[o]} \ {Nothing} = OwnerInstance(o)
    BY DEF ParentsFollowOwners
  <2>1. /\ Types /\ StayedOK(o) /\ PlacedOK(o)
        /\ parent[o] = First(context[o].maps, Objs, o)
        /\ o \in Instances => parentInstance[o] = First(context[o].maps, Instances, o)
    BY DEF IInv, PlacesOK, ParentsOK
  <2>2. OwnerInstance(o) = Above(Until(o), o) \cap Instances
    BY DEF OwnerInstance, Until
  <2>3. CASE owner[o] = Nothing
    <3>1. context[o].maps = <<o>>
      BY <2>1, <2>3 DEF StayedOK, PlacedOK
    <3>2. ASSUME NEW S
          PROVE  First(context[o].maps, S, o) = Nothing
      <4>1. <<o>> \in Seq(Objs) /\ \A i \in 1 .. Len(<<o>>) : <<o>>[i] \notin S \ {o}
        OBVIOUS
      <4> QED
        BY <3>1, <4>1, FirstNone
    <3>3. Above(Until(o), o) = {}
      <4>1. Until(o) \in Chains /\ Until(o)[o] = Nothing
        BY <2>1, <2>3 DEF Until, Types, Chains
      <4>2. Closed(Until(o), {})
        BY DEF Closed
      <4> QED
        BY <4>1, <4>2, AboveIsLeast
    <3> QED
      BY <2>1, <2>2, <2>3, <3>2, <3>3
  <2>4. CASE owner[o] # Nothing
    <3> DEFINE t == context[owner[o]].maps
    <3>1. /\ Lineage(owner[o], t)
          /\ \A i \in 1 .. Len(t) : t[i] # o
          /\ \A S : First(context[o].maps, S, o) = First(t, S, o)
          /\ context[o].session = context[owner[o]].session
      BY <2>4, Placed
    <3> HIDE DEF t
    <3>2. t \in Seq(Objs) /\ t[1] = owner[o] /\ 1 \in 1 .. Len(t) /\ t[1] \in Objs \ {o}
      BY <3>1 DEF Lineage
    <3>3. First(t, Objs, o) = t[1]
      BY <3>2, FirstAt
    <3>4. {First(t, Instances, o)} \ {Nothing} = Above(Until(o), o) \cap Instances
      BY <2>1, <2>4, <3>1, UntilFirst
    <3> QED
      BY <2>1, <2>2, <3>1, <3>2, <3>3, <3>4
  <2> QED
    BY <2>3, <2>4
<1> QED
  BY <1>1, Invariance, PTL
=============================================================================
