-------------------------- MODULE NamespaceProofs --------------------------
(* What is proved of Namespace: when a cached answer may be stale.          *)
EXTENDS Namespace, FiniteSetTheorems, WellFoundedInduction, TLAPS

LEMMA LeastNumber ==
  ASSUME NEW T, T \subseteq Nat, T # {}
  PROVE  \E n \in T : \A m \in T : n <= m
<1> DEFINE R == OpToRel(<, Nat)
<1>1. IsWellFoundedOn(R, Nat)
  BY NatLessThanWellFounded
<1>2. PICK n \in T : \A m \in T : ~(<<m, n>> \in R)
  <2> HIDE DEF R
  <2> QED
    BY <1>1, WFMin
<1>3. \A m \in T : ~(m < n)
  BY <1>2 DEF OpToRel
<1> QED
  BY <1>3

-----------------------------------------------------------------------------
(* Names are totally ordered, so a finite set of them has a greatest.       *)

\* i is the first place where a and b differ, and a is the lesser there.
LessAt(a, b, i) ==
  /\ \A j \in 1 .. i - 1 : j <= Len(a) /\ a[j] = b[j]
  /\ i = Len(a) + 1 \/ (i <= Len(a) /\ Rank[a[i]] < Rank[b[i]])
Less(a, b) == \E i \in 1 .. Len(b) : LessAt(a, b, i)

LEMMA LessIsBefore ==
  ASSUME NEW a \in Seq(Segs), NEW b \in Seq(Segs), Less(a, b)
  PROVE  Before(a, b)
<1>1. PICK i \in 1 .. Len(b) : LessAt(a, b, i)
  BY DEF Less
<1>2. CASE i = Len(a) + 1
  <2>1. SubSeq(a, 1, Len(a)) = SubSeq(b, 1, Len(a))
    BY <1>1, <1>2 DEF LessAt
  <2>2. Len(a) \in Nat /\ Len(b) \in Nat /\ Len(a) < Len(b)
    BY <1>1, <1>2
  <2>3. a # b
    BY <2>2
  <2>4. IsStrictPrefix(a, b)
    BY <2>1, <2>2, <2>3 DEF IsStrictPrefix, IsPrefix
  <2> QED
    BY <2>4 DEF Before
<1>3. CASE i <= Len(a) /\ Rank[a[i]] < Rank[b[i]]
  <2>1. SubSeq(a, 1, i - 1) = SubSeq(b, 1, i - 1)
    BY <1>1, <1>3 DEF LessAt
  <2>2. i \in DOMAIN a \cap DOMAIN b
    BY <1>1, <1>3
  <2> QED
    BY <1>3, <2>1, <2>2 DEF Before
<1> QED
  BY <1>1, <1>2, <1>3 DEF LessAt

LEMMA LessIsTotal ==
  ASSUME NEW a \in Seq(Segs), NEW b \in Seq(Segs), a # b
  PROVE  Less(a, b) \/ Less(b, a)
<1> DEFINE T == {i \in Nat \ {0} : ~(i <= Len(a) /\ i <= Len(b) /\ a[i] = b[i])}
<1>1. Len(a) + 1 \in T
  OBVIOUS
<1>0. T \subseteq Nat \ {0}
  OBVIOUS
<1>2. PICK i \in T : \A m \in T : i <= m
  <2> HIDE DEF T
  <2> QED
    BY <1>0, <1>1, LeastNumber
<1>3. \A j \in 1 .. i - 1 : j <= Len(a) /\ j <= Len(b) /\ a[j] = b[j]
  <2> TAKE j \in 1 .. i - 1
  <2>1. i \in Nat /\ j \in Nat \ {0} /\ j < i
    BY <1>0, <1>2
  <2>2. j \notin T
    <3> HIDE DEF T
    <3> QED
      BY <1>2, <2>1
  <2> QED
    BY <2>1, <2>2
<1>4. i \in Nat \ {0} /\ i - 1 <= Len(a) /\ i - 1 <= Len(b)
  BY <1>2, <1>3
<1>5. CASE i <= Len(a) /\ i <= Len(b)
  <2>1. Rank[a[i]] # Rank[b[i]] /\ Rank[a[i]] \in Nat /\ Rank[b[i]] \in Nat
    BY <1>2, <1>4, <1>5, NamespaceAssumption
  <2> QED
    BY <1>3, <1>4, <1>5, <2>1 DEF Less, LessAt
<1>6. CASE i > Len(a) /\ i <= Len(b)
  BY <1>3, <1>4, <1>6 DEF Less, LessAt
<1>7. CASE i > Len(b) /\ i <= Len(a)
  BY <1>3, <1>4, <1>7 DEF Less, LessAt
<1>8. CASE i > Len(a) /\ i > Len(b)
  BY <1>3, <1>4, <1>8
<1> QED
  BY <1>4, <1>5, <1>6, <1>7, <1>8

LEMMA LessIsTransitive ==
  ASSUME NEW a \in Seq(Segs), NEW b \in Seq(Segs), NEW c \in Seq(Segs), Less(a, b), Less(b, c)
  PROVE  Less(a, c)
<1>1. PICK i \in 1 .. Len(b) : LessAt(a, b, i)
  BY DEF Less
<1>2. PICK k \in 1 .. Len(c) : LessAt(b, c, k)
  BY DEF Less
<1>3. i \in Nat /\ k \in Nat /\ Len(a) \in Nat /\ Len(b) \in Nat /\ Len(c) \in Nat
  BY <1>1, <1>2
<1>4. CASE i < k
  <2>1. i \in 1 .. Len(c) /\ b[i] = c[i]
    BY <1>1, <1>2, <1>3, <1>4 DEF LessAt
  <2>2. \A j \in 1 .. i - 1 : j <= Len(a) /\ a[j] = c[j]
    BY <1>1, <1>2, <1>3, <1>4 DEF LessAt
  <2>3. LessAt(a, c, i)
    BY <1>1, <2>1, <2>2 DEF LessAt
  <2> QED
    BY <2>1, <2>3 DEF Less
<1>5. CASE i = k
  <2>1. Rank[b[i]] < Rank[c[i]]
    BY <1>1, <1>2, <1>3, <1>5 DEF LessAt
  <2>2. \A j \in 1 .. i - 1 : j <= Len(a) /\ a[j] = c[j]
    BY <1>1, <1>2, <1>3, <1>5 DEF LessAt
  <2>3. i <= Len(a) => Rank[a[i]] \in Nat /\ Rank[b[i]] \in Nat /\ Rank[c[i]] \in Nat
    <3>1. i <= Len(a) => a[i] \in Segs /\ b[i] \in Segs /\ c[i] \in Segs
      BY <1>1, <1>2, <1>3, <1>5
    <3> QED
      BY <3>1, NamespaceAssumption
  <2>4. LessAt(a, c, i)
    BY <1>1, <2>1, <2>2, <2>3 DEF LessAt
  <2> QED
    BY <1>2, <1>5, <2>4 DEF Less
<1>6. CASE k < i
  <2>1. k <= Len(a) /\ a[k] = b[k] /\ Rank[b[k]] < Rank[c[k]]
    BY <1>1, <1>2, <1>3, <1>6 DEF LessAt
  <2>2. \A j \in 1 .. k - 1 : j <= Len(a) /\ a[j] = c[j]
    BY <1>1, <1>2, <1>3, <1>6 DEF LessAt
  <2>3. LessAt(a, c, k)
    BY <2>1, <2>2 DEF LessAt
  <2> QED
    BY <1>2, <2>3 DEF Less
<1> QED
  BY <1>3, <1>4, <1>5, <1>6

LEMMA GreatestExists ==
  ASSUME NEW S \in SUBSET Seq(Segs), IsFiniteSet(S), S # {}
  PROVE  Greatest(S) \in S /\ \A m \in S \ {Greatest(S)} : Before(m, Greatest(S))
<1>0. PICK k \in Nat : ExistsSurjection(1 .. k, S)
  BY FS_NatSurjection
<1>1. PICK f \in [1 .. k -> S] : \A x \in S : \E j \in 1 .. k : f[j] = x
  BY <1>0 DEF ExistsSurjection, Surjection
<1> DEFINE Tops(i, j) == \A l \in 1 .. j : f[l] = f[i] \/ Less(f[l], f[i])
           T == {j \in 1 .. k : ~\E i \in 1 .. j : Tops(i, j)}
<1>2. T = {}
  <2> SUFFICES ASSUME T # {}
               PROVE  FALSE
    OBVIOUS
  <2>0. T \subseteq 1 .. k
    OBVIOUS
  <2>1. PICK j \in T : \A m \in T : j <= m
    <3>1. T \subseteq Nat
      BY <2>0
    <3> HIDE DEF T
    <3> QED
      BY <3>1, LeastNumber
  <2>2. j \in 1 .. k /\ ~\E i \in 1 .. j : Tops(i, j)
    BY <2>1
  <2>3. j # 1
    <3>1. j = 1 => Tops(1, 1)
      OBVIOUS
    <3> QED
      BY <2>2, <3>1
  <2>4. j - 1 \notin T
    <3> HIDE DEF T
    <3> QED
      BY <2>1, <2>2
  <2>5. PICK i \in 1 .. j - 1 : Tops(i, j - 1)
    BY <2>2, <2>3, <2>4
  <2>6. f[i] \in Seq(Segs) /\ f[j] \in Seq(Segs)
    BY <2>2, <2>5
  <2>7. CASE f[j] = f[i] \/ Less(f[j], f[i])
    <3>1. Tops(i, j)
      <4> TAKE l \in 1 .. j
      <4>1. l = j \/ l \in 1 .. j - 1
        BY <2>2
      <4> QED
        BY <2>5, <2>7, <4>1
    <3>2. i \in 1 .. j
      BY <2>2, <2>5
    <3> HIDE DEF Tops
    <3> QED
      BY <2>2, <3>1, <3>2
  <2>8. CASE Less(f[i], f[j])
    <3>1. \A l \in 1 .. j - 1 : Less(f[l], f[j])
      <4> TAKE l \in 1 .. j - 1
      <4>1. f[l] \in Seq(Segs)
        BY <2>2
      <4> QED
        BY <2>5, <2>6, <2>8, <4>1, LessIsTransitive
    <3>2. Tops(j, j)
      <4> TAKE l \in 1 .. j
      <4>1. l = j \/ l \in 1 .. j - 1
        BY <2>2
      <4> QED
        BY <3>1, <4>1
    <3>3. j \in 1 .. j
      BY <2>2
    <3> HIDE DEF Tops
    <3> QED
      BY <2>2, <3>2, <3>3
  <2> QED
    BY <2>6, <2>7, <2>8, LessIsTotal
<1>3. k # 0
  BY <1>1
<1>4. PICK i \in 1 .. k : Tops(i, k)
  <2>1. k \notin T
    BY <1>2
  <2> QED
    BY <1>1, <1>3, <2>1
<1>5. f[i] \in S /\ \A m \in S \ {f[i]} : Before(m, f[i])
  <2>1. f[i] \in S
    BY <1>1, <1>4
  <2>2. ASSUME NEW m \in S, m # f[i]
        PROVE  Before(m, f[i])
    <3>1. Less(m, f[i])
      BY <1>1, <1>4, <2>2
    <3> QED
      BY <2>1, <2>2, <3>1, LessIsBefore
  <2> QED
    BY <2>1, <2>2
<1> QED
  BY <1>5 DEF Greatest

-----------------------------------------------------------------------------
(* The invariant                                                            *)

\* The registry as it is when ns is set: the empty name stands for its uri. Of
\* the current namespace, the empty name stands for the uri it had when set.
LocalIn(ns) == IF ns = current THEN local ELSE With(local, << >>, local[ns])
RegistryIn(ns) == Chained(LocalIn(ns), builder)

\* The answers that were given with no current namespace, when there is one.
Orphan(key) == key[3] = << >> /\ current # << >>

\* An answer that is not stale is what the registry said, or will say, with the
\* namespace of its key as the current one.
Kept(key) ==
  key \in stale \/ Orphan(key) \/ known[key] = FreshIn(RegistryIn(key[3]), key, key[3])

\* A dictionary of finitely many names of uris.
IsDictionary(d) ==
  /\ d = [n \in DOMAIN d |-> d[n]]
  /\ DOMAIN d \subseteq Seq(Segs) /\ IsFiniteSet(DOMAIN d)
  /\ \A n \in DOMAIN d : d[n] \in Uris

Types ==
  /\ IsDictionary(local) /\ IsDictionary(builder)
  /\ docs \in Seq(DocUris) /\ currentUri \in Uris
  /\ << >> \in DOMAIN local /\ current \in DOMAIN local

IInv ==
  /\ Types
  /\ \A key \in DOMAIN known : key[3] \in DOMAIN local /\ Kept(key)

-----------------------------------------------------------------------------
(* An answer depends on the registry and the documents only.                *)

LEMMA SameDocs ==
  ASSUME docs' = docs, NEW reg, NEW key, NEW ns
  PROVE  FreshIn(reg, key, ns)' = FreshIn(reg, key, ns)
<1>1. ASSUME NEW cname
      PROVE  FindNsByCname(reg, cname)' = FindNsByCname(reg, cname)
  BY DEF FindNsByCname, LastNs
<1>2. ASSUME NEW ref
      PROVE  FindNsByUri(reg, ref)' = FindNsByUri(reg, ref)
  BY DEF FindNsByUri, LastNs
<1>3. ASSUME NEW u, NEW cns
      PROVE  Fragment(u, cns)' = Fragment(u, cns)
  BY DEF Fragment
<1>4. ASSUME NEW ref
      PROVE  IdCname(reg, ref)' = IdCname(reg, ref)
  BY <1>2 DEF IdCname
<1>5. ASSUME NEW cname, NEW n
      PROVE  CnameId(reg, cname, n)' = CnameId(reg, cname, n)
  BY <1>1, <1>3 DEF CnameId, IdUnder
<1> QED
  BY <1>4, <1>5 DEF FreshIn

\* The registry that is current is that of the current namespace.
LEMMA RegistryHere == RegistryIn(current) = Registry
BY DEF RegistryIn, LocalIn, Registry

-----------------------------------------------------------------------------
(* The types.                                                               *)

LEMMA WithEntry ==
  ASSUME NEW d, IsDictionary(d), NEW n \in Seq(Segs), NEW u \in Uris
  PROVE  IsDictionary(With(d, n, u)) /\ DOMAIN With(d, n, u) = DOMAIN d \cup {n}
<1>1. IsFiniteSet(DOMAIN d \cup {n})
  BY FS_AddElement DEF IsDictionary
<1> QED
  BY <1>1 DEF IsDictionary, With

LEMMA RemovedAt ==
  ASSUME NEW S, NEW s \in Seq(S), NEW i \in DOMAIN s
  PROVE  RemoveAt(s, i) \in Seq(S)
<1>1. SubSeq(s, 1, i - 1) \in Seq(S) /\ SubSeq(s, i + 1, Len(s)) \in Seq(S)
  OBVIOUS
<1> QED
  BY <1>1 DEF RemoveAt

LEMMA InitTypes ==
  ASSUME Init
  PROVE  Types
<1>1. << >> \in Seq(Segs) /\ Here \in Uris
  BY DEF Here, Uri, Uris
<1>2. IsDictionary([n \in {<< >>} |-> Here])
  BY <1>1, FS_Singleton DEF IsDictionary
<1>3. IsDictionary(<< >>)
  BY FS_EmptySet DEF IsDictionary
<1>4. docs \in Seq(DocUris)
  BY DEF Init
<1> QED
  BY <1>1, <1>2, <1>3, <1>4 DEF Init, Types

LEMMA AddTypes ==
  ASSUME Types, NEW name \in Seq(Segs), NEW uri \in Uris, Add(name, uri)
  PROVE  Types'
<1>1. local[<< >>] \in Uris
  BY DEF Types, IsDictionary
<1>2. PICK u \in Uris : local' = With(local, name, u)
  BY <1>1 DEF Add, Uri, Uris
<1>3. IsDictionary(local') /\ DOMAIN local' = DOMAIN local \cup {name}
  BY <1>2, WithEntry DEF Types
<1> QED
  BY <1>3 DEF Types, Add, IsDictionary

LEMMA RegisterTypes ==
  ASSUME Types, NEW name \in Seq(Segs), NEW uri \in Uris, RegisterNs(uri, name)
  PROVE  Types'
<1>1. DocOf(uri) \in Uris
  BY DEF DocOf, Uri, Uris
<1>2. IsDictionary(builder')
  BY <1>1, WithEntry DEF Types, RegisterNs
<1> QED
  BY <1>2 DEF Types, RegisterNs, IsDictionary

LEMMA UriNameType ==
  ASSUME NEW u \in Uris
  PROVE  UriName(u) \in Seq(Segs) /\ (u.doc # << >> => UriName(u) # << >>)
<1>1. u.doc \in Seq(Segs)
  BY DEF Uris
<1>2. UriName(u) = [i \in 1 .. Len(u.doc) |-> Clean[u.doc[i]]]
  BY <1>1 DEF UriName
<1>3. \A i \in 1 .. Len(u.doc) : Clean[u.doc[i]] \in Segs
  BY <1>1, NamespaceAssumption
<1>4. UriName(u) \in Seq(Segs) /\ Len(UriName(u)) = Len(u.doc)
  BY <1>1, <1>2, <1>3
<1> QED
  BY <1>1, <1>4

LEMMA DocsTypes ==
  ASSUME Types, NEW u \in DocUris, RegisterDoc(u) \/ UnregisterDoc(u)
  PROVE  Types'
<1>1. CASE RegisterDoc(u)
  <2>1. docs' \in Seq(DocUris)
    BY <1>1 DEF Types, RegisterDoc
  <2> QED
    BY <1>1, <2>1 DEF Types, RegisterDoc, IsDictionary
<1>2. CASE UnregisterDoc(u)
  <2>1. PICK i \in DOMAIN docs : docs' = RemoveAt(docs, i)
    BY <1>2 DEF UnregisterDoc
  <2>2. docs' \in Seq(DocUris)
    BY <2>1, RemovedAt DEF Types
  <2> QED
    BY <1>2, <2>2 DEF Types, UnregisterDoc, IsDictionary
<1> QED
  BY <1>1, <1>2

\* The namespace that is set is one of those that were added.
LEMMA SetCurrentSets ==
  ASSUME Types, NEW name, SetCurrent(name)
  PROVE  \E n \in DOMAIN local :
           /\ current' = n
           /\ currentUri' = local[n]
           /\ local' = With(local, << >>, local[n])
           /\ stale' = IF n = << >> THEN DOMAIN known ELSE stale \cup Rebound
           /\ UNCHANGED <<builder, docs, known>>
<1> DEFINE N == {m \in DOMAIN local : Begins(m, name)}
<1>1. << >> \in N
  BY DEF Types, Begins, Whole, IsPrefix
<1>2. IsFiniteSet(N) /\ N \in SUBSET Seq(Segs)
  BY FS_Subset DEF Types, IsDictionary
<1>3. Greatest(N) \in N
  BY <1>1, <1>2, GreatestExists
<1> QED
  BY <1>3 DEF SetCurrent

LEMMA SetCurrentTypes ==
  ASSUME Types, NEW name, SetCurrent(name)
  PROVE  Types' /\ DOMAIN local' = DOMAIN local
<1>1. PICK n \in DOMAIN local :
        /\ current' = n
        /\ currentUri' = local[n]
        /\ local' = With(local, << >>, local[n])
        /\ UNCHANGED <<builder, docs>>
  BY SetCurrentSets
<1>2. local[n] \in Uris /\ << >> \in Seq(Segs)
  BY DEF Types, IsDictionary
<1>3. IsDictionary(With(local, << >>, local[n]))
      /\ DOMAIN With(local, << >>, local[n]) = DOMAIN local
  <2>1. IsDictionary(local) /\ << >> \in DOMAIN local
    BY DEF Types
  <2>2. /\ IsDictionary(With(local, << >>, local[n]))
        /\ DOMAIN With(local, << >>, local[n]) = DOMAIN local \cup {<< >>}
    BY <1>2, <2>1, WithEntry
  <2> QED
    BY <2>1, <2>2
<1> QED
  BY <1>1, <1>2, <1>3 DEF Types, IsDictionary

-----------------------------------------------------------------------------
(* The actions keep IInv.                                                   *)

\* After a change that makes every answer stale nothing is left to show.
LEMMA ChangesKept ==
  ASSUME IInv, Changes, Types', DOMAIN local \subseteq DOMAIN local'
  PROVE  IInv'
<1>1. known' = known /\ stale' = DOMAIN known
  BY DEF Changes
<1>2. \A key \in DOMAIN known' : key[3] \in DOMAIN local' /\ Kept(key)'
  BY <1>1 DEF IInv, Kept
<1> QED
  BY <1>2 DEF IInv

LEMMA RegistryKept ==
  ASSUME IInv,
         \/ \E name \in Seq(Segs), uri \in Uris : Add(name, uri) \/ RegisterNs(uri, name)
         \/ \E u \in DocUris : RegisterNsUnnamed(u) \/ RegisterDoc(u) \/ UnregisterDoc(u)
  PROVE  IInv'
<1>1. ASSUME NEW name \in Seq(Segs), NEW uri \in Uris, Add(name, uri)
      PROVE  IInv'
  <2>1. DOMAIN local' = DOMAIN local \cup {name}
    BY <1>1 DEF Add, With
  <2>2. Types' /\ Changes
    BY <1>1, AddTypes DEF IInv, Add
  <2> QED
    BY <2>1, <2>2, ChangesKept
<1>2. ASSUME NEW name \in Seq(Segs), NEW uri \in Uris, RegisterNs(uri, name)
      PROVE  IInv'
  <2>1. Types' /\ Changes /\ local' = local
    BY <1>2, RegisterTypes DEF IInv, RegisterNs
  <2> QED
    BY <2>1, ChangesKept
<1>3. ASSUME NEW u \in DocUris, RegisterDoc(u) \/ UnregisterDoc(u)
      PROVE  IInv'
  <2>1. Types' /\ Changes /\ local' = local
    BY <1>3, DocsTypes DEF IInv, RegisterDoc, UnregisterDoc
  <2> QED
    BY <2>1, ChangesKept
<1>4. ASSUME NEW u \in DocUris, RegisterNsUnnamed(u)
      PROVE  IInv'
  <2>1. u \in Uris /\ DocOf(u) \in Uris
    BY NamespaceAssumption
  <2>2. UriName(DocOf(u)) \in Seq(Segs)
    BY <2>1, UriNameType
  <2> QED
    BY <1>2, <1>4, <2>1, <2>2 DEF RegisterNsUnnamed
<1> QED
  BY <1>1, <1>2, <1>3, <1>4

\* The answers of the namespace that is left are kept with its uri, unless it
\* was added again; those of the one that is set become current.
LEMMA SetCurrentKept ==
  ASSUME IInv, NEW name, SetCurrent(name)
  PROVE  IInv'
<1>1. PICK n \in DOMAIN local :
        /\ current' = n
        /\ local' = With(local, << >>, local[n])
        /\ stale' = IF n = << >> THEN DOMAIN known ELSE stale \cup Rebound
        /\ UNCHANGED <<builder, docs, known>>
  BY SetCurrentSets DEF IInv
<1>2. Types' /\ DOMAIN local' = DOMAIN local
  BY SetCurrentTypes DEF IInv
<1>3. ASSUME NEW key \in DOMAIN known
      PROVE  key[3] \in DOMAIN local' /\ Kept(key)'
  <2> SUFFICES ASSUME key \notin stale', ~Orphan(key)'
               PROVE  known'[key] = FreshIn(RegistryIn(key[3]), key, key[3])'
    BY <1>1, <1>2 DEF IInv, Kept
  <2>1. n # << >> /\ key \notin stale /\ key \notin Rebound
    BY <1>1
  <2>2. key[3] # << >>
    BY <1>1, <2>1 DEF Orphan
  <2>3. known[key] = FreshIn(RegistryIn(key[3]), key, key[3])
    BY <2>1, <2>2 DEF IInv, Kept, Orphan
  <2>4. LocalIn(key[3])' = LocalIn(key[3])
    <3>1. key[3] = current => local[<< >>] = local[current]
      BY <2>1 DEF Rebound
    <3>2. key[3] \in DOMAIN local /\ << >> \in DOMAIN local
      BY DEF IInv, Types
    <3>3. CASE key[3] = current
      <4>1. LocalIn(key[3]) = local
        BY <3>3 DEF LocalIn
      <4>2. local = With(local, << >>, local[key[3]])
        BY <3>1, <3>2, <3>3 DEF With, IInv, Types, IsDictionary
      <4>3. LocalIn(key[3])' = With(local, << >>, local[key[3]])
        BY <1>1, <2>2, <3>1, <3>2, <3>3 DEF LocalIn, With
      <4> QED
        BY <4>1, <4>2, <4>3
    <3>4. CASE key[3] # current
      <4>1. LocalIn(key[3]) = With(local, << >>, local[key[3]])
        BY <3>4 DEF LocalIn
      <4>2. LocalIn(key[3])' = With(local, << >>, local[key[3]])
        BY <1>1, <2>2, <3>2 DEF LocalIn, With
      <4> QED
        BY <4>1, <4>2
    <3> QED
      BY <3>3, <3>4
  <2>5. RegistryIn(key[3])' = RegistryIn(key[3])
    BY <1>1, <2>4 DEF RegistryIn
  <2> QED
    BY <1>1, <2>3, <2>5, SameDocs
<1> QED
  BY <1>1, <1>2, <1>3 DEF IInv

LEMMA AnsweredKept ==
  ASSUME IInv, NEW key, NEW answer, key[3] = current, answer = Answer(key), Answered(key, answer)
  PROVE  IInv'
<1>1. PICK dropped \in SUBSET (DOMAIN known \ {key}) :
        /\ known' = With([k \in DOMAIN known \ dropped |-> known[k]], key, answer)
        /\ stale' = stale \cap (DOMAIN known \ dropped)
  BY DEF Answered
<1>2. UNCHANGED <<local, builder, docs, current>>
  BY DEF Answered
<1>5. Types'
  BY <1>2 DEF IInv, Types, IsDictionary, Answered
<1>3. DOMAIN known' = {key} \cup (DOMAIN known \ dropped)
  BY <1>1 DEF With
<1>4. ASSUME NEW k \in DOMAIN known'
      PROVE  k[3] \in DOMAIN local' /\ Kept(k)'
  <2>1. LocalIn(k[3])' = LocalIn(k[3])
    BY <1>2 DEF LocalIn
  <2>2. RegistryIn(k[3])' = RegistryIn(k[3])
    BY <1>2, <2>1 DEF RegistryIn
  <2>3. FreshIn(RegistryIn(k[3]), k, k[3])' = FreshIn(RegistryIn(k[3]), k, k[3])
    BY <1>2, <2>2, SameDocs
  <2>4. CASE k # key
    <3>1. k \in DOMAIN known \ dropped /\ known'[k] = known[k]
      BY <1>1, <1>3, <2>4 DEF With
    <3>2. k \in stale => k \in stale'
      BY <1>1, <3>1
    <3>3. Orphan(k)' <=> Orphan(k)
      BY <1>2 DEF Orphan
    <3> QED
      BY <1>2, <2>3, <3>1, <3>2, <3>3 DEF IInv, Kept
  <2>5. CASE k = key
    <3>1. known'[key] = Answer(key)
      BY <1>1 DEF With
    <3>2. key[3] \in DOMAIN local
      BY DEF IInv, Types
    <3>3. CASE key \in DOMAIN known
      <4>1. known'[key] = known[key]
        BY <3>1, <3>3 DEF Answer
      <4>2. key \in stale => key \in stale'
        BY <1>1, <3>3
      <4>3. ~Orphan(key)
        BY DEF Orphan
      <4> QED
        BY <1>2, <2>3, <2>5, <3>2, <3>3, <4>1, <4>2, <4>3 DEF IInv, Kept
    <3>4. CASE key \notin DOMAIN known
      <4>1. known'[key] = FreshIn(RegistryIn(key[3]), key, key[3])
        BY <3>1, <3>4, RegistryHere DEF Answer, Fresh
      <4> QED
        BY <1>2, <2>3, <2>5, <3>2, <4>1 DEF Kept
    <3> QED
      BY <3>3, <3>4
  <2> QED
    BY <2>4, <2>5
<1> QED
  BY <1>2, <1>4, <1>5 DEF IInv

LEMMA NextIInv ==
  ASSUME IInv, [Next]_vars
  PROVE  IInv'
<1>1. CASE \E b \in Bindings : Add(b[1], b[2])
  <2>1. \A b \in Bindings : b[1] \in Seq(Segs) /\ b[2] \in Uris
    BY NamespaceAssumption
  <2> QED
    BY <1>1, <2>1, RegistryKept
<1>2. CASE \E b \in Named : RegisterNs(b[2], b[1])
  <2>1. \A b \in Named : b[1] \in Seq(Segs) /\ b[2] \in Uris
    BY NamespaceAssumption
  <2> QED
    BY <1>2, <2>1, RegistryKept
<1>3. CASE \E b \in Bindings \cup Named : SetCurrent(b[1])
  BY <1>3, SetCurrentKept
<1>4. CASE \E u \in DocUris : RegisterNsUnnamed(u) \/ RegisterDoc(u) \/ UnregisterDoc(u)
  BY <1>4, RegistryKept
<1>5. CASE \E ref \in Refs : AskName(ref)
  BY <1>5, AnsweredKept DEF AskName, Ask, NameKey
<1>6. CASE \E cname \in CNames, dots \in 0..2 : AskId(cname, dots)
  BY <1>6, AnsweredKept DEF AskId, Ask, IdKey
<1>7. CASE UNCHANGED vars
  <2>1. \A k : LocalIn(k)' = LocalIn(k)
    BY <1>7 DEF vars, LocalIn
  <2> QED
    BY <1>7, SameDocs DEF vars, IInv, Types, IsDictionary, Kept, Orphan, RegistryIn, LocalIn
<1> QED
  BY <1>1, <1>2, <1>3, <1>4, <1>5, <1>6, <1>7 DEF Next

-----------------------------------------------------------------------------
(* The way of an id to its name and back.                                   *)

LEMMA BeginsType ==
  ASSUME NEW S, NEW s \in Seq(S), s # << >>
  PROVE  /\ Len(s) \in Nat \ {0} /\ Last(s) = s[Len(s)] /\ Last(s) \in S
         /\ Front(s) \in Seq(S) /\ Len(Front(s)) = Len(s) - 1
         /\ \A i \in 1 .. Len(s) - 1 : Front(s)[i] = s[i]
<1>1. Len(s) \in Nat \ {0}
  OBVIOUS
<1>2. Front(s) = [i \in 1 .. Len(s) - 1 |-> s[i]]
  BY <1>1 DEF Front
<1> QED
  BY <1>1, <1>2 DEF Last

LEMMA WholeMeans ==
  ASSUME NEW S, NEW a \in Seq(S), NEW b \in Seq(S)
  PROVE  Whole(a, b) <=> Len(a) <= Len(b) /\ \A i \in 1 .. Len(a) : a[i] = b[i]
<1>1. Len(a) \in Nat /\ Len(b) \in Nat
  OBVIOUS
<1>2. ASSUME Len(a) <= Len(b)
      PROVE  SubSeq(a, 1, Len(a)) = SubSeq(b, 1, Len(a)) <=> \A i \in 1 .. Len(a) : a[i] = b[i]
  <2>1. /\ SubSeq(a, 1, Len(a)) \in Seq(S) /\ Len(SubSeq(a, 1, Len(a))) = Len(a)
        /\ \A i \in 1 .. Len(a) : SubSeq(a, 1, Len(a))[i] = a[i]
    BY <1>1
  <2>2. /\ SubSeq(b, 1, Len(a)) \in Seq(S) /\ Len(SubSeq(b, 1, Len(a))) = Len(a)
        /\ \A i \in 1 .. Len(a) : SubSeq(b, 1, Len(a))[i] = b[i]
    BY <1>1, <1>2
  <2>3. SubSeq(a, 1, Len(a)) = SubSeq(b, 1, Len(a)) => \A i \in 1 .. Len(a) : a[i] = b[i]
    BY <2>1, <2>2
  <2>4. ASSUME \A i \in 1 .. Len(a) : a[i] = b[i]
        PROVE  SubSeq(a, 1, Len(a)) = SubSeq(b, 1, Len(a))
    BY <2>1, <2>2, <2>4
  <2> QED
    BY <2>3, <2>4
<1> QED
  BY <1>2 DEF Whole, IsPrefix

LEMMA EmptyIsWhole ==
  ASSUME NEW S, NEW b \in Seq(S)
  PROVE  Whole(<< >>, b) /\ (Whole(b, << >>) => b = << >>)
<1>1. << >> \in Seq(S) /\ Len(<< >>) = 0 /\ Len(b) \in Nat
  OBVIOUS
<1>2. Whole(b, << >>) => Len(b) <= 0
  BY <1>1, WholeMeans
<1>3. Whole(<< >>, b)
  BY <1>1 DEF Whole, IsPrefix
<1> QED
  BY <1>1, <1>2, <1>3

\* A name that begins another, as a string, is not after it.
LEMMA BeginningIsBefore ==
  ASSUME NEW m \in Seq(Segs), NEW n \in Seq(Segs), Begins(m, n), m # n
  PROVE  Less(m, n)
<1>1. CASE Whole(m, n)
  <2>1. Len(m) <= Len(n) /\ \A i \in 1 .. Len(m) : m[i] = n[i]
    BY <1>1, WholeMeans
  <2>2. Len(m) < Len(n) /\ Len(m) \in Nat /\ Len(n) \in Nat
    BY <2>1
  <2>3. LessAt(m, n, Len(m) + 1)
    BY <2>1 DEF LessAt
  <2> QED
    BY <2>2, <2>3 DEF Less
<1>2. CASE Within(m, n) /\ ~Whole(m, n)
  <2> DEFINE l == Len(m)
  <2>1. l \in Nat \ {0} /\ l <= Len(n) /\ Len(n) \in Nat
    BY <1>2, BeginsType DEF Within
  <2>2. \A i \in 1 .. l - 1 : m[i] = n[i]
    <3>1. Front(m) \in Seq(Segs) /\ Len(Front(m)) = l - 1 /\ Whole(Front(m), n)
      BY <1>2, BeginsType DEF Within
    <3>2. \A i \in 1 .. l - 1 : Front(m)[i] = n[i]
      BY <3>1, WholeMeans
    <3>3. \A i \in 1 .. l - 1 : Front(m)[i] = m[i]
      BY <1>2, BeginsType DEF Within
    <3> QED
      BY <3>2, <3>3
  <2>3. m[l] # n[l]
    <3>1. m[l] = n[l] => \A i \in 1 .. l : m[i] = n[i]
      BY <2>1, <2>2
    <3> QED
      BY <1>2, <2>1, <3>1, WholeMeans
  <2>4. m[l] \in Segs /\ n[l] \in Segs /\ Cut[<<m[l], n[l]>>] # Nothing
    <3>1. Last(m) = m[l]
      BY <1>2, BeginsType DEF Within
    <3> QED
      BY <1>2, <2>1, <3>1 DEF Within
  <2>5. Rank[m[l]] < Rank[n[l]]
    BY <2>3, <2>4, NamespaceAssumption
  <2>6. LessAt(m, n, l)
    BY <2>1, <2>2, <2>5 DEF LessAt
  <2> QED
    BY <2>1, <2>6 DEF Less
<1> QED
  BY <1>1, <1>2 DEF Begins

\* No two names are each before the other.
LEMMA LessIsStrict ==
  ASSUME NEW a \in Seq(Segs), NEW b \in Seq(Segs), Less(a, b)
  PROVE  ~Before(b, a) /\ a # b
<1>1. PICK i \in 1 .. Len(b) : LessAt(a, b, i)
  BY DEF Less
<1>2. i \in Nat /\ Len(a) \in Nat /\ Len(b) \in Nat
  BY <1>1
<1>3. \A j \in 1 .. i - 1 : j <= Len(a) /\ a[j] = b[j]
  BY <1>1 DEF LessAt
<1>4. i <= Len(a) => Rank[a[i]] < Rank[b[i]] /\ Rank[a[i]] \in Nat /\ Rank[b[i]] \in Nat
  <2>1. i <= Len(a) => a[i] \in Segs /\ b[i] \in Segs
    BY <1>1, <1>2
  <2> QED
    BY <1>1, <1>2, <2>1, NamespaceAssumption DEF LessAt
<1>5. i <= Len(a) => a[i] # b[i]
  BY <1>4
<1>6. a # b
  BY <1>1, <1>2, <1>5 DEF LessAt
<1>7. ~IsStrictPrefix(b, a)
  <2>1. SUFFICES ASSUME Whole(b, a)
                 PROVE  FALSE
    BY DEF IsStrictPrefix, Whole
  <2>2. Len(b) <= Len(a) /\ b[i] = a[i]
    BY <1>1, <2>1, WholeMeans
  <2> QED
    BY <1>1, <1>2, <1>5, <2>2
<1>8. ASSUME NEW k \in DOMAIN b \cap DOMAIN a, SubSeq(b, 1, k - 1) = SubSeq(a, 1, k - 1),
             Rank[b[k]] < Rank[a[k]]
      PROVE  FALSE
  <2>1. k \in 1 .. Len(a) /\ k \in 1 .. Len(b) /\ k \in Nat
    BY <1>8
  <2>2. \A j \in 1 .. k - 1 : b[j] = a[j]
    <3>1. \A j \in 1 .. k - 1 : SubSeq(b, 1, k - 1)[j] = b[j] /\ SubSeq(a, 1, k - 1)[j] = a[j]
      BY <1>2, <2>1
    <3> QED
      BY <1>8, <3>1
  <2>3. CASE i < k
    BY <1>2, <1>5, <2>1, <2>2, <2>3, <1>1
  <2>4. CASE i = k
    BY <1>2, <1>4, <1>8, <2>1, <2>4
  <2>5. CASE k < i
    <3>1. a[k] = b[k] /\ a[k] \in Segs
      BY <1>2, <1>3, <2>1, <2>5
    <3>2. Rank[a[k]] \in Nat
      BY <3>1, NamespaceAssumption
    <3> QED
      BY <1>8, <3>1, <3>2
  <2> QED
    BY <1>2, <2>1, <2>3, <2>4, <2>5
<1> QED
  BY <1>6, <1>7, <1>8 DEF Before

\* What stands for the greatest is the greatest.
LEMMA GreatestIs ==
  ASSUME NEW S \in SUBSET Seq(Segs), NEW n \in S, \A m \in S : m = n \/ Less(m, n)
  PROVE  Greatest(S) = n
<1>1. \A m \in S \ {n} : Before(m, n)
  BY LessIsBefore
<1>2. ASSUME NEW g \in S, \A m \in S \ {g} : Before(m, g)
      PROVE  g = n
  BY <1>2, LessIsStrict
<1> QED
  BY <1>1, <1>2 DEF Greatest

LEMMA RegistryType ==
  ASSUME Types
  PROVE  IsDictionary(Registry) /\ << >> \in DOMAIN Registry
<1>1. IsFiniteSet(DOMAIN local \cup DOMAIN builder)
  BY FS_Union DEF Types, IsDictionary
<1>2. DOMAIN Registry = DOMAIN local \cup DOMAIN builder
  BY DEF Registry, Chained
<1>3. \A n \in DOMAIN Registry : Registry[n] \in Uris
  BY DEF Types, IsDictionary, Registry, Chained
<1>4. Registry = [n \in DOMAIN Registry |-> Registry[n]]
  BY <1>2 DEF Registry, Chained
<1> QED
  BY <1>1, <1>2, <1>3, <1>4 DEF Types, IsDictionary

\* A uri relative to the current document is completed with that document.
LEMMA ScopedBack ==
  ASSUME Types, NEW ref \in Uris, ref.doc # << >>
  PROVE  ScopedId(Local(ref)) = ref
<1>1. ref = Uri(ref.doc, ref.frag)
  BY DEF Uri, Uris
<1> QED
  BY <1>1 DEF ScopedId, Local, Uri

LEMMA FragmentNameType ==
  ASSUME NEW parts \in Seq(Segs)
  PROVE  FragmentName(parts) \in Seq(Segs)
<1> DEFINE half == (Len(parts) + 1) \div 2
           part(k) == IF 2 * k <= Len(parts) THEN parts[2 * k] ELSE Last(parts)
<1>1. half \in Nat
  OBVIOUS
<1>2. \A k \in 1 .. half : part(k) \in Segs
  <2> TAKE k \in 1 .. half
  <2>1. Len(parts) \in Nat \ {0}
    OBVIOUS
  <2>2. Last(parts) \in Segs
    BY <2>1 DEF Last
  <2>3. 2 * k \in Nat \ {0}
    OBVIOUS
  <2> QED
    BY <2>1, <2>2, <2>3
<1>3. \A k \in 1 .. half : Clean[part(k)] \in Segs
  <2> HIDE DEF part
  <2> QED
    BY <1>2, NamespaceAssumption
<1> QED
  BY <1>1, <1>3 DEF FragmentName

\* Where namespaces are named as their uris are nested, the namespace of the
\* document of a uri is the greatest of those whose uri begins it.
LEMMA FindsNsOfDocument ==
  ASSUME Types, Nested, NEW ref \in Uris, ref.doc # << >>,
         NEW n \in DOMAIN Registry \ {<< >>}, Registry[n] = DocOf(ref)
  PROVE  FindNsByUri(Registry, ref) = Ns(Registry, n)
<1> DEFINE names == UrisBegin(Registry, ref)
<1>1. IsDictionary(Registry)
  BY RegistryType
<1>2. names \in SUBSET Seq(Segs)
  BY <1>1 DEF UrisBegin, IsDictionary
<1>3. ref.doc \in Seq(Segs) /\ ref.frag \in Seq(Segs)
  BY DEF Uris
<1>4. Registry[n].doc = ref.doc /\ Registry[n].frag = << >>
  BY DEF DocOf, Uri
<1>5. n \in names
  <2>1. Whole(ref.doc, ref.doc)
    BY <1>3, WholeMeans
  <2> QED
    BY <1>4, <2>1 DEF UrisBegin, UriBegins, Begins
<1>6. ASSUME NEW m \in names
      PROVE  m = n \/ Less(m, n)
  <2>1. m \in Seq(Segs) /\ n \in Seq(Segs)
    BY <1>2, <1>5
  <2>2. CASE m = << >>
    <3>1. Whole(m, n)
      BY <2>1, <2>2, EmptyIsWhole
    <3> QED
      BY <2>1, <2>2, <3>1, BeginningIsBefore DEF Begins
  <2>3. CASE m # << >>
    <3>1. m \in DOMAIN Registry /\ UriBegins(Registry[m], ref)
      BY DEF UrisBegin
    <3>2. Registry[m].frag = << >>
      BY <2>3, <3>1 DEF Nested
    <3>3. Begins(Registry[m].doc, ref.doc)
      BY <3>1, <3>2 DEF UriBegins
    <3>4. Begins(m, n)
      BY <1>4, <2>3, <3>1, <3>3 DEF Nested
    <3> QED
      BY <2>1, <3>4, BeginningIsBefore
  <2> QED
    BY <2>2, <2>3
<1>7. Greatest(names) = n
  BY <1>2, <1>5, <1>6, GreatestIs
<1> QED
  BY <1>5, <1>7 DEF FindNsByUri, LastNs

\* The name of a uri in the namespace of its document, and the uri of that name.
LEMMA NameOfUri ==
  ASSUME Types, Nested, NEW ref \in Uris, ref.doc # << >>,
         NEW n \in DOMAIN Registry \ {<< >>}, Registry[n] = DocOf(ref)
  PROVE  IdCname(Registry, ref) = n \o FragmentName(ref.frag)
<1>1. FindNsByUri(Registry, ref) = Ns(Registry, n)
  BY FindsNsOfDocument
<1>2. ref.frag \in Seq(Segs) /\ Registry[n] # Nothing
  BY RegistryType, NamespaceAssumption DEF Uris, IsDictionary
<1>3. Rest(Registry[n], ref) = ref.frag
  <2>1. Whole(<< >>, ref.frag)
    BY <1>2 DEF Whole, IsPrefix
  <2>2. After(<< >>, ref.frag) = ref.frag
    BY <1>2, <2>1 DEF After
  <2> QED
    BY <2>2 DEF Rest, DocOf, Uri
<1> QED
  BY <1>1, <1>2, <1>3 DEF IdCname, NameFrom, Ns

LEMMA UriOfName ==
  ASSUME Types, NEW ref \in Uris, ref.doc # << >>, ref.frag # << >>,
         NEW n \in DOMAIN Registry \ {<< >>}, Registry[n] = DocOf(ref),
         NEW name \in Seq(Segs), Fragment(DocOf(ref), name) = ref.frag,
         FindNsByCname(Registry, n \o name).name = n
  PROVE  CnameId(Registry, n \o name, current) = ref
<1> DEFINE cname == n \o name
           names == {m \in DOMAIN Registry : Dotted(m, cname)}
<1>1. n \in Seq(Segs) /\ Registry[n] # Nothing
  BY RegistryType, NamespaceAssumption DEF IsDictionary
<1>2. n \in names
  <2>1. cname \in Seq(Segs) /\ Len(n) <= Len(cname) /\ \A i \in 1 .. Len(n) : n[i] = cname[i]
    BY <1>1
  <2>2. Whole(n, cname)
    BY <1>1, <2>1, WholeMeans
  <2> QED
    BY <2>2 DEF Dotted, IsStrictPrefix, Whole
<1>3. FindNsByCname(Registry, cname) = Ns(Registry, n)
  <2>1. FindNsByCname(Registry, cname) = Ns(Registry, Greatest(names))
    BY <1>2 DEF FindNsByCname, LastNs
  <2>2. Greatest(names) = n
    BY <2>1 DEF Ns
  <2> QED
    BY <2>1, <2>2
<1>4. SubSeq(cname, Len(n) + 1, Len(cname)) = name
  BY <1>1
<1>5. Registry[n].doc = ref.doc /\ Registry[n].frag = << >>
  BY DEF DocOf, Uri
<1>6. ref = Uri(ref.doc, ref.frag) /\ << >> \o ref.frag = ref.frag
  BY DEF Uri, Uris
<1>7. CnameId(Registry, cname, current) = IdUnder(Registry[n], Ns(Registry, n), cname)
  BY <1>1, <1>3 DEF CnameId, Ns
<1>8. IdUnder(Registry[n], Ns(Registry, n), cname) = Uri(ref.doc, << >> \o ref.frag)
  BY <1>1, <1>4, <1>5 DEF IdUnder, Ns
<1> QED
  BY <1>6, <1>7, <1>8

LEMMA NamesRoundTrip ==
  ASSUME Types, Nested, NEW ref \in Refs, ref.doc # << >>, HasOwnName(ref)
  PROVE  ConvertName(SerializeName(ref)) = ref
<1> DEFINE name == FragmentName(ref.frag)
<1>1. ref \in Uris /\ ref.frag \in Seq(Segs)
  BY NamespaceAssumption DEF Uris
<1>2. PICK n \in DOMAIN Registry \ {<< >>} :
        Registry[n] = DocOf(ref) /\ FindNsByCname(Registry, n \o name).name = n
  BY DEF HasOwnName
<1>3. name \in Seq(Segs)
  BY <1>1, FragmentNameType
<1>4. SerializeName(ref) = n \o name
  BY <1>1, <1>2, NameOfUri DEF SerializeName, Fresh, FreshIn, NameKey
<1>5. Fresh(IdKey(n \o name)) = ref
  <2>1. CnameId(Registry, n \o name, current) = ref
    BY <1>1, <1>2, <1>3, UriOfName DEF HasOwnName
  <2> QED
    BY <2>1 DEF Fresh, FreshIn, IdKey
<1> QED
  BY <1>1, <1>4, <1>5, ScopedBack DEF ConvertName

-----------------------------------------------------------------------------
(* What has a name.                                                         *)

LEMMA FirstFits ==
  ASSUME NEW S, NEW s \in Seq(S), NEW T, T # {}, T \subseteq Range(s)
  PROVE  s[Min({i \in DOMAIN s : s[i] \in T})] \in T
<1> DEFINE D == {i \in DOMAIN s : s[i] \in T}
<1>1. D \subseteq Nat /\ D # {}
  BY DEF Range
<1>2. PICK l \in D : \A m \in D : l <= m
  <2> HIDE DEF D
  <2> QED
    BY <1>1, LeastNumber
<1>3. Min(D) \in D
  <2> HIDE DEF D
  <2> QED
    BY <1>2 DEF Min
<1> QED
  BY <1>3

LEMMA NamesListed ==
  ASSUME Types, NEW cname \in Seq(Segs)
  PROVE  HasName(cname) <=> \E n \in DOMAIN Namespaces \ {<< >>} : Dotted(n, cname)
<1> DEFINE names == {n \in DOMAIN Registry : Dotted(n, cname)}
           fitting == {u \in Range(docs) : Dotted(UriName(u), cname)}
<1>1. DOMAIN Namespaces = DOMAIN Registry \cup {UriName(u) : u \in Range(docs)}
  BY DEF Namespaces, Chained, Available
<1>2. \A u \in Range(docs) : u \in Uris /\ UriName(u) \in Seq(Segs)
  <2>1. Range(docs) \subseteq DocUris
    BY DEF Types, Range
  <2> QED
    BY <2>1, UriNameType, NamespaceAssumption
<1>3. << >> \in DOMAIN Registry /\ IsDictionary(Registry)
  BY RegistryType
<1>4. CASE cname = << >>
  <2>1. ASSUME NEW n \in Seq(Segs), n # << >>
        PROVE  ~Dotted(n, cname)
    <3>1. ~Whole(n, cname)
      BY <1>4, <2>1, EmptyIsWhole
    <3> QED
      BY <1>4, <2>1, <3>1 DEF Dotted, IsStrictPrefix, Whole
  <2>2. names = {<< >>}
    BY <1>3, <1>4, <2>1 DEF Dotted, IsDictionary
  <2>3. Greatest(names) = << >>
    BY <2>2 DEF Greatest
  <2>4. ~HasName(cname)
    BY <2>2, <2>3 DEF HasName, IsNamed, FindNsByCname, LastNs, Ns
  <2>5. \A n \in DOMAIN Namespaces \ {<< >>} : n \in Seq(Segs)
    BY <1>1, <1>2, <1>3 DEF IsDictionary
  <2> QED
    BY <2>1, <2>4, <2>5
<1>5. CASE cname # << >> /\ names # {}
  <2>1. << >> \notin names
    BY <1>5 DEF Dotted
  <2>2. Greatest(names) \in names
    <3>1. names \in SUBSET Seq(Segs) /\ IsFiniteSet(names)
      BY <1>3, FS_Subset DEF IsDictionary
    <3> HIDE DEF names
    <3> QED
      BY <1>5, <3>1, GreatestExists
  <2>3. Registry[Greatest(names)] # Nothing
    BY <1>3, <2>2, NamespaceAssumption DEF IsDictionary
  <2>4. HasName(cname)
    BY <1>5, <2>1, <2>2, <2>3 DEF HasName, IsNamed, FindNsByCname, LastNs, Ns
  <2> QED
    BY <1>1, <2>1, <2>2, <2>4
<1>6. CASE cname # << >> /\ names = {} /\ fitting # {}
  <2> DEFINE u == docs[Min({i \in DOMAIN docs : docs[i] \in fitting})]
  <2>1. u \in fitting
    <3>1. fitting \subseteq Range(docs)
      OBVIOUS
    <3> HIDE DEF fitting
    <3> QED
      BY <1>6, <3>1, FirstFits DEF Types
  <2>2. UriName(u) # << >> /\ u # Nothing
    BY <1>2, <1>6, <2>1, NamespaceAssumption DEF Dotted
  <2>3. FindNsByCname(Registry, cname) = DocNs(u)
    BY <1>6 DEF FindNsByCname, LastNs
  <2>4. HasName(cname)
    BY <2>2, <2>3 DEF HasName, IsNamed, DocNs
  <2> QED
    BY <1>1, <2>1, <2>2, <2>4
<1>7. CASE names = {} /\ fitting = {}
  <2>1. ~HasName(cname)
    BY <1>7 DEF HasName, IsNamed, FindNsByCname, LastNs, NoNs
  <2> QED
    BY <1>1, <1>7, <2>1
<1> QED
  BY <1>4, <1>5, <1>6, <1>7

-----------------------------------------------------------------------------
(* Theorems                                                                 *)

\* A cached answer is what the registry says now, unless a named change came
\* between: the lru_caches of NamespaceManager are never emptied.
THEOREM AnswersStayFresh == Spec => []AnswersAreCurrent
<1>1. Init => IInv
  BY InitTypes DEF Init, IInv
<1>2. IInv /\ [Next]_vars => IInv'
  BY NextIInv
<1>3. IInv => AnswersAreCurrent
  <2> SUFFICES ASSUME IInv, NEW key, key[3] = current, key \notin stale
               PROVE  Answer(key) = Fresh(key)
    BY DEF AnswersAreCurrent, NameKey, IdKey, Fresh, FreshIn
  <2> QED
    BY RegistryHere DEF IInv, Kept, Orphan, Answer, Fresh
<1> QED
  BY <1>1, <1>2, <1>3, PTL DEF Spec

\* The id that Id._serialize writes is the one that Id._convert reads, whatever
\* was registered and set, in any order.
THEOREM IdsComeBack == Spec => []IdsRoundTrip
<1>1. Init => IInv
  BY InitTypes DEF Init, IInv
<1>2. IInv /\ [Next]_vars => IInv'
  BY NextIInv
<1>3. IInv => IdsRoundTrip
  <2> SUFFICES ASSUME Types
               PROVE  IdsRoundTrip
    BY DEF IInv
  <2>1. \A ref \in Refs : ref.doc # << >> => ScopedId(SerializeId(ref)) = ref
    BY ScopedBack, NamespaceAssumption DEF SerializeId
  <2>2. \A cname \in CNames \cup DOMAIN Registry : cname \in Seq(Segs)
    BY RegistryType, NamespaceAssumption DEF IsDictionary
  <2> QED
    BY <2>1, <2>2, NamesRoundTrip, NamesListed DEF IdsRoundTrip
<1> QED
  BY <1>1, <1>2, <1>3, PTL DEF Spec
============================================================================
