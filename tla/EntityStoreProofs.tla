--------------------------- MODULE EntityStoreProofs ---------------------------
(* Proofs about EntityStore, for any entities, repositories, sessions and      *)
(* number of primary keys.                                                     *)
(*                                                                             *)
(* That a number a repository gives is not in use rests on there being a       *)
(* largest number in use (NextKeyIsNew), and on the objects of a repository    *)
(* that is not bound yet: it has none (IInv). That links lead where they were  *)
(* set, and that a repository is an index, rest on what catalogs and links     *)
(* keep as long as no object changes its keys (JInv).                          *)
EXTENDS EntityStore, SequenceTheorems, FiniteSetTheorems, WellFoundedInduction, TLAPS

IInv ==
  /\ keys \in [Entities -> Keys]
  /\ bound \in [Sessions -> Seq(Repos)]
  /\ content \in [Repos -> Seq(Entities)]
  /\ catalog \in [Repos -> [Keys -> Entities \cup {NoEntity}]]
  /\ \A r \in Repos : ~IsBound(r) => content[r] = << >>

-----------------------------------------------------------------------------
(* Numbers                                                                     *)

LEMMA LeastNumber ==
  ASSUME NEW T, T \subseteq Nat, T # {}
  PROVE  \E n \in T : \A m \in T : n <= m
<1> DEFINE R == OpToRel(<, Nat)
<1>1. IsWellFoundedOn(R, Nat)
  BY NatLessThanWellFounded
<1>2. PICK n \in T : \A m \in T : ~(<<m, n>> \in R)
  <2> HIDE DEF R
  <2> QED
    BY <1>1, WFMin
<1>3. \A m \in T : ~(m < n)
  BY <1>2 DEF OpToRel
<1> QED
  BY <1>3

\* Of numbers up to MaxKey there is one more than the largest, and NextKey is
\* such a number: it is not in use.
LEMMA NextKeyIsNew ==
  ASSUME NEW used, used \subseteq -1..MaxKey
  PROVE  /\ NextKey(used) \in 0..(MaxKey + 1)
         /\ \A u \in used : u < NextKey(used)
<1> DEFINE above == {n \in Nat : \A u \in used : u < n}
<1>1. MaxKey \in Nat /\ MaxKey + 1 \in above
  BY EntityStoreAssumption
<1>2. PICK n \in above : \A m \in above : n <= m
  <2>1. above \subseteq Nat /\ above # {}
    BY <1>1
  <2> HIDE DEF above
  <2> QED
    BY <2>1, LeastNumber
<1>3. n \in 0..(MaxKey + 1) /\ \A u \in used : u < n
  BY <1>1, <1>2
<1>4. n - 1 \in used \cup {-1}
  <2>1. CASE n = 0
    BY <2>1
  <2>2. CASE n # 0
    <3>1. n - 1 \in Nat /\ n - 1 \notin above
      BY <1>2, <1>3, <2>2
    <3>2. PICK u \in used : ~(u < n - 1)
      BY <3>1
    <3> QED
      BY <1>3, <3>2
  <2> QED
    BY <2>1, <2>2
<1> QED
  BY <1>3, <1>4 DEF NextKey

LEMMA HeldAreEntities ==
  ASSUME IInv, NEW r \in Repos
  PROVE  content[r] \in Seq(Entities) /\ Held(r) \subseteq Entities
<1>1. content[r] \in Seq(Entities)
  BY DEF IInv
<1>2. Range(content[r]) \in SUBSET Entities
  BY <1>1, RangeOfSeq
<1> QED
  BY <1>1, <1>2 DEF Held

LEMMA TakenAreNumbers ==
  ASSUME IInv, NEW r \in Repos, NEW i \in Positions, NoKey \notin Taken(r, i)
  PROVE  Taken(r, i) \subseteq -1..MaxKey
<1>1. ASSUME NEW c \in Held(r)
      PROVE  keys[c][i] \in -1..MaxKey
  <2>1. keys[c] \in Keys
    BY HeldAreEntities DEF IInv
  <2>2. keys[c][i] \in Components
    BY <2>1 DEF Keys, Positions
  <2>3. keys[c][i] # NoKey
    BY DEF Taken
  <2> QED
    BY <2>2, <2>3 DEF Components
<1> QED
  BY <1>1 DEF Taken

-----------------------------------------------------------------------------
(* A commit                                                                    *)

\* A number is given for each missing component before the one where the
\* comparison raises; the others stay.
LEMMA GivenOrKept ==
  ASSUME IInv, NEW r \in Repos, NEW e \in Entities, NEW i \in Positions
  PROVE  LET n == Numbered(r, e) IN
         /\ n.key[i] \in Components \cup {MaxKey + 1}
         /\ keys[e][i] # NoKey => n.key[i] = keys[e][i]
         /\ ~n.raises /\ keys[e][i] = NoKey => n.key[i] \notin Taken(r, i)
         /\ ~n.raises => n.key[i] # NoKey
<1> DEFINE Fails(j) == keys[e][j] = NoKey /\ NoKey \in Taken(r, j)
           stops == {j \in Positions : Fails(j)}
           reached == {j \in Positions : \A k \in stops : j < k}
           given == keys[e][i] = NoKey /\ i \in reached
<1>1. /\ Numbered(r, e).raises = (stops # {})
      /\ Numbered(r, e).key[i] = IF given THEN NextKey(Taken(r, i)) ELSE keys[e][i]
  BY DEF Numbered
<1>2. keys[e][i] \in Components
  <2>1. keys[e] \in Keys
    BY DEF IInv
  <2> QED
    BY <2>1 DEF Keys, Positions
<1>3. ASSUME given
      PROVE  /\ NextKey(Taken(r, i)) \in 0..(MaxKey + 1)
             /\ \A u \in Taken(r, i) : u < NextKey(Taken(r, i))
             /\ Taken(r, i) \subseteq -1..MaxKey
  <2>1. i \notin stops
    <3>1. Positions \subseteq Int
      BY EntityStoreAssumption DEF Positions
    <3> QED
      BY <1>3, <3>1
  <2>2. NoKey \notin Taken(r, i)
    BY <1>3, <2>1
  <2>3. Taken(r, i) \subseteq -1..MaxKey
    BY <2>2, TakenAreNumbers
  <2> QED
    BY <2>3, NextKeyIsNew
<1>4. ASSUME given
      PROVE  /\ NextKey(Taken(r, i)) \in Components \cup {MaxKey + 1}
             /\ NextKey(Taken(r, i)) \notin Taken(r, i)
             /\ NextKey(Taken(r, i)) # NoKey
  <2>1. NextKey(Taken(r, i)) \in Components \cup {MaxKey + 1}
    BY <1>3, <1>4, EntityStoreAssumption DEF Components
  <2>2. NextKey(Taken(r, i)) \notin Taken(r, i)
    BY <1>3, <1>4
  <2>3. NextKey(Taken(r, i)) \in Int
    BY <1>3, <1>4, EntityStoreAssumption
  <2> QED
    BY <2>1, <2>2, <2>3, EntityStoreAssumption
<1>5. stops = {} => i \in reached
  OBVIOUS
<1> HIDE DEF stops, reached
<1> QED
  BY <1>1, <1>2, <1>4, <1>5

\* The keys that a commit leaves are keys, and those it changes are not those
\* of an object that was there.
LEMMA CommittedKeys ==
  ASSUME IInv, NEW r \in Repos, NEW e \in Entities, Commit(r, e)
  PROVE  /\ keys' \in [Entities -> Keys]
         /\ keys' = [keys EXCEPT ![e] = Numbered(r, e).key]
         /\ CommitSucceeds(r, e) => \A c \in Held(r) :
              keys'[c] = keys'[e] => keys[c] = keys[e]
<1> DEFINE n == Numbered(r, e)
<1>1. keys' = [keys EXCEPT ![e] = n.key]
  BY DEF Commit, CommitFails, CommitSucceeds
<1>2. n.key = [i \in Positions |-> n.key[i]]
  BY DEF Numbered
<1>3. \A i \in Positions : n.key[i] \in Components
  BY GivenOrKept DEF Commit
<1>4. n.key \in Keys
  BY <1>2, <1>3 DEF Keys, Positions
<1>5. keys' \in [Entities -> Keys]
  BY <1>1, <1>4 DEF IInv
<1>6. ASSUME CommitSucceeds(r, e), NEW c \in Held(r), keys'[c] = keys'[e], c # e
      PROVE  keys[c] = keys[e]
  <2>1. c \in Entities /\ keys[c] = n.key /\ ~n.raises
    BY <1>1, <1>6, HeldAreEntities DEF IInv, CommitSucceeds
  <2>2. ASSUME NEW i \in Positions
        PROVE  keys[e][i] = keys[c][i]
    <3>1. n.key[i] \in Taken(r, i)
      BY <1>6, <2>1 DEF Taken
    <3> QED
      BY <2>1, <3>1, GivenOrKept
  <2>3. keys[e] \in [Positions -> Components] /\ keys[c] \in [Positions -> Components]
    BY <2>1 DEF IInv, Keys, Positions
  <2>4. \A i \in Positions : keys[e][i] = keys[c][i]
    BY <2>2
  <2> QED
    BY <2>3, <2>4
<1> QED
  BY <1>1, <1>5, <1>6

LEMMA AppendRange ==
  ASSUME NEW S, NEW s \in Seq(S), NEW e \in S
  PROVE  /\ Append(s, e) \in Seq(S)
         /\ e \in Range(Append(s, e)) /\ Range(s) \subseteq Range(Append(s, e))
<1>1. Len(s) \in Nat /\ DOMAIN s = 1..Len(s)
  BY LenProperties
<1>2. /\ Append(s, e) \in Seq(S) /\ Len(Append(s, e)) = Len(s) + 1
      /\ Append(s, e)[Len(s) + 1] = e /\ \A n \in 1..Len(s) : Append(s, e)[n] = s[n]
  BY AppendProperties
<1>3. DOMAIN Append(s, e) = 1..Len(s) + 1
  BY <1>2, LenProperties
<1>4. Len(s) + 1 \in DOMAIN Append(s, e) /\ DOMAIN s \subseteq DOMAIN Append(s, e)
  BY <1>1, <1>3
<1>5. e \in Range(Append(s, e))
  BY <1>2, <1>4 DEF Range
<1>6. \A n \in DOMAIN s : Append(s, e)[n] = s[n]
  BY <1>1, <1>2
<1>7. Range(s) \subseteq Range(Append(s, e))
  BY <1>4, <1>6 DEF Range
<1> QED
  BY <1>2, <1>5, <1>7

\* What a commit puts in the place of another object, or at the end.
LEMMA PlacedObjects ==
  ASSUME IInv, NEW r \in Repos, NEW e \in Entities, NEW newKeys
  PROVE  /\ Placed(r, e, newKeys) \in Seq(Entities)
         /\ e \in Range(Placed(r, e, newKeys))
         /\ \A c \in Held(r) \ Range(Placed(r, e, newKeys)) : newKeys[c] = newKeys[e]
<1> DEFINE s == content[r]
           same == {n \in DOMAIN s : newKeys[s[n]] = newKeys[e]}
           first == CHOOSE n \in same : \A m \in same : n <= m
<1>1. s \in Seq(Entities) /\ DOMAIN s = 1..Len(s) /\ Len(s) \in Nat
  BY HeldAreEntities, LenProperties
<1>2. CASE same = {}
  <2>1. Placed(r, e, newKeys) = Append(s, e)
    BY <1>2 DEF Placed
  <2> QED
    BY <1>1, <2>1, AppendRange DEF Held
<1>3. CASE same # {}
  <2>1. first \in same
    <3>1. same \subseteq Nat
      BY <1>1
    <3> HIDE DEF same
    <3>2. \E n \in same : \A m \in same : n <= m
      BY <1>3, <3>1, LeastNumber
    <3> QED
      BY <3>2
  <2>2. Placed(r, e, newKeys) = [s EXCEPT ![first] = e]
    BY <1>3 DEF Placed
  <2> DEFINE t == [s EXCEPT ![first] = e]
  <2>3. first \in DOMAIN s /\ newKeys[s[first]] = newKeys[e]
    BY <2>1
  <2> HIDE DEF first
  <2>4. t \in Seq(Entities) /\ DOMAIN t = DOMAIN s /\ t[first] = e
    BY <1>1, <2>3, ExceptSeq
  <2>5. \A n \in DOMAIN s : n # first => t[n] = s[n]
    OBVIOUS
  <2>6. e \in Range(t) /\ \A c \in Range(s) \ Range(t) : c = s[first]
    BY <2>3, <2>4, <2>5 DEF Range
  <2> QED
    BY <2>2, <2>3, <2>4, <2>6 DEF Held
<1> QED
  BY <1>2, <1>3

-----------------------------------------------------------------------------
(* The invariant                                                               *)

LEMMA Start == Init => IInv
<1> SUFFICES ASSUME Init
             PROVE  IInv
  OBVIOUS
<1>1. NoKeys \in Keys
  BY EntityStoreAssumption DEF NoKeys, Keys, Positions, Components
<1>2. Uncatalogued \in [Keys -> Entities \cup {NoEntity}]
  BY DEF Uncatalogued
<1> QED
  BY <1>1, <1>2, EmptySeq DEF Init, IInv

\* What no repository is changed by.
LEMMA OthersKeep ==
  ASSUME IInv, keys' \in [Entities -> Keys], UNCHANGED <<bound, content, catalog>>
  PROVE  IInv'
BY DEF IInv, IsBound

LEMMA NewRepoKeeps ==
  ASSUME IInv, NEW r \in Repos, NEW s \in Sessions, NEW value \in Seq(Entities), NewRepo(r, s, value)
  PROVE  IInv' /\ content[r] = << >>
<1>1. content[r] = << >> /\ content' = [content EXCEPT ![r] = value]
  BY DEF IInv, NewRepo
<1>2. bound[s] \in Seq(Repos) /\ bound' = [bound EXCEPT ![s] = Append(@, r)]
  BY DEF IInv, NewRepo
<1>3. Append(bound[s], r) \in Seq(Repos)
      /\ r \in Range(Append(bound[s], r)) /\ Range(bound[s]) \subseteq Range(Append(bound[s], r))
  BY <1>2, AppendRange
<1>4. bound' \in [Sessions -> Seq(Repos)]
  BY <1>2, <1>3 DEF IInv
<1>5. ASSUME NEW q \in Repos, ~IsBound(q)'
      PROVE  content'[q] = << >>
  <2>1. q # r
    BY <1>2, <1>3, <1>5 DEF IsBound, IInv
  <2>2. ~IsBound(q)
    BY <1>2, <1>3, <1>5 DEF IsBound, IInv
  <2> QED
    BY <1>1, <2>1, <2>2 DEF IInv
<1> QED
  BY <1>1, <1>4, <1>5 DEF IInv, NewRepo

\* What a commit asks for are the keys that it leaves: it files the entity in
\* the catalog, and places it in the content, under those.
LEMMA FiledUnderKeys ==
  ASSUME IInv, keys' \in [Entities -> Keys], NEW r \in Repos, NEW e \in Entities, CommitSucceeds(r, e)
  PROVE  /\ catalog' = [catalog EXCEPT ![r][keys'[e]] = e]
         /\ content' = [content EXCEPT ![r] = Placed(r, e, keys')]
<1>1. identity' = [c \in Entities |-> IF c \in Held(r) \cup {e} THEN keys'[c] ELSE identity[c]]
  BY DEF CommitSucceeds, AskIdentity
<1>2. identity'[e] = keys'[e]
  BY <1>1
<1>3. \A n \in DOMAIN content[r] : identity'[content[r][n]] = keys'[content[r][n]]
  BY <1>1, HeldAreEntities DEF Held, Range
<1> DEFINE Same(f) == {n \in DOMAIN content[r] : f[content[r][n]] = f[e]}
           PlacedAt(same) == LET first == CHOOSE n \in same : \A m \in same : n <= m
                             IN IF same = {} THEN Append(content[r], e)
                                ELSE [content[r] EXCEPT ![first] = e]
<1>4. Same(identity') = Same(keys')
  BY <1>2, <1>3
<1>5. /\ Placed(r, e, identity') = PlacedAt(Same(identity'))
      /\ Placed(r, e, keys') = PlacedAt(Same(keys'))
  BY DEF Placed
<1> HIDE DEF Same, PlacedAt
<1>6. Placed(r, e, identity') = Placed(r, e, keys')
  BY <1>4, <1>5
<1> QED
  BY <1>2, <1>6 DEF CommitSucceeds

LEMMA CommitKeeps ==
  ASSUME IInv, NEW r \in Repos, NEW e \in Entities, Commit(r, e)
  PROVE  IInv'
<1>1. keys' \in [Entities -> Keys]
  BY CommittedKeys
<1>2. CASE CommitFails(r, e)
  BY <1>1, <1>2, OthersKeep DEF CommitFails
<1>3. CASE CommitSucceeds(r, e)
  <2>1. UNCHANGED bound /\ content' = [content EXCEPT ![r] = Placed(r, e, keys')]
    BY <1>1, <1>3, FiledUnderKeys DEF CommitSucceeds
  <2>2. Placed(r, e, keys') \in Seq(Entities)
    BY PlacedObjects
  <2>3. IsBound(r) /\ IsBound(r)' = IsBound(r)
    BY <2>1 DEF Commit, IsBound
  <2>4. catalog' = [catalog EXCEPT ![r][keys'[e]] = e] /\ keys'[e] \in Keys
    BY <1>1, <1>3, FiledUnderKeys
  <2>5. catalog' \in [Repos -> [Keys -> Entities \cup {NoEntity}]]
    BY <2>4 DEF IInv
  <2>6. \A q \in Repos : IsBound(q)' = IsBound(q)
    BY <2>1 DEF IsBound
  <2>7. content' \in [Repos -> Seq(Entities)] /\ \A q \in Repos : q # r => content'[q] = content[q]
    BY <2>1, <2>2 DEF IInv
  <2> QED
    BY <1>1, <2>1, <2>3, <2>5, <2>6, <2>7 DEF IInv
<1> QED
  BY <1>2, <1>3 DEF Commit

\* The first of the places of a session is that of a repository.
LEMMA FirstIsRepo ==
  ASSUME IInv, NEW s \in Sessions, NEW places, places \subseteq DOMAIN bound[s], places # {}
  PROVE  \E n \in places :
           /\ \A m \in places : n <= m
           /\ n = CHOOSE i \in places : \A m \in places : i <= m
           /\ FirstOf(s, places) = bound[s][n] /\ bound[s][n] \in Repos
<1>1. bound[s] \in Seq(Repos)
  BY DEF IInv
<1>2. DOMAIN bound[s] \subseteq Nat /\ \A n \in DOMAIN bound[s] : bound[s][n] \in Repos
  BY <1>1, LenProperties
<1>3. \E n \in places : \A m \in places : n <= m
  BY <1>2, LeastNumber
<1> QED
  BY <1>2, <1>3 DEF FirstOf

LEMMA FindsEntities ==
  ASSUME IInv, NEW s \in Sessions, NEW k \in Keys
  PROVE  SessionFinds(s, k) \in Entities \cup {NoEntity}
<1>1. CASE Having(s, k) = {}
  BY <1>1 DEF SessionFinds
<1>2. CASE Having(s, k) # {}
  <2>1. Having(s, k) \subseteq DOMAIN bound[s]
    BY DEF Having, EligiblePlaces
  <2>2. FirstOf(s, Having(s, k)) \in Repos
    BY <1>2, <2>1, FirstIsRepo
  <2> QED
    BY <1>2, <2>2 DEF SessionFinds, IInv
<1> QED
  BY <1>1, <1>2

LEMMA Step == IInv /\ [Next]_vars => IInv'
<1> SUFFICES ASSUME IInv, [Next]_vars
             PROVE  IInv'
  OBVIOUS
<1>1. CASE UNCHANGED vars
  BY <1>1, OthersKeep DEF vars, IInv
<1>2. ASSUME NEW e \in Entities, ReadIdentity(e)
      PROVE  IInv'
  BY <1>2, OthersKeep DEF ReadIdentity, IInv
<1>3. ASSUME NEW e \in Entities, NEW i \in Positions, NEW k \in Components, SetKey(e, i, k)
      PROVE  IInv'
  <2>1. keys' = [keys EXCEPT ![e][i] = k] /\ UNCHANGED <<bound, content, catalog>>
    BY <1>3 DEF SetKey
  <2>2. [keys[e] EXCEPT ![i] = k] \in Keys
    BY <1>3 DEF IInv, Keys, Positions
  <2> QED
    BY <2>1, <2>2, OthersKeep DEF IInv
<1>4. ASSUME NEW e \in Entities, NEW s \in Sessions, NEW k \in Keys, CopyEntity(e, s, k)
      PROVE  IInv'
  <2>1. SessionFinds(s, k) \in Entities /\ UNCHANGED <<bound, content, catalog>>
    BY <1>4, FindsEntities DEF CopyEntity
  <2> QED
    BY <1>4, <2>1, OthersKeep DEF CopyEntity, IInv
<1>5. ASSUME NEW r \in Repos, NEW s \in Sessions, NEW value \in InitialValues, NewRepo(r, s, value)
      PROVE  IInv'
  BY <1>5, NewRepoKeeps, EntityStoreAssumption
<1>6. ASSUME NEW r \in Repos, NEW s \in Sessions, GetOrCreateRepo(r, s)
      PROVE  IInv'
  BY <1>6, NewRepoKeeps, EntityStoreAssumption, EmptySeq DEF GetOrCreateRepo
<1>7. ASSUME NEW r \in Repos, NEW e \in Entities, Commit(r, e)
      PROVE  IInv'
  BY <1>7, CommitKeeps
<1>8. ASSUME NEW r \in Repos, NEW k \in Keys, LookUp(r, k)
      PROVE  IInv'
  BY <1>8, OthersKeep DEF LookUp, IInv
<1>9. ASSUME NEW e \in Linking, NEW t \in Entities \ {e},
             ForeignKeySet(e, t) \/ SerializeKeys(e, t)
      PROVE  IInv'
  BY <1>9, OthersKeep DEF ForeignKeySet, SerializeKeys, SetLink, IInv
<1> QED
  BY <1>1, <1>2, <1>3, <1>4, <1>5, <1>6, <1>7, <1>8, <1>9 DEF Next

-----------------------------------------------------------------------------
(* What the catalogs and the links keep                                        *)

\* A catalog names each object under its keys, which are those it was asked
\* for last; no other object of the content has them.
Indexed(r) ==
  /\ \A k \in Keys : catalog[r][k] # NoEntity =>
       /\ catalog[r][k] \in Held(r) /\ HasKeys(catalog[r][k])
       /\ keys[catalog[r][k]] = k /\ identity[catalog[r][k]] = k
  /\ ~Ambiguous(content[r])

FirstPlace(e) == FirstOf(SessionOf[e], EligiblePlaces(SessionOf[e]))

\* What a link is set to is in the repository that it resolves in, and the
\* link has its keys.
Leads(e) == target[e] # NoEntity =>
  /\ SessionOf[e] # NoSession /\ EligiblePlaces(SessionOf[e]) # {}
  /\ ~drifted[FirstPlace(e)] => link[e] = keys[target[e]]

Types ==
  /\ identity \in [Entities -> Keys]
  /\ link \in [Linking -> Keys]
  /\ target \in [Linking -> Entities \cup {NoEntity}]
  /\ drifted \in [Repos -> BOOLEAN]
  /\ looked \in [Repos -> Entities \cup {NoEntity}]

Kept ==
  /\ \A r \in Repos : ~drifted[r] => Indexed(r)
  /\ \A r \in Repos : ~IsBound(r) => ~drifted[r]
  /\ \A e \in Linking : Leads(e)

JInv == IInv /\ Types /\ Kept

LEMMA StartKept == Init => JInv
<1> SUFFICES ASSUME Init
             PROVE  JInv
  OBVIOUS
<1>1. IInv
  BY Start
<1>2. NoKeys \in Keys
  BY EntityStoreAssumption DEF NoKeys, Keys, Positions, Components
<1>3. Types
  BY <1>2 DEF Init, Types
<1>4. \A r \in Repos : Indexed(r)
  BY DEF Init, Indexed, Uncatalogued, Ambiguous
<1>5. Kept
  BY <1>4 DEF Init, Kept, Leads
<1> QED
  BY <1>1, <1>3, <1>5 DEF JInv

\* The keys of one entity change: the history of the others is as before.
LEMMA RekeyedKeeps ==
  ASSUME JInv, NEW e \in Entities, NEW x, keys' = [keys EXCEPT ![e] = x], Rekeyed(e)
  PROVE  /\ drifted' \in [Repos -> BOOLEAN]
         /\ target' \in [Linking -> Entities \cup {NoEntity}]
         /\ \A r \in Repos : ~drifted'[r] =>
              ~drifted[r] /\ \A c \in Held(r) : keys'[c] = keys[c]
         /\ \A r \in Repos : ~IsBound(r) => ~drifted'[r]
         /\ \A l \in Linking : target'[l] # NoEntity =>
              target'[l] = target[l] /\ keys'[target[l]] = keys[target[l]]
<1>1. /\ drifted' = [r \in Repos |-> drifted[r] \/ (keys'[e] # keys[e] /\ e \in Held(r))]
      /\ target' = [l \in Linking |-> IF target[l] = e /\ keys'[e] # keys[e] THEN NoEntity ELSE target[l]]
  BY DEF Rekeyed
<1>2. /\ keys \in [Entities -> Keys] /\ drifted \in [Repos -> BOOLEAN]
      /\ target \in [Linking -> Entities \cup {NoEntity}]
  BY DEF JInv, IInv, Types
<1>3. drifted' \in [Repos -> BOOLEAN] /\ target' \in [Linking -> Entities \cup {NoEntity}]
  BY <1>1, <1>2
<1>4. \A c \in Entities : c # e => keys'[c] = keys[c]
  BY <1>2
<1>5. ASSUME NEW r \in Repos, ~drifted'[r]
      PROVE  ~drifted[r] /\ \A c \in Held(r) : keys'[c] = keys[c]
  <2>1. ~drifted[r] /\ ~(keys'[e] # keys[e] /\ e \in Held(r))
    BY <1>1, <1>5
  <2>2. Held(r) \subseteq Entities
    BY HeldAreEntities DEF JInv
  <2> QED
    BY <1>4, <2>1, <2>2
<1>6. ASSUME NEW r \in Repos, ~IsBound(r)
      PROVE  ~drifted'[r]
  <2>1. Held(r) = {}
    BY <1>6 DEF JInv, IInv, Held, Range
  <2> QED
    BY <1>1, <1>6, <2>1 DEF JInv, Kept
<1>7. ASSUME NEW l \in Linking, target'[l] # NoEntity
      PROVE  target'[l] = target[l] /\ keys'[target[l]] = keys[target[l]]
  <2>1. target'[l] = target[l] /\ ~(target[l] = e /\ keys'[e] # keys[e])
    BY <1>1, <1>7
  <2>2. target[l] \in Entities
    BY <1>2, <1>7, <2>1
  <2> QED
    BY <1>4, <2>1, <2>2
<1> QED
  BY <1>3, <1>5, <1>6, <1>7

\* A catalog and a content that do not change stay right as long as nothing
\* there changes its keys, even if the identities are asked for again.
LEMMA IndexedStays ==
  ASSUME JInv, NEW r \in Repos, ~drifted[r],
         content'[r] = content[r], catalog'[r] = catalog[r],
         \A c \in Held(r) : keys'[c] = keys[c] /\ identity'[c] \in {identity[c], keys[c]}
  PROVE  Indexed(r)'
<1>1. Indexed(r) /\ Held(r)' = Held(r)
  BY DEF JInv, Kept, Held
<1>2. ASSUME NEW k \in Keys, catalog'[r][k] # NoEntity
      PROVE  /\ catalog'[r][k] \in Held(r)' /\ HasKeys(catalog[r][k])'
             /\ keys'[catalog'[r][k]] = k /\ identity'[catalog'[r][k]] = k
  <2>1. /\ catalog[r][k] \in Held(r) /\ HasKeys(catalog[r][k])
        /\ keys[catalog[r][k]] = k /\ identity[catalog[r][k]] = k
    BY <1>1, <1>2 DEF Indexed
  <2>2. keys'[catalog[r][k]] = k /\ identity'[catalog[r][k]] = k
    BY <2>1
  <2>3. HasKeys(catalog[r][k])'
    BY <2>1, <2>2 DEF HasKeys
  <2> QED
    BY <1>1, <2>1, <2>2, <2>3
<1>3. ~Ambiguous(content[r])'
  <2>1. \A n \in DOMAIN content[r] : keys'[content[r][n]] = keys[content[r][n]]
    BY DEF Held, Range
  <2> QED
    BY <1>1, <2>1 DEF Indexed, Ambiguous, SameKeys, HasKeys
<1> QED
  BY <1>2, <1>3 DEF Indexed

\* A link that is not set stays right, whatever repositories are bound after
\* those of its session.
LEMMA FirstStays ==
  ASSUME IInv, NEW s \in Sessions, NEW t \in Sessions, NEW r \in Repos,
         bound' = [bound EXCEPT ![t] = Append(@, r)], EligiblePlaces(s) # {}
  PROVE  EligiblePlaces(s)' # {} /\ FirstOf(s, EligiblePlaces(s))' = FirstOf(s, EligiblePlaces(s))
<1> DEFINE old == EligiblePlaces(s)
           new == {n \in DOMAIN bound'[s] : bound'[s][n] \in Eligible}
<1>1. bound[s] \in Seq(Repos) /\ Len(bound[s]) \in Nat /\ DOMAIN bound[s] = 1..Len(bound[s])
  BY LenProperties DEF IInv
<1>2. CASE s # t
  <2>1. bound'[s] = bound[s]
    BY <1>2 DEF IInv
  <2> QED
    BY <2>1 DEF EligiblePlaces, FirstOf
<1>3. CASE s = t
  <2>1. bound'[s] = Append(bound[s], r)
    BY <1>3 DEF IInv
  <2>2. /\ DOMAIN bound'[s] = 1..(Len(bound[s]) + 1)
        /\ \A n \in 1..Len(bound[s]) : bound'[s][n] = bound[s][n]
    BY <1>1, <2>1, AppendProperties, LenProperties
  <2>3. old \subseteq new /\ \A m \in new \ old : m = Len(bound[s]) + 1
    BY <1>1, <2>2 DEF EligiblePlaces
  <2>4. PICK n \in old : /\ \A m \in old : n <= m
                         /\ FirstOf(s, old) = bound[s][n]
    <3>1. old \subseteq DOMAIN bound[s] /\ old # {}
      BY DEF EligiblePlaces
    <3> HIDE DEF old
    <3> QED
      BY <3>1, FirstIsRepo
  <2>5. n \in 1..Len(bound[s]) /\ n \in new /\ \A m \in new : n <= m
    BY <1>1, <2>3, <2>4 DEF EligiblePlaces
  <2>6. new \subseteq Int
    BY <1>1, <2>2
  <2>7. n = CHOOSE i \in new : \A m \in new : i <= m
    <3>1. \A i \in new : (\A m \in new : i <= m) => i = n
      BY <2>5, <2>6
    <3> HIDE DEF new
    <3> QED
      BY <2>5, <3>1
  <2>8. EligiblePlaces(s)' = new
    BY DEF EligiblePlaces
  <2>9. FirstOf(s, EligiblePlaces(s))' = bound'[s][n]
    BY <2>7, <2>8 DEF FirstOf
  <2> QED
    BY <2>2, <2>4, <2>5, <2>8, <2>9
<1> QED
  BY <1>2, <1>3

LEMMA FirstPlaceIsRepo ==
  ASSUME IInv, NEW e \in Linking, SessionOf[e] # NoSession, EligiblePlaces(SessionOf[e]) # {}
  PROVE  SessionOf[e] \in Sessions /\ FirstPlace(e) \in Repos
<1>1. SessionOf[e] \in Sessions
  BY EntityStoreAssumption
<1>2. EligiblePlaces(SessionOf[e]) \subseteq DOMAIN bound[SessionOf[e]]
  BY DEF EligiblePlaces
<1> QED
  BY <1>1, <1>2, FirstIsRepo DEF FirstPlace

LEMMA LeadsStays ==
  ASSUME JInv, NEW e \in Linking, link'[e] = link[e],
         bound' = bound \/ \E s \in Sessions, r \in Repos : bound' = [bound EXCEPT ![s] = Append(@, r)],
         target'[e] # NoEntity => target'[e] = target[e] /\ keys'[target[e]] = keys[target[e]],
         \A r \in Repos : ~drifted'[r] => ~drifted[r]
  PROVE  Leads(e)'
<1> SUFFICES ASSUME target'[e] # NoEntity
             PROVE  /\ SessionOf[e] # NoSession /\ EligiblePlaces(SessionOf[e])' # {}
                    /\ ~drifted'[FirstPlace(e)'] => link'[e] = keys'[target'[e]]
  BY DEF Leads
<1>1. target'[e] = target[e] /\ keys'[target[e]] = keys[target[e]]
  OBVIOUS
<1>2. /\ SessionOf[e] # NoSession /\ EligiblePlaces(SessionOf[e]) # {}
      /\ ~drifted[FirstPlace(e)] => link[e] = keys[target[e]]
  BY <1>1 DEF JInv, Kept, Leads
<1>3. SessionOf[e] \in Sessions /\ FirstPlace(e) \in Repos
  BY <1>2, FirstPlaceIsRepo DEF JInv
<1>4. EligiblePlaces(SessionOf[e])' # {} /\ FirstPlace(e)' = FirstPlace(e)
  <2>1. CASE bound' = bound
    BY <1>2, <2>1 DEF EligiblePlaces, FirstOf, FirstPlace
  <2>2. CASE \E s \in Sessions, r \in Repos : bound' = [bound EXCEPT ![s] = Append(@, r)]
    BY <1>2, <1>3, <2>2, FirstStays DEF JInv, FirstPlace
  <2> QED
    BY <2>1, <2>2
<1> QED
  BY <1>1, <1>2, <1>3, <1>4

\* What a commit leaves in the content: the object at the end, where none had
\* its keys, or in the place of one that had them.
LEMMA PlacedKeys ==
  ASSUME IInv, NEW r \in Repos, NEW e \in Entities, NEW newKeys
  PROVE  LET s == content[r]  placed == Placed(r, e, newKeys) IN
         \/ placed = Append(s, e) /\ \A n \in DOMAIN s : newKeys[s[n]] # newKeys[e]
         \/ DOMAIN placed = DOMAIN s /\ \A n \in DOMAIN s : newKeys[placed[n]] = newKeys[s[n]]
<1> DEFINE s == content[r]
           same == {n \in DOMAIN s : newKeys[s[n]] = newKeys[e]}
           first == CHOOSE n \in same : \A m \in same : n <= m
<1>1. CASE same = {}
  BY <1>1 DEF Placed
<1>2. CASE same # {}
  <2>1. first \in same
    <3>1. same \subseteq Nat
      BY HeldAreEntities, LenProperties
    <3> HIDE DEF same
    <3> QED
      BY <1>2, <3>1, LeastNumber
  <2>2. Placed(r, e, newKeys) = [s EXCEPT ![first] = e]
    BY <1>2 DEF Placed
  <2>3. first \in DOMAIN s /\ newKeys[s[first]] = newKeys[e]
    BY <2>1
  <2> HIDE DEF first
  <2> QED
    BY <2>2, <2>3
<1> QED
  BY <1>1, <1>2

\* A commit that succeeds leaves the object it commits under its keys.
LEMMA CommittedIndexed ==
  ASSUME JInv, NEW r \in Repos, NEW e \in Entities, Commit(r, e), CommitSucceeds(r, e), ~drifted'[r]
  PROVE  /\ Indexed(r)'
         /\ keys'[e] \in Keys /\ catalog'[r] = [catalog[r] EXCEPT ![keys'[e]] = e]
<1> DEFINE n == Numbered(r, e)
<1>1. /\ keys' = [keys EXCEPT ![e] = n.key] /\ Rekeyed(e) /\ ~n.raises
      /\ identity' = [c \in Entities |-> IF c \in Held(r) \cup {e} THEN keys'[c] ELSE identity[c]]
      /\ catalog' = [catalog EXCEPT ![r][keys'[e]] = e]
      /\ content' = [content EXCEPT ![r] = Placed(r, e, keys')]
  BY CommittedKeys, FiledUnderKeys DEF CommitSucceeds, AskIdentity, JInv
<1>2. IInv /\ IInv' /\ keys' \in [Entities -> Keys]
  BY CommitKeeps, CommittedKeys DEF JInv
<1>3. ~drifted[r] /\ \A c \in Held(r) : keys'[c] = keys[c]
  BY <1>1, RekeyedKeeps
<1>4. Indexed(r)
  BY <1>3 DEF JInv, Kept
<1>5. catalog'[r] = [catalog[r] EXCEPT ![keys'[e]] = e] /\ content'[r] = Placed(r, e, keys')
  BY <1>1, <1>2 DEF IInv
<1>6. HasKeys(e)'
  <2>1. ASSUME NEW i \in Positions
        PROVE  keys'[e][i] # NoKey
    <3>1. n.key[i] # NoKey
      BY <1>1, <1>2, GivenOrKept
    <3> QED
      BY <1>1, <1>2, <3>1 DEF IInv
  <2> QED
    BY <2>1 DEF HasKeys
<1>7. ASSUME NEW k \in Keys, catalog'[r][k] # NoEntity
      PROVE  /\ catalog'[r][k] \in Held(r)' /\ HasKeys(catalog[r][k])'
             /\ keys'[catalog'[r][k]] = k /\ identity'[catalog'[r][k]] = k
  <2>1. CASE k = keys'[e]
    <3>1. catalog'[r][k] = e
      BY <1>2, <1>5, <2>1 DEF IInv
    <3>2. e \in Held(r)'
      BY <1>2, <1>5, PlacedObjects DEF Held
    <3> QED
      BY <1>1, <1>6, <2>1, <3>1, <3>2 DEF HasKeys
  <2>2. CASE k # keys'[e]
    <3> DEFINE c == catalog[r][k]
    <3>1. catalog'[r][k] = c
      BY <1>2, <1>5, <2>2 DEF IInv
    <3>2. c \in Held(r) /\ HasKeys(c) /\ keys[c] = k
      BY <1>4, <1>7, <3>1 DEF Indexed
    <3>3. keys'[c] = k /\ c \in Entities
      BY <1>2, <1>3, <3>2, HeldAreEntities
    <3>4. c \in Held(r)'
      BY <1>2, <1>5, <2>2, <3>2, <3>3, PlacedObjects DEF Held
    <3>5. HasKeys(catalog[r][k])'
      BY <3>1, <3>2, <3>3 DEF HasKeys
    <3>6. identity'[c] = k
      BY <1>1, <3>2, <3>3
    <3> QED
      BY <3>1, <3>3, <3>4, <3>5, <3>6
  <2> QED
    BY <2>1, <2>2
<1>8. ~Ambiguous(content[r])'
  <2> DEFINE s == content[r]  placed == Placed(r, e, keys')
  <2>1. s \in Seq(Entities) /\ DOMAIN s = 1..Len(s) /\ Len(s) \in Nat
    BY <1>2, HeldAreEntities, LenProperties
  <2>2. \A m \in DOMAIN s : keys'[s[m]] = keys[s[m]]
    BY <1>3 DEF Held, Range
  <2>3. SUFFICES ASSUME NEW i \in DOMAIN placed, NEW j \in DOMAIN placed, i # j,
                        \A p \in Positions : keys'[placed[i]][p] # NoKey, keys'[placed[i]] = keys'[placed[j]]
                 PROVE  FALSE
    BY <1>5 DEF Ambiguous, SameKeys, HasKeys
  <2>4. \A a, b \in DOMAIN s : a # b => ~SameKeys(s[a], s[b])
    BY <1>4 DEF Indexed, Ambiguous
  <2>5. CASE placed = Append(s, e) /\ \A m \in DOMAIN s : keys'[s[m]] # keys'[e]
    <3>1. DOMAIN placed = 1..(Len(s) + 1) /\ placed[Len(s) + 1] = e /\ \A m \in 1..Len(s) : placed[m] = s[m]
      BY <2>1, <2>5, AppendProperties, LenProperties
    <3>2. CASE i \in DOMAIN s /\ j \in DOMAIN s
      BY <2>1, <2>2, <2>3, <2>4, <3>1, <3>2 DEF SameKeys, HasKeys
    <3>3. CASE i = Len(s) + 1 \/ j = Len(s) + 1
      BY <2>1, <2>3, <2>5, <3>1, <3>3
    <3> HIDE DEF placed
    <3> QED
      BY <2>1, <3>1, <3>2, <3>3
  <2>6. CASE DOMAIN placed = DOMAIN s /\ \A m \in DOMAIN s : keys'[placed[m]] = keys'[s[m]]
    BY <2>2, <2>3, <2>4, <2>6 DEF SameKeys, HasKeys
  <2> QED
    BY <1>2, <2>5, <2>6, PlacedKeys
<1> QED
  BY <1>2, <1>5, <1>7, <1>8 DEF Indexed

\* A change of keys, of identities or of both, that no repository is told.
LEMMA RekeyingKeeps ==
  ASSUME JInv, IInv', NEW e \in Entities, NEW x, keys' = [keys EXCEPT ![e] = x], Rekeyed(e),
         UNCHANGED <<bound, content, catalog, link, looked>>,
         identity' \in [Entities -> Keys],
         \A r \in Repos : ~drifted'[r] => \A c \in Held(r) : identity'[c] \in {identity[c], keys[c]}
  PROVE  JInv'
<1>1. Types'
  BY RekeyedKeeps DEF JInv, Types
<1>2. \A r \in Repos : ~drifted'[r] => Indexed(r)'
  BY RekeyedKeeps, IndexedStays
<1>3. \A r \in Repos : ~IsBound(r)' => ~drifted'[r]
  BY RekeyedKeeps DEF IsBound
<1>4. \A l \in Linking : Leads(l)'
  BY RekeyedKeeps, LeadsStays
<1> QED
  BY <1>1, <1>2, <1>3, <1>4 DEF JInv, Kept

LEMMA CommitKeepsLinks ==
  ASSUME JInv, NEW r \in Repos, NEW e \in Entities, Commit(r, e)
  PROVE  JInv'
<1>1. IInv'
  BY CommitKeeps DEF JInv
<1>2. keys' = [keys EXCEPT ![e] = Numbered(r, e).key] /\ keys' \in [Entities -> Keys]
  BY CommittedKeys DEF JInv
<1>3. CASE CommitFails(r, e)
  <2>1. /\ Rekeyed(e) /\ UNCHANGED <<bound, content, catalog, link, looked>>
        /\ identity' = [c \in Entities |-> IF c \in Held(r) \cup {e} THEN keys[c] ELSE identity[c]]
    BY <1>3 DEF CommitFails, AskIdentity
  <2>2. identity' \in [Entities -> Keys]
    BY <2>1 DEF JInv, IInv, Types
  <2>3. \A q \in Repos : \A c \in Held(q) : identity'[c] \in {identity[c], keys[c]}
    BY <2>1, HeldAreEntities DEF JInv
  <2> QED
    BY <1>1, <1>2, <2>1, <2>2, <2>3, RekeyingKeeps
<1>4. CASE CommitSucceeds(r, e)
  <2>1. /\ Rekeyed(e) /\ UNCHANGED <<bound, link, looked>>
        /\ identity' = [c \in Entities |-> IF c \in Held(r) \cup {e} THEN keys'[c] ELSE identity[c]]
        /\ catalog' = [catalog EXCEPT ![r][keys'[e]] = e]
        /\ content' = [content EXCEPT ![r] = Placed(r, e, keys')]
    BY <1>2, <1>4, FiledUnderKeys DEF CommitSucceeds, AskIdentity, JInv
  <2>2. Types'
    BY <1>2, <2>1, RekeyedKeeps DEF JInv, IInv, Types
  <2>3. ASSUME NEW q \in Repos, ~drifted'[q], q # r
        PROVE  Indexed(q)'
    <3>1. content'[q] = content[q] /\ catalog'[q] = catalog[q]
      BY <2>1, <2>3 DEF JInv, IInv
    <3>2. ~drifted[q] /\ \A c \in Held(q) : keys'[c] = keys[c]
      BY <1>2, <2>1, <2>3, RekeyedKeeps
    <3>3. \A c \in Held(q) : identity'[c] \in {identity[c], keys[c]}
      BY <2>1, <3>2, HeldAreEntities DEF JInv
    <3> QED
      BY <3>1, <3>2, <3>3, IndexedStays
  <2>4. \A q \in Repos : ~drifted'[q] => Indexed(q)'
    BY <1>4, <2>3, CommittedIndexed
  <2>5. \A q \in Repos : ~IsBound(q)' => ~drifted'[q]
    BY <1>2, <2>1, RekeyedKeeps DEF IsBound
  <2>6. \A l \in Linking : Leads(l)'
    BY <1>2, <2>1, RekeyedKeeps, LeadsStays
  <2> QED
    BY <1>1, <2>2, <2>4, <2>5, <2>6 DEF JInv, Kept
<1> QED
  BY <1>3, <1>4 DEF Commit

LEMMA NewRepoKeepsLinks ==
  ASSUME JInv, NEW r \in Repos, NEW s \in Sessions, NEW value \in Seq(Entities), NewRepo(r, s, value)
  PROVE  JInv'
<1>1. IInv' /\ content[r] = << >>
  BY NewRepoKeeps DEF JInv
<1>2. /\ ~IsBound(r) /\ bound' = [bound EXCEPT ![s] = Append(@, r)]
      /\ content' = [content EXCEPT ![r] = value]
      /\ drifted' = [drifted EXCEPT ![r] = Ambiguous(value)]
      /\ UNCHANGED <<keys, identity, catalog, link, target, updates, looked>>
  BY DEF NewRepo
<1>3. Types'
  BY <1>2 DEF JInv, Types, Ambiguous
<1>4. ~drifted[r]
  BY <1>2 DEF JInv, Kept
<1>5. \A q \in Repos : ~drifted'[q] => ~drifted[q]
  BY <1>2, <1>4 DEF JInv, Types
<1>6. ASSUME NEW q \in Repos, ~drifted'[q]
      PROVE  Indexed(q)'
  <2>1. CASE q = r
    <3>1. Indexed(r) /\ Held(r) = {}
      BY <1>1, <1>4 DEF JInv, Kept, Held, Range
    <3>2. \A k \in Keys : catalog[r][k] = NoEntity
      BY <3>1 DEF Indexed
    <3>3. content'[r] = value /\ ~Ambiguous(value)
      BY <1>2, <1>6, <2>1 DEF JInv, IInv, Types
    <3>4. ~Ambiguous(content[r])'
      BY <1>2, <3>3 DEF Ambiguous, SameKeys, HasKeys
    <3> QED
      BY <1>2, <2>1, <3>2, <3>4 DEF Indexed
  <2>2. CASE q # r
    <3>1. content'[q] = content[q]
      BY <1>2, <2>2 DEF JInv, IInv
    <3> QED
      BY <1>2, <1>5, <1>6, <3>1, IndexedStays
  <2> QED
    BY <2>1, <2>2
<1>7. ASSUME NEW q \in Repos, ~IsBound(q)'
      PROVE  ~drifted'[q]
  <2>1. bound[s] \in Seq(Repos) /\ bound'[s] = Append(bound[s], r)
    BY <1>2 DEF JInv, IInv
  <2>2. r \in Range(bound'[s]) /\ Range(bound[s]) \subseteq Range(bound'[s])
    BY <2>1, AppendRange
  <2>3. q # r /\ ~IsBound(q)
    BY <1>2, <1>7, <2>2 DEF IsBound, JInv, IInv
  <2> QED
    BY <1>2, <2>3 DEF JInv, Kept
<1>8. \A l \in Linking : Leads(l)'
  BY <1>2, <1>5, LeadsStays
<1> QED
  BY <1>1, <1>3, <1>6, <1>7, <1>8 DEF JInv, Kept

\* What a link is set to is reached under the keys that the link is given.
LEMMA SetLinkKeeps ==
  ASSUME JInv, NEW e \in Linking, NEW t \in Entities,
         SetLink(e, t, keys[t]), identity' = identity \/ AskIdentity({t}, keys)
  PROVE  JInv'
<1> DEFINE s == SessionOf[e]  k == keys[t]
<1>1. /\ link' = [link EXCEPT ![e] = k]
      /\ target' = [target EXCEPT ![e] =
           IF s # NoSession /\ EligiblePlaces(s) # {} /\ t \in Committed(FirstPlace(e)) THEN t ELSE NoEntity]
      /\ UNCHANGED <<keys, bound, content, catalog, drifted, updates, looked>>
  BY DEF SetLink, FirstPlace
<1>2. identity' \in [Entities -> Keys]
      /\ \A c \in Entities : identity'[c] \in {identity[c], keys[c]}
  BY <1>1 DEF AskIdentity, JInv, IInv, Types
<1>3. IInv'
  BY <1>1, OthersKeep DEF JInv, IInv
<1>4. Types'
  BY <1>1, <1>2 DEF JInv, IInv, Types
<1>5. \A r \in Repos : ~drifted'[r] => Indexed(r)'
  BY <1>1, <1>2, IndexedStays, HeldAreEntities DEF JInv
<1>6. \A r \in Repos : ~IsBound(r)' => ~drifted'[r]
  BY <1>1 DEF JInv, Kept, IsBound
<1>7. \A l \in Linking : l # e => Leads(l)'
  BY <1>1, LeadsStays DEF JInv, Types
<1>8. Leads(e)'
  <2>1. SUFFICES ASSUME target'[e] # NoEntity
                 PROVE  /\ s # NoSession /\ EligiblePlaces(s)' # {}
                        /\ ~drifted'[FirstPlace(e)'] => link'[e] = keys'[target'[e]]
    BY DEF Leads
  <2>2. s # NoSession /\ EligiblePlaces(s) # {} /\ t \in Committed(FirstPlace(e)) /\ target'[e] = t
    BY <1>1, <2>1 DEF JInv, Types
  <2>3. EligiblePlaces(s)' = EligiblePlaces(s) /\ FirstPlace(e)' = FirstPlace(e)
    BY <1>1 DEF EligiblePlaces, FirstPlace, FirstOf
  <2>4. link'[e] = k
    BY <1>1 DEF JInv, Types
  <2> QED
    BY <1>1, <2>2, <2>3, <2>4
<1> QED
  BY <1>3, <1>4, <1>5, <1>6, <1>7, <1>8 DEF JInv, Kept

LEMMA StepKept == JInv /\ [Next]_vars => JInv'
<1> SUFFICES ASSUME JInv, [Next]_vars
             PROVE  JInv'
  OBVIOUS
<1>0. IInv /\ IInv'
  BY Step DEF JInv
<1>1. ASSUME UNCHANGED <<keys, identity, bound, content, catalog, link, target, drifted>>,
             looked' \in [Repos -> Entities \cup {NoEntity}]
      PROVE  JInv'
  <2>1. \A r \in Repos : ~drifted'[r] => Indexed(r)'
    BY <1>1, IndexedStays
  <2>2. \A l \in Linking : Leads(l)'
    BY <1>1, LeadsStays
  <2>3. \A r \in Repos : ~IsBound(r)' => ~drifted'[r]
    BY <1>1 DEF JInv, Kept, IsBound
  <2> QED
    BY <1>0, <1>1, <2>1, <2>2, <2>3 DEF JInv, Types, Kept
<1>2. CASE UNCHANGED vars
  BY <1>1, <1>2 DEF vars, JInv, Types
<1>3. ASSUME NEW e \in Entities, ReadIdentity(e)
      PROVE  JInv'
  <2>1. /\ UNCHANGED <<keys, bound, content, catalog, link, target, drifted, updates, looked>>
        /\ identity' = [c \in Entities |-> IF c \in {e} THEN keys[c] ELSE identity[c]]
    BY <1>3 DEF ReadIdentity, AskIdentity
  <2>2. Types'
    BY <2>1 DEF JInv, IInv, Types
  <2>3. \A r \in Repos : ~drifted'[r] => Indexed(r)'
    BY <2>1, IndexedStays, HeldAreEntities DEF JInv
  <2>4. \A l \in Linking : Leads(l)'
    BY <2>1, LeadsStays
  <2>5. \A r \in Repos : ~IsBound(r)' => ~drifted'[r]
    BY <2>1 DEF JInv, Kept, IsBound
  <2> QED
    BY <1>0, <2>2, <2>3, <2>4, <2>5 DEF JInv, Kept
<1>4. ASSUME NEW e \in Entities, NEW i \in Positions, NEW k \in Components, SetKey(e, i, k)
      PROVE  JInv'
  <2>1. /\ keys' = [keys EXCEPT ![e] = [keys[e] EXCEPT ![i] = k]] /\ Rekeyed(e)
        /\ UNCHANGED <<identity, bound, content, catalog, link, looked>>
    BY <1>4 DEF SetKey
  <2> QED
    BY <1>0, <2>1, RekeyingKeeps DEF JInv, Types
<1>5. ASSUME NEW e \in Entities, NEW s \in Sessions, NEW k \in Keys, CopyEntity(e, s, k)
      PROVE  JInv'
  <2>1. /\ keys' = [keys EXCEPT ![e] = keys[SessionFinds(s, k)]] /\ Rekeyed(e)
        /\ \A r \in Repos : e \notin Held(r)
        /\ identity' = [c \in Entities |-> IF c \in {e} THEN keys'[c] ELSE identity[c]]
        /\ UNCHANGED <<bound, content, catalog, link, updates, looked>>
    BY <1>5 DEF CopyEntity, AskIdentity
  <2>2. keys' \in [Entities -> Keys]
    BY <1>0 DEF IInv
  <2>3. identity' \in [Entities -> Keys]
    BY <2>1, <2>2 DEF JInv, Types
  <2>4. \A r \in Repos : \A c \in Held(r) : identity'[c] \in {identity[c], keys[c]}
    BY <2>1, HeldAreEntities DEF JInv
  <2> QED
    BY <1>0, <2>1, <2>3, <2>4, RekeyingKeeps
<1>6. ASSUME NEW r \in Repos, NEW s \in Sessions, NEW value \in InitialValues, NewRepo(r, s, value)
      PROVE  JInv'
  BY <1>6, NewRepoKeepsLinks, EntityStoreAssumption
<1>7. ASSUME NEW r \in Repos, NEW s \in Sessions, GetOrCreateRepo(r, s)
      PROVE  JInv'
  BY <1>7, NewRepoKeepsLinks, EntityStoreAssumption, EmptySeq DEF GetOrCreateRepo
<1>8. ASSUME NEW r \in Repos, NEW e \in Entities, Commit(r, e)
      PROVE  JInv'
  BY <1>8, CommitKeepsLinks
<1>9. ASSUME NEW r \in Repos, NEW k \in Keys, LookUp(r, k)
      PROVE  JInv'
  BY <1>0, <1>1, <1>9 DEF LookUp, JInv, Types, IInv
<1>10. ASSUME NEW e \in Linking, NEW t \in Entities \ {e},
              ForeignKeySet(e, t) \/ SerializeKeys(e, t)
       PROVE  JInv'
  <2>1. CASE ForeignKeySet(e, t)
    BY <1>10, <2>1, SetLinkKeeps DEF ForeignKeySet
  <2>2. CASE SerializeKeys(e, t)
    <3>1. AskIdentity({t}, keys) /\ SetLink(e, t, identity'[t])
      BY <2>2 DEF SerializeKeys
    <3>2. identity'[t] = keys[t]
      BY <3>1 DEF AskIdentity
    <3> QED
      BY <3>1, <3>2, SetLinkKeeps
  <2> QED
    BY <1>10, <2>1, <2>2
<1> QED
  BY <1>2, <1>3, <1>4, <1>5, <1>6, <1>7, <1>8, <1>9, <1>10 DEF Next

\* While nothing drifts, the one object under the keys is the one in the catalog.
LEMMA IndexIsCatalog ==
  JInv => \A r \in Repos : ~drifted[r] => Index(r) = catalog[r]
<1> SUFFICES ASSUME JInv, NEW r \in Repos, ~drifted[r]
             PROVE  Index(r) = catalog[r]
  OBVIOUS
<1>1. Indexed(r) /\ catalog[r] \in [Keys -> Entities \cup {NoEntity}]
  BY DEF JInv, Kept, IInv
<1>2. ASSUME NEW k \in Keys, catalog[r][k] # NoEntity
      PROVE  Under(r, k) = {catalog[r][k]}
  <2> DEFINE c == catalog[r][k]
  <2>1. c \in Held(r) /\ HasKeys(c) /\ keys[c] = k
    BY <1>1, <1>2 DEF Indexed
  <2>2. ASSUME NEW d \in Held(r), keys[d] = k
        PROVE  d = c
    <3>1. PICK m \in DOMAIN content[r] : content[r][m] = c
      BY <2>1 DEF Held, Range
    <3>2. PICK n \in DOMAIN content[r] : content[r][n] = d
      BY DEF Held, Range
    <3>3. m = n
      BY <1>1, <2>1, <2>2, <3>1, <3>2 DEF Indexed, Ambiguous, SameKeys
    <3> QED
      BY <3>1, <3>2, <3>3
  <2> QED
    BY <2>1, <2>2 DEF Under
<1>3. ASSUME NEW k \in Keys, catalog[r][k] # NoEntity
      PROVE  Cardinality(Under(r, k)) = 1 /\ (CHOOSE e \in Under(r, k) : TRUE) = catalog[r][k]
  <2>1. Under(r, k) = {catalog[r][k]}
    BY <1>2, <1>3
  <2>2. Cardinality({catalog[r][k]}) = 1
    BY FS_Singleton
  <2> QED
    BY <2>1, <2>2
<1> QED
  BY <1>1, <1>3 DEF Index

\* What a step does to a repository where nothing drifts: the catalog and the
\* answer stay, or one value is put, or one key is looked up.
LEMMA StepsOfRepos ==
  ASSUME JInv, [Next]_vars, NEW p \in Repos, ~drifted'[p]
  PROVE  /\ ~drifted[p]
         /\ \/ catalog'[p] = catalog[p] /\ looked'[p] = looked[p]
            \/ \E k \in Keys : catalog'[p] = catalog[p] /\ looked'[p] = catalog[p][k]
            \/ \E k \in Keys, v \in Entities :
                 catalog'[p] = [catalog[p] EXCEPT ![k] = v] /\ looked'[p] = looked[p]
<1> DEFINE Same == catalog'[p] = catalog[p] /\ looked'[p] = looked[p]
<1>1. CASE UNCHANGED vars
  BY <1>1 DEF vars
<1>2. ASSUME NEW e \in Entities, NEW x, keys' = [keys EXCEPT ![e] = x], Rekeyed(e)
      PROVE  ~drifted[p]
  BY <1>2, RekeyedKeeps
<1>3. ASSUME NEW e \in Entities,
             \/ ReadIdentity(e)
             \/ \E i \in Positions, k \in Components : SetKey(e, i, k)
             \/ \E s \in Sessions, k \in Keys : CopyEntity(e, s, k)
      PROVE  ~drifted[p] /\ Same
  <2>1. CASE ReadIdentity(e)
    BY <2>1 DEF ReadIdentity
  <2>2. ASSUME NEW i \in Positions, NEW k \in Components, SetKey(e, i, k)
        PROVE  ~drifted[p] /\ Same
    <3>1. /\ keys' = [keys EXCEPT ![e] = [keys[e] EXCEPT ![i] = k]] /\ Rekeyed(e)
          /\ UNCHANGED <<catalog, looked>>
      BY <2>2 DEF SetKey
    <3> QED
      BY <1>2, <3>1
  <2>3. ASSUME NEW s \in Sessions, NEW k \in Keys, CopyEntity(e, s, k)
        PROVE  ~drifted[p] /\ Same
    <3>1. /\ keys' = [keys EXCEPT ![e] = keys[SessionFinds(s, k)]] /\ Rekeyed(e)
          /\ UNCHANGED <<catalog, looked>>
      BY <2>3 DEF CopyEntity
    <3> QED
      BY <1>2, <3>1
  <2> QED
    BY <1>3, <2>1, <2>2, <2>3
<1>4. ASSUME NEW r \in Repos, NEW s \in Sessions, NEW value, NewRepo(r, s, value)
      PROVE  ~drifted[p] /\ Same
  <2>1. ~drifted[r] /\ drifted' = [drifted EXCEPT ![r] = Ambiguous(value)] /\ UNCHANGED <<catalog, looked>>
    BY <1>4 DEF NewRepo, JInv, Kept
  <2> QED
    BY <2>1 DEF JInv, Types
<1>5. ASSUME NEW r \in Repos, NEW k \in Keys, LookUp(r, k)
      PROVE  /\ ~drifted[p]
             /\ Same \/ (catalog'[p] = catalog[p] /\ looked'[p] = catalog[p][k])
  BY <1>5 DEF LookUp, JInv, Types
<1>6. ASSUME NEW r \in Repos, NEW e \in Entities, Commit(r, e)
      PROVE  /\ ~drifted[p]
             /\ Same \/ \E k \in Keys : catalog'[p] = [catalog[p] EXCEPT ![k] = e] /\ looked'[p] = looked[p]
  <2>1. keys' = [keys EXCEPT ![e] = Numbered(r, e).key] /\ Rekeyed(e) /\ UNCHANGED looked
    BY <1>6, CommittedKeys DEF JInv, Commit, CommitFails, CommitSucceeds
  <2>2. ~drifted[p]
    BY <1>2, <2>1
  <2>3. CASE CommitFails(r, e)
    BY <2>2, <2>3 DEF CommitFails
  <2>4. CASE CommitSucceeds(r, e) /\ r # p
    BY <2>2, <2>4 DEF CommitSucceeds, JInv, IInv
  <2>5. CASE CommitSucceeds(r, e) /\ r = p
    BY <1>6, <2>1, <2>2, <2>5, CommittedIndexed
  <2> QED
    BY <1>6, <2>3, <2>4, <2>5 DEF Commit
<1>7. ASSUME NEW e \in Linking, NEW t \in Entities \ {e},
             ForeignKeySet(e, t) \/ SerializeKeys(e, t)
      PROVE  ~drifted[p] /\ Same
  BY <1>7 DEF ForeignKeySet, SerializeKeys, SetLink
<1> QED
  BY <1>1, <1>3, <1>4, <1>5, <1>6, <1>7, EntityStoreAssumption DEF Next, GetOrCreateRepo

-----------------------------------------------------------------------------
(* The theorems                                                                *)

\* The inductive invariant: types, and a repository that is not bound yet has
\* no objects.
THEOREM Invariance == Spec => []IInv
BY Start, Step, PTL DEF Spec

\* Where the foreign key's resolver finds an object, the session's finds the
\* same one, whatever repositories are bound, in whatever order, and whatever
\* they hold (ForeignKey._resolve, Session.resolve_fkey).
THEOREM ResolversFindTheSame == Spec => []ResolversAgree
<1>1. IInv => ResolversAgree
  <2> SUFFICES ASSUME IInv, NEW s \in Sessions, NEW k \in Keys, ForeignKeyFinds(s, k) # NoEntity
               PROVE  ForeignKeyFinds(s, k) = SessionFinds(s, k)
    BY DEF ResolversAgree
  <2>1. EligiblePlaces(s) # {} /\ EligiblePlaces(s) \subseteq DOMAIN bound[s]
        /\ ForeignKeyFinds(s, k) = catalog[FirstOf(s, EligiblePlaces(s))][k]
    BY DEF ForeignKeyFinds, EligiblePlaces
  <2>2. PICK n \in EligiblePlaces(s) :
          (\A m \in EligiblePlaces(s) : n <= m) /\ FirstOf(s, EligiblePlaces(s)) = bound[s][n]
    BY <2>1, FirstIsRepo
  <2>3. n \in Having(s, k) /\ Having(s, k) \subseteq EligiblePlaces(s)
    BY <2>1, <2>2 DEF Having
  <2>4. PICK i \in Having(s, k) :
          (\A m \in Having(s, k) : i <= m) /\ FirstOf(s, Having(s, k)) = bound[s][i]
    BY <2>1, <2>3, FirstIsRepo
  <2>5. i = n
    <3>1. i \in Int /\ n \in Int
      BY <2>1, <2>2, <2>3, <2>4, LenProperties DEF IInv
    <3> QED
      BY <2>2, <2>3, <2>4, <3>1
  <2> QED
    BY <2>1, <2>2, <2>3, <2>4, <2>5 DEF SessionFinds
<1> QED
  BY <1>1, Invariance, PTL

\* An object leaves the content of a repository only for one that already had
\* its keys: no number that a repository gives was in use there
\* (MemoryRepository._commit).
THEOREM NumbersAreNew == Spec => GivenKeysAreNew
<1> DEFINE New == \A r \in Repos : \A c \in Held(r) \ Held(r)' :
                    \E e \in Held(r)' : keys[e] = keys[c]
<1>1. ASSUME IInv, [Next]_vars
      PROVE  [New]_vars
  <2>1. ASSUME UNCHANGED content
        PROVE  New
    BY <2>1 DEF Held
  <2>2. ASSUME NEW q \in Repos, NEW s \in Sessions, NEW value \in Seq(Entities), NewRepo(q, s, value)
        PROVE  New
    <3>1. content[q] = << >>
      BY <1>1, <2>2, NewRepoKeeps
    <3>2. Held(q) = {}
      BY <3>1 DEF Held, Range
    <3>3. \A r \in Repos \ {q} : Held(r)' = Held(r)
      BY <1>1, <2>2 DEF NewRepo, Held, IInv
    <3> QED
      BY <3>2, <3>3
  <2>3. ASSUME NEW q \in Repos, NEW e \in Entities, Commit(q, e), CommitSucceeds(q, e)
        PROVE  New
    <3>1. content' = [content EXCEPT ![q] = Placed(q, e, keys')]
      BY <1>1, <2>3, CommittedKeys, FiledUnderKeys
    <3>2. \A r \in Repos \ {q} : Held(r)' = Held(r)
      BY <1>1, <3>1 DEF Held, IInv
    <3>3. e \in Held(q)' /\ \A c \in Held(q) \ Held(q)' : keys'[c] = keys'[e]
      BY <1>1, <3>1, PlacedObjects DEF Held, IInv
    <3>4. \A c \in Held(q) \ Held(q)' : keys[c] = keys[e]
      BY <1>1, <2>3, <3>3, CommittedKeys
    <3> QED
      BY <3>2, <3>3, <3>4
  <2>4. ASSUME NEW q \in Repos, NEW e \in Entities, Commit(q, e)
        PROVE  New
    <3>1. CommitFails(q, e) => UNCHANGED content
      BY DEF CommitFails
    <3> QED
      BY <2>1, <2>3, <2>4, <3>1 DEF Commit
  <2>5. ASSUME NEW q \in Repos, NEW s \in Sessions, GetOrCreateRepo(q, s)
        PROVE  New
    BY <2>2, <2>5, EmptySeq, EntityStoreAssumption DEF GetOrCreateRepo
  <2>6. ASSUME NEW q \in Repos, NEW s \in Sessions, NEW value \in InitialValues, NewRepo(q, s, value)
        PROVE  New
    BY <2>2, <2>6, EntityStoreAssumption
  <2>7. ASSUME NEW e \in Entities,
               \/ ReadIdentity(e)
               \/ \E i \in Positions, k \in Components : SetKey(e, i, k)
               \/ \E s \in Sessions, k \in Keys : CopyEntity(e, s, k)
        PROVE  New
    <3>1. UNCHANGED content
      BY <2>7 DEF ReadIdentity, SetKey, CopyEntity
    <3> QED
      BY <2>1, <3>1
  <2>8. ASSUME NEW r \in Repos, NEW k \in Keys, LookUp(r, k)
        PROVE  New
    <3>1. UNCHANGED content
      BY <2>8 DEF LookUp
    <3> QED
      BY <2>1, <3>1
  <2>9. ASSUME NEW e \in Linking, NEW t \in Entities \ {e},
               ForeignKeySet(e, t) \/ SerializeKeys(e, t)
        PROVE  New
    <3>1. UNCHANGED content
      BY <2>9 DEF ForeignKeySet, SerializeKeys, SetLink
    <3> QED
      BY <2>1, <3>1
  <2>10. CASE UNCHANGED vars
    BY <2>10 DEF vars
  <2> QED
    BY <1>1, <2>4, <2>5, <2>6, <2>7, <2>8, <2>9, <2>10 DEF Next
<1> QED
  BY <1>1, Invariance, PTL DEF Spec, GivenKeysAreNew

\* The stronger invariant: catalogs name the objects of the content under their
\* keys, and links carry the keys of what they were set to, while nothing drifts.
THEOREM CatalogsAndLinks == Spec => []JInv
BY StartKept, StepKept, PTL DEF Spec

\* A foreign key set to an entity of the repository it resolves in carries keys
\* by which the session finds it, whatever is bound, committed or looked up
\* since (ForeignKey._convert, Entity.get_identityKeys, Session.resolve_fkey).
THEOREM LinksLead == Spec => []LinksFollow
<1>1. JInv /\ ResolversAgree => LinksFollow
  <2> SUFFICES ASSUME JInv, ResolversAgree, NEW e \in Linking, target[e] # NoEntity,
                      target[e] \in Committed(FirstPlace(e)), ~drifted[FirstPlace(e)],
                      Convert(link[e]) = link[e]
               PROVE  Follow(e) = target[e]
    BY DEF LinksFollow, FirstPlace
  <2>1. /\ SessionOf[e] # NoSession /\ EligiblePlaces(SessionOf[e]) # {}
        /\ link[e] = keys[target[e]]
    BY DEF JInv, Kept, Leads
  <2>2. SessionOf[e] \in Sessions /\ FirstPlace(e) \in Repos
    BY <2>1, FirstPlaceIsRepo DEF JInv
  <2>3. PICK k \in Keys : target[e] = catalog[FirstPlace(e)][k]
    BY DEF Committed
  <2>4. keys[target[e]] = k
    BY <2>2, <2>3 DEF JInv, Kept, Indexed
  <2>5. ForeignKeyFinds(SessionOf[e], k) = target[e]
    BY <2>1, <2>3, <2>4 DEF ForeignKeyFinds, FirstPlace
  <2>6. Follow(e) = SessionFinds(SessionOf[e], k)
    BY <2>1, <2>4 DEF Follow
  <2> QED
    BY <2>2, <2>5, <2>6, EntityStoreAssumption DEF ResolversAgree
<1> QED
  BY <1>1, CatalogsAndLinks, ResolversFindTheSame, PTL

\* A repository implements the index it promises: each of its steps puts one
\* value under its key, looks one key up, or changes nothing of the index,
\* until an object it holds changes its keys (MemoryRepository).
THEOREM RepositoriesImplementIndexes == Spec => RepositoriesAreIndexes
<1>1. Init => Store!Init
  <2> SUFFICES ASSUME Init
               PROVE  Store!Init
    OBVIOUS
  <2>1. \A r \in Repos : Index(r) = [k \in Keys |-> NoEntity]
    BY DEF Init, Index, Uncatalogued
  <2> QED
    BY <2>1 DEF Init, Store!Init
<1>2. (JInv => \A r \in Repos : ~drifted[r] => Index(r) = catalog[r])'
  BY IndexIsCatalog, PTL
<1>3. JInv /\ JInv' /\ [Next]_vars => [Store!Next]_(Store!storeVars)
  <2> SUFFICES ASSUME JInv, JInv', [Next]_vars, NEW p \in Repos
               PROVE  Store!Step(p)
    BY DEF Store!Next
  <2>1. CASE drifted'[p]
    BY <2>1 DEF Store!Step, Store!Drift
  <2>2. CASE ~drifted'[p]
    <3>1. ~drifted[p] /\ Index(p) = catalog[p]
      BY <2>2, StepsOfRepos, IndexIsCatalog
    <3>2. Index(p)' = catalog'[p]
      BY <1>2, <2>2
    <3> DEFINE store == [r \in Repos |-> Index(r)]
    <3>3. store[p] = catalog[p] /\ store'[p] = catalog'[p]
      BY <3>1, <3>2
    <3> HIDE DEF store
    <3>4. \/ store'[p] = store[p] /\ looked'[p] = looked[p]
          \/ \E k \in Keys : store'[p] = store[p] /\ looked'[p] = store[p][k]
          \/ \E k \in Keys, v \in Entities :
               store'[p] = [store[p] EXCEPT ![k] = v] /\ looked'[p] = looked[p]
      BY <2>2, <3>3, StepsOfRepos
    <3> QED
      BY <2>2, <3>1, <3>4 DEF store, Store!Step, Store!Same, Store!Get, Store!Put
  <2> QED
    BY <2>1, <2>2
<1> QED
  BY <1>1, <1>3, CatalogsAndLinks, PTL DEF Spec, RepositoriesAreIndexes, Store!Spec

=============================================================================
