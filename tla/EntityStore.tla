----------------------------- MODULE EntityStore -----------------------------
(* Sessions, the memory repositories bound to them, the entities committed   *)
(* to the repositories and the links (foreign keys) between entities.        *)
EXTENDS Integers, Sequences, FiniteSets, SequencesExt

CONSTANTS
  Entities, Repos, Sessions,
  DefaultSession,     \* default_session
  SessionOf,          \* the session in an entity's context, or NoSession
  Linking,            \* the entities that have a foreign key
  Eligible,           \* the repositories of a class the foreign key accepts
  InitialValues,      \* the objects a repository may be built with
  Width,              \* how many primary keys an entity has
  MaxKey,             \* bound: the largest key a run uses
  MaxUpdates,         \* bound: how many keys are set and commits made in a run
  NoKey, NoEntity, NoSession

ASSUME EntityStoreAssumption ==
  /\ DefaultSession \in Sessions /\ NoSession \notin Sessions
  /\ SessionOf \in [Entities -> Sessions \cup {NoSession}]
  /\ Linking \subseteq Entities /\ Eligible \subseteq Repos
  /\ InitialValues \subseteq Seq(Entities)
  /\ Width \in Nat \ {0} /\ MaxKey \in Nat /\ MaxUpdates \in Nat
  /\ NoEntity \notin Entities
  /\ NoKey \notin Int

Components == {NoKey} \cup -1..MaxKey
Keys == [1..Width -> Components]
Positions == 1..Width

VARIABLES
  keys,         \* the primary key values of an entity
  identity,     \* its _identityKeys: the keys when they were last asked for
  bound,        \* the repositories of a session, in the order they were bound
  content,      \* _content of a repository
  catalog,      \* _catalog of a repository: entities by identity keys
  link,         \* the value of the foreign key of a linking entity
  target,       \* history: the repository's entity a foreign key was set to,
                \* until its keys change
  drifted,      \* history: an entity of this repository changed its keys, or
                \* the repository was built with two of the same key
  updates,      \* how many keys were set and commits made
  looked        \* what the last lookup in a repository found

vars == <<keys, identity, bound, content, catalog, link, target, drifted, updates, looked>>

NoKeys == [i \in Positions |-> NoKey]
Uncatalogued == [k \in Keys |-> NoEntity]

TypeOK ==
  /\ keys \in [Entities -> Keys]
  /\ identity \in [Entities -> Keys]
  /\ \A s \in Sessions : bound[s] \in Seq(Repos)
  /\ \A r \in Repos : content[r] \in Seq(Entities)
  /\ catalog \in [Repos -> [Keys -> Entities \cup {NoEntity}]]
  /\ link \in [Linking -> Keys]
  /\ target \in [Linking -> Entities \cup {NoEntity}]
  /\ drifted \in [Repos -> BOOLEAN]
  /\ updates \in 0..MaxUpdates
  /\ looked \in [Repos -> Entities \cup {NoEntity}]

Init ==
  /\ keys = [e \in Entities |-> NoKeys]
  /\ identity = keys
  /\ bound = [s \in Sessions |-> << >>]
  /\ content = [r \in Repos |-> << >>]
  /\ catalog = [r \in Repos |-> Uncatalogued]
  /\ link = [e \in Linking |-> NoKeys]
  /\ target = [e \in Linking |-> NoEntity]
  /\ drifted = [r \in Repos |-> FALSE]
  /\ updates = 0
  /\ looked = [r \in Repos |-> NoEntity]

Held(r) == Range(content[r])
Committed(r) == Held(r) \cap {catalog[r][k] : k \in Keys}
IsBound(r) == \E s \in Sessions : r \in Range(bound[s])

\* Mutant: the keys are kept as they were first computed.
AskIdentityOnce(es, newKeys) ==
  identity' = [e \in Entities |->
    IF e \in es /\ identity[e] = NoKeys THEN newKeys[e] ELSE identity[e]]

\* identityKeys depends on the primary keys: asking for it computes it again
\* when one of them changed, and keeps the result in _identityKeys.
AskIdentity(es, newKeys) ==
  identity' = [e \in Entities |-> IF e \in es THEN newKeys[e] ELSE identity[e]]

ReadIdentity(e) ==
  /\ AskIdentity({e}, keys)
  /\ UNCHANGED <<keys, bound, content, catalog, link, target, drifted, updates, looked>>

Counted == updates < MaxUpdates /\ updates' = updates + 1

\* The history of a change of keys, if it was one.
Rekeyed(e) ==
  /\ drifted' = [r \in Repos |-> drifted[r] \/ (keys'[e] # keys[e] /\ e \in Held(r))]
  /\ target' = [l \in Linking |-> IF target[l] = e /\ keys'[e] # keys[e]
                                  THEN NoEntity ELSE target[l]]

\* An assignment to a primary key: no repository is told.
SetKey(e, i, k) ==
  /\ k # keys[e][i]
  /\ keys' = [keys EXCEPT ![e][i] = k]
  /\ Rekeyed(e) /\ Counted
  /\ UNCHANGED <<identity, bound, content, catalog, link, looked>>

-----------------------------------------------------------------------------
(* Building a repository, and committing to it.                              *)

HasKeys(e) == \A i \in Positions : keys[e][i] # NoKey
SameKeys(a, b) == HasKeys(a) /\ keys[a] = keys[b]

\* Nothing keeps a repository from being built with several objects of the same
\* key: a commit under that key will replace the first and leave the others.
Ambiguous(value) == \E m, n \in DOMAIN value : m # n /\ SameKeys(value[m], value[n])

\* A repository binds itself to the session it is given, or to the default
\* one; the objects it is built with enter the content, not the catalog.
NewRepo(r, s, value) ==
  /\ ~IsBound(r)
  /\ bound' = [bound EXCEPT ![s] = Append(@, r)]
  /\ content' = [content EXCEPT ![r] = value]
  /\ drifted' = [drifted EXCEPT ![r] = Ambiguous(value)]
  /\ UNCHANGED <<keys, identity, catalog, link, target, updates, looked>>

\* get_or_create_repo compares the name of a class with a name of the
\* registry, and gives the session to the object, not to the repository.
GetOrCreateRepo(r, s) == NewRepo(r, DefaultSession, << >>)

Taken(r, i) == {keys[c][i] : c \in Held(r)}

\* Mutant: the largest number in use, not the one after it.
LargestKey(used) == CHOOSE n \in used \cup {0} : \A u \in used : u <= n

\* max([-1] + iks) + 1
NextKey(used) == CHOOSE n \in 0..(MaxKey + 1) :
  /\ n - 1 \in used \cup {-1}
  /\ \A u \in used : u < n

\* A missing component is numbered after those of the content; when one of
\* them is None the comparison raises, and the components before it are set.
Numbered(r, e) ==
  LET Fails(i) == keys[e][i] = NoKey /\ NoKey \in Taken(r, i)
      stops == {i \in Positions : Fails(i)}
      reached == {i \in Positions : \A j \in stops : i < j}
  IN [raises |-> stops # {},
      key |-> [i \in Positions |->
                 IF keys[e][i] = NoKey /\ i \in reached
                 THEN NextKey(Taken(r, i)) ELSE keys[e][i]]]

\* Mutant: the object is always added at the end.
PlacedLast(r, e, asked) == Append(content[r], e)

\* The first object of the content with the same identity keys makes place.
Placed(r, e, asked) ==
  LET same == {n \in DOMAIN content[r] : asked[content[r][n]] = asked[e]}
      first == CHOOSE n \in same : \A m \in same : n <= m
  IN IF same = {} THEN Append(content[r], e)
     ELSE [content[r] EXCEPT ![first] = e]

CommitFails(r, e) ==
  /\ Numbered(r, e).raises
  /\ keys' = [keys EXCEPT ![e] = Numbered(r, e).key]
  /\ Rekeyed(e)
  /\ AskIdentity(Held(r) \cup {e}, keys)
  /\ UNCHANGED <<bound, content, catalog, link, looked>>

CommitSucceeds(r, e) ==
  /\ ~Numbered(r, e).raises
  /\ keys' = [keys EXCEPT ![e] = Numbered(r, e).key]
  /\ Rekeyed(e)
  /\ AskIdentity(Held(r) \cup {e}, keys')
  /\ catalog' = [catalog EXCEPT ![r][identity'[e]] = e]
  /\ content' = [content EXCEPT ![r] = Placed(r, e, identity')]
  /\ UNCHANGED <<bound, link, looked>>

Commit(r, e) ==
  /\ IsBound(r)
  /\ \A i \in Positions : Numbered(r, e).key[i] # MaxKey + 1
  /\ Counted
  /\ CommitFails(r, e) \/ CommitSucceeds(r, e)
-----------------------------------------------------------------------------
(* Resolution: in a repository, in a session, through a foreign key.         *)

EligiblePlaces(s) == {n \in DOMAIN bound[s] : bound[s][n] \in Eligible}
Having(s, k) == {n \in EligiblePlaces(s) : catalog[bound[s][n]][k] # NoEntity}
FirstOf(s, places) == bound[s][CHOOSE n \in places : \A m \in places : n <= m]

\* Mutant: the last repository that has the key answers.
SessionFindsLast(s, k) ==
  IF Having(s, k) = {} THEN NoEntity
  ELSE catalog[bound[s][CHOOSE n \in Having(s, k) : \A m \in Having(s, k) : n >= m]][k]

\* Session.resolve_fkey asks every eligible repository in turn.
SessionFinds(s, k) ==
  IF Having(s, k) = {} THEN NoEntity ELSE catalog[FirstOf(s, Having(s, k))][k]

\* ForeignKey._resolve: the first eligible repository raises when it does not
\* have the key, so the others are never asked; without a session a new,
\* empty one is asked.
ForeignKeyFinds(s, k) ==
  IF s = NoSession \/ EligiblePlaces(s) = {} THEN NoEntity
  ELSE catalog[FirstOf(s, EligiblePlaces(s))][k]

\* ForeignKey._convert: a negative integer stands for no key.
Convert(k) == IF Width = 1 /\ k[1] # NoKey /\ k[1] < 0 THEN NoKeys ELSE k

\* The session is asked for the keys that the foreign key has when it is read.
\* The descriptor of a relationship would ask for them too, but reads itself.
Follow(e) == SessionFinds(SessionOf[e], Convert(link[e]))

\* A foreign key is given keys of an entity of the class it refers to.
SetLink(e, t, k) ==
  /\ link' = [link EXCEPT ![e] = k]
  /\ target' = [target EXCEPT ![e] =
       IF SessionOf[e] # NoSession /\ EligiblePlaces(SessionOf[e]) # {}
          /\ t \in Committed(FirstOf(SessionOf[e], EligiblePlaces(SessionOf[e])))
       THEN t ELSE NoEntity]
  /\ UNCHANGED <<keys, bound, content, catalog, drifted, updates, looked>>

\* An entity is converted to the keys it has now.
ForeignKeySet(e, t) == SetLink(e, t, keys[t]) /\ UNCHANGED identity

\* Entity._serialize with its keys asks for them again; what it gives is
\* read as the foreign key of another entity.
SerializeKeys(e, t) == AskIdentity({t}, keys) /\ SetLink(e, t, identity'[t])

\* `keys in repo` and repo.resolve_fkey(keys)
LookUp(r, k) ==
  /\ IsBound(r)
  /\ looked' = [looked EXCEPT ![r] = catalog[r][k]]
  /\ UNCHANGED <<keys, identity, bound, content, catalog, link, target, drifted, updates>>

\* Entity(key) is built with a copy of the entity the session finds.
CopyEntity(e, s, k) ==
  /\ keys[e] = NoKeys /\ \A r \in Repos : e \notin Held(r)
  /\ SessionFinds(s, k) # NoEntity
  /\ keys' = [keys EXCEPT ![e] = keys[SessionFinds(s, k)]]
  /\ AskIdentity({e}, keys')
  /\ Rekeyed(e)
  /\ UNCHANGED <<bound, content, catalog, link, updates, looked>>

Next ==
  \/ \E e \in Entities :
       \/ ReadIdentity(e)
       \/ \E i \in Positions, k \in Components : SetKey(e, i, k)
       \/ \E s \in Sessions, k \in Keys : CopyEntity(e, s, k)
  \/ \E r \in Repos :
       \/ \E s \in Sessions, value \in InitialValues :
            NewRepo(r, s, value)
       \/ \E s \in Sessions : GetOrCreateRepo(r, s)
       \/ \E e \in Entities : Commit(r, e)
       \/ \E k \in Keys : LookUp(r, k)
  \/ \E e \in Linking : \E t \in Entities \ {e} :
       ForeignKeySet(e, t) \/ SerializeKeys(e, t)

Spec == Init /\ [][Next]_vars

-----------------------------------------------------------------------------
(* Properties                                                                *)

\* A repository implements the index it promises: what it finds in its
\* catalog is the one object its content holds under the keys, once keys were
\* committed and as long as no object it holds changes its own, unless it was
\* built with two of one key.
Under(r, k) == {e \in Held(r) : keys[e] = k}
Index(r) == [k \in Keys |->
  IF catalog[r][k] # NoEntity /\ Cardinality(Under(r, k)) = 1
  THEN CHOOSE e \in Under(r, k) : TRUE ELSE NoEntity]
Store == INSTANCE IndexedStore WITH
  Places <- Repos, Values <- Entities, Missing <- NoEntity,
  store <- [r \in Repos |-> Index(r)], answer <- looked
RepositoriesAreIndexes == Store!Spec

\* An object leaves the content of a repository only for one that already had
\* the same keys: a key that the repository gives replaces nothing.
GivenKeysAreNew ==
  [][\A r \in Repos : \A c \in Held(r) \ Held(r)' :
       \E e \in Held(r)' : keys[e] = keys[c]]_vars

\* A foreign key set to an entity that was committed, directly or by way of its
\* serialized keys, carries keys by which the session finds that entity as long
\* as it is there, no entity there changed its keys or was built in with the
\* same, and the key is not a negative integer: what was computed of the keys
\* at the commit, and what is computed when the key is set, do not go stale.
LinksFollow ==
  \A e \in Linking :
    LET r == FirstOf(SessionOf[e], EligiblePlaces(SessionOf[e])) IN
    (/\ target[e] # NoEntity
     /\ target[e] \in Committed(r)
     /\ ~drifted[r]
     /\ Convert(link[e]) = link[e])
      => Follow(e) = target[e]

\* The two ways to resolve a key agree when the foreign key's finds one.
ResolversAgree ==
  \A s \in Sessions, k \in Keys :
    ForeignKeyFinds(s, k) # NoEntity => ForeignKeyFinds(s, k) = SessionFinds(s, k)
=============================================================================
