---------------------------- MODULE InstanceTree ----------------------------
(* Contexts: an object finds its parent, the instance above it and its       *)
(* session in a list of mappings that is made when it is constructed, and    *)
(* replaced when it is put in an array. Canonical names follow the           *)
(* instances above.                                                          *)
EXTENDS Integers, Sequences, FiniteSets, SequencesExt

CONSTANTS Objs,
  Instances,  \* the objects that are instances; the others have no name
  LazyArrays, \* the objects whose array is lazy
  Names, Sessions, Nothing

Contexts == [maps : Seq(Objs), session : Sessions \cup {Nothing}]

ASSUME InstanceTreeAssumption ==
  /\ IsFiniteSet(Objs) /\ Instances \subseteq Objs /\ LazyArrays \subseteq Objs
  /\ Nothing \notin Objs \cup Names \cup Sessions \cup Contexts

VARIABLES
  context,    \* _context: the objects in its maps, and its session; Nothing
              \* before the object is made
  arrays,     \* the context of the array of an object, Nothing before it is made
  name,
  parent, parentInstance,  \* _parent, _parentInstance
  canonicalName,           \* its cache
  owner,      \* history: the object in whose data this one was put last
  regular,    \* history: it was put there by a call that sets its context
  moved,      \* history: it was put somewhere after it was made, or is a copy
  renamed     \* history: the names above changed since canonicalName was cached

contexts == <<context, arrays, parent, parentInstance>>
histories == <<owner, regular, moved>>
vars == <<contexts, name, canonicalName, histories, renamed>>

Default == [maps |-> << >>, session |-> Nothing]   \* DEFAULT_CONTEXT

None == [o \in Objs |-> Nothing]
Init ==
  /\ context = None /\ arrays = None /\ name \in [Instances -> Names]
  /\ parent = None /\ parentInstance = None /\ canonicalName = None
  /\ owner = None /\ regular = [o \in Objs |-> FALSE]
  /\ moved = regular /\ renamed = regular

Made(o) == context[o] # Nothing

\* The chain above an object: the least set that holds what f leads to from it
\* and from its members. f is parentInstance or owner.
Closed(f, S) == \A p \in S : f[p] \in S \cup {Nothing}
Above(f, o) ==
  {p \in Objs : \A S \in SUBSET Objs :
     Closed(f, S) /\ f[o] \in S \cup {Nothing} => p \in S}

-----------------------------------------------------------------------------
(* Contexts                                                                  *)

\* Context._create_context, for an object: its own maps in front of those of
\* the context it is given.
Child(o, c) == [maps |-> <<o>> \o c.maps, session |-> c.session]

First(maps, S, o) ==
  LET at == {i \in DOMAIN maps : maps[i] \in S \ {o}}
  IN IF at = {} THEN Nothing ELSE maps[Min(at)]

\* set_context of the classes of contexts, each after the one it extends.
SetContext(o, c) ==
  /\ context' = [context EXCEPT ![o] = c]
  /\ parent' = [parent EXCEPT ![o] = First(c.maps, Objs, o)]
  /\ parentInstance' = [parentInstance EXCEPT ![o] =
       IF o \in Instances THEN First(c.maps, Instances, o) ELSE Nothing]

\* An array makes no context of its own: it shares that of its object.
ArrayContext(p) == IF arrays[p] # Nothing THEN arrays[p] ELSE context[p]
MakeArray(p) == arrays' = [arrays EXCEPT ![p] = ArrayContext(p)]

-----------------------------------------------------------------------------
(* Objects                                                                   *)

Owned(o, p, sets, moves) ==
  /\ owner' = [owner EXCEPT ![o] = p]
  /\ regular' = [regular EXCEPT ![o] = sets]
  /\ moved' = [moved EXCEPT ![o] = @ \/ moves]

Renamed(o) ==
  renamed' = [q \in Objs |-> canonicalName[q] # Nothing
                             /\ (renamed[q] \/ q = o \/ o \in Above(parentInstance, q))]

New(o, c, session) ==
  /\ ~Made(o)
  /\ SetContext(o, [Child(o, c) EXCEPT !.session = IF session # Nothing THEN session ELSE @])

NewRoot(o, session) ==
  /\ New(o, Default, session) /\ Owned(o, Nothing, TRUE, FALSE)
  /\ UNCHANGED <<arrays, name, canonicalName, renamed>>

\* A property of p that is read for the first time, with the context of p.
ReadChild(o, p) ==
  /\ Made(p) /\ New(o, context[p], Nothing)
  /\ Owned(o, p, TRUE, FALSE)
  /\ UNCHANGED <<arrays, name, canonicalName, renamed>>

\* An item of the array of p, made of data.
ReadItem(o, p) ==
  /\ Made(p) /\ New(o, ArrayContext(p), Nothing) /\ MakeArray(p)
  /\ Owned(o, p, TRUE, FALSE)
  /\ UNCHANGED <<name, canonicalName, renamed>>

\* copy() gives the context of the original to the copy.
Copy(o, p) ==
  /\ Made(p) /\ New(o, context[p], Nothing) /\ Owned(o, Nothing, FALSE, TRUE)
  /\ o \in Instances <=> p \in Instances
  /\ name' = IF o \in Instances THEN [name EXCEPT ![o] = name[p]] ELSE name
  /\ UNCHANGED <<arrays, canonicalName, renamed>>

Elsewhere(o, p) == Made(o) /\ Made(p) /\ p # o /\ o \notin Above(owner, p)

\* Mutant: the item is given a context of its own, under that of its old owner.
InsertAbove(o, p) ==
  /\ Elsewhere(o, p) /\ p \in LazyArrays
  /\ MakeArray(p) /\ SetContext(o, Child(o, context[o]))
  /\ Owned(o, p, TRUE, TRUE) /\ Renamed(o)
  /\ UNCHANGED <<name, canonicalName>>
\* insert: an object put in a lazy array gets the context of the array.
Insert(o, p) ==
  /\ Elsewhere(o, p) /\ p \in LazyArrays
  /\ MakeArray(p) /\ SetContext(o, ArrayContext(p))
  /\ Owned(o, p, TRUE, TRUE) /\ Renamed(o)
  /\ UNCHANGED <<name, canonicalName>>

\* An eager array, and a property, keep the object with the context it has.
InsertEager(o, p) ==
  /\ Elsewhere(o, p) /\ p \notin LazyArrays
  /\ MakeArray(p) /\ Owned(o, p, FALSE, TRUE)
  /\ UNCHANGED <<context, parent, parentInstance, name, canonicalName, renamed>>
Assign(o, p) ==
  /\ Elsewhere(o, p) /\ Owned(o, p, FALSE, TRUE)
  /\ UNCHANGED <<contexts, name, canonicalName, renamed>>

\* What is removed keeps its context.
Remove1(o) ==
  /\ owner[o] # Nothing /\ Owned(o, Nothing, FALSE, TRUE)
  /\ UNCHANGED <<contexts, name, canonicalName, renamed>>

-----------------------------------------------------------------------------
(* Names                                                                     *)

\* Instance._canonicalName; a cycle of parents raises.
HasPath(o) == o \in Instances /\ Made(o) /\ o \notin Above(parentInstance, o)
              /\ \A p \in Above(parentInstance, o) : p \notin Above(parentInstance, p)
Paths(f, n) ==
  LET path[k \in 0..Cardinality(Objs)] ==
        [p \in Instances |-> IF k = 0 \/ f[p] = Nothing THEN <<n[p]>>
                             ELSE Append(path[k - 1][f[p]], n[p])]
  IN path[Cardinality(Objs)]
Path(o) == Paths(parentInstance, name)[o]

CanonicalName(o) == IF canonicalName[o] # Nothing THEN canonicalName[o] ELSE Path(o)

ReadCanonicalName(o) ==
  /\ HasPath(o)
  /\ canonicalName' = [canonicalName EXCEPT ![o] = CanonicalName(o)]
  /\ UNCHANGED <<contexts, name, histories, renamed>>

\* Mutant: the canonical name does not depend on the name.
RenameOnly(o, n) ==
  /\ o \in Instances /\ Made(o) /\ n # name[o]
  /\ name' = [name EXCEPT ![o] = n] /\ UNCHANGED canonicalName
  /\ renamed' = [q \in Objs |-> canonicalName[q] # Nothing
                   /\ (renamed[q] \/ o \in Above(parentInstance, q))]
  /\ UNCHANGED <<contexts, histories>>
\* get_canonicalName depends on the property name of the same object.
Rename(o, n) ==
  /\ o \in Instances /\ Made(o) /\ n # name[o]
  /\ name' = [name EXCEPT ![o] = n]
  /\ canonicalName' = [canonicalName EXCEPT ![o] = Nothing]
  /\ renamed' = [q \in Objs |-> q # o /\ canonicalName[q] # Nothing
                   /\ (renamed[q] \/ o \in Above(parentInstance, q))]
  /\ UNCHANGED <<contexts, histories>>

Next ==
  \/ \E o \in Objs :
       \/ \E s \in Sessions \cup {Nothing} : NewRoot(o, s)
       \/ Remove1(o) \/ ReadCanonicalName(o)
       \/ \E n \in Names : Rename(o, n)
  \/ \E o, p \in Objs :
       \/ ReadChild(o, p) \/ ReadItem(o, p) \/ Copy(o, p)
       \/ Insert(o, p) \/ InsertEager(o, p) \/ Assign(o, p)

Spec == Init /\ [][Next]_vars

-----------------------------------------------------------------------------
(* Properties                                                                *)

\* The nearest instance among the owners of an object, if there is one: the
\* chain of its owners ends at the first instance.
OwnerInstance(o) ==
  LET until == [p \in Objs |-> IF p \in Instances \ {o} THEN Nothing ELSE owner[p]]
  IN Above(until, o) \cap Instances

\* Where an object was put by a call that sets contexts, and none of the owners
\* above was itself put elsewhere, its parent is the object that holds it, its
\* session that of its parent, and the instance above it the nearest of its
\* owners.
ParentsFollowOwners ==
  \A o \in Objs :
    Made(o) /\ regular[o] /\ (\A p \in Above(owner, o) : regular[p] /\ ~moved[p]) =>
      /\ parent[o] = owner[o]
      /\ owner[o] # Nothing => context[o].session = context[owner[o]].session
      /\ o \in Instances => {parentInstance[o]} \ {Nothing} = OwnerInstance(o)

\* A cached canonical name is made of the names above the instance, unless one
\* of these was renamed or put elsewhere since it was cached. (Two tests say that it
\* follows a renaming: "change name and check propagation", test_relationship.py:38-44,
\* and test_cache_invalidation.py:33-35. It does not: get_canonicalName depends on
\* the name of the instance alone.)
NamesAreCurrent ==
  \A o \in Instances : HasPath(o) /\ ~renamed[o] => CanonicalName(o) = Path(o)
=============================================================================
