---------------------------- MODULE TypeBuilder ----------------------------
(***************************************************************************)
(* The type builder turns schemas into classes.  A schema names others, as *)
(* parents (extends), as inner definitions ($defs), as the types of its    *)
(* properties and items, as the target of a $ref or of a foreign key, and  *)
(* building one class loads those others first: TypeBuilder.load and       *)
(* TypeBuilder.build call each other through the build functions of        *)
(* objects, arrays and literals, on one registry and one table of classes  *)
(* under construction.  A schema met again while it is being built is      *)
(* answered with a TypeProxy, a class that looks its id up when used.      *)
(*                                                                         *)
(* A call in progress is a frame: the id it builds, the calls it has still *)
(* to make, in order, and the classes it got.  The lowest frame is the     *)
(* program.  Classes are numbered in the order they are made.              *)
(***************************************************************************)
EXTENDS Integers, Sequences, FiniteSets, SequencesExt

CONSTANTS
    Ids,        \* uris of schemas: definitions and paths inside them
    Schema,     \* [Ids -> schema], see SchemaSpace
    DocOf,      \* [Ids -> the document that holds the schema]
    Broken,     \* ids whose class cannot be created (a default of a wrong type, bases in conflict)
    Named,      \* the ids the program loads
    Redefined,  \* the ids for which the program writes a class of its own
    MaxCalls,   \* bound on the calls the program makes
    None

Docs == {DocOf[id] : id \in Ids}

\* A $ref takes every other branch's place; type is None when the key is missing.
\* more: an alias has keywords beside its $ref.  parts: the types of properties and items.
\* foreign: the schema of a foreign key; related: those of the foreign keys among the parts.
SchemaSpace ==
    [kind : {"alias", "object", "array", "literal", "constant"}, type : {"object", "array", "literal", None},
     target : Ids \cup {None}, more : BOOLEAN, extends : Seq(Ids), defs : Seq(Ids), parts : Seq(Ids),
     foreign : Ids \cup {None}, related : Seq(Ids)]

ASSUME IdsAssumption ==
    /\ IsFiniteSet(Ids) /\ None \notin Ids /\ None \notin Nat
    /\ Named \subseteq Ids /\ Redefined \subseteq Ids /\ Broken \subseteq Ids
ASSUME SchemaAssumption == Schema \in [Ids -> SchemaSpace] /\ MaxCalls \in Nat
\* A type beside a $ref is one more keyword; a literal that extends another cannot be made.
ASSUME AliasAssumption ==
    \A id \in Ids :
        /\ (Schema[id].kind = "alias") = (Schema[id].target # None)
        /\ Schema[id].kind = "alias" /\ Schema[id].type # None => Schema[id].more
        /\ Schema[id].kind = "literal" /\ Schema[id].extends # <<>> => id \in Broken
ASSUME RelatedAssumption ==
    \A id \in Ids : Schema[id].kind = "object" =>
        ToSet(Schema[id].related) = {Schema[p].foreign : p \in ToSet(Schema[id].parts)} \ {None}

VARIABLES
    docs,               \* documents in the store of the resolver
    registry,           \* _registry: [Ids -> number of a class, or None]
    underConstruction,  \* the keys of _on_construction
    made,               \* every class made so far
    stack,              \* calls in progress, the innermost last
    calls               \* calls made by the program, for the bound

vars == <<docs, registry, underConstruction, made, stack, calls>>

-----------------------------------------------------------------------------
(* What a schema makes its builder ask for.                                 *)

Load(id) == [op |-> "load", id |-> id]
Build(id) == [op |-> "build", id |-> id]    \* the caller has the schema at hand

Loads(s) == [i \in DOMAIN s |-> Load(s[i])]
Builds(s) == [i \in DOMAIN s |-> Build(s[i])]
Maybe(id) == IF id = None THEN <<>> ELSE <<Load(id)>>

\* ObjectProtocol.build: parents, inner definitions, properties, then the
\* relationships that foreign keys make.
ObjectCalls(s) == Loads(s.extends) \o Loads(s.defs) \o Builds(s.parts) \o Loads(s.related)

\* TypeProtocol.build, for a literal and for what is left of an alias without its $ref.
LiteralCalls(s) == Loads(s.extends) \o Maybe(s.foreign)

CallsOf(id) ==
    LET s == Schema[id]
    IN  CASE s.kind = "alias"    -> Maybe(s.target) \o (IF s.more THEN LiteralCalls(s) ELSE <<>>)
          [] s.kind = "object"   -> ObjectCalls(s)
          [] s.kind = "array"    -> Builds(s.parts)
          [] s.kind = "literal"  -> LiteralCalls(s)
          [] s.kind = "constant" -> <<>>

\* How many of the calls of id, from the first, are for bases of its class.
Parents(id) ==
    LET s == Schema[id]
    IN  CASE s.kind = "alias"                -> 1 + Len(s.extends)
          [] s.kind \in {"object", "literal"} -> Len(s.extends)
          [] s.kind \in {"array", "constant"} -> 0

Frame(id, todo) == [id |-> id, todo |-> todo, got |-> <<>>]

Idle == stack = <<>>
Top == Last(stack)
Running == ~Idle /\ Top.todo # <<>>
Asked == Head(Top.todo)

\* A frame takes the class c for the call it was making.
Answered(f, c) == [id |-> f.id, todo |-> Tail(f.todo), got |-> Append(f.got, c)]
Received(s, c) == Append(Front(s), Answered(Last(s), c))

-----------------------------------------------------------------------------
(* The steps of load and build.                                             *)

\* Mutant: build does not look in the registry first.
UnregisteredAlways(id) == id \in Ids

Unregistered(id) == registry[id] = None

\* The id has a class: load and build return it.
Found ==
    /\ Running /\ ~Unregistered(Asked.id)
    /\ stack' = Received(stack, registry[Asked.id])
    /\ UNCHANGED <<docs, registry, underConstruction, made, calls>>

Met == Running /\ Unregistered(Asked.id) /\ Asked.id \in underConstruction

\* TypeProxy.build: another proxy for an id under construction.
Proxied ==
    /\ Met /\ Schema[Asked.id].type # None
    /\ made' = Append(made, [id |-> Asked.id, what |-> "proxy", bases |-> <<>>, parts |-> <<>>])
    /\ stack' = Received(stack, Len(made'))
    /\ UNCHANGED <<docs, registry, underConstruction, calls>>

\* Mutant: build does not look at what is under construction.
FreshUnmarked(id) == Unregistered(id)

\* Mutant: build looks only at what is under construction.
FreshRegistered(id) == id \notin underConstruction

Fresh(id) == Unregistered(id) /\ id \notin underConstruction

\* A load has to find the schema; a build was given it.
Resolved(c) == c.op = "build" \/ DocOf[c.id] \in docs

\* Mutant: the registry gets the number of the class made before.
ConstantEarly ==
    /\ Running /\ Fresh(Asked.id) /\ Resolved(Asked) /\ Schema[Asked.id].kind = "constant"
    /\ made' = Append(made, [id |-> Asked.id, what |-> "constant", bases |-> <<>>, parts |-> <<>>])
    /\ registry' = IF Asked.op = "load" THEN [registry EXCEPT ![Asked.id] = Len(made)] ELSE registry
    /\ stack' = Received(stack, Len(made'))
    /\ UNCHANGED <<docs, underConstruction, calls>>

\* A schema that is true or false: load registers the answer, build does not.
Constant ==
    /\ Running /\ Fresh(Asked.id) /\ Resolved(Asked) /\ Schema[Asked.id].kind = "constant"
    /\ made' = Append(made, [id |-> Asked.id, what |-> "constant", bases |-> <<>>, parts |-> <<>>])
    /\ registry' = IF Asked.op = "load" THEN [registry EXCEPT ![Asked.id] = Len(made')] ELSE registry
    /\ stack' = Received(stack, Len(made'))
    /\ UNCHANGED <<docs, underConstruction, calls>>

\* The call starts a build of its own.
Descend ==
    /\ Running /\ Fresh(Asked.id) /\ Resolved(Asked) /\ Schema[Asked.id].kind # "constant"
    /\ underConstruction' = underConstruction \cup {Asked.id}
    /\ stack' = Append(stack, Frame(Asked.id, CallsOf(Asked.id)))
    /\ UNCHANGED <<docs, registry, made, calls>>

Finishing == ~Idle /\ Top.todo = <<>> /\ Top.id # None

\* An alias with nothing but its $ref is the class it refers to.
Same(id) == Schema[id].kind = "alias" /\ ~Schema[id].more

NewClass(f) ==
    [id |-> f.id, what |-> "class", bases |-> SubSeq(f.got, 1, Parents(f.id)),
     parts |-> SubSeq(f.got, Parents(f.id) + 1, Len(f.got))]

\* Mutant: build leaves the registration to load.
RegisteredByLoad(f, c) ==
    IF Head(stack[Len(stack) - 1].todo).op = "load" THEN [registry EXCEPT ![f.id] = c] ELSE registry

\* The registry once the class c of the frame f is made.
Registered(f, c) == [registry EXCEPT ![f.id] = c]

\* Mutant: the id is not taken out.
LeftMarked(f) == underConstruction \cup {f.id}

\* What is still under construction after the frame f.
Left(f) == underConstruction \ {f.id}

\* Everything the class needs is there: it is made, registered and handed to the caller.
Finish ==
    /\ Finishing /\ Top.id \notin Broken
    /\ made' = IF Same(Top.id) THEN made ELSE Append(made, NewClass(Top))
    /\ LET c == IF Same(Top.id) THEN Top.got[1] ELSE Len(made')
       IN  /\ registry' = Registered(Top, c)
           /\ stack' = Received(Front(stack), c)
    /\ underConstruction' = Left(Top)
    /\ UNCHANGED <<docs, calls>>

\* An exception leaves every call in progress; none of them cleans up behind itself.
Abandon ==
    /\ stack' = <<>>
    /\ UNCHANGED <<docs, registry, underConstruction, made, calls>>

\* Mutant: the build waits for the document.
UnresolvableWaits == Running /\ Fresh(Asked.id) /\ ~Resolved(Asked) /\ UNCHANGED vars

\* No document, no such definition.
Unresolvable == Running /\ Fresh(Asked.id) /\ ~Resolved(Asked) /\ Abandon

\* TypeProxy.build reads the type of the schema: a $ref alone has none.
Untyped == Met /\ Schema[Asked.id].type = None /\ Abandon

Uncreatable == Finishing /\ Top.id \in Broken /\ Abandon

\* The program has its class.
Return ==
    /\ ~Idle /\ Top.id = None /\ Top.todo = <<>>
    /\ Abandon

Step ==
    \/ Found \/ Proxied \/ Constant \/ Descend \/ Finish
    \/ Unresolvable \/ Untyped \/ Uncreatable \/ Return

-----------------------------------------------------------------------------
(* What the program does, between calls.                                    *)

Calling == Idle /\ calls < MaxCalls /\ calls' = calls + 1

\* load_schema and load_schema_file put a document in the store.
RegisterDoc(d) ==
    /\ Calling /\ docs' = docs \cup {d}
    /\ UNCHANGED <<registry, underConstruction, made, stack>>

LoadType(id) ==
    /\ Calling /\ stack' = <<Frame(None, <<Load(id)>>)>>
    /\ UNCHANGED <<docs, registry, underConstruction, made>>

\* class X(with_metaclass(SchemaMetaclass)) with the _id of a schema: the entry
\* of the registry goes, and the class is built again.
DefineClass(id) ==
    /\ Calling /\ DocOf[id] \in docs
    /\ registry' = [registry EXCEPT ![id] = None]
    /\ stack' = <<Frame(None, <<Build(id)>>)>>
    /\ UNCHANGED <<docs, underConstruction, made>>

Call ==
    \/ \E d \in Docs \ docs : RegisterDoc(d)
    \/ \E id \in Named : LoadType(id)
    \/ \E id \in Redefined : DefineClass(id)

\* The bound on calls is the model's only end.
Over == Idle /\ calls = MaxCalls /\ UNCHANGED vars

Init ==
    /\ docs \in SUBSET Docs
    /\ registry = [id \in Ids |-> None]
    /\ underConstruction = {}
    /\ made = <<>> /\ stack = <<>> /\ calls = 0

Next == Step \/ Call \/ Over

\* One thread runs a call to its end.
Spec == Init /\ [][Next]_vars /\ WF_vars(Step)

-----------------------------------------------------------------------------
(* Properties.                                                              *)

\* Classes and frames when n classes are made.
ClassSpace(n) == [id : Ids, what : {"class", "proxy", "constant"}, bases : Seq(1..n), parts : Seq(1..n)]
CallSpace == [op : {"load", "build"}, id : Ids]
FrameSpace(n) == [id : Ids \cup {None}, todo : Seq(CallSpace), got : Seq(1..n)]

\* Everything has the type the code gives it, and whatever refers to a class
\* refers to one that is made.
TypeOK ==
    /\ docs \subseteq Docs /\ underConstruction \subseteq Ids /\ calls \in 0..MaxCalls
    /\ registry \in [Ids -> 1..Len(made) \cup {None}]
    /\ made \in Seq(ClassSpace(Len(made)))
    /\ stack \in Seq(FrameSpace(Len(made)))

\* The frames above the program's.
InBuild == 2..Len(stack)

\* No id is built inside its own build, and what is being built is marked:
\* the table of classes under construction stops the recursion of cyclic schemas.
NoReentry ==
    /\ \A i, j \in InBuild : stack[i].id = stack[j].id => i = j
    /\ \A i \in InBuild : stack[i].id \in underConstruction

\* An id under construction has no class yet, also when a call was abandoned
\* half way: no half-built class is ever found in the registry.
MarkedIsUnregistered == \A id \in underConstruction : registry[id] = None

\* A class once registered keeps its id, whatever is loaded or fails later,
\* until the program writes a class of its own for that id.
ClassesAreKept ==
    [][\A id \in Ids : registry[id] # None => registry'[id] = registry[id] \/ DefineClass(id)]_vars

\* The class a use of the class c ends at: a proxy hands over to the class
\* registered for its id, if there is one.
HandedTo(c) ==
    IF made[c].what = "proxy" /\ registry[made[c].id] # None THEN registry[made[c].id] ELSE c
EndOf(c) ==
    LET after[n \in 0..Cardinality(Ids)] == IF n = 0 THEN c ELSE HandedTo(after[n - 1])
    IN  after[Cardinality(Ids)]

\* Between calls every proxy ends at a class, and so the cycles of the schemas
\* are closed; the exceptions are proxies of ids whose build was abandoned.
ProxiesResolve ==
    Idle => \A c \in DOMAIN made :
        LET end == made[EndOf(c)]
        IN  end.what = "proxy" => end.id \in underConstruction

\* A registered class and the registry agree on the types of its properties and
\* on its parents: they are the registered classes of their ids, proxies and ids
\* that the program defines itself apart.
PartsAreRegistered ==
    \A id \in Ids : registry[id] # None =>
        LET c == made[registry[id]]
        IN  \A p \in ToSet(c.bases \o c.parts) :
                made[p].what = "class" /\ made[p].id \notin Redefined => registry[made[p].id] = p

\* Every call of the program ends, with a class or an exception, whatever the
\* cycles of the schemas.
CallsEnd == ~Idle ~> Idle
=============================================================================
