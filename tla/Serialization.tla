--------------------------- MODULE Serialization ---------------------------
(* Objects of the classes of ClassAssembly between the mapping they are read *)
(* from and the mapping they are written to: the order in which the values   *)
(* of a mapping are evaluated, what is filled in when it is read, and what   *)
(* is left out when it is written. A value is one of Literals or             *)
(*   [kind |-> "object", cls, val]     an object, every property has a value *)
(*   [kind |-> "mapping", schema, val] what an object is written as          *)
(*   [kind |-> "array", items]                                               *)
(* An item of an array that is None was not read: it becomes an object of    *)
(* defaults if it is read. No array of an object is None. The order inside a *)
(* set of keys is not fixed: an order is a sequence of sets. Prefixes of     *)
(* names are left out.                                                       *)
EXTENDS ClassAssembly

CONSTANTS Mappings,  \* <<id, values>>: the mappings given to a class, by key
          Objects,   \* objects the program holds
          Options,   \* of a serialization: [excludes, only, no_defaults,
                     \* no_readOnly, again: whether values are evaluated again]
          Plain,     \* values of types Object that no class is made of:
                     \* [required, readOnly, val]
          LiteralValues    \* literals that a program may give

VARIABLE excludes    \* the default list of excluded keys of _print_order

svars == <<class, excludes>>

---------------------------------------------------------------------------
(* Order of evaluation                                                       *)

(* Object._items_type: a property, or what a pattern says of the name, or    *)
(* any additional key; the additional type is not inherited                  *)
PropertyType(i, k) ==
  LET matching == {p \in class[i].patterns : k \in p.names}
  IN  CASE k \in DOMAIN class[i].props -> class[i].props[k].ty
        [] matching # {}              -> (CHOOSE p \in matching : TRUE).ty
        [] OTHER                      -> class[i].additional

(* ObjectProtocol._items_type: the name that an alias stands for is          *)
(* overwritten by that of a negated one, which alone is looked up            *)
TypeOf(i, k) == PropertyType(i, IF k \in DOMAIN class[i].negated THEN class[i].negated[k] ELSE k)

(* _inputs: the keys of the object that a value mentions, or its default if  *)
(* there is no value; of an object, the names of the keys its class requires *)
Inputs(i, k, v) ==
  LET ty == TypeOf(i, k)
  IN  DOMAIN class[i].props \cap
      (CASE v.kind = "mapping" /\ ty.kind = "object" /\ v.val # << >> -> class[ty.of].required
         [] OTHER -> Mentions(IF v = None THEN ty.dft ELSE v))

(* what is not validated is not looked at *)
ValueInputs(i, m) ==
  NonEmpty([k \in DOMAIN m \ class[i].notValidated |-> Inputs(i, k, m[k])])

(* Mutant: the dependencies that the values bring replace those of the class. *)
CallDepsOfValues(i, m) == ValueInputs(i, m) @@ class[i].deps

(* ObjectProtocol._call_order: the dependencies of the class and of the values *)
CallDeps(i, m) ==
  Gathered({class[i].deps, ValueInputs(i, m)})

(* topological_sort: what is left after n rounds that each take the keys     *)
(* that depend on none of those left                                         *)
Left(deps) ==
  LET all  == DOMAIN deps \cup UNION {deps[k] : k \in DOMAIN deps}
      of   == [k \in all |-> IF k \in DOMAIN deps THEN deps[k] \ {k} ELSE {}]
      f[n \in 0..Cardinality(all)] ==
        IF n = 0 THEN all ELSE {k \in f[n - 1] : of[k] \cap f[n - 1] # {}}
  IN  f

Cyclic(deps) == LET f == Left(deps) IN f[Cardinality(f[0])] # {}

Levels(deps) == LET f == Left(deps) IN [n \in 1..Cardinality(f[0]) |-> f[n - 1] \ f[n]]

(* ObjectDeserializer._call_order: the class method asks ObjectDeserializer,  *)
(* which requires nothing, for an order of the keys that are there.          *)
Ordered(keys, levels) ==
  [n \in DOMAIN levels |-> levels[n] \cap keys] \o <<keys \ UNION ToSet(levels)>>

CallOrder(i, m) == Ordered(DOMAIN m, Levels(CallDeps(i, m)))

(* topological_sort asserts that nothing is left; it is not asked about no keys *)
CallOrderRaises(i, m) == m # << >> /\ Cyclic(CallDeps(i, m))

(* The sets of the class are those of the local copy: what the values bring  *)
(* is added to them, and a key that depends on itself is removed.            *)
Evaluate(i, m) ==
  /\ i \in DOMAIN class
  /\ class' = [class EXCEPT ![i].deps = [k \in DOMAIN @ |->
                 IF m = << >> THEN CallDeps(i, m)[k] ELSE CallDeps(i, m)[k] \ {k}]]
  /\ UNCHANGED excludes

---------------------------------------------------------------------------
(* Reading a mapping                                                         *)

(* The fields of a type that a schema leaves out *)
Literal      == [kind |-> "literal", of |-> "literal", min |-> 0, name |-> "string", enum |-> << >>, dft |-> None,
                 format |-> "none", refused |-> {}, keys |-> << >>, to |-> "none", ptr |-> "none", list |-> << >>,
                 split |-> FALSE]
ObjectOf(c)  == [Literal EXCEPT !.kind = "object", !.of = c, !.name = "object"]

Arrayed(items) == [kind |-> "array", items |-> items]
Mapped(m)      == [kind |-> "mapping", schema |-> "none", val |-> m]

GivenItems(ty) == IF ty.dft = None THEN << >> ELSE ty.dft.items

(* Array.default: an item that is false is its own default, if it has one *)
DefaultItems(ty) ==
  [n \in DOMAIN GivenItems(ty) |->
     LET t == ItemType(ty, n)
         v == GivenItems(ty)[n]
     IN  IF ~IsFalse(v) THEN v ELSE IF HasDefault(t) THEN t.dft ELSE None]

(* ArrayDeserializer._deserialize: what is false, an empty array too, stands *)
(* for the default; a string may be split; and there are at least minItems   *)
Items(ty, v) ==
  LET given == CASE IsFalse(v) \/ (v.kind = "array" /\ v.items = << >>) -> GivenItems(ty)
                 [] v.kind \in {"array", "tuple"} -> v.items
                 [] IsString(v) /\ ty.split -> Parts(v)
                 [] OTHER -> <<v>>
  IN  given \o [n \in 1..ty.min - Len(given) |-> None]

(* Mutant: a mapping is read as the class of its property, whatever its $schema. *)
ReadClassOfType(ty, v) == ty.of

ReadClass(ty, v) == IF v.schema = "none" THEN ty.of ELSE v.schema

Opposite(v) == CASE v.kind = "Decimal" -> Dec(-v.halves)
                 [] v.kind = "int"     -> Whole(-v.n)
                 [] OTHER              -> Error

(* A name is an alias when the class of the mapping says so; the alias is    *)
(* taken out and its value, or the opposite of it, is that of the key.       *)
Renamed(c, m) ==
  LET Key(a, f) == {k \in DOMAIN m \cap DOMAIN f : f[k] = a}
      as  == class[c].aliases
      neg == class[c].negated
      out == DOMAIN m \cap (DOMAIN as \cup DOMAIN neg)
  IN  [k \in (DOMAIN m \ out) \cup {as[a] : a \in out \cap DOMAIN as} \cup {neg[a] : a \in out \cap DOMAIN neg} |->
         CASE Key(k, neg) # {} -> Opposite(m[CHOOSE a \in Key(k, neg) : TRUE])
           [] Key(k, as) # {}  -> m[CHOOSE a \in Key(k, as) : TRUE]
           [] OTHER            -> m[k]]

(* ObjectDeserializer._validate: required, neither given nor a property *)
Missing(c, m) == class[c].required \ (DOMAIN m \cup DOMAIN class[c].props)

(* Object._validate: neither a property, nor of a pattern, nor allowed *)
Unexpected(c, m) == {k \in DOMAIN m : TypeOf(c, k).name = "false"}

RECURSIVE Read(_, _)

(* TypeProtocol.default, ArrayProtocol.default; no object has a default *)
DefaultOf(ty) ==
  CASE ty.kind = "array"  -> Read(ty, Arrayed(DefaultItems(ty)))
    [] ty.kind = "object" -> None
    [] OTHER              -> Evaluated(ty, None, FALSE)

(* Collection._deserialize of an array, an item of which is read when it is  *)
(* used; there is no type for an item after the last of a list               *)
ReadArray(ty, v) ==
  LET items == Items(ty, v)
      Typeless(n) == ty.list # << >> /\ n > Len(ty.list)
  IN  Arrayed([n \in DOMAIN items |-> IF Typeless(n) THEN Error ELSE Read(ItemType(ty, n), items[n])])

(* Object._deserialize: what a property that is not given is read as, its    *)
(* default if the class has one for it. A default that is false is none,     *)
(* unless an attribute gave it. (A key that depends on others is evaluated   *)
(* even if it is None: ItemCache.)                                           *)
DefaultAt(c, k) == IF k \in class[c].dflt THEN DefaultOf(TypeOf(c, k)) ELSE None

WithDefaults(c, m) ==
  [k \in DOMAIN m \cup DOMAIN class[c].props |->
     IF k \in DOMAIN m THEN Read(TypeOf(c, k), m[k]) ELSE DefaultAt(c, k)]

(* ObjectProtocol._deserialize *)
ReadObject(c, given) ==
  LET m == Renamed(c, given)
  IN  IF Missing(c, m) # {} \/ Unexpected(c, m) # {} THEN Error
      ELSE [kind |-> "object", cls |-> c, val |-> WithDefaults(c, m)]

(* CollectionProtocol._items_evaluate: what is made of a value when it is    *)
(* read. No value is read as none, a key that is not given has its default,  *)
(* and what may be anything is kept as it is.                                *)
Read(ty, v) ==
  CASE v = None \/ ty.name = "true" -> v
    [] ty.kind = "array"            -> ReadArray(ty, v)
    [] ty.kind = "object"           -> IF v.kind = "mapping" THEN ReadObject(ReadClass(ty, v), v.val) ELSE Error
    [] OTHER                        -> Evaluated(ty, v, FALSE)

---------------------------------------------------------------------------
(* Writing an object                                                         *)

TypeAt(o, k) == TypeOf(o.cls, k)

(* Mutant: the default list is used for every object. *)
HiddenShared(o, x) ==
  excludes \cup x.excludes \cup class[o.cls].notSerialized
           \cup (IF x.no_readOnly THEN class[o.cls].readOnly ELSE {})

(* CollectionProtocol._serialize makes a list of its own of what is excluded, *)
(* and _print_order adds the read only keys to it. The objects below are      *)
(* given that list.                                                           *)
Hidden(o, x) ==
  x.excludes \cup class[o.cls].notSerialized
             \cup (IF x.no_readOnly THEN class[o.cls].readOnly ELSE {})

IsIncluded(o, k, x, hidden) ==
  k \notin hidden /\ (x.only = {} \/ k \in x.only) /\ (x.no_defaults => o.val[k] # None)

SameValue(v, w) == IF IsNumber(v) THEN Equal(v, w) ELSE v = w

(* Object._print_order: the required keys always, what is not its default *)
Printed(o, x, hidden) ==
  {k \in DOMAIN o.val :
     /\ k \in class[o.cls].required \/ IsIncluded(o, k, x, hidden)
     /\ ~(x.no_defaults /\ HasDefault(TypeAt(o, k)) /\ SameValue(o.val[k], DefaultOf(TypeAt(o, k))))}

(* The aliases of the class that writes, which is that of the property, come *)
(* besides the keys they stand for.                                          *)
Aliased(names, ret, x) ==
  {a \in DOMAIN names \ x.excludes : /\ x.only = {} \/ a \in x.only
                                     /\ names[a] \in DOMAIN ret /\ ret[names[a]] # None}

(* Object._null: what is printed has no value before its items are written *)
Nulled(o, x, hidden) == [k \in Printed(o, x, hidden) |-> None]

RECURSIVE Written(_, _, _)

(* Collection._serialize of an object: the value of each key that is         *)
(* included, with the list of what is hidden and no more of what was asked   *)
WrittenKeys(o, x, hidden, nulled) ==
  [k \in DOMAIN nulled |->
     IF IsIncluded(o, k, x, hidden)
     THEN Written(TypeAt(o, k), o.val[k], [x EXCEPT !.excludes = hidden, !.only = {}])
     ELSE nulled[k]]

WrittenItems(o, x) == WrittenKeys(o, x, Hidden(o, x), Nulled(o, x, Hidden(o, x)))

(* ObjectProtocol._serialize: the aliases are those of the class of the      *)
(* property, and the class is named when it is not that of the property      *)
WithAliases(as, neg, ret, x) ==
  [a \in Aliased(neg, ret, x) |-> Opposite(ret[neg[a]])] @@ [a \in Aliased(as, ret, x) |-> ret[as[a]]] @@ ret

WrittenObject(c, o, x) ==
  [kind |-> "mapping", schema |-> IF o.cls = c THEN "none" ELSE o.cls,
   val  |-> WithAliases(class[c].aliases, class[c].negated, WrittenItems(o, x), x)]

(* ArraySerializer._serialize: the items come in their order, and those      *)
(* after the last of a list type have no value                               *)
WrittenArray(ty, v, x) ==
  [v EXCEPT !.items = [n \in DOMAIN @ |->
     IF (@[n] = None /\ x.no_defaults) \/ (ty.list # << >> /\ n > Len(ty.list)) THEN None
     ELSE Written(ItemType(ty, n), @[n], x)]]

(* _True._serialize: an object is written by its own class *)
WritingClass(ty, o) == IF ty.name = "true" THEN o.cls ELSE ty.of

(* A value by its type. No object is an empty mapping if defaults are asked  *)
(* for, and an object that may be anything does not say its class.           *)
Written(ty, v, x) ==
  CASE v.kind = "object" -> WrittenObject(WritingClass(ty, v), v, x)
    [] ty.kind = "array" -> WrittenArray(ty, v, x)
    [] ty.kind = "object" -> Mapped(<< >>)
    [] OTHER -> Serialized(ty, v, x.again)

---------------------------------------------------------------------------
(* Asking an object for a value by name: relationships and dotted names are  *)
(* left out, and so is the cache of names, which a class shares with one it  *)
(* extends                                                                   *)

(* What a name stands for, before anything is looked up *)
Meant(c, name) ==
  LET f == class[c].negated @@ [n \in {name} |-> name]
      g == class[c].aliases @@ [n \in {f[name]} |-> f[name]]
  IN  g[f[name]]

(* ObjectProtocol._properties_raw_trans: a property comes before an alias,   *)
(* and any other name is a key where additional ones are allowed             *)
RawName(c, name) ==
  CASE name \in DOMAIN class[c].props   -> name
    [] name \in DOMAIN class[c].aliases -> class[c].aliases[name]
    [] name \in DOMAIN class[c].negated -> class[c].negated[name]
    [] class[c].additional.name # "false" -> name
    [] OTHER -> "none"

Signed(o, name, v) == IF name \in DOMAIN class[o.cls].negated THEN Opposite(v) ELSE v

(* ObjectProtocol.__getitem__; a key that is not there raises. The sign is   *)
(* that of the key the name has become: a negated alias gives the value      *)
(* itself.                                                                   *)
Item(o, name) ==
  LET key == Meant(o.cls, name)
      raw == RawName(o.cls, key)
  IN  IF raw \in DOMAIN o.val THEN Signed(o, key, o.val[raw]) ELSE Error

(* ObjectProtocol.__getattr__: a name that is not there has no value, if     *)
(* additional ones are allowed and it is not required                        *)
Attribute(o, name) ==
  LET key  == Meant(o.cls, name)
      more == class[o.cls].additional.name # "false"
  IN  CASE key \in DOMAIN class[o.cls].props -> Signed(o, key, o.val[key])
        [] more /\ key \in DOMAIN o.val -> Signed(o, key, Item(o, key))
        [] more /\ key \notin DOMAIN o.val \cup class[o.cls].required -> None
        [] OTHER -> Error

(* Mutant: a value set under a negated alias is set to the key as it is. *)
AssignedUnsigned(o, name, v) ==
  LET raw == RawName(o.cls, name)
  IN  CASE raw \in DOMAIN class[o.cls].props -> [o EXCEPT !.val[raw] = Read(TypeOf(o.cls, raw), v)]
        [] class[o.cls].additional.name # "false" -> [o EXCEPT !.val = [k \in {name} |-> v] @@ @]
        [] OTHER -> Error

(* ObjectProtocol.__setitem__: a property is set to what is read of the      *)
(* value, any other name to the value itself if additional ones are allowed  *)
Assigned(o, name, v) ==
  LET raw == RawName(o.cls, name)
  IN  CASE raw \in DOMAIN class[o.cls].props -> [o EXCEPT !.val[raw] = Read(TypeOf(o.cls, raw), Signed(o, name, v))]
        [] class[o.cls].additional.name # "false" -> [o EXCEPT !.val = [k \in {name} |-> Signed(o, name, v)] @@ @]
        [] OTHER -> Error

(* Object._serialize of a type that is no class: its _print_order is given   *)
(* the default list                                                          *)
PlainPrinted(p) == {k \in DOMAIN p.val : k \in p.required \/ (k \notin excludes /\ p.val[k] # None)}

RECURSIVE ClassesIn(_)
ClassesIn(v) == CASE v.kind = "object" -> {v.cls} \cup UNION {ClassesIn(v.val[k]) : k \in DOMAIN v.val}
                  [] v.kind = "array"  -> UNION {ClassesIn(w) : w \in ToSet(v.items)}
                  [] OTHER             -> {}

(* ObjectProtocol.__repr__ asks for the keys that are not read only, without *)
(* a list: they are added to the default one, for good. So does a plain      *)
(* object that is written without its read only keys.                        *)
Represent(o) ==
  /\ ClassesIn(o) \subseteq DOMAIN class
  /\ excludes' = excludes \cup class[o.cls].readOnly
  /\ UNCHANGED class

WritePlain(p) ==
  /\ excludes' = excludes \cup p.readOnly
  /\ UNCHANGED class

---------------------------------------------------------------------------
SInit == Init /\ excludes = {}

SNext == \/ \E i \in Ids : Load(i) /\ UNCHANGED excludes
         \/ \E m \in Mappings : Evaluate(m[1], m[2])
         \/ \E o \in Objects : Represent(o)
         \/ \E p \in Plain : WritePlain(p)

SSpec == SInit /\ [][SNext]_svars

---------------------------------------------------------------------------
Declared(i, k) == UNION {Schema[a].deps[k] : a \in {b \in ToSet(Walk(i)) : k \in DOMAIN Schema[b].deps}}

MentionedBy(i, k, m) == IF k \in class[i].notValidated THEN {} ELSE Inputs(i, k, m[k])

FollowsDependencies(i, m, order) ==
  LET at(k) == {n \in DOMAIN order : k \in order[n]}
  IN  \A k \in DOMAIN m :
        /\ Cardinality(at(k)) = 1
        /\ \A d \in (MentionedBy(i, k, m) \cup Declared(i, k)) \cap DOMAIN m :
             d = k \/ \A x \in at(k), y \in at(d) : y < x

(* When a mapping can be ordered, every key of it comes once, and after      *)
(* those that its value mentions or that any schema of its class says it     *)
(* depends on, whatever was evaluated before (ObjectProtocol._call_order,    *)
(* ObjectDeserializer._call_order).                                          *)
OrderFollowsDependencies ==
  \A m \in Mappings : m[1] \in DOMAIN class /\ ~CallOrderRaises(m[1], m[2]) =>
                       FollowsDependencies(m[1], m[2], CallOrder(m[1], m[2]))

(* What is left of an object that is written and read again: a key that is   *)
(* not serialized for its class, or for that of an object around it, or that *)
(* was asked to be left out, has its default, or no value if it is required; *)
(* so has a key without value, unless defaults are asked for. An object that *)
(* may be anything comes back as the mapping it was written as, an empty     *)
(* array as the items its schema gives, and a member of an enum of fractions *)
(* as the one it is the index of.                                            *)
Fractions(ty) == \E n \in DOMAIN ty.enum : ty.enum[n].kind = "Decimal"

RECURSIVE Kept(_, _, _)

(* What becomes of a key that is left out, of value v and default dft *)
LeftOut(required, v, dft, x) == IF required /\ ~(x.no_defaults /\ v = dft) THEN None ELSE dft

KeptObject(o, x, hidden) ==
  LET gone == hidden \cup (IF x.only = {} THEN {} ELSE DOMAIN o.val \ x.only)
                     \cup (IF x.no_defaults THEN {k \in DOMAIN o.val : o.val[k] = None} ELSE {})
      need == class[o.cls].required
  IN  [o EXCEPT !.val = [k \in DOMAIN class[o.cls].props \cup (DOMAIN @ \ gone) \cup (DOMAIN @ \cap need) |->
          IF k \notin gone THEN Kept(TypeAt(o, k), @[k], [x EXCEPT !.excludes = hidden, !.only = {}])
          ELSE LeftOut(k \in need, @[k], DefaultAt(o.cls, k), x)]]

(* What is not kept as it is: no value, and a fraction of an enum *)
IsReread(ty, v, x) == (v = None /\ ~x.no_defaults) \/ (ty.kind = "literal" /\ Fractions(ty))

Kept(ty, v, x) ==
  CASE ty.name = "true" /\ v.kind = "object" -> Written(ty, v, x)
    [] v.kind = "object" ->
         KeptObject(v, x, x.excludes \cup class[v.cls].notSerialized
                            \cup (IF x.no_readOnly THEN class[v.cls].readOnly ELSE {}))
    [] IsReread(ty, v, x) -> Read(ty, Written(ty, v, x))
    [] ty.kind = "array" /\ v.items = << >> -> Read(ty, Arrayed(GivenItems(ty)))
    [] ty.kind = "array" -> [v EXCEPT !.items = [n \in DOMAIN @ |-> Kept(ItemType(ty, n), @[n], x)]]
    [] OTHER -> v

(* What is written under an alias, and what the object says of it *)
AliasesAgree(o, w) ==
  \A a \in DOMAIN w \ DOMAIN o.val :
    /\ Attribute(o, a) = Item(o, a)
    /\ Read(TypeAt(o, Meant(o.cls, a)), w[a]) = Signed(o, a, Attribute(o, a))
    /\ Assigned(o, a, w[a]) = o

(* An object that is written, through its own class or one it derives from,  *)
(* and read again is the same object of the same class, but for the keys it  *)
(* was asked to leave out, whatever was represented or evaluated before:     *)
(* defaults, aliases, short arrays, literals, keys of patterns and others,   *)
(* and $schema of subclasses come back (ObjectProtocol._serialize and        *)
(* _deserialize). What does not is said by Kept. What is written under an    *)
(* alias leaves the object as it is when it is set by that name, and is what *)
(* the object answers by that name, as an attribute and as an item, but for  *)
(* the sign of a negated alias (__setitem__, __getattr__, __getitem__). A    *)
(* plain object loses no value but those of keys named like a read only one. *)
RoundTrip ==
  /\ \A o \in {p \in Objects : ClassesIn(p) \subseteq DOMAIN class}, x \in Options :
       /\ \A t \in ToSet(class[o.cls].mro) :
            Read(ObjectOf(t), Written(ObjectOf(t), o, x)) = Kept(ObjectOf(t), o, x)
       /\ AliasesAgree(o, Written(ObjectOf(o.cls), o, x).val)
  /\ \A p \in Plain : \A k \in DOMAIN p.val \ PlainPrinted(p) :
       p.val[k] = None \/ k \in UNION ({class[i].readOnly : i \in DOMAIN class} \cup {q.readOnly : q \in Plain})

(* What does not settle: the members of an enum of fractions, taken as       *)
(* indices; a negative foreign key given as a text, which is a key once;     *)
(* what a path makes of a value that is false, and a url of no value; and    *)
(* for a moment, when arrow wants a format to match a whole text             *)
Unsettled(ty, w) == \/ Fractions(ty)
                    \/ ty.name = "foreignKey" /\ w.kind = "int" /\ w.n < 0
                    \/ ty.name = "path" /\ w.kind # "Path"
                    \/ ty.name = "uri" /\ w.text.kind = "bytes"
                    \/ w.kind = "Arrow" /\ ~FormatsSearched

Settles(ty, w, s) ==
  w \in {None, Error} \/ Unsettled(ty, w) \/ \A u \in {w, s} : u = Error \/ Read(ty, u) = w

LiteralSettles(ty, w) == Settles(ty, w, Serialized(ty, w, TRUE))

ArraySettles(ty, w) ==
  \/ w = None
  \/ \E n \in DOMAIN w.items : w.items[n] = Error \/ Unsettled(ItemType(ty, n), w.items[n])
  \/ Settles(ty, w, Written(ty, w, [excludes |-> {}, only |-> {}, no_defaults |-> TRUE,
                                    no_readOnly |-> FALSE, again |-> TRUE]))

MemberSettles(ty, m, w) == Equal(w, m) \/ Unsettled(ty, w)

TypeSettles(ty) ==
  /\ \A n \in DOMAIN ty.enum : MemberSettles(ty, ty.enum[n], Evaluated(ty, ty.enum[n], FALSE))
  /\ ty.kind = "literal" => \A v \in LiteralValues \cup {ty.dft} : LiteralSettles(ty, Evaluated(ty, v, FALSE))
  /\ ty.kind = "array"   => \A v \in {u \in LiteralValues : ~IsExpression(u)} : ArraySettles(ty, Read(ty, v))

(* A literal that was evaluated is what it is when it is evaluated again, as *)
(* a write does before it prints and a read does when an input has changed;  *)
(* what is printed of it is evaluated to it; a member of an enum is itself;  *)
(* and an array made of a value or of a string that is split is what it is   *)
(* read as again (_convert, _evaluate and _serialize of the literal types    *)
(* and of arrays, with the defaults that class attributes gave). What is     *)
(* Unsettled is left out.                                                    *)
LiteralsSettle ==
  \A i \in DOMAIN class : \A k \in {l \in DOMAIN class[i].props : class[i].props[l].ty.of = "literal"} :
    TypeSettles(class[i].props[k].ty)

(* Evaluating a mapping leaves the classes as they were: the sorter is given *)
(* "a local copy" of the dependencies (ObjectProtocol._call_order). It is    *)
(* not so: the copy shares the sets of the class.                            *)
EvaluationIsLocal == [][\A i \in DOMAIN class : class'[i] = class[i]]_svars
=============================================================================
