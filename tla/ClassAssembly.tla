--------------------------- MODULE ClassAssembly ---------------------------
(* How ObjectProtocol.build makes a class out of its schema and of the       *)
(* classes it extends. A class is a record of what the rest of the program   *)
(* reads of it: its properties, each with the class that defines it, its     *)
(* sets of keys, the dependencies between keys, and its method resolution    *)
(* order. A schema says                                                      *)
(*   extends   the ids it extends, in order                                  *)
(*   bases     the ids of the Python classes it is declared with, if any     *)
(*   props     the types of its own properties: those of Literals, with a    *)
(*             kind (literal, object, array), of what (a class, or a literal *)
(*             with the fields of the type); of an array its minItems, its   *)
(*             default items, the types of its items when they are given one *)
(*             by one (list) and whether a string is split; and the class    *)
(*             that a foreign key refers to and the name of its relationship *)
(*   patterns  pairs of the names a pattern matches and their type; no two   *)
(*             patterns match the same name                                  *)
(*   additional the type of the keys that are neither (true or false, say)   *)
(*   relations the relationships it declares: a class, keys of it, and       *)
(*             whether it is to populate the class back                      *)
(*   required, readOnly, notSerialized, notValidated                         *)
(*   deps      what a key depends on by its schema, getters what an accessor *)
(*             of a key depends on by its decorator (depend_on_prop)         *)
(*   methods   the accessors (get, set, del) that the class defines, by key  *)
(*   keys      its primary keys                                              *)
(*   aliases   other names of keys; negated, those of their opposites        *)
(*   attrs     values that attributes of the class, or its schema, give to   *)
(*             properties                                                    *)
(* No schema extends a class that is being built (TypeBuilder is about those *)
(* cycles).                                                                  *)
EXTENDS Literals, FiniteSets, SequencesExt, Functions

CONSTANTS Ids, Schema, IdentityKeys

VARIABLE class      \* the registry: a class for each id that has been loaded

(* Mutant: only the first base counts. *)
MergedFirst(fs) == IF Len(fs) = 1 THEN fs[1] ELSE fs[1] @@ fs[2]

(* ChainMap: the first map that has a key *)
Merged(fs) == [k \in UNION {DOMAIN f : f \in ToSet(fs)} |->
                 fs[CHOOSE n \in DOMAIN fs : /\ k \in DOMAIN fs[n]
                                             /\ \A m \in 1..n - 1 : k \notin DOMAIN fs[m]][k]]

IsSubclass(c, d, built) == d \in ToSet(built[c].mro)

(* bases_extended: what a base already derives from is not added *)
Extended(i, built) ==
  SelectSeq(Schema[i].extends, LAMBDA e : \A b \in ToSet(Schema[i].bases) : ~IsSubclass(b, e, built))

(* pbases: a base that an extended class derives from is dropped *)
Beside(bases, ext, built) ==
  SelectSeq(bases, LAMBDA b : \A e \in ToSet(ext) : ~IsSubclass(e, b, built)) \o ext

Parents(i, built) == Beside(Schema[i].bases, Extended(i, built), built)

(* utils.mro: the next class of the order is the first head that is in no tail; *)
(* there may be none, and then the class cannot be made                         *)
RECURSIVE Merge(_)
Merge(lists) ==
  LET some  == SelectSeq(lists, LAMBDA l : l # << >>)
      good  == {n \in DOMAIN some : \A m \in DOMAIN some : some[n][1] \notin ToSet(Tail(some[m]))}
      first == some[CHOOSE n \in good : \A m \in good : n <= m][1]
  IN  IF some = << >> THEN << >>
      ELSE IF good = {} THEN <<"inconsistent">>
      ELSE <<first>> \o Merge([n \in DOMAIN some |-> IF some[n][1] = first THEN Tail(some[n]) ELSE some[n]])

Mro(i, ps, built) ==
  <<i>> \o Merge([n \in DOMAIN ps |-> built[ps[n]].mro] \o <<ps>>)

(* set().union(schema.get(...), *[b._... for b in pbases]) *)
Unioned(own, inherited) == own \cup UNION inherited

HasDefault(ty) == ty.kind = "array" \/ ~IsFalse(ty.dft)

(* TypeProtocol.build: the first member of an enum is its default *)
TypedLiteral(ty) == IF ty.enum # << >> /\ ty.dft = None THEN [ty EXCEPT !.dft = ty.enum[1]] ELSE ty

(* TypeBuilder.build, ArrayProtocol.build: the types of the items are built, *)
(* too, one by one when the schema lists them                                *)
Typed(ty) == TypedLiteral([ty EXCEPT !.list = [n \in DOMAIN @ |-> TypedLiteral(@[n])]])

(* Array._items_type; no type for an item after the last of a list *)
ItemType(ty, n) == CASE ty.list # << >>   -> ty.list[n]
                     [] ty.of = "literal" -> [ty EXCEPT !.kind = "literal", !.dft = None]
                     [] OTHER             -> [ty EXCEPT !.kind = "object", !.name = "object", !.dft = None]

(* What an attribute makes the default of a property: what the value is      *)
(* written as, if it is of the type                                          *)
AttrDefault(ty, a) ==
  IF Passes(ty, Converted(ty, a, TRUE)) THEN Serialized(ty, Evaluated(ty, a, TRUE), FALSE) ELSE Error

PrimaryKeys(i, ps, built) ==
  IF Schema[i].keys # {} THEN Schema[i].keys ELSE UNION {built[p].keys : p \in ToSet(ps)}

Has(methods, k, f) == k \in DOMAIN methods /\ f \in methods[k]

(* getattr(b, f): the first class of the order of b that has the accessor *)
Inherited(b, k, f, built) == SelectSeq(built[b].mro, LAMBDA c : Has(Schema[c].methods, k, f))

(* The accessor of a key: that of the class, or of the first of its Python   *)
(* bases that has one. Extended classes are not asked.                       *)
Accessor(i, ps, k, f, built) ==
  LET bases == SelectSeq(ps, LAMBDA b : b \in ToSet(Schema[i].bases))
      found == FoldLeft(LAMBDA all, b : all \o Inherited(b, k, f, built), << >>, bases)
  IN  IF Has(Schema[i].methods, k, f) THEN i ELSE Head(Append(found, "none"))

(* depend_on_prop: what the accessors of a key say it depends on *)
Decorated(i, ps, keys, built) ==
  [k \in keys |-> UNION {Schema[c].getters[k] :
                           c \in {d \in {Accessor(i, ps, k, f, built) : f \in {"get", "set", "del"}} \ {"none"} :
                                   k \in DOMAIN Schema[d].getters}}]

NonEmpty(deps) == Restrict(deps, {k \in DOMAIN deps : deps[k] # {}})

Gathered(all) ==
  [k \in UNION {DOMAIN f : f \in all} |-> UNION {f[k] : f \in {g \in all : k \in DOMAIN g}}]

WithIdentity(pk, deps) == IF pk = {} THEN deps ELSE (IdentityKeys :> pk) @@ deps

Dependencies(i, ps, keys, built) ==
  WithIdentity(PrimaryKeys(i, ps, built),
    Gathered({Schema[i].deps, NonEmpty(Decorated(i, ps, keys, built))} \cup {built[p].deps : p \in ToSet(ps)}))

OwnProperties(i) == [k \in DOMAIN Schema[i].props |-> [by |-> i, ty |-> Typed(Schema[i].props[k])]]

Chained(i, ps, built) == Merged(<<OwnProperties(i)>> \o [n \in DOMAIN ps |-> built[ps[n]].props])

Given(i, chain) == DOMAIN Schema[i].attrs \cap DOMAIN chain

(* _propertiesChained; an inherited property that is given a value becomes a *)
(* property of the class, with that value for default. One of the class is   *)
(* built already, and stays as it is.                                        *)
Properties(i, chain) ==
  [k \in DOMAIN chain |->
     IF k \in Given(i, chain) /\ chain[k].by # i
     THEN [by |-> i, ty |-> [chain[k].ty EXCEPT !.dft = AttrDefault(chain[k].ty, Schema[i].attrs[k])]]
     ELSE chain[k]]

(* RelationshipBuilder.build: the keys of the foreign class when none is     *)
(* named; none if that class is the one being built, which is a proxy        *)
Relation(i, to, ks, built) ==
  [to |-> to, keys |-> CASE ks # {} -> ks
                         [] to = i  -> {}
                         [] OTHER   -> built[to].keys]

(* Relationships: those of the schema, and a pointer for each foreign key *)
Relations(i, s, ps, built) ==
  LET fks == {k \in DOMAIN s.props : s.props[k].name = "foreignKey"}
      own == [k \in DOMAIN s.relations |-> Relation(i, s.relations[k].to, s.relations[k].keys, built)]
      ptr == [p \in {s.props[k].ptr : k \in fks} |->
                LET k == CHOOSE k \in fks : s.props[k].ptr = p IN Relation(i, s.props[k].to, {k}, built)]
  IN  Merged(<<ptr, own>> \o [n \in DOMAIN ps |-> built[ps[n]].relations])

(* RelationshipBuilder.build: a class that is made is populated back by a    *)
(* name that is a mapping, which is refused; a proxy is not populated        *)
PopulatesBack(i) == \E k \in DOMAIN Schema[i].relations : Schema[i].relations[k].back /\ Schema[i].relations[k].to # i

(* PropertyDescriptor: one for each property of the class, also for those it *)
(* gives a value to; the others are those of the bases as they are, whatever *)
(* accessors the class has for them                                          *)
Descriptors(i, ps, props, built) ==
  LET own == [k \in {l \in DOMAIN props : props[l].by = i} |->
                [by |-> i, fun |-> [f \in {"get", "set", "del"} |-> Accessor(i, ps, k, f, built)]]]
  IN  Merged(<<own>> \o [n \in DOMAIN ps |-> built[ps[n]].descriptors])

(* The attributes of the class, of schema s, bases ps and properties props *)
Attributes(i, s, ps, props, built) ==
  [props         |-> props,
   required      |-> Unioned(s.required, {built[p].required : p \in ToSet(ps)}),
   readOnly      |-> Unioned(s.readOnly, {built[p].readOnly : p \in ToSet(ps)}),
   notSerialized |-> Unioned(s.notSerialized, {built[p].notSerialized : p \in ToSet(ps)}),
   notValidated  |-> Unioned(s.notValidated, {built[p].notValidated : p \in ToSet(ps)}),
   dflt          |-> Unioned(Given(i, props) \cup {k \in DOMAIN props : props[k].by = i /\ HasDefault(props[k].ty)},
                             {built[p].dflt : p \in ToSet(ps)}),
   patterns      |-> Unioned(s.patterns, {built[p].patterns : p \in ToSet(ps)}),
   additional    |-> s.additional,
   relations     |-> Relations(i, s, ps, built),
   descriptors   |-> Descriptors(i, ps, props, built),
   aliases       |-> Merged(<<s.aliases>> \o [n \in DOMAIN ps |-> built[ps[n]].aliases]),
   negated       |-> Merged(<<s.negated>> \o [n \in DOMAIN ps |-> built[ps[n]].negated]),
   deps          |-> Dependencies(i, ps, DOMAIN props, built),
   keys          |-> PrimaryKeys(i, ps, built),
   mro           |-> Mro(i, ps, built)]

Assembled(i, ps, built) == Attributes(i, Schema[i], ps, Properties(i, Chained(i, ps, built)), built)

(* What a class needs: its bases, then the classes of its properties and of  *)
(* what it refers to                                                         *)
Needs(i, s) ==
  s.bases \o s.extends \o SetToSeq({s.props[k].of : k \in DOMAIN s.props} \ {"literal"})
    \o SetToSeq(({s.props[k].to : k \in {l \in DOMAIN s.props : s.props[l].name = "foreignKey"}}
                   \cup {s.relations[k].to : k \in DOMAIN s.relations}) \ {i})

(* type() finds no order for the bases, a value given to a property is not   *)
(* of its type, or a relationship cannot be built                            *)
BadDefault(i, chain) == \E k \in Given(i, chain) : AttrDefault(chain[k].ty, Schema[i].attrs[k]) = Error

Impossible(i, ps, built) ==
  \/ "inconsistent" \in ToSet(Mro(i, ps, built))
  \/ PopulatesBack(i)
  \/ BadDefault(i, Chained(i, ps, built))

Made(i, ps, r) ==
  CASE ~r.ok                    -> r
    [] Impossible(i, ps, r.all) -> [r EXCEPT !.ok = FALSE]
    [] OTHER                    -> [all |-> r.all @@ (i :> Assembled(i, ps, r.all)), ok |-> TRUE]

(* TypeBuilder.load: an exception in what a class needs stops there *)
RECURSIVE Loaded(_, _)
Loaded(i, reg) ==
  LET Need(r, e) == IF r.ok THEN Loaded(e, r.all) ELSE r
      Then(r)    == Made(i, IF r.ok THEN Parents(i, r.all) ELSE << >>, r)
  IN  IF i \in DOMAIN reg THEN [all |-> reg, ok |-> TRUE]
      ELSE Then(FoldLeft(Need, [all |-> reg, ok |-> TRUE], Needs(i, Schema[i])))

Init == class = << >>

Load(i) == /\ i \notin DOMAIN class
           /\ class' = Loaded(i, class).all

---------------------------------------------------------------------------
(* The ids that a class derives from by the schemas alone, itself first, in  *)
(* the order of a walk that goes as deep as it can.                          *)
RECURSIVE Walk(_)
Walk(i) == FoldLeft(LAMBDA all, e : all \o Walk(e), <<i>>, Schema[i].bases \o Schema[i].extends)

(* A class has what the schemas anc say together. *)
IsUnionOf(c, anc) ==
  /\ ToSet(c.mro) = anc /\ IsInjective(c.mro)
  /\ DOMAIN c.props = UNION {DOMAIN Schema[a].props : a \in anc}
  /\ c.required = UNION {Schema[a].required : a \in anc}
  /\ c.readOnly = UNION {Schema[a].readOnly : a \in anc}
  /\ c.notSerialized = UNION {Schema[a].notSerialized : a \in anc}
  /\ c.notValidated = UNION {Schema[a].notValidated : a \in anc}
  /\ c.patterns = UNION {Schema[a].patterns : a \in anc}
  /\ \A k \in DOMAIN c.props : k \in DOMAIN c.descriptors /\ c.descriptors[k].by = c.props[k].by
  /\ DOMAIN c.negated = UNION {DOMAIN Schema[a].negated : a \in anc}
  /\ \A r \in DOMAIN c.relations :
       c.relations[r].keys = {} => c.relations[r].to \in anc \/ class[c.relations[r].to].keys = {}
  /\ DOMAIN c.aliases = UNION {DOMAIN Schema[a].aliases : a \in anc}
  /\ UNION {DOMAIN Schema[a].relations : a \in anc} \subseteq DOMAIN c.relations
  /\ \A k \in DOMAIN c.props : HasDefault(c.props[k].ty) => k \in c.dflt

(* Whatever the order in which classes are loaded and whatever was dropped   *)
(* from their bases, a class has the properties, the patterns, the required, *)
(* read only, not serialized and not validated keys and the aliases of all   *)
(* the schemas it derives from, the order of its bases is one of them all,   *)
(* a property is read through a descriptor of the class that defines it, and *)
(* the keys of a relationship are named or those of a class that was built   *)
(* (ObjectProtocol.build, RelationshipBuilder.build).                        *)
ClassesAreUnions == \A i \in DOMAIN class : IsUnionOf(class[i], ToSet(Walk(i)))
=============================================================================
