# ngoschema: specifications, model checking and proofs

ngoschema turns JSON schemas into Python classes. A class is assembled from its schema and those it refers to;
its instances keep raw values, convert and validate them lazily, evaluate expressions and getters that depend on
other properties, and are queried, stored in repositories and found again by their keys. Nothing runs
concurrently by design (one thread, no locks, no callbacks from outside); what makes the code hard is **laziness,
nesting and shared mutable tables**: a read that starts other reads and may fail half way, a build that comes back
to itself, generators shared by several queries, caches that must notice a change made elsewhere.

## 1. Inventory

| Component | State it keeps | Operations | What is hard | Properties that make it correct |
|---|---|---|---|---|
| Object item cache (`protocols/object_protocol.py`, `collection_protocol.py`) | `_data`, `_dataValidated`, `_itemsInputs` of an instance | construction, `obj.k`, `obj[k]`, assignment, deletion, touch | reads nest through inputs; an exception of a nested read is swallowed; a value may be overwritten by its converted form; three mappings are updated one by one | a read answers with what the sources are worth; reads repeat; no key is read inside its own read; expressions survive; setters see what is cached |
| Class building (`managers/type_builder.py`, `protocols/type_proxy.py`) | `_registry`, `_on_construction` (of the process) | `load`, `build`, proxies | cycles; a build that raises leaves marks behind; the order of loads decides who gets a proxy | no re-entrance; no half-built class is found; proxies end at classes; the registry is stable and consistent |
| Class assembly (`type_protocol.py`, `object_protocol.py`, `array_protocol.py`) | the class | `build`, `SchemaMetaclass.__new__`, `extend_type` | parents not ready; attributes merged from many bases | bases are classes; parts are the registered ones |
| Queries (`query.py`) | source, cache and flags of each query, generators | `filter`, `exclude`, `all`, `get`, `next`, iteration, set operations | generators shared by refinements, results cached late, a list that grows meanwhile, a filter that raises | results meet the criteria, in order, once; a query nobody else consumes is complete |
| Documents and uris (`uri_resolver.py`, `loaders/schemas.py`, `models/files.py`, `protocols/file_loader.py`) | stores of documents, `lru_cache` of resolutions, content and hash of a file | register, resolve, load, write, append | caches that outlive what they cache; writing only if changed | a resolution answers from the registered document |
| Sessions and repositories (`session.py`, `repositories/`) | bound repositories, catalog and content | bind, commit, look-up, query | keys that change after the commit, automatic keys, two indices of the same objects | catalog and content agree; an automatic key replaces nothing |
| Entities, instances, contexts (`models/instances.py`, `contexts/`) | parent, session and name manager of an instance, identity keys | construction from a key, canonical names | names made of those of the ancestors but cached by instance | a canonical name is the path of names |
| Foreign keys, relationships (`types/foreign_key.py`, `relationships.py`, `managers/relationship_builder.py`) | none of their own | resolve, assign | the session used for the look-up; order of repositories | a key resolves to the entity that has it |
| Namespaces (`managers/namespace_manager.py`) | registered prefixes, two caches | register, name of an id, id of a name | longest prefix; cached names of a table that grows | name and id are inverse of each other |
| Evaluation order (`types/object.py`, `utils.topological_sort`) | the dependency sets of a class | `_call_order` | sets of the class extended by the values of an instance | inputs come before what depends on them |
| Lazy collections (`array_protocol.py`, `types/array.py`) | raw and validated items | item access, insertion, deletion | the two lists are updated separately | a read item is its source |
| Serializers and literal types (`protocols/serializer.py`, `types/*.py`) | none | check, convert, evaluate, validate, serialize | conversions that are not idempotent, defaults and aliases left out and put back | what is written is read back |
| Formats (`utils/xmltodict.py`) | the stack of the XML handler | `parse`, `unparse` | text that arrives in chunks around children | no text lost or doubled, printing undone by reading |
| Decorators; other utilities; settings, registries and command line | none, or tables filled at import | one call each | - | - |

How they interact: `SchemaMetaclass` and the resolver of uris feed the builder; the builder calls object, array and
literal protocols, which call the builder; classes make instances, whose reads call conversions of the literal
types, getters and Jinja templates, which read the instance again. Repositories hold instances and hand their
content to queries; sessions search repositories; foreign keys and entities search sessions.

`PROJECT.json` lists every component with its status, and every hazard with the line where it bites and the
properties that watch it.

## 2. Modules

| Module | Models | State | Actions |
|---|---|---|---|
| `ItemCache` | one instance of a class, its three mappings and the stack of reads in progress | `data`, `dv`, `itemsInputs` are the mappings (`Absent`: no such key); `applied` what `fset` last saw; `stack` the frames of `__get__`, `__getitem__`, `__getattr__`, `__set__`; `result` the outcome of the last call; `toBuild`, `lazy` of the constructor | program: `Get`, `GetAttr`, `Set`, `SetAdditional`, `DelAttr`, `DelItem`; interpreter: `ReadInput` and `CheckDone` (the comparison of inputs, one input per step), `Evaluate`, `EvaluateGetter`, `EvaluateItem`, `AttrInputsRead`, `EvaluateSet`, `BuildItem`, `ItemBuilt` |
| `ItemCacheReads` | the same, watched by a caller who remembers answers | `seen`, a history variable | `Remember` beside each step |
| `LazyArray` | one array: items as given, items evaluated, inputs | `arr` (three lists in step), `lazy`, `raised` | item access, deletion, `insert` and what `MutableSequence` makes of them: `extend`, `pop`, `remove`, `reverse`, `clear`; each is a composition of the single reads and writes it makes, cut where one raises |
| `Literals` | conversion, check, evaluation and printing of every literal type | none: operators | - |
| `ClassAssembly` | what a class takes from its schema, its bases and the classes it extends | `class` | used by `Serialization` |
| `Serialization` | evaluation order of a mapping, what is filled in on reading, what is left out on writing; composes the two modules above | `class`, `excludes` (the default list of `_print_order`) | `Load` of a class, `Evaluate` a mapping, `Represent` an object, `WritePlain` |
| `TypeBuilder` | the registry, the classes under construction, the classes made, the calls in progress | `registry`, `underConstruction`, `made`, `stack`, `docs` | program: `RegisterDoc`, `LoadType`, `DefineClass`; interpreter: `Found`, `Proxied`, `Constant`, `Descend`, `Finish`, and the ends `Unresolvable`, `Untyped`, `Uncreatable`, `Return` |
| `Filters` | one call of a filter on one object: the descent into mappings and sequences, operators, negation, `any_of`, the operators moved to the path | none: operators, the moved operators are an argument and a result | - |
| `QueryChain` | queries, lists and iterators as a heap, with the filters of `Filters` | `lists`, `iters`, `queries`; `call` the call in progress with the chain of generators being resumed; `answer`; the operators moved so far | program: `Make`, `Refine`, `OrderBy`, `AppendBase`, `Ask`, `Probe`, `Iterate`, `LookFor`, `Measure`, `FirstOf`, `LastOf`, `ReverseOf`, `Union`, `Compare`; interpreter: `Descend`, `Fetch`, `Skip`, `Yield`, `Raise`, `Exhausted` and the ends of calls |
| `IndexedStore` | what a repository promises: an index of values by key, until a stored value changes its key | `store`, `answer`, `drifted` | `Put`, `Get`, `Drift` |
| `EntityStore` | entities, repositories, sessions and the links between entities; refines `IndexedStore` | `keys`, `identity` (`_identityKeys`), `bound`, `content`, `catalog`, `link` | `SetKey`, `ReadIdentity`, `NewRepo`, `GetOrCreateRepo`, `Commit` (with the automatic keys and the object it replaces), `LookUp`, `CopyEntity`, `ForeignKeySet`, `SerializeKeys` |
| `DocStore` | files on a disk, document objects with their cached values, the store by uri, the cache of `resolve_doc` and the copy a resolver may have | `disk`, `filepath`, `raw`, `content`, `docId`, `store`, `cache`, `copy` | reads of each cached value, `SetFilepath`, `Edit` (another program), `Write`, `Save`, `WriteFile`, `DelFile`, `Load`, `Unload`, `LoadSchemaFile`, `RegisterDoc`, `UnregisterDoc`, `ResolveUri`, `Resolve`, `Forget` (the cache is full), `Create` |
| `Namespace` | a namespace manager, the registry of documents it looks at and its two caches | `local`, `builder`, `docs`, `current`, `currentUri`, `known` | `Add`, `RegisterNs`, `RegisterNsUnnamed`, `SetCurrent`, `RegisterDoc`, `UnregisterDoc`, `AskName`, `AskId` |
| `InstanceTree` | contexts: parents, sessions, instances above, canonical names | `context`, `arrays`, `parent`, `parentInstance`, `name`, `canonicalName` | `NewRoot`, `ReadChild`, `ReadItem`, `Copy`, `Insert`, `InsertEager`, `Assign`, `Remove1`, `Rename`, `ReadCanonicalName` |
| `XmlDict` | the handler that makes dictionaries of XML events, and the printer | `item`, `data`, `stack`, `path` | events of a document (`ReadStart`, `ReadText`, `ReadComment`, `ReadEnd`), `Unparse`, events of the printed document |
| `MC...` | the instances that are checked | - | - |
| `ItemCacheProofs`, `TypeBuilderProofs`, `DocStoreProofs`, `EntityStoreProofs`, `NamespaceProofs`, `InstanceTreeProofs`, `LazyArrayProofs`, `QueryChainProofs` | theorems and proofs | - | - |

How they fit together: `Serialization` extends `ClassAssembly`, which extends `Literals`; `QueryChain` extends `Filters`;
`ItemCacheReads` extends `ItemCache`; `EntityStore` implements `IndexedStore`. The others meet at their constants:
the schemas of `ClassAssembly` are those `TypeBuilder` has loaded, `Eval` of `ItemCache` and `LazyArray` is what
`Literals` computes, the lists of `QueryChain` may be the content of a repository of `EntityStore`, the documents of
`Namespace` are those of the store of `DocStore`.

Nesting is made explicit wherever other code can see the middle of a call: a Python call that may call back into the
component is a frame on a stack (or, for generators, a place in the chain being resumed), and a step is one iteration
of a loop or one block of assignments. Where nothing can call back (an array of literals, a commit, a registration), a
call is one step, cut at the point where it raises. The program acts only between calls, as one thread does.

A definition whose comment begins with "Mutant:" is a faulty variant of the definition below it. It belongs to no
specification; it documents a mistake that a property of the runs detects. Variables marked "history" record what
happened and appear in no guard.

What each model abstracts:

- `ItemCache`: values are opaque. `Eval(k, raw, env)` stands for conversion, evaluation and validation of a key,
  `Getter(k, env)` for a getter, `ExprInputs` for the names a template or expression mentions; `EvalAssumption`
  says what their properties rest on, and TLC evaluates it on each instance. A class is its constants: declared
  and additional keys, dependencies, read-only, required, getters, setters, defaults. `AcyclicAssumption`: the code
  recurses on cyclic inputs until Python's limit (`collection_protocol.py:113`), so the model ranks the keys: `NoReentry`
  and `CallsEnd` say nothing of classes whose inputs are in a cycle, which nothing in the code refuses. A setter looks at the
  value it is given; one that raises or sets its key again (`object_protocol.py:86`) is left out.
- `LazyArray`: an array of values without inputs by name, so no read comes back to it. Items are `Raw` values. The check after
  an insertion or a deletion (`array_protocol.py:84`) refuses nothing unless the schema of the array has keywords beside those
  of its lengths, items and type; arrays with such keywords are left out.
- `Literals`, `ClassAssembly`, `Serialization`: a text is the text of a value or a word; formats of dates are those
  that are found or not (`FormatsSearched`, how arrow matches a format: false for 0.15 and later); prefixes of attribute names and cleaned names are left
  out; keys in a set have no order, an order of evaluation is a sequence of sets.
- `TypeBuilder`: a schema is its kind and the ids it refers to, in the order the code asks for them. The additional
  registration that `extend_type` makes under the underscored id, the table of relationships and the Python bases
  of a class defined by the program are left out; that an object's relationships load the foreign schemas again is
  kept (`related`, `RelatedAssumption`), and the types of foreign keys are always those of the key `id`
  (`type_protocol.py:62`), so they ask for nothing more.
- `Filters`, `QueryChain`: the loop that moves operators while it iterates over them (`query.py:145-152`) is given in
  closed form: `Moved` says how many it moves, and `EveryOther` which names it tries. Values are trees of mappings, lists and numbers. An operation on the results of a query
  that has none yet is modelled as `all()` followed by the operation. The order of lists and texts is not modelled.
  A criterion has a path (one made of operators only raises, `utils.py:667`), and the union with a reversed query, whose cache is
  an iterator, is left out.
- `EntityStore`: an entity is its primary keys; the class test of a repository is a constant, `Eligible`. Links are foreign
  keys; the descriptors of relationships, which always fail (section 4), are left out.
- `DocStore`: a file is a sequence of parts, some of which parse alone; hashes, encodings and dates are left out. A document
  with a uri and no path reads nothing: its uri reaches the store as the result of a parse, which raises (`files.py:163`).
- `Namespace`: uris and names are sequences of parts; that one part begins another, which the code's prefixes of
  strings do not tell from nesting, is the constant `Cut`.
- `InstanceTree`: an object is its place; what an array holds is not kept, only whose it is.
- `XmlDict`: a text is the numbers of its words, so that a lost, doubled or reordered one is seen; expat is a source of
  events. Namespaces of XML and streaming are left out.

## 3. Runs

| Run | Question | Bounds |
|---|---|---|
| `ItemCacheChain` | does every read of a chain of two expressions, one key with a setter and one additional key answer with what its sources are worth, whatever is written, deleted or rejected before? | 4 keys, 2 or 3 values each of which one is invalid, lazy and eager; the number of calls is not bounded |
| `ItemCacheGetters` | the same with getters that depend on each other and may return None or an invalid value, one of them of an untyped property; do setters see everything, do reads end? | 4 keys, ditto |
| `LazyArray` | do the items of an eager array follow their data, and are the operations made of single reads and writes those of a list? | arrays of at most `MaxLen` = 3 items (two swapped around a third), six values: converted, kept, refused, None |
| `Serialization` | do classes have all that their schemas say, does evaluation follow the dependencies, is what is written read back, do literals settle? | nine schemas: a diamond, an inconsistent hierarchy, two classes that give values to another's properties; 6 mappings, 14 objects, every combination of options; every literal type |
| `SerializationLocal` | (violated) evaluating a mapping leaves its class as it was | as above |
| `TypeBuilder` | does loading cyclic schemas end, without re-entrance, with every proxy closed and the registry consistent? | 12 ids in two documents with every kind of reference and five cycles; `MaxCalls` = 6 calls: enough to register both documents, load, fail, load again and define a class again |
| `QueryChain` | do queries over shared generators keep their promises in any order of consumption, while the list grows, filters raise and move their operators? | 3 queries (`MaxQueries`): one, its refinement, and the refinement of that or a sibling is the smallest family that shares generators in every way; `Query()` is called again only while there are at most `MaxMade` queries, `next()` and `get()` only while there are at most `MaxProbed`; lists of at most `MaxBase` = 3 objects of six, three of them equal, one of these a mapping that cannot be hashed |
| `EntityStore` | does each repository implement the abstract index while no stored key changes; are given keys new; do links lead to their target? | 2 entities, 2 repositories, 2 sessions: the same key in two repositories, and an entity in none; keys of one component up to `MaxKey` = 1 and -1; `MaxUpdates` = 4 commits and changes of keys (commit both, change one, commit again); look-ups and links unbounded |
| `DocStore` | is what an object keeps of a file of one piece, when may a cached resolution be stale, what registers? | one object, two files, three uris of which two are spellings of one, files of at most `MaxLength` = 2 parts; unbounded otherwise |
| `Namespace` | when may a cached answer be stale; is an id serialized as a name converted back to itself? | a document, one below it and one whose name begins with the same letters; four bindings, one not nested as the uris are, one giving another uri to a name; a cache of one answer, so that answers are dropped |
| `InstanceTree` | do parents, sessions and instances above follow the owners; when may a canonical name be stale? | three objects, two instances (symmetric) with lazy arrays and one object without a name whose array is eager; two names (symmetric) |
| `XmlDict` | is each word kept once, does reading undo printing? | documents of at most `MaxParts` = 6 elements, texts and comments: an element with two children and three chunks of text around them needs six; a text is one piece (`BufferSize` = 1 word) or is reported in two (`MaxRun` = 2 words) |

The runs of `ItemCache` switch the deadlock check off: an eager constructor that raises leaves no instance, and
nothing can be called on it. In the others the check is on, wherever the model ends a stuttering step says so: `Over` is
where the bound on calls ends `TypeBuilder`, `Finished` where a printed document has been read.

About the properties:

- `ReadsRepeat` is checked beside `AnswerIsFresh` because the latter is silent when an input is missing or invalid.
- `UnsharedIsComplete` is the strongest completeness that holds: a query whose generators others moved misses results,
  although the docstring of `all()` promises all of them (`query.py:506`).
- `ProxiesResolve` excepts ids whose build was abandoned: they stay in `_on_construction` for ever, and whatever asks
  for them again gets a proxy of nothing. `PartsAreRegistered` excepts the ids that the program defines itself.
- `RepositoriesAreIndexes` is the refinement: `store` is what the catalog finds and exactly one object of the content
  has (`Index`). An index says nothing after a stored object changed its key (`Drift`), and nothing in the code repairs it. It says
  nothing either of a repository that was constructed with two objects of the same keys (`Ambiguous`): the constructor
  takes a list as it is. The run constructs repositories from an empty list and from one of two entities.
- `CacheIsCurrent`, `AnswersAreCurrent`, `NamesAreCurrent` have the same form: a cached answer equals a fresh one unless
  a named event happened since it was cached. The exceptions are what the caches of the code really miss; the
  property fails as soon as one more event can make an answer stale. The exception of `NamesAreCurrent`, a name above that was
  changed, is what two tests deny (section 4).
- `ResultsDistinct` says as well that what a distinct query yields can be hashed: on any other object that meets its criteria it
  raises, and the generators that consume it end.
- `UnparseReverses` says of documents without tails that what is read from the print is what was printed, and of all that
  reading the print fails exactly when there is a comment.
- `ResolvingRegistersNothing` excepts, by name, a resolver made while the store is empty.
- `RoundTrip` compares with `Kept`, which says what does not come back. The largest exceptions are listed in section 4.

Fairness: one thread runs a call until it returns or raises, so the interpreter's steps are weakly fair
(`WF_vars(Run ...)`, `WF_vars(Step)`); nothing obliges the program to make a call. `CallsEnd` is checked under it in
`ItemCacheGetters` and `TypeBuilder`, where calls nest; in the modules where a call is one step there is nothing to end.

## 4. What the code does that its readers may not expect

The code disagrees with what its comments, docstrings or tests say in the following. `SerializationLocal` shows the first as a
counterexample; the properties named state what the code does in the others.

- `_call_order` (`object_protocol.py:193`) builds what its comment calls a local copy of the dependencies, but the sets inside
  are those of the class, and evaluating one mapping changes them.
- A resolver for a document that is not in the store is said to be given a copy of it (`uri_resolver.py:142`). A copy that is
  empty is false, so `store or UriResolver._doc_store` (130) takes the store itself, and the next line registers the document
  there (`ResolvingRegistersNothing`).
- `tests/test_relationship.py:38-44` and `tests/test_cache_invalidation.py:33-35`, written against an older interface, say that renaming an
  instance changes the canonical names below. `get_canonicalName` depends on the name of the instance alone
  (`models/instances.py:33`), so a cached name below is kept (`NamesAreCurrent`).
- `unparse` is documented as the reverse of `parse` (`xmltodict.py:458`), which keeps comments under `#comment`; `_emit` prints that key as
  an element (432), whose name cannot be read again (`UnparseReverses`).

The models follow the code in the following, and the properties except them by name:

- *Reading and writing.* Required keys are not put first: the order is asked of a classmethod of the deserializer
  (`object_protocol.py:203`, `collection.py:28-30`), whose own required keys are none (`object.py:34-36`), so they are evaluated in
  their turn, and not at all when they are missing. A default that is false (0, an empty text) is not one (`type_protocol.py:98`) unless an attribute gives it:
  a key that was left out gets None (`object.py:208-210`) and reads as None. What is written or set under a negated alias changes its sign, what is read by that name does
  not, because `op` sees the name after it was replaced by its key (`object_protocol.py:297, 399`). A required key that is
  excluded is written as None. The items after the last of a list of types are written as None and cannot be read. An
  explicit None of a key with a default comes back as the default. An empty array of a key with a default comes back
  as the default's items. An object in an additional property is written without `$schema` and comes back as a mapping. `$schema` is popped from the given mapping, so that
  reading the same mapping twice differs (`object_protocol.py:162`).
- *Classes.* `not_ready_yet` is always empty (`object_protocol.py:550`), so a class that extends a class under construction
  gets none of its properties. A value that an attribute gives to a property of its own class is ignored (708). A
  getter defined for an inherited property is not installed (728-737 cannot run). Additional properties are not
  inherited. A property of a pattern cannot be read by item where additional ones are forbidden (282-287, 403).
  Relationships that populate back raise TypeError (`relationship_builder.py:84-87`). Setting a relationship always raises, because
  its descriptor is given back what it assigns, in a tuple (28-30, `object_protocol.py:428-430`), and reading one recurses to
  Python's limit (24-26, 396-398).
- *Literals.* An enum of fractions takes its members as indices (`type.py:109-115`). A negative foreign key given as a text is
  a key once, and lost when evaluated again (`foreign_key.py:110`). A moment printed by isoformat is not read back by arrow 0.15 or later.
  `uniqueItems` is never enforced (`array.py:63`).
- *Reads.* A getter of an untyped property that is worth None runs at each read, and storing its None resets what depends
  on it (`object_protocol.py:77-79`, `collection_protocol.py:150-158`): an expression that reads both it and one of
  those may be rendered with None. `AnswerIsFresh` excepts it (`Fresh`). `__set__` of an instance that is not lazy
  records the inputs before it evaluates (`object_protocol.py:100-102`): an expression that is rendered, then written
  again when it raises, leaves the value of before in the cache with inputs that look current, and the next
  read answers it. Likewise an additional key whose new value raises. No schema of the runs has such an expression;
  `OrderlyClass` (section 5) leaves them out by name (`WrittenIsValid`, `AdditionalIsValid`). A getter's key that may be
  written answers what was written until its inputs change (`GettersStandAlone`), and a default that cannot be evaluated
  stays as its text (`DefaultsAreValid`).
- *Namespaces.* Answers are cached under the name of the current namespace (`namespace_manager.py:37-38`), whose uri
  counts as well: they are stale when that name is set again after `add` gave it another uri while it was current.
- *Instances.* A rejected eager write leaves the rejected value (`object_protocol.py:100`). `__delitem__` makes three
  deletions one by one (443) and may stop between them. Equality of two distinct objects compares the parent with
  key names, and `__hash__` always raises (`collection_protocol.py:208-225`).
- *Stores.* `FileRepository._commit` raises NameError after the memory commit (`file_repositories.py:60-79`). A commit
  that needs a number next to a stored key that is None raises with the components before it set. A foreign key
  without `foreignKeys` always refers to `id`; `resolve=True` asks a new, empty session.
- *Queries.* A distinct query hashes each object it finds (`query.py:265`), and raises TypeError on mappings and on all objects of
  ngoschema, whose `__hash__` raises (`collection_protocol.py:223`). `k__size=2` only tests that the size is not false. `sorted()` is given its key by position and always raises
  (`query.py:411`). The cache of a reversed query is an iterator, consumed once (414).
- *Formats.* Comments are printed as elements, as said above; a text that is longer than the parser's buffer arrives in several pieces, which
  are put together. The third chunk of text of an element is lost. `XmlSerializer` passes `force_list` to `unparse`, which does not
  take it (`xml_serializer.py:117`), and `XmlDeserializer` keeps the tag of its first document (57-60).

## 5. Proofs

TLAPS checks the theorems for every value of the constants that satisfies the named assumptions.

`ItemCacheProofs` proves `[]TypeOK`, `[]LiteralIsCurrent`, `[]SetterApplied` and
`ExpressionsSurviveReads` for any class, values, getters and sequence of calls. The inductive invariant `IInv` adds to
the types: frames have only keys of lower rank left to read (`StackOK`), which a new frame satisfies because the
expressions in the data come from callers and defaults only (`SourcesOK`); keys being read or built are present
(`PresentOK`). One lemma per action shows that it keeps `IInv`.

`AnswersAreFresh` proves `[]AnswerIsFresh` of every *orderly* class (`OrderlyClass`), with any number of keys nested to any
depth. An orderly class is one where values depend on no more than the inputs they name, evaluating a value again
changes nothing, defaults are valid, additional keys take any value, an expression that may be written raises only for lack of
an input, and getters are read-only and no input of another property; section 4 says what the code answers where some of these fail.
TLC evaluates that the class of `ItemCacheChain` is orderly (`OrderlyChain`), so the hypothesis is not empty. In
`ItemCacheGetters` a getter is an input of another, so there the property is only model-checked. The invariant is `FInv`, beside
`IInv`. A cached value is what its source was worth with the inputs recorded (`Coherent`); a read compares those
with the inputs it finds, so what remains is that these are still true when it compares. For that, there is a set of
keys that the calls in progress have read, each with the answer it gave, and the cache still gives those answers
(`Steady`): in an orderly class a read changes the slots of its own key only, and the set holds the inputs of its keys, so
that reading one of them again finds nothing to change. Each call in progress has found what that set says (`Reading`), and its caller is told it (`Told`). `Fresh`
is a recursive function whose calls do not descend on the face of it; that it has a solution, and so unfolds
(`FreshUnfolds`), is shown from the ranks of keys (`Solution`). The answers of a settled set are then compared with it by
a key of least rank at which they differ (`WorthsAreAnswers`). `RecordsAssumption` says that recorded inputs, even
none, differ from inputs never recorded.

`TypeBuilderProofs` proves `[]TypeOK`, `[]NoReentry`, `[]MarkedIsUnregistered` and `ClassesAreKept` for any schemas and
any cycles among them. `IInv` says that the stack is well formed: the lowest frame is the program's, the others build
different ids, each has as many answers and calls to make as its schema has references (without which the bases of a
class could not be told from its parts), and each frame below the top waits for a call; that the ids on the stack are
marked; and that marked ids have no class. The last two hold each other up: `Finish` registers the id it unmarks, and
no other frame has that id. `[]ProxiesResolve` and `[]PartsAreRegistered` need `Registrations` beside it: every class made
is the registered one of its id unless the program defined that id again, the registry names classes only, a proxy
is only made of an id that is marked, has a class, or was abandoned. That the end of a chain of references is what the
definition `EndOf` computes is an induction on its steps, for which `Ids` is assumed finite.

`DocStoreProofs` proves `[]DocumentsAgree`, `[]CacheIsCurrent` and `ResolvingRegistersNothing` for any documents, files,
uris, parts and parsers. `IInv` is the types, `Agrees(d)` of each document and `Current(u, remote)` of each question that
was resolved; it is split into what documents say (`DocsOK`) and what the store and the cache say (`StoreOK`), because
an action that changes the one mostly leaves the other. The exception of `ResolvingRegistersNothing` is in its statement: one
uri, that of the resolver, and only where the store was empty.

`NamespaceProofs` proves `[]AnswersAreCurrent` and `[]IdsRoundTrip` for any namespaces, documents, parts and size of the
cache. `IInv` says of a cached answer what it is worth in its own namespace: what the registry says when the empty name
stands for the uri of that namespace (`RegistryIn`), whichever is current; answers given with no current namespace are
left out while there is one. It failed for one order of calls, which showed an exception that the property had not
named (section 4). The round trip is not about the order of calls but about the look-ups: names are totally ordered, so finitely many have a greatest one
(`GreatestExists`); a name that begins another is before it, by an assumption on `Cut` that strings satisfy; so, where
names are nested as uris are, the namespace that is found is that of the document (`FindsNsOfDocument`).

`InstanceTreeProofs` proves `[]ParentsFollowOwners` and `[]NamesAreCurrent` for any objects, in trees and in cycles of
any size. `IInv` relates each object to its owner alone: what was not moved has itself in front of the maps of its owner
(`StayedOK`), what a lazy array took has those maps as they are (`PlacedOK`), parents are what the maps begin with
(`ParentsOK`), and an object that is not made yet is in no map (`MadeOK`), so that making it changes no parent and no name
above another. `PlacedOK` needs that the array of an object that was not moved still has its context: arrays copy the
context they find when they are made, and keep it when their object moves. The property speaks of whole chains; that the maps of an object nothing moved are the chain of its owners
(`Lineage`) is an induction on their length (`SettledLineage`), and that the first instance in them is the one that the chain of owners
ends at is another (`UntilFirst`). A cached name is compared with the path (`NameOK`) through `SamePath`: two trees that agree from an
instance on give it the same path and are both without a cycle above it, or neither.

`EntityStoreProofs` proves `[]ResolversAgree`, `[]LinksFollow`, `GivenKeysAreNew` and the refinement
`RepositoriesAreIndexes` for any entities, repositories, sessions and number of keys. `GivenKeysAreNew` rests on
`LeastNumber` (`NextKeyIsNew`): the keys in use are finitely many, so there is a largest one, and the number after it
is none of them; its `IInv` is the types, and that a repository that is not bound yet holds nothing. The refinement and
the links need more, `JInv`: while a repository has not drifted, each entry of its catalog names an object of its
content under the keys the object has and was last asked for, and no two objects of the content have the same keys
(`Indexed`); a foreign key carries the keys of what it was set to as long as the repository it resolves in has not drifted
(`Leads`), and what has those keys is filed under them (`FiledUnderKeys`), so that the session finds it. The refinement has one lemma per action, which names the step of the index it maps to; the case that needs
`Indexed` is a commit that replaces an object, where the object found in the content must be the one the catalog had.

`QueryChainProofs` proves `[]ResultsMatch`, `[]ResultsInOrder`, `[]ResultsDistinct`, `[]UnsharedIsComplete` and
`OnlyUnionGrows` for any objects, filters, lists and bounds, hence for any number of queries that share generators in
any way. It first proves `[]Shape`: references lead to what exists, every chain of generators ends at exactly
one list (`Root`), the chain being resumed descends from the query's source, and nothing refers to the generator of
`next()` or `get()`, which is why dropping it is sound. It also shows, of the operators of `Filters`, that a criterion
stays one of its `Forms` however many objects it is called with, which takes induction on the criteria (`Iterated`,
`LeastNumber`: a function defined step by step exists, and a set of numbers has a least). It then proves
`[]IInv`, that is `Shape` and `Data`: each result, and the object that is climbing a chain, met the criteria of every
filter below it in one of their forms and is remembered by those that are distinct, which could hash it (`Came`); results lie at increasing
places of the list (`Trail`), none beyond the place its generator has reached. The climbing object must be part of the
invariant because between its leaving the list and its arrival in the results nothing else remembers it. That
`FoundInOrder`, which the run evaluates, follows from `Trail` is an induction of its own (`TrailFound`).

That an unshared query is complete is about what is not in the results, and takes another invariant, `[]CInv`: every
object that left the list is `Settled`, that is refused by a generator of the chain, or equal to one the query was given,
or equal to the one that is climbing (`Counted`). A distinct generator drops an object because it remembers an equal
one, so what it remembers must be settled too, and not by an object that is climbing at or below that generator: it would be
dropped in turn for the sake of itself; hence the third argument of `Settled`. `Held` has what the calls and queries keep beside it:
a query that was given something is among the takers of its iterator, so that a later query over the same iterator is
not alone from the start; an iterator that has ended went through all there was, unless it raised (`Sound`), so nothing
climbs to a query that has its results (`AllDone`, an induction on the iterators). Each step of a call `Settles` what it
moves; a query that is made goes through what no one has consumed, or is not alone (`NewOver`, `FirstCounted`).

`LazyArrayProofs` proves `[]EagerItemsAreFresh` and `[]ActsAsAList` for any values and arrays of any length. Of each
single operation a predicate says what it does to the items a reader sees (`Got`, `Set`, `Deleted`, `Inserted`) and that
it keeps the lists in step and fresh, also when it raises. The operations of a mutable sequence are loops over those: a
loop is a function defined step by step, which exists (`RunExists`) and stays in a chain of sets, one per turn
(`KeepsIn`); the sets are what has been looked at, removed or exchanged so far (`Looking`, `Clearing`, `Reversing`).
`IInv` is then inductive, and the second theorem follows from it alone: the state is reachable, so its lists are in
step. It needs that evaluating a value again changes nothing, which `LazyArrayAssumption` states of the types.

Out of reach of the proof system and left to TLC: everything under fairness (`CallsEnd`), and what recursive definitions
compute (`XmlDict`, the recursive operators of `Literals`, `ClassAssembly` and `Serialization`). Only
model-checked as well: `AnswerIsFresh` of classes that are not orderly, where it depends on what getters answer, and
`ReadsRepeat`, which compares two reads of a history that `ItemCacheReads` keeps for one instance.

## 6. Not modelled, and what is left

- Decorators, settings, registries and the command line: one call each, or tables filled when modules are imported.
- Loading and dumping in the formats of json, yaml and toml: calls of libraries. `DocumentRegistry` and the file
  repositories raise whenever they are used, `Session` has no other method with a body.
- `TypeBuilder.expand` cannot run (`type_builder.py:113, 133`); `UriResolver._expand` is called by nobody else. `resolve_cname` overwrites
  its argument (`object_protocol.py:344`), listing the definitions of a namespace asks for the id of a name
  (`namespace_manager.py:211`).
- Searches by path (`search_object`), tables of a query, fragments of uris and remote retrieval, detection of types,
  methods of mappings that only read, sets and tuples as arrays, cleaned names of properties.

A next step would be a composition of `ItemCache` with `InstanceTree`, where expressions mention properties of other
objects.
