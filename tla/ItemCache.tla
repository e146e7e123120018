------------------------------ MODULE ItemCache ------------------------------
(***************************************************************************)
(* The item cache of one ObjectProtocol instance                           *)
(* (ngoschema/protocols/object_protocol.py, collection_protocol.py).       *)
(*                                                                         *)
(* An instance keeps, for each key, the raw value it was given (_data),    *)
(* the converted and validated value (_dataValidated, None until it is     *)
(* evaluated) and the values its inputs had then (_itemsInputs).  A read   *)
(* decides whether the cached value is outdated by reading the inputs of   *)
(* the key, each of which is itself a read: reads nest, and an exception   *)
(* in a nested read is logged and swallowed by the reader.  The nesting is *)
(* explicit here, as a stack of reads in progress, so that every step is   *)
(* one loop iteration or one assignment block of the code.                 *)
(*                                                                         *)
(* A mapping is a total function on Keys; Absent stands for a missing key. *)
(***************************************************************************)
EXTENDS Naturals, Sequences

CONSTANTS
    Declared,        \* keys of _properties: they have a PropertyDescriptor
    Additional,      \* other keys, accepted by _propertiesAdditional
    Raw,             \* values a caller may give, and their conversions
    Exprs,           \* the raw values that are a Pattern or an Expr
    None,            \* Python's None
    Absent,          \* "no such key"
    Err,             \* "an exception was raised"
    Unknown,         \* (properties only) "not determined by the sources alone"
    Deps,            \* _dependencies: the keys a key is declared to depend on
    Rank,            \* a ranking that dependencies and inputs descend
    Primitive,       \* keys whose type is primitive
    ReadOnly,        \* _readOnly
    Required,        \* _required
    Getters,         \* keys with an fget
    Setters,         \* keys with an fset; it looks at the value, and neither
                     \* raises nor sets the key again (object_protocol.py:86)
    Default,         \* the default of each key's type, or None
    RawOf(_),        \* the raw values callers give to a key (may include None)
    InitOf(_),       \* those _deserialize leaves in a new instance (or Absent)
    ExprInputs(_),   \* names found in an expression (Pattern/Expr._inputs)
    Eval(_, _, _),   \* Eval(k, raw, env): convert and validate, or Err
    Getter(_, _)     \* Getter(k, env): what fget returns from the inputs read

Keys == Declared \cup Additional

Value == Raw \cup {None}          \* what a present key may hold
Slot  == Value \cup {Absent}      \* what a mapping may hold at a key
Env   == [Keys -> Slot]           \* a dictionary: inputs read, or a context

NoInputs == [k \in Keys |-> Absent]

ASSUME SentinelAssumption ==
    /\ None \notin Raw /\ Absent \notin Raw /\ Err \notin Raw
    /\ None # Absent /\ None # Err /\ Absent # Err
    /\ Unknown \notin Value \cup {Absent, Err}

\* Inputs that were recorded, even none, are not inputs that never were.
ASSUME RecordsAssumption == Absent \notin Env

ASSUME KeysAssumption ==
    /\ Declared \cap Additional = {}
    /\ Primitive \subseteq Keys
    /\ ReadOnly \subseteq Declared /\ Required \subseteq Declared
    /\ Getters \subseteq Declared /\ Setters \subseteq Declared
    /\ Deps \in [Keys -> SUBSET Keys]
    /\ Default \in [Keys -> Value]
    /\ Exprs \subseteq Raw

ASSUME ValuesAssumption ==
    \A k \in Keys :
        /\ RawOf(k) \subseteq Value
        /\ InitOf(k) \subseteq Slot
        /\ k \in Declared => Absent \notin InitOf(k)

\* Converting a literal yields no expression; a default that cannot be
\* rendered keeps its text (Primitive._convert logs and goes on), and types
\* that are not primitive do not render.
ASSUME EvalAssumption ==
    \A k \in Keys : \A env \in Env :
        /\ \A v \in Raw :
              /\ Eval(k, v, env) \in Value \cup {Err}
              /\ Eval(k, v, env) \in Exprs =>
                    /\ v \in Exprs
                    /\ v = Default[k] \/ k \notin Primitive => Eval(k, v, env) = v
        /\ k \in Getters => Getter(k, env) \in Value \ Exprs

\* The expressions a key may get its value from.
Sources(k) == (RawOf(k) \cup InitOf(k) \cup {Default[k]}) \cap Exprs

\* The code does not detect cycles: an input cycle is an unbounded recursion.
ASSUME AcyclicAssumption ==
    /\ Rank \in [Keys -> Nat]
    /\ \A k \in Keys : \A j \in Deps[k] : Rank[j] < Rank[k]
    /\ \A k \in Keys : \A v \in Sources(k) :
           \A j \in ExprInputs(v) \cap Keys : Rank[j] < Rank[k]

VARIABLES
    data,            \* _data
    dv,              \* _dataValidated
    itemsInputs,     \* _itemsInputs
    applied,         \* the last value each fset was called with
    stack,           \* the reads and eager writes in progress, innermost last
    result,          \* the outcome of the last call a caller made
    toBuild,         \* keys __init__ has still to read, when not lazy
    lazy             \* _lazyLoading, given to the constructor or the class's

vars == <<data, dv, itemsInputs, applied, stack, result, toBuild, lazy>>

Frame == [key : Keys, op : {"get", "item", "attr", "set"},
          phase : {"check", "inputs"}, todo : SUBSET Keys, got : Env]

NoResult == [op |-> "none", key |-> None, out |-> None]

-----------------------------------------------------------------------------
(* Helpers of the code.  A definition called a mutant is the one after it    *)
(* with a plausible bug: a property says something of the code only if such  *)
(* a bug breaks it.                                                          *)

\* Mutant: the names found in an expression are not inputs.
InputKeysDeclared(k, v) == Deps[k]

\* Mutant: the keys that depend on a key are its inputs too.
InputKeysBothWays(k, v) == Deps[k] \cup {j \in Keys : k \in Deps[j]}

\* CollectionProtocol._items_inputs_evaluate: which keys are read for key k
\* when its raw value is v.  (A name that is no key is a KeyError that leaves
\* no trace.)
InputKeys(k, v) ==
    Deps[k] \cup (IF k \in Primitive /\ v \in Exprs THEN ExprInputs(v) \cap Keys
                                                   ELSE {})

\* _items_touch visits a key and, transitively, the keys declared to depend
\* on it: the least set that holds k and is closed under that relation.
TouchSet(k) ==
    {j \in Keys : \A S \in SUBSET Keys :
        (k \in S /\ \A x \in S : \A y \in Keys : x \in Deps[y] => y \in S)
            => j \in S}

\* Mutant: touching removes the cached values instead of resetting them.
TouchedValuesRemoved(f, k) == [j \in Keys |-> IF j \in TouchSet(k) THEN Absent ELSE f[j]]

\* _items_touch on _dataValidated and on _itemsInputs; it creates the slots
\* of dependents that have none.
TouchedValues(f, k) == [j \in Keys |-> IF j \in TouchSet(k) THEN None ELSE f[j]]
TouchedInputs(f, k) == [j \in Keys |-> IF j \in TouchSet(k) THEN NoInputs ELSE f[j]]

\* _set_data touches unless a primitive is given the value it has.
Touches(k, v) == k \notin Primitive \/ v # data[k]

\* Mutant: every primitive keeps what it was given.
KeptAlways(k, raw, v) == IF k \in Primitive THEN raw ELSE v

\* Mutant: an evaluated expression is replaced by its value.
KeptNever(k, raw, v) == v

\* _set_dataValidated keeps the source of a primitive that is an expression.
Kept(k, raw, v) == IF k \in Primitive /\ raw \in Exprs THEN raw ELSE v

\* _items_evaluate, through Validator._evaluate: None stands for the default.
EvalItem(k, v, env) ==
    LET given == IF v = None THEN Default[k] ELSE v
    IN  IF given = None THEN None ELSE Eval(k, given, env)

\* self._itemsInputs.get(item, {})
RecordedInputs(k) == IF itemsInputs[k] = Absent THEN NoInputs ELSE itemsInputs[k]

-----------------------------------------------------------------------------
(* The stack of calls in progress *)

Top == stack[Len(stack)]

Ready == stack = <<>> /\ toBuild = {}    \* the caller has control

NewFrame(k, op, phase) ==
    [key |-> k, op |-> op, phase |-> phase,
     todo |-> InputKeys(k, data[k]), got |-> NoInputs]

\* Mutant: a value never read before is evaluated without reading its inputs.
ReadFrameUnread(k) ==
    IF dv[k] = None /\ data[k] # None
    THEN [key |-> k, op |-> IF k \in Declared THEN "get" ELSE "item",
          phase |-> "inputs", todo |-> {}, got |-> NoInputs]
    ELSE NewFrame(k, IF k \in Declared THEN "get" ELSE "item", "check")

\* Entering __get__ (declared) or the tail of __getitem__ (additional): the
\* first operand of _is_outdated decides alone when nothing is cached.
ReadFrame(k) ==
    LET missing == dv[k] = None /\ data[k] # None IN
    IF k \in Declared
    THEN NewFrame(k, "get", IF missing THEN "inputs" ELSE "check")
    ELSE NewFrame(k, "item", IF lazy \/ missing THEN "inputs" ELSE "check")

\* Mutant: an input that raised is read again.
WithInputRetried(f, j, out) ==
    IF out = Err THEN f
    ELSE [f EXCEPT !.todo = @ \ {j}, !.got[j] = out]

\* A frame after the read of input j: a value is recorded, an exception is
\* logged and leaves no entry.
WithInput(f, j, out) ==
    LET entry == IF out = Err THEN Absent ELSE out
    IN  [key |-> f.key, op |-> f.op, phase |-> f.phase,
         todo |-> f.todo \ {j}, got |-> [f.got EXCEPT ![j] = entry]]

\* The innermost call ends with out: its reader goes on, or the caller does.
Leave(out) ==
    /\ stack' = [i \in 1 .. Len(stack) - 1 |->
                    IF i = Len(stack) - 1 THEN WithInput(stack[i], Top.key, out)
                                          ELSE stack[i]]
    /\ result' = IF Len(stack) = 1
                 THEN [op |-> Top.op, key |-> Top.key, out |-> out]
                 ELSE result

ReplaceTop(f) == stack' = [stack EXCEPT ![Len(stack)] = f] /\ UNCHANGED result

Running(ops, phase) == stack # <<>> /\ Top.op \in ops /\ Top.phase = phase

-----------------------------------------------------------------------------
(* Construction *)

\* __init__: _deserialize fills _data, _touch allocates the other mappings,
\* and an instance that is not lazy reads all of its items.
Init ==
    /\ data \in {f \in [Keys -> Slot] : \A k \in Keys : f[k] \in InitOf(k)}
    /\ dv = [k \in Keys |-> IF data[k] = Absent THEN Absent ELSE None]
    /\ itemsInputs = [k \in Keys |-> IF data[k] = Absent THEN Absent ELSE NoInputs]
    /\ applied = [k \in Keys |-> Absent]
    /\ stack = <<>>
    /\ result = NoResult
    /\ lazy \in BOOLEAN
    /\ toBuild = IF lazy THEN {} ELSE {k \in Keys : data[k] # Absent}

\* self._collType(self) reads the next item ...
BuildItem(k) ==
    /\ stack = <<>> /\ result = NoResult
    /\ k \in toBuild
    /\ stack' = <<ReadFrame(k)>>
    /\ UNCHANGED <<data, dv, itemsInputs, applied, result, toBuild>>

\* ... and goes on unless it raised: then there is no instance.
ItemBuilt ==
    /\ stack = <<>> /\ toBuild # {}
    /\ result # NoResult /\ result.out # Err
    /\ toBuild' = toBuild \ {result.key}
    /\ result' = NoResult
    /\ UNCHANGED <<data, dv, itemsInputs, applied, stack>>

-----------------------------------------------------------------------------
(* Reads *)

\* obj.k or obj[k] for a declared key; obj[k] for an additional one.
Get(k) ==
    /\ Ready /\ data[k] # Absent
    /\ stack' = <<ReadFrame(k)>>
    /\ result' = NoResult
    /\ UNCHANGED <<data, dv, itemsInputs, applied, toBuild>>

\* obj.k for an additional key: __getattr__ records the inputs itself first.
GetAttr(k) ==
    /\ Ready /\ k \in Additional /\ data[k] # Absent
    /\ stack' = <<NewFrame(k, "attr", "inputs")>>
    /\ result' = NoResult
    /\ UNCHANGED <<data, dv, itemsInputs, applied, toBuild>>

\* One iteration of the loops of _items_inputs_evaluate: self[j].
ReadInput(j) ==
    /\ stack # <<>> /\ j \in Top.todo
    /\ IF data[j] = Absent
       THEN ReplaceTop(WithInput(Top, j, Err))          \* KeyError, swallowed
       ELSE stack' = Append(stack, ReadFrame(j)) /\ UNCHANGED result
    /\ UNCHANGED <<data, dv, itemsInputs, applied, toBuild>>

\* The end of _is_outdated.  The inputs are read a second time when it holds.
CheckDone ==
    /\ Running({"get", "item"}, "check") /\ Top.todo = {}
    /\ LET k == Top.key
           outdated == \/ Top.got # RecordedInputs(k)
                       \/ k \in Getters /\ dv[k] = None
       IN  IF outdated
           THEN ReplaceTop(NewFrame(k, Top.op, "inputs"))
           ELSE Leave(dv[k])
    /\ UNCHANGED <<data, dv, itemsInputs, applied, toBuild>>

\* Mutant: fset is called before the value is stored.
StoreAfterSetter(k, raw, values, inputs, got, v) ==
    /\ data' = [data EXCEPT ![k] = Kept(k, raw, v)]
    /\ dv' = [values EXCEPT ![k] = v]
    /\ itemsInputs' = [inputs EXCEPT ![k] = got]
    /\ applied' = IF k \in Setters THEN [applied EXCEPT ![k] = values[k]] ELSE applied
    /\ Leave(v)

\* _set_dataValidated, then the inputs are recorded and fset is called.
Store(k, raw, values, inputs, got, v) ==
    /\ data' = [data EXCEPT ![k] = Kept(k, raw, v)]
    /\ dv' = [values EXCEPT ![k] = v]
    /\ itemsInputs' = [inputs EXCEPT ![k] = got]
    /\ applied' = IF k \in Setters THEN [applied EXCEPT ![k] = v] ELSE applied
    /\ Leave(v)

\* __get__ of a key without fget, once its inputs are read.  An exception
\* leaves the mappings as they are.
Evaluate ==
    /\ Running({"get"}, "inputs") /\ Top.todo = {} /\ Top.key \notin Getters
    /\ LET k == Top.key
           v == EvalItem(k, data[k], dv)
       IN  IF v = Err
           THEN Leave(Err) /\ UNCHANGED <<data, dv, itemsInputs, applied>>
           ELSE Store(k, data[k], dv, itemsInputs, Top.got, v)
    /\ UNCHANGED toBuild

\* __get__ of a key with an fget: fget reads the declared dependencies again
\* and propagates what they raise; its result goes through _set_data.
EvaluateGetter ==
    /\ Running({"get"}, "inputs") /\ Top.todo = {} /\ Top.key \in Getters
    /\ LET k == Top.key
           raises == \E j \in Deps[k] : Top.got[j] = Absent
           raw == Getter(k, Top.got)
           values == IF Touches(k, raw) THEN TouchedValues(dv, k) ELSE dv
           inputs == IF Touches(k, raw) THEN TouchedInputs(itemsInputs, k)
                                        ELSE itemsInputs
           v == EvalItem(k, raw, values)
       IN  \/ /\ raises
              /\ Leave(Err)
              /\ UNCHANGED <<data, dv, itemsInputs, applied>>
           \/ /\ ~raises /\ v = Err
              /\ data' = [data EXCEPT ![k] = raw]
              /\ dv' = values
              /\ itemsInputs' = inputs
              /\ Leave(Err)
              /\ UNCHANGED applied
           \/ /\ ~raises /\ v # Err
              /\ Store(k, raw, values, inputs, Top.got, v)
    /\ UNCHANGED toBuild

\* The tail of __getitem__ (additional keys): the inputs are recorded before
\* the evaluation, which may raise.
EvaluateItem ==
    /\ Running({"item"}, "inputs") /\ Top.todo = {}
    /\ LET k == Top.key
           v == EvalItem(k, data[k], dv)
       IN  /\ itemsInputs' = [itemsInputs EXCEPT ![k] = Top.got]
           /\ IF v = Err
              THEN Leave(Err) /\ UNCHANGED <<data, dv>>
              ELSE /\ data' = [data EXCEPT ![k] = Kept(k, data[k], v)]
                   /\ dv' = [dv EXCEPT ![k] = v]
                   /\ Leave(v)
    /\ UNCHANGED <<applied, toBuild>>

\* __getattr__ (additional keys): the inputs are recorded, then self[name].
AttrInputsRead ==
    /\ Running({"attr"}, "inputs") /\ Top.todo = {}
    /\ itemsInputs' = [itemsInputs EXCEPT ![Top.key] = Top.got]
    /\ ReplaceTop(ReadFrame(Top.key))
    /\ UNCHANGED <<data, dv, applied, toBuild>>

-----------------------------------------------------------------------------
(* Writes *)

\* PropertyDescriptor.__set__.  It raises on a read-only key, and on a key
\* that was deleted (_set_data reads the old value).  When not lazy it goes
\* on to evaluate the key.
Set(k, v) ==
    /\ Ready /\ k \in Declared
    /\ IF k \in ReadOnly \/ data[k] = Absent
       THEN /\ result' = [op |-> "set", key |-> k, out |-> Err]
            /\ UNCHANGED <<data, dv, itemsInputs, stack>>
       ELSE /\ data' = [data EXCEPT ![k] = v]
            /\ dv' = IF Touches(k, v) THEN TouchedValues(dv, k) ELSE dv
            /\ itemsInputs' = IF Touches(k, v) THEN TouchedInputs(itemsInputs, k)
                                               ELSE itemsInputs
            /\ result' = IF lazy THEN [op |-> "setlazy", key |-> k, out |-> None]
                                 ELSE NoResult
            /\ stack' = IF lazy THEN <<>>
                        ELSE <<[key |-> k, op |-> "set", phase |-> "inputs",
                                todo |-> InputKeys(k, v), got |-> NoInputs]>>
    /\ UNCHANGED <<applied, toBuild>>

\* The end of __set__ when not lazy: the inputs are recorded first.
EvaluateSet ==
    /\ Running({"set"}, "inputs") /\ Top.todo = {}
    /\ LET k == Top.key
           v == EvalItem(k, data[k], dv)
       IN  IF v = Err
           THEN /\ itemsInputs' = [itemsInputs EXCEPT ![k] = Top.got]
                /\ Leave(Err)
                /\ UNCHANGED <<data, dv, applied>>
           ELSE Store(k, data[k], dv, itemsInputs, Top.got, v)
    /\ UNCHANGED toBuild

\* __setitem__ (and so __setattr__) of an additional key.
SetAdditional(k, v) ==
    /\ Ready /\ k \in Additional
    /\ data' = [data EXCEPT ![k] = v]
    /\ dv' = [dv EXCEPT ![k] = v]
    /\ result' = [op |-> "setitem", key |-> k, out |-> v]
    /\ UNCHANGED <<itemsInputs, applied, stack, toBuild>>

\* PropertyDescriptor.__delete__: del obj.k.
DelAttr(k) ==
    /\ Ready /\ k \in Declared
    /\ IF k \in Required \/ data[k] = Absent
       THEN /\ result' = [op |-> "delattr", key |-> k, out |-> Err]
            /\ UNCHANGED <<data, dv, itemsInputs>>
       ELSE /\ data' = [data EXCEPT ![k] = Absent]
            /\ dv' = [dv EXCEPT ![k] = Absent]
            /\ itemsInputs' = [itemsInputs EXCEPT ![k] = Absent]
            /\ result' = [op |-> "delattr", key |-> k, out |-> None]
    /\ UNCHANGED <<applied, stack, toBuild>>

\* __delitem__: del obj[k], for a key whose name needs no translation.  The
\* three deletions are made one by one and the second may raise.
DelItem(k) ==
    /\ Ready /\ data[k] # Absent
    /\ data' = [data EXCEPT ![k] = Absent]
    /\ IF itemsInputs[k] = Absent
       THEN /\ result' = [op |-> "delitem", key |-> k, out |-> Err]
            /\ UNCHANGED <<dv, itemsInputs>>
       ELSE /\ result' = [op |-> "delitem", key |-> k, out |-> None]
            /\ dv' = [dv EXCEPT ![k] = Absent]
            /\ itemsInputs' = [itemsInputs EXCEPT ![k] = Absent]
    /\ UNCHANGED <<applied, stack, toBuild>>

-----------------------------------------------------------------------------
\* Steps the interpreter takes by itself once a call has been made.
Run == \/ ItemBuilt
       \/ \E k \in Keys : BuildItem(k) \/ ReadInput(k)
       \/ CheckDone \/ Evaluate \/ EvaluateGetter \/ EvaluateItem
       \/ AttrInputsRead \/ EvaluateSet

\* Calls the program makes on the instance.
Call == \E k \in Keys :
           \/ Get(k) \/ GetAttr(k) \/ DelAttr(k) \/ DelItem(k)
           \/ \E v \in RawOf(k) : Set(k, v) \/ SetAdditional(k, v)

Next == (Run \/ Call) /\ UNCHANGED lazy

\* A call that was made runs to its end: one thread executes it.
Spec == Init /\ [][Next]_vars /\ WF_vars(Run /\ UNCHANGED lazy)

-----------------------------------------------------------------------------
(* Properties *)

ResultOK == result = NoResult \/ (result.key \in Keys /\ result.out \in Value \cup {Err})

CacheTypeOK ==
    /\ data \in [Keys -> Slot]
    /\ dv \in [Keys -> Slot]
    /\ itemsInputs \in [Keys -> Env \cup {Absent}]
    /\ applied \in [Keys -> Slot]
    /\ stack \in Seq(Frame)
    /\ ResultOK
    /\ toBuild \subseteq Keys
    /\ \A k \in Keys : data[k] # Absent => dv[k] # Absent

\* Every variable has its type; a key present in _data has a slot in
\* _dataValidated, so no read of a present key raises KeyError there.
TypeOK == CacheTypeOK /\ lazy \in BOOLEAN

\* A key is never read again while it is being read or written: where inputs
\* are ranked, as AcyclicAssumption says, nested reads only go down them. Where
\* they are in a cycle the code recurses until Python's limit.
NoReentry ==
    \A i, j \in 1 .. Len(stack) : stack[i].key = stack[j].key => i = j

\* What the stack is made of: a frame reads only keys below its own, which is
\* present; expressions stay those a caller or a default gave.
FrameOK(f) ==
    /\ f.op \in {"get", "set"} => f.key \in Declared
    /\ f.op \in {"item", "attr"} => f.key \in Additional
    /\ \A j \in f.todo : Rank[j] < Rank[f.key]

Descending ==
    \A i, j \in 1 .. Len(stack) : i < j => Rank[stack[j].key] < Rank[stack[i].key]

StackOK == (\A i \in 1 .. Len(stack) : FrameOK(stack[i])) /\ Descending

PresentOK ==
    /\ \A i \in 1 .. Len(stack) : data[stack[i].key] # Absent
    /\ \A k \in toBuild : data[k] # Absent

SourcesOK == \A k \in Keys : data[k] \in Exprs => data[k] \in Sources(k)

\* The cached value of a key whose source is not an expression is its source:
\* however writes, reads, getters and failures follow each other, no literal
\* is ever read at a value it had before (_set_data, _set_dataValidated).
LiteralIsCurrent ==
    \A k \in Keys :
        data[k] \notin Exprs /\ dv[k] # None /\ data[k] # Absent => dv[k] = data[k]

\* fset has seen the value a reader of the key gets from the cache, whether
\* the value was stored by the write or by the first read after it.
SetterApplied ==
    \A k \in Setters : dv[k] \notin {None, Absent} => applied[k] = dv[k]

\* What each key is worth, computed from the sources alone: the reference a
\* read is compared with.  Unknown when an input is missing or raises (the
\* reader goes on with whatever is cached), when None stands for a default
\* that is an expression (its inputs are not read) or that a lazy read may
\* not look at, for additional keys that are evaluated only if outdated, and
\* for a key evaluated after a read has touched one of its inputs: a getter
\* that is worth None runs at every read, and if its type is not primitive it
\* touches what depends on it, whoever reads it.
NoneIsAmbiguous(k) ==
    data[k] = None /\ Default[k] # None /\ (lazy \/ Default[k] \in Exprs)

Needs(k) ==
    Deps[k] \cup {j \in Keys : k \in Primitive /\ data[k] \in Exprs /\ j \in ExprInputs(data[k])}

Fresh[k \in Keys] ==
    LET needs == Needs(k)
        env == [j \in Keys |-> IF j \in needs THEN Fresh[j] ELSE Absent]
    IN  CASE data[k] = Absent -> Absent
          [] data[k] # Absent /\ \E j \in needs : env[j] \in {Absent, Err, Unknown} ->
                Unknown
          [] OTHER ->
                CASE k \in Getters -> EvalItem(k, Getter(k, env), env)
                  [] k \notin Getters /\ NoneIsAmbiguous(k) -> Unknown
                  [] k \in Additional /\ ~lazy -> Unknown
                  [] \E i \in Getters \ Primitive, j \in needs :
                         i # j /\ j \in TouchSet(i) /\ Fresh[i] = None -> Unknown
                  [] OTHER -> EvalItem(k, data[k], env)

\* A read, or a write that evaluates, ends with the value the sources are
\* worth, and raises exactly when that value is invalid.
Evaluating ==
    \/ result.op \in {"get", "item"}
    \/ result.op = "set" /\ result.key \notin ReadOnly /\ data[result.key] # Absent

AnswerIsFresh ==
    Evaluating /\ Fresh[result.key] # Unknown => result.out = Fresh[result.key]

\* The classes for which AnswerIsFresh is proved.  The conditions leave out
\* classes of which the code answers otherwise (the README says how), and some
\* more: a getter that another depends on is only model-checked.
\*
\* A value depends on what its expression names, a getter on what it declares.
DependsOnInputs ==
    \A k \in Keys : \A env \in Env :
        /\ \A v \in Raw :
              Eval(k, v, env) = Eval(k, v,
                  [j \in Keys |-> IF k \in Primitive /\ v \in Exprs /\ j \in ExprInputs(v)
                                  THEN env[j] ELSE Absent])
        /\ k \in Getters =>
              Getter(k, env) = Getter(k, [j \in Keys |-> IF j \in Deps[k] THEN env[j]
                                                                        ELSE Absent])

\* A value that replaced its source is evaluated to itself, and is not None.
ValuesSettle ==
    \A k \in Keys : \A env \in Env : \A v \in Raw :
        LET w == Eval(k, v, env)
        IN  w # Err /\ (k \notin Primitive \/ v \notin Exprs \/ v = Default[k])
                => w # None /\ Eval(k, w, env) = w

\* Defaults are given to new instances, and can always be evaluated.
DefaultsAreValid ==
    \A k \in Keys : Default[k] # None =>
        /\ None \notin InitOf(k)
        /\ \A env \in Env : Eval(k, Default[k], env) \notin Exprs \cup {Err}

\* A getter's key is not written, and nothing is declared to depend on it.
GettersStandAlone ==
    \A k \in Getters :
        /\ Sources(k) = {} /\ (k \in ReadOnly \/ RawOf(k) = {})
        /\ \A j \in Keys : k \notin Deps[j]

\* Additional keys take any value.
AdditionalIsValid ==
    \A k \in Additional : \A env \in Env :
        \A v \in (Raw \ Exprs) \cup Sources(k) : Eval(k, v, env) # Err

\* An expression that may be written again raises only for lack of an input.
WrittenIsValid ==
    \A k \in (Declared \cap Primitive) \ ReadOnly : \A env \in Env :
        \A v \in RawOf(k) \cap Exprs :
            (\A j \in ExprInputs(v) \cap Keys : env[j] # Absent) => Eval(k, v, env) # Err

OrderlyClass ==
    /\ DependsOnInputs /\ ValuesSettle /\ DefaultsAreValid
    /\ GettersStandAlone /\ AdditionalIsValid /\ WrittenIsValid

\* Reads and evaluations never replace an expression by its value: only a
\* write, a deletion or a getter's result does.
ExpressionsSurviveReads ==
    [][\A k \in Keys : (Run /\ k \in Primitive \ Getters /\ data[k] \in Exprs)
            => data'[k] = data[k]]_vars

\* Every call ends.
CallsEnd == (stack # <<>>) ~> (stack = <<>>)
=============================================================================
