--------------------------- MODULE ItemCacheProofs ---------------------------
(***************************************************************************)
(* Proofs about ItemCache, for any set of keys, values, dependencies and   *)
(* getters that satisfy its assumptions.                                   *)
(*                                                                         *)
(* The inductive invariant is IInv.  Typing alone is not inductive for the *)
(* read stack: that a nested read never meets a key being read needs each  *)
(* frame to have only inputs of lower rank left to read (StackOK), which   *)
(* holds for a new frame because expressions come only from callers and    *)
(* defaults (SourcesOK).                                                   *)
(*                                                                         *)
(* That answers are fresh takes a second invariant beside it, FInv: what   *)
(* is cached was worth it when its inputs were recorded (Coherent), and    *)
(* what a call has read stays as it was answered until it ends (Steady).   *)
(***************************************************************************)
EXTENDS ItemCache, SequenceTheorems, WellFoundedInduction, TLAPS

MapsOK ==
    /\ data \in [Keys -> Slot]
    /\ dv \in [Keys -> Slot]
    /\ itemsInputs \in [Keys -> Env \cup {Absent}]
    /\ applied \in [Keys -> Slot]
    /\ \A k \in Keys : data[k] # Absent => dv[k] # Absent
    /\ SourcesOK
    /\ LiteralIsCurrent
    /\ SetterApplied

CallsOK ==
    /\ stack \in Seq(Frame)
    /\ StackOK
    /\ ResultOK
    /\ toBuild \subseteq Keys

IInv == CacheTypeOK /\ MapsOK /\ CallsOK /\ PresentOK

-----------------------------------------------------------------------------
(* Helpers *)

LEMMA NoInputsType == NoInputs \in Env
BY DEF NoInputs, Env, Slot

\* _items_evaluate yields a value or raises, and turns no literal into an
\* expression other than the default's own text.
LEMMA EvalItemType ==
    ASSUME NEW k \in Keys, NEW v \in Value, NEW env \in Env
    PROVE  /\ EvalItem(k, v, env) \in Value \cup {Err}
           /\ EvalItem(k, v, env) \in Exprs =>
                 /\ v \in Exprs \/ EvalItem(k, v, env) = Default[k]
                 /\ k \notin Primitive => EvalItem(k, v, env) \in {v, Default[k]}
<1>1. CASE v # None
  <2>1. v \in Raw
    BY <1>1 DEF Value
  <2> QED
    BY <1>1, <2>1, EvalAssumption DEF EvalItem
<1>2. CASE v = None /\ Default[k] = None
  BY <1>2, SentinelAssumption, KeysAssumption DEF EvalItem, Value
<1>3. CASE v = None /\ Default[k] # None
  <2>1. Default[k] \in Raw
    BY <1>3, KeysAssumption DEF Value
  <2>2. EvalItem(k, v, env) = Eval(k, Default[k], env)
    BY <1>3 DEF EvalItem
  <2> QED
    BY <2>1, <2>2, EvalAssumption
<1> QED
  BY <1>1, <1>2, <1>3

\* The touched slots are those of the key and nothing outside Keys.
LEMMA TouchedType ==
    ASSUME NEW k \in Keys, dv \in [Keys -> Slot],
           itemsInputs \in [Keys -> Env \cup {Absent}]
    PROVE  /\ TouchedValues(dv, k) \in [Keys -> Slot]
           /\ TouchedInputs(itemsInputs, k) \in [Keys -> Env \cup {Absent}]
           /\ k \in TouchSet(k)
BY NoInputsType DEF TouchedValues, TouchedInputs, TouchSet, Slot, Value

LEMMA InputKeysType ==
    ASSUME NEW k \in Keys, NEW v, v \in Exprs => v \in Sources(k)
    PROVE  /\ InputKeys(k, v) \subseteq Keys
           /\ \A j \in InputKeys(k, v) : Rank[j] < Rank[k]
BY KeysAssumption, AcyclicAssumption DEF InputKeys

LEMMA NewFrameOK ==
    ASSUME CacheTypeOK, SourcesOK, NEW k \in Keys,
           NEW op \in {"get", "item", "attr", "set"}, NEW phase \in {"check", "inputs"},
           op \in {"get", "set"} => k \in Declared,
           op \in {"item", "attr"} => k \in Additional
    PROVE  NewFrame(k, op, phase) \in Frame /\ FrameOK(NewFrame(k, op, phase))
<1>1. /\ InputKeys(k, data[k]) \subseteq Keys
      /\ \A j \in InputKeys(k, data[k]) : Rank[j] < Rank[k]
  BY InputKeysType DEF SourcesOK
<1> QED
  BY <1>1, NoInputsType DEF NewFrame, Frame, FrameOK

LEMMA ReadFrameOK ==
    ASSUME CacheTypeOK, SourcesOK, NEW k \in Keys
    PROVE  ReadFrame(k) \in Frame /\ FrameOK(ReadFrame(k)) /\ ReadFrame(k).key = k
<1>1. CASE k \in Declared
  <2>1. PICK phase \in {"check", "inputs"} : ReadFrame(k) = NewFrame(k, "get", phase)
    BY <1>1 DEF ReadFrame
  <2>2. NewFrame(k, "get", phase) \in Frame /\ FrameOK(NewFrame(k, "get", phase))
    BY <1>1, NewFrameOK
  <2> QED
    BY <2>1, <2>2 DEF NewFrame
<1>2. CASE k \notin Declared
  <2>0. k \in Additional
    BY <1>2 DEF Keys
  <2>1. PICK phase \in {"check", "inputs"} : ReadFrame(k) = NewFrame(k, "item", phase)
    BY <1>2 DEF ReadFrame
  <2>2. NewFrame(k, "item", phase) \in Frame /\ FrameOK(NewFrame(k, "item", phase))
    BY <2>0, NewFrameOK
  <2> QED
    BY <2>1, <2>2 DEF NewFrame
<1> QED
  BY <1>1, <1>2

LEMMA TopType ==
    ASSUME CacheTypeOK, stack # <<>>
    PROVE  /\ Len(stack) \in Nat \ {0}
           /\ Top \in Frame
           /\ Top.key \in Keys /\ Top.todo \subseteq Keys /\ Top.got \in Env
<1>1. stack \in Seq(Frame)
  BY DEF CacheTypeOK
<1>2. Len(stack) \in Nat \ {0}
  BY <1>1, EmptySeq
<1>3. Top \in Frame
  BY <1>1, <1>2, ElementOfSeq DEF Top
<1> QED
  BY <1>2, <1>3 DEF Frame

-----------------------------------------------------------------------------
(* The three ways the stack changes *)

\* Each frame of the new stack has a key the old stack, or the new frame, has.
LEMMA PushOK ==
    ASSUME CacheTypeOK, StackOK, stack # <<>>, NEW f \in Frame, FrameOK(f),
           Rank[f.key] < Rank[Top.key], stack' = Append(stack, f)
    PROVE  /\ stack' \in Seq(Frame) /\ StackOK'
           /\ \A i \in 1 .. Len(stack') : stack'[i].key = f.key \/
                  \E j \in 1 .. Len(stack) : stack'[i].key = stack[j].key
<1>1. /\ stack \in Seq(Frame) /\ stack' \in Seq(Frame)
      /\ Len(stack') = Len(stack) + 1
      /\ \A i \in 1 .. Len(stack) : stack'[i] = stack[i]
      /\ stack'[Len(stack) + 1] = f
  BY AppendProperties DEF CacheTypeOK
<1>2. Len(stack) \in Nat \ {0}
  BY TopType
<1>3. \A i \in 1 .. Len(stack) : stack[i].key \in Keys
  <2>1. \A i \in 1 .. Len(stack) : stack[i] \in Frame
    BY <1>1, ElementOfSeq
  <2> QED
    BY <2>1 DEF Frame
<1>4. \A i \in 1 .. Len(stack) : Rank[f.key] < Rank[stack[i].key]
  <2> TAKE i \in 1 .. Len(stack)
  <2>1. CASE i = Len(stack)
    BY <2>1 DEF Top
  <2>2. CASE i # Len(stack)
    <3>1. Rank[Top.key] < Rank[stack[i].key]
      BY <2>2, <1>2 DEF StackOK, Descending, Top
    <3>2. Rank[f.key] \in Nat /\ Rank[Top.key] \in Nat /\ Rank[stack[i].key] \in Nat
      BY <1>3, TopType, AcyclicAssumption DEF Frame
    <3> QED
      BY <3>1, <3>2
  <2> QED
    BY <2>1, <2>2
<1>5. \A i \in 1 .. Len(stack') : FrameOK(stack'[i])
  BY <1>1, <1>2 DEF StackOK
<1>6. Descending'
  <2> SUFFICES ASSUME NEW i \in 1 .. Len(stack'), NEW j \in 1 .. Len(stack'), i < j
               PROVE  Rank[stack'[j].key] < Rank[stack'[i].key]
    BY DEF Descending
  <2>1. CASE j = Len(stack) + 1
    BY <2>1, <1>1, <1>2, <1>4
  <2>2. CASE j # Len(stack) + 1
    BY <2>2, <1>1, <1>2 DEF StackOK, Descending
  <2> QED
    BY <2>1, <2>2
<1>7. \A i \in 1 .. Len(stack') : stack'[i].key = f.key \/
          \E j \in 1 .. Len(stack) : stack'[i].key = stack[j].key
  BY <1>1, <1>2
<1> QED
  BY <1>1, <1>5, <1>6, <1>7 DEF StackOK, FrameOK

LEMMA StartOK ==
    ASSUME NEW f \in Frame, FrameOK(f), stack' = <<f>>
    PROVE  /\ stack' \in Seq(Frame) /\ StackOK'
           /\ \A i \in 1 .. Len(stack') : stack'[i].key = f.key
<1>1. stack' \in Seq(Frame) /\ Len(stack') = 1 /\ stack'[1] = f
  OBVIOUS
<1> QED
  BY <1>1 DEF StackOK, Descending, FrameOK

LEMMA EmptyOK ==
    ASSUME stack' = <<>>
    PROVE  stack' \in Seq(Frame) /\ StackOK'
<1>1. stack' \in Seq(Frame) /\ Len(stack') = 0
  OBVIOUS
<1> QED
  BY <1>1 DEF StackOK, Descending, FrameOK

LEMMA ReplaceOK ==
    ASSUME CacheTypeOK, StackOK, stack # <<>>, NEW f \in Frame, FrameOK(f),
           f.key = Top.key, ReplaceTop(f)
    PROVE  /\ stack' \in Seq(Frame) /\ StackOK' /\ result' = result
           /\ \A i \in 1 .. Len(stack') : i \in 1 .. Len(stack) /\ stack'[i].key = stack[i].key
<1>1. stack \in Seq(Frame) /\ Len(stack) \in Nat \ {0}
  BY TopType DEF CacheTypeOK
<1>2. stack' = [stack EXCEPT ![Len(stack)] = f]
  BY DEF ReplaceTop
<1>3. /\ stack' \in Seq(Frame) /\ Len(stack') = Len(stack)
      /\ \A i \in 1 .. Len(stack) : stack'[i] = IF i = Len(stack) THEN f ELSE stack[i]
  BY <1>1, <1>2, ExceptSeq
<1>4. \A i \in 1 .. Len(stack) : stack'[i].key = stack[i].key
  BY <1>3 DEF Top
<1>5. \A i \in 1 .. Len(stack') : FrameOK(stack'[i])
  BY <1>3 DEF StackOK
<1>6. Descending'
  BY <1>3, <1>4 DEF StackOK, Descending
<1> QED
  BY <1>3, <1>4, <1>5, <1>6 DEF StackOK, ReplaceTop, FrameOK

LEMMA WithInputOK ==
    ASSUME NEW f \in Frame, FrameOK(f), NEW j \in Keys, NEW out \in Value \cup {Err}
    PROVE  /\ WithInput(f, j, out) \in Frame /\ FrameOK(WithInput(f, j, out))
           /\ WithInput(f, j, out).key = f.key
<1> DEFINE entry == IF out = Err THEN Absent ELSE out
<1>1. entry \in Slot
  BY DEF Slot
<1>2. f.got \in [Keys -> Slot] /\ f.todo \subseteq Keys
  BY DEF Frame, Env
<1>3. [f.got EXCEPT ![j] = entry] \in Env
  BY <1>1, <1>2 DEF Env
<1> HIDE DEF entry
<1>4. WithInput(f, j, out) =
        [key |-> f.key, op |-> f.op, phase |-> f.phase,
         todo |-> f.todo \ {j}, got |-> [f.got EXCEPT ![j] = entry]]
  BY DEF WithInput, entry
<1> QED
  BY <1>2, <1>3, <1>4 DEF Frame, FrameOK

LEMMA LeaveOK ==
    ASSUME CacheTypeOK, StackOK, stack # <<>>, NEW out \in Value \cup {Err}, Leave(out)
    PROVE  /\ stack' \in Seq(Frame) /\ StackOK'
           /\ ResultOK'
           /\ \A i \in 1 .. Len(stack') : i \in 1 .. Len(stack) /\ stack'[i].key = stack[i].key
<1>1. /\ stack \in Seq(Frame) /\ Len(stack) \in Nat \ {0} /\ Top.key \in Keys
  BY TopType DEF CacheTypeOK
<1> DEFINE n == Len(stack) - 1
           g(i) == IF i = n THEN WithInput(stack[i], Top.key, out) ELSE stack[i]
<1>2. n \in Nat /\ stack' = [i \in 1 .. n |-> g(i)]
  BY <1>1 DEF Leave
<1>3. ASSUME NEW i \in 1 .. n
      PROVE  g(i) \in Frame /\ FrameOK(g(i)) /\ g(i).key = stack[i].key
  <2>1. i \in 1 .. Len(stack) /\ stack[i] \in Frame /\ FrameOK(stack[i])
    BY <1>1, <1>2, ElementOfSeq DEF StackOK
  <2>2. CASE i = n
    BY <2>1, <2>2, <1>1, WithInputOK
  <2>3. CASE i # n
    BY <2>1, <2>3
  <2> QED
    BY <2>2, <2>3
<1> HIDE DEF g
<1>4. stack' \in Seq(Frame) /\ Len(stack') = n /\ \A i \in 1 .. n : stack'[i] = g(i)
  <2>1. stack' \in [1 .. n -> Frame]
    BY <1>2, <1>3
  <2>2. stack' \in Seq(Frame)
    BY <2>1, <1>2, SeqDef
  <2> QED
    BY <2>1, <2>2, <1>2, LenProperties
<1>5. \A i \in 1 .. Len(stack') : FrameOK(stack'[i])
  BY <1>3, <1>4
<1>6. Descending'
  <2> SUFFICES ASSUME NEW i \in 1 .. n, NEW j \in 1 .. n, i < j
               PROVE  Rank[stack'[j].key] < Rank[stack'[i].key]
    BY <1>4 DEF Descending
  <2>1. i \in 1 .. Len(stack) /\ j \in 1 .. Len(stack)
    BY <1>1, <1>2
  <2>2. stack'[i].key = stack[i].key /\ stack'[j].key = stack[j].key
    BY <1>3, <1>4
  <2> QED
    BY <2>1, <2>2 DEF StackOK, Descending
<1>7. ResultOK'
  BY <1>1 DEF Leave, ResultOK, CacheTypeOK
<1>8. \A i \in 1 .. Len(stack') : i \in 1 .. Len(stack) /\ stack'[i].key = stack[i].key
  BY <1>1, <1>2, <1>3, <1>4
<1> QED
  BY <1>4, <1>5, <1>6, <1>7, <1>8 DEF StackOK, FrameOK

-----------------------------------------------------------------------------
(* The mappings *)

LEMMA MapsSame ==
    ASSUME MapsOK, UNCHANGED <<data, dv, itemsInputs, applied>>
    PROVE  MapsOK'
BY DEF MapsOK, SourcesOK, LiteralIsCurrent, SetterApplied

LEMMA MapsInputs ==
    ASSUME MapsOK, NEW k \in Keys, NEW got \in Env,
           itemsInputs' = [itemsInputs EXCEPT ![k] = got],
           UNCHANGED <<data, dv, applied>>
    PROVE  MapsOK'
BY DEF MapsOK, SourcesOK, LiteralIsCurrent, SetterApplied

\* What a stored value may be: an expression only as the key's own source.
LEMMA KeptOK ==
    ASSUME NEW k \in Keys, NEW raw \in Value, NEW env \in Env,
           raw \in Exprs => raw \in Sources(k),
           NEW v, v = EvalItem(k, raw, env), v # Err
    PROVE  /\ v \in Value /\ Kept(k, raw, v) \in Value
           /\ Kept(k, raw, v) \in Exprs => Kept(k, raw, v) \in Sources(k)
           /\ Kept(k, raw, v) \notin Exprs => Kept(k, raw, v) = v
<1>1. /\ v \in Value
      /\ v \in Exprs => /\ raw \in Exprs \/ v = Default[k]
                        /\ k \notin Primitive => v \in {raw, Default[k]}
  BY EvalItemType
<1>2. CASE k \in Primitive /\ raw \in Exprs
  BY <1>1, <1>2 DEF Kept
<1>3. CASE ~(k \in Primitive /\ raw \in Exprs)
  <2>1. Kept(k, raw, v) = v
    BY <1>3 DEF Kept
  <2>2. v \in Exprs => v \in Sources(k)
    BY <1>1, <1>3 DEF Sources
  <2> QED
    BY <1>1, <2>1, <2>2
<1> QED
  BY <1>2, <1>3

\* _set_dataValidated, possibly after a touch.
LEMMA MapsStore ==
    ASSUME MapsOK, NEW k \in Keys, NEW raw \in Value, NEW v \in Value,
           NEW values \in [Keys -> Slot], NEW inputs \in [Keys -> Env \cup {Absent}],
           NEW got \in Env,
           \A j \in Keys : values[j] \in {dv[j], None},
           Kept(k, raw, v) \in Value,
           Kept(k, raw, v) \in Exprs => Kept(k, raw, v) \in Sources(k),
           Kept(k, raw, v) \notin Exprs => Kept(k, raw, v) = v,
           data' = [data EXCEPT ![k] = Kept(k, raw, v)],
           dv' = [values EXCEPT ![k] = v],
           itemsInputs' = [inputs EXCEPT ![k] = got],
           applied' = IF k \in Setters THEN [applied EXCEPT ![k] = v] ELSE applied
    PROVE  MapsOK' /\ \A j \in Keys : data[j] # Absent => data'[j] # Absent
<1> DEFINE kept == Kept(k, raw, v)
<1>1. /\ data' \in [Keys -> Slot] /\ dv' \in [Keys -> Slot]
      /\ itemsInputs' \in [Keys -> Env \cup {Absent}]
      /\ applied' \in [Keys -> Slot]
  BY DEF MapsOK, Slot
<1>2. data'[k] = kept /\ dv'[k] = v /\ (k \in Setters => applied'[k] = v)
  BY DEF MapsOK
<1>3. \A j \in Keys \ {k} : /\ data'[j] = data[j] /\ applied'[j] = applied[j]
                            /\ dv'[j] \in {dv[j], None}
  BY DEF MapsOK
<1>4. kept # Absent /\ v # Absent /\ None # Absent
  BY SentinelAssumption DEF Value
<1> HIDE DEF kept
<1>5. \A j \in Keys : data'[j] # Absent => dv'[j] # Absent
  BY <1>2, <1>3, <1>4 DEF MapsOK
<1>6. SourcesOK'
  <2> SUFFICES ASSUME NEW j \in Keys, data'[j] \in Exprs
               PROVE  data'[j] \in Sources(j)
    BY DEF SourcesOK, Sources
  <2> QED
    BY <1>2, <1>3 DEF MapsOK, SourcesOK, kept
<1>7. LiteralIsCurrent'
  BY <1>2, <1>3 DEF MapsOK, LiteralIsCurrent, kept
<1>8. SetterApplied'
  <2>1. Setters \subseteq Keys
    BY KeysAssumption DEF Keys
  <2> QED
    BY <1>2, <1>3, <2>1 DEF MapsOK, SetterApplied
<1>9. \A j \in Keys : data[j] # Absent => data'[j] # Absent
  BY <1>2, <1>3, <1>4
<1> QED
  BY <1>1, <1>5, <1>6, <1>7, <1>8, <1>9 DEF MapsOK

\* _set_data: a new source, and the values that depend on it are dropped
\* unless the source is the one the key had.
LEMMA MapsSetData ==
    ASSUME MapsOK, NEW k \in Keys, NEW v \in Value, data[k] # Absent,
           v \in Exprs => v \in Sources(k),
           data' = [data EXCEPT ![k] = v],
           dv' = IF Touches(k, v) THEN TouchedValues(dv, k) ELSE dv,
           itemsInputs' = IF Touches(k, v) THEN TouchedInputs(itemsInputs, k)
                                           ELSE itemsInputs,
           UNCHANGED applied
    PROVE  MapsOK' /\ \A j \in Keys : data[j] # Absent => data'[j] # Absent
<1>1. /\ TouchedValues(dv, k) \in [Keys -> Slot]
      /\ TouchedInputs(itemsInputs, k) \in [Keys -> Env \cup {Absent}]
      /\ k \in TouchSet(k)
  BY TouchedType DEF MapsOK
<1>2. v # Absent /\ None # Absent
  BY SentinelAssumption DEF Value
<1>3. /\ data' \in [Keys -> Slot] /\ dv' \in [Keys -> Slot]
      /\ itemsInputs' \in [Keys -> Env \cup {Absent}]
      /\ applied' \in [Keys -> Slot]
  BY <1>1 DEF MapsOK, Slot
<1>4. data'[k] = v /\ (dv'[k] = None \/ (v = data[k] /\ dv'[k] = dv[k]))
  BY <1>1 DEF MapsOK, TouchedValues, Touches
<1>5. \A j \in Keys : dv'[j] \in {dv[j], None}
  BY DEF MapsOK, TouchedValues
<1>6. \A j \in Keys \ {k} : data'[j] = data[j]
  BY DEF MapsOK
<1>7. \A j \in Keys : data'[j] # Absent => dv'[j] # Absent
  BY <1>2, <1>4, <1>5, <1>6 DEF MapsOK
<1>8. SourcesOK'
  <2> SUFFICES ASSUME NEW j \in Keys, data'[j] \in Exprs
               PROVE  data'[j] \in Sources(j)
    BY DEF SourcesOK, Sources
  <2> QED
    BY <1>4, <1>6 DEF MapsOK, SourcesOK
<1>9. LiteralIsCurrent'
  BY <1>4, <1>5, <1>6 DEF MapsOK, LiteralIsCurrent
<1>10. SetterApplied'
  <2>1. Setters \subseteq Keys
    BY KeysAssumption DEF Keys
  <2> QED
    BY <1>5, <2>1 DEF MapsOK, SetterApplied
<1>11. \A j \in Keys : data[j] # Absent => data'[j] # Absent
  BY <1>2, <1>4, <1>6
<1> QED
  BY <1>3, <1>7, <1>8, <1>9, <1>10, <1>11 DEF MapsOK

-----------------------------------------------------------------------------
(* The calls in progress *)

LEMMA Combine ==
    ASSUME MapsOK', CallsOK', PresentOK'
    PROVE  IInv'
BY DEF IInv, MapsOK, CallsOK, CacheTypeOK, ResultOK

LEMMA TopOK ==
    ASSUME IInv, stack # <<>>
    PROVE  /\ Top \in Frame /\ FrameOK(Top) /\ Top = stack[Len(stack)]
           /\ Len(stack) \in 1 .. Len(stack)
           /\ Top.key \in Keys /\ Top.todo \subseteq Keys /\ Top.got \in Env
           /\ data[Top.key] \in Value
           /\ data[Top.key] \in Exprs => data[Top.key] \in Sources(Top.key)
<1>1. /\ Len(stack) \in Nat \ {0} /\ Top \in Frame
      /\ Top.key \in Keys /\ Top.todo \subseteq Keys /\ Top.got \in Env
  BY TopType DEF IInv
<1>2. Len(stack) \in 1 .. Len(stack) /\ Top = stack[Len(stack)]
  BY <1>1 DEF Top
<1>3. FrameOK(Top) /\ data[Top.key] # Absent
  BY <1>2 DEF IInv, CallsOK, StackOK, PresentOK
<1>4. data[Top.key] \in Value
  BY <1>1, <1>3 DEF IInv, MapsOK, Slot
<1>5. data[Top.key] \in Exprs => data[Top.key] \in Sources(Top.key)
  BY <1>1 DEF IInv, MapsOK, SourcesOK
<1> QED
  BY <1>1, <1>2, <1>3, <1>4, <1>5

LEMMA CallsLeave ==
    ASSUME IInv, stack # <<>>, NEW out \in Value \cup {Err}, Leave(out),
           \A j \in Keys : data[j] # Absent => data'[j] # Absent,
           UNCHANGED toBuild
    PROVE  CallsOK' /\ PresentOK'
<1>1. /\ stack' \in Seq(Frame) /\ StackOK' /\ ResultOK'
      /\ \A i \in 1 .. Len(stack') : i \in 1 .. Len(stack) /\ stack'[i].key = stack[i].key
  BY LeaveOK DEF IInv, CallsOK
<1>2. \A i \in 1 .. Len(stack) : stack[i].key \in Keys
  <2>1. \A i \in 1 .. Len(stack) : stack[i] \in Frame
    BY ElementOfSeq DEF IInv, CallsOK
  <2> QED
    BY <2>1 DEF Frame
<1>3. CallsOK'
  BY <1>1 DEF IInv, CallsOK, StackOK, ResultOK
<1>4. PresentOK'
  BY <1>1, <1>2 DEF IInv, CallsOK, PresentOK
<1> QED
  BY <1>3, <1>4

LEMMA CallsReplace ==
    ASSUME IInv, stack # <<>>, NEW f \in Frame, FrameOK(f), f.key = Top.key,
           ReplaceTop(f), UNCHANGED <<data, toBuild>>
    PROVE  CallsOK' /\ PresentOK'
<1>1. /\ stack' \in Seq(Frame) /\ StackOK' /\ result' = result
      /\ \A i \in 1 .. Len(stack') : i \in 1 .. Len(stack) /\ stack'[i].key = stack[i].key
  BY ReplaceOK DEF IInv, CallsOK
<1>2. CallsOK'
  BY <1>1 DEF IInv, CallsOK, StackOK, ResultOK
<1>3. PresentOK'
  BY <1>1 DEF IInv, PresentOK
<1> QED
  BY <1>2, <1>3

\* Control goes back to the caller, or stays with it.
LEMMA CallsIdle ==
    ASSUME IInv, stack' = <<>>, ResultOK', toBuild' \subseteq toBuild,
           \A k \in toBuild' : data'[k] # Absent
    PROVE  CallsOK' /\ PresentOK'
<1>1. stack' \in Seq(Frame) /\ StackOK' /\ Len(stack') = 0
  BY EmptyOK
<1> QED
  BY <1>1 DEF IInv, CallsOK, PresentOK

LEMMA CallsStart ==
    ASSUME IInv, NEW f \in Frame, FrameOK(f), stack' = <<f>>, data'[f.key] # Absent,
           ResultOK', UNCHANGED toBuild, \A k \in toBuild : data'[k] # Absent
    PROVE  CallsOK' /\ PresentOK'
<1>1. /\ stack' \in Seq(Frame) /\ StackOK'
      /\ \A i \in 1 .. Len(stack') : stack'[i].key = f.key
  BY StartOK
<1> QED
  BY <1>1 DEF IInv, CallsOK, PresentOK

-----------------------------------------------------------------------------
(* The steps *)

LEMMA BuildItemOK == ASSUME IInv, NEW k \in Keys, BuildItem(k) PROVE IInv'
<1>1. ReadFrame(k) \in Frame /\ FrameOK(ReadFrame(k)) /\ ReadFrame(k).key = k
  BY ReadFrameOK DEF IInv, MapsOK
<1>2. MapsOK'
  BY MapsSame DEF IInv, BuildItem
<1>3. CallsOK' /\ PresentOK'
  <2>1. ResultOK'
    BY DEF BuildItem, IInv, CallsOK, ResultOK
  <2>2. \A j \in toBuild : data'[j] # Absent
    BY DEF BuildItem, IInv, PresentOK
  <2>3. stack' = <<ReadFrame(k)>> /\ data'[k] # Absent /\ UNCHANGED toBuild
    BY <2>2 DEF BuildItem
  <2> QED
    BY <1>1, <2>1, <2>2, <2>3, CallsStart
<1> QED
  BY <1>2, <1>3, Combine

LEMMA ItemBuiltOK == ASSUME IInv, ItemBuilt PROVE IInv'
<1>1. MapsOK'
  BY MapsSame DEF IInv, ItemBuilt
<1>2. CallsOK' /\ PresentOK'
  <2>1. ResultOK' /\ stack' = <<>> /\ toBuild' \subseteq toBuild
    BY DEF ItemBuilt, ResultOK
  <2>2. \A k \in toBuild' : data'[k] # Absent
    BY DEF ItemBuilt, IInv, PresentOK
  <2> QED
    BY <2>1, <2>2, CallsIdle
<1> QED
  BY <1>1, <1>2, Combine

LEMMA GetOK == ASSUME IInv, NEW k \in Keys, Get(k) PROVE IInv'
<1>1. ReadFrame(k) \in Frame /\ FrameOK(ReadFrame(k)) /\ ReadFrame(k).key = k
  BY ReadFrameOK DEF IInv, MapsOK
<1>2. MapsOK'
  BY MapsSame DEF IInv, Get
<1>3. CallsOK' /\ PresentOK'
  <2>1. ResultOK'
    BY DEF Get, ResultOK
  <2> QED
    BY <1>1, <2>1, CallsStart DEF Get, Ready
<1> QED
  BY <1>2, <1>3, Combine

LEMMA GetAttrOK == ASSUME IInv, NEW k \in Keys, GetAttr(k) PROVE IInv'
<1> DEFINE f == NewFrame(k, "attr", "inputs")
<1>1. f \in Frame /\ FrameOK(f) /\ f.key = k
  <2>1. k \in Additional
    BY DEF GetAttr
  <2>2. f \in Frame /\ FrameOK(f)
    BY <2>1, NewFrameOK DEF IInv, MapsOK
  <2> QED
    BY <2>2 DEF NewFrame
<1>2. MapsOK'
  BY MapsSame DEF IInv, GetAttr
<1>3. stack' = <<f>> /\ data'[k] # Absent /\ UNCHANGED toBuild /\ toBuild = {}
  BY DEF GetAttr, Ready
<1>4. ResultOK'
  BY DEF GetAttr, ResultOK
<1> HIDE DEF f
<1>5. CallsOK' /\ PresentOK'
  BY <1>1, <1>3, <1>4, CallsStart
<1> QED
  BY <1>2, <1>5, Combine

LEMMA ReadInputOK == ASSUME IInv, NEW j \in Keys, ReadInput(j) PROVE IInv'
<1>1. /\ stack # <<>> /\ j \in Top.todo
      /\ Top \in Frame /\ FrameOK(Top)
      /\ Rank[j] < Rank[Top.key]
  BY TopOK DEF ReadInput, FrameOK
<1>2. MapsOK'
  BY MapsSame DEF IInv, ReadInput
<1>3. CASE data[j] = Absent
  <2> DEFINE f == WithInput(Top, j, Err)
  <2>1. f \in Frame /\ FrameOK(f) /\ f.key = Top.key
    BY <1>1, WithInputOK
  <2>2. ReplaceTop(f) /\ UNCHANGED <<data, toBuild>>
    BY <1>3 DEF ReadInput
  <2> HIDE DEF f
  <2>3. CallsOK' /\ PresentOK'
    BY <1>1, <2>1, <2>2, CallsReplace
  <2> QED
    BY <1>2, <2>3, Combine
<1>4. CASE data[j] # Absent
  <2> DEFINE f == ReadFrame(j)
  <2>1. f \in Frame /\ FrameOK(f) /\ f.key = j
    BY ReadFrameOK DEF IInv, MapsOK
  <2>2. stack' = Append(stack, f) /\ result' = result /\ UNCHANGED <<data, toBuild>>
    BY <1>4 DEF ReadInput
  <2> HIDE DEF f
  <2>3. /\ stack' \in Seq(Frame) /\ StackOK'
        /\ \A i \in 1 .. Len(stack') : stack'[i].key = j \/
              \E m \in 1 .. Len(stack) : stack'[i].key = stack[m].key
    BY <1>1, <2>1, <2>2, PushOK DEF IInv, CallsOK
  <2>4. CallsOK' /\ PresentOK'
    BY <1>4, <2>2, <2>3 DEF IInv, CallsOK, PresentOK, ResultOK
  <2> QED
    BY <1>2, <2>4, Combine
<1> QED
  BY <1>3, <1>4

LEMMA CheckDoneOK == ASSUME IInv, CheckDone PROVE IInv'
<1>1. /\ stack # <<>> /\ Top.op \in {"get", "item"}
      /\ UNCHANGED <<data, dv, itemsInputs, applied, toBuild>>
  BY DEF CheckDone, Running
<1>2. Top \in Frame /\ FrameOK(Top) /\ Top.key \in Keys /\ data[Top.key] \in Value
  BY <1>1, TopOK
<1>3. MapsOK'
  BY <1>1, MapsSame DEF IInv
<1> DEFINE f == NewFrame(Top.key, Top.op, "inputs")
<1>4. CASE ReplaceTop(f)
  <2>1. Top.op \in {"get", "set"} => Top.key \in Declared
    BY <1>2 DEF FrameOK
  <2>2. Top.op \in {"item", "attr"} => Top.key \in Additional
    BY <1>2 DEF FrameOK
  <2>3. f \in Frame /\ FrameOK(f)
    BY <1>1, <1>2, <2>1, <2>2, NewFrameOK DEF IInv, MapsOK
  <2>4. f.key = Top.key
    BY DEF NewFrame
  <2> HIDE DEF f
  <2>5. CallsOK' /\ PresentOK'
    BY <1>1, <1>4, <2>3, <2>4, CallsReplace
  <2> QED
    BY <1>3, <2>5, Combine
<1>5. CASE Leave(dv[Top.key])
  <2>1. dv[Top.key] \in Value
    BY <1>2, SentinelAssumption DEF IInv, MapsOK, Slot, Value
  <2>2. CallsOK' /\ PresentOK'
    BY <1>1, <1>5, <2>1, CallsLeave
  <2> QED
    BY <1>3, <2>2, Combine
<1> QED
  BY <1>4, <1>5 DEF CheckDone

\* An evaluation that raised, whatever it recorded before.
LEMMA RaisedOK ==
    ASSUME IInv, stack # <<>>, Leave(Err), MapsOK', UNCHANGED <<data, toBuild>>
    PROVE  IInv'
<1>1. CallsOK' /\ PresentOK'
  BY CallsLeave
<1> QED
  BY <1>1, Combine

\* An evaluation that succeeded.
LEMMA StoreOK ==
    ASSUME IInv, stack # <<>>, NEW raw \in Value,
           raw \in Exprs => raw \in Sources(Top.key),
           NEW env \in Env, NEW v, v = EvalItem(Top.key, raw, env), v # Err,
           NEW values \in [Keys -> Slot], NEW inputs \in [Keys -> Env \cup {Absent}],
           \A j \in Keys : values[j] \in {dv[j], None},
           Store(Top.key, raw, values, inputs, Top.got, v), UNCHANGED toBuild
    PROVE  IInv'
<1>1. Top.key \in Keys /\ Top.got \in Env
  BY TopOK
<1>2. /\ v \in Value /\ Kept(Top.key, raw, v) \in Value
      /\ Kept(Top.key, raw, v) \in Exprs => Kept(Top.key, raw, v) \in Sources(Top.key)
      /\ Kept(Top.key, raw, v) \notin Exprs => Kept(Top.key, raw, v) = v
  BY <1>1, KeptOK
<1>3. MapsOK' /\ \A j \in Keys : data[j] # Absent => data'[j] # Absent
  BY <1>1, <1>2, MapsStore DEF IInv, Store
<1>4. CallsOK' /\ PresentOK'
  BY <1>2, <1>3, CallsLeave DEF Store
<1> QED
  BY <1>3, <1>4, Combine

LEMMA EvaluateOK == ASSUME IInv, Evaluate PROVE IInv'
<1> DEFINE v == EvalItem(Top.key, data[Top.key], dv)
<1>1. stack # <<>> /\ UNCHANGED toBuild
  BY DEF Evaluate, Running
<1>2. CASE v = Err
  <2>1. Leave(Err) /\ UNCHANGED <<data, dv, itemsInputs, applied>>
    BY <1>2 DEF Evaluate
  <2>2. MapsOK'
    BY <2>1, MapsSame DEF IInv
  <2> QED
    BY <1>1, <2>1, <2>2, RaisedOK
<1>3. CASE v # Err
  <2>1. Store(Top.key, data[Top.key], dv, itemsInputs, Top.got, v)
    BY <1>3 DEF Evaluate
  <2>2. dv \in Env /\ itemsInputs \in [Keys -> Env \cup {Absent}]
    BY DEF IInv, MapsOK, Env
  <2>3. /\ data[Top.key] \in Value
        /\ data[Top.key] \in Exprs => data[Top.key] \in Sources(Top.key)
    BY <1>1, TopOK
  <2> QED
    BY <1>1, <1>3, <2>1, <2>2, <2>3, StoreOK DEF Env
<1> QED
  BY <1>2, <1>3

LEMMA EvaluateGetterOK == ASSUME IInv, EvaluateGetter PROVE IInv'
<1> DEFINE k == Top.key
           raw == Getter(k, Top.got)
           values == IF Touches(k, raw) THEN TouchedValues(dv, k) ELSE dv
           inputs == IF Touches(k, raw) THEN TouchedInputs(itemsInputs, k)
                                        ELSE itemsInputs
           v == EvalItem(k, raw, values)
<1>1. stack # <<>> /\ k \in Getters /\ UNCHANGED toBuild
  BY DEF EvaluateGetter, Running
<1>2. k \in Keys /\ Top.got \in Env /\ data[k] # Absent
  BY <1>1, TopOK, SentinelAssumption DEF Value
<1>3. raw \in Value /\ raw \notin Exprs
  BY <1>1, <1>2, EvalAssumption
<1>4. /\ values \in Env /\ inputs \in [Keys -> Env \cup {Absent}]
      /\ \A j \in Keys : values[j] \in {dv[j], None}
  BY <1>2, TouchedType DEF IInv, MapsOK, Env, TouchedValues
<1>5. \/ Leave(Err) /\ UNCHANGED <<data, dv, itemsInputs, applied>>
      \/ /\ data' = [data EXCEPT ![k] = raw] /\ dv' = values /\ itemsInputs' = inputs
         /\ Leave(Err) /\ UNCHANGED applied
      \/ v # Err /\ Store(k, raw, values, inputs, Top.got, v)
  BY DEF EvaluateGetter
<1>6. CASE Leave(Err) /\ UNCHANGED <<data, dv, itemsInputs, applied>>
  <2>1. MapsOK'
    BY <1>6, MapsSame DEF IInv
  <2> QED
    BY <1>1, <1>6, <2>1, RaisedOK
<1>7. CASE /\ data' = [data EXCEPT ![k] = raw] /\ dv' = values /\ itemsInputs' = inputs
           /\ Leave(Err) /\ UNCHANGED applied
  <2>1. MapsOK' /\ \A j \in Keys : data[j] # Absent => data'[j] # Absent
    BY <1>2, <1>3, <1>7, MapsSetData DEF IInv
  <2>2. CallsOK' /\ PresentOK'
    BY <1>1, <1>7, <2>1, CallsLeave
  <2> QED
    BY <2>1, <2>2, Combine
<1>8. CASE v # Err /\ Store(k, raw, values, inputs, Top.got, v)
  <2> HIDE DEF raw, values, inputs
  <2> QED
    BY <1>1, <1>3, <1>4, <1>8, StoreOK DEF Env
<1> QED
  BY <1>5, <1>6, <1>7, <1>8

LEMMA EvaluateItemOK == ASSUME IInv, EvaluateItem PROVE IInv'
<1> DEFINE k == Top.key
           v == EvalItem(k, data[k], dv)
<1>1. /\ stack # <<>> /\ Top.op = "item" /\ UNCHANGED <<applied, toBuild>>
      /\ itemsInputs' = [itemsInputs EXCEPT ![k] = Top.got]
  BY DEF EvaluateItem, Running
<1>2. /\ k \in Keys /\ Top.got \in Env /\ data[k] \in Value
      /\ data[k] \in Exprs => data[k] \in Sources(k)
      /\ k \in Additional
  BY <1>1, TopOK DEF FrameOK
<1>3. CASE Leave(Err) /\ UNCHANGED <<data, dv>>
  <2>1. MapsOK'
    BY <1>1, <1>2, <1>3, MapsInputs DEF IInv
  <2> QED
    BY <1>1, <1>3, <2>1, RaisedOK
<1>4. CASE /\ v # Err
           /\ data' = [data EXCEPT ![k] = Kept(k, data[k], v)]
           /\ dv' = [dv EXCEPT ![k] = v]
           /\ Leave(v)
  <2>1. dv \in Env /\ dv \in [Keys -> Slot] /\ itemsInputs \in [Keys -> Env \cup {Absent}]
    BY DEF IInv, MapsOK, Env
  <2>2. k \notin Setters
    BY <1>2, KeysAssumption
  <2>3. applied' = IF k \in Setters THEN [applied EXCEPT ![k] = v] ELSE applied
    BY <1>1, <2>2
  <2>4. Store(k, data[k], dv, itemsInputs, Top.got, v)
    BY <1>1, <1>4, <2>3 DEF Store
  <2> HIDE DEF k
  <2>5. k = Top.key
    BY DEF k
  <2>6. \A j \in Keys : dv[j] \in {dv[j], None}
    OBVIOUS
  <2> QED
    BY <1>1, <1>2, <1>4, <2>1, <2>4, <2>5, <2>6, StoreOK
<1> QED
  BY <1>3, <1>4 DEF EvaluateItem

LEMMA AttrInputsReadOK == ASSUME IInv, AttrInputsRead PROVE IInv'
<1> DEFINE f == ReadFrame(Top.key)
<1>1. /\ stack # <<>> /\ UNCHANGED <<data, dv, applied, toBuild>> /\ ReplaceTop(f)
      /\ itemsInputs' = [itemsInputs EXCEPT ![Top.key] = Top.got]
  BY DEF AttrInputsRead, Running
<1>2. Top.key \in Keys /\ Top.got \in Env
  BY <1>1, TopOK
<1>3. MapsOK'
  BY <1>1, <1>2, MapsInputs DEF IInv
<1>4. f \in Frame /\ FrameOK(f) /\ f.key = Top.key
  BY <1>2, ReadFrameOK DEF IInv, MapsOK
<1> HIDE DEF f
<1>5. CallsOK' /\ PresentOK'
  BY <1>1, <1>4, CallsReplace
<1> QED
  BY <1>3, <1>5, Combine

LEMMA EvaluateSetOK == ASSUME IInv, EvaluateSet PROVE IInv'
<1> DEFINE k == Top.key
           v == EvalItem(k, data[k], dv)
<1>1. stack # <<>> /\ UNCHANGED toBuild
  BY DEF EvaluateSet, Running
<1>2. /\ k \in Keys /\ Top.got \in Env /\ data[k] \in Value
      /\ data[k] \in Exprs => data[k] \in Sources(k)
  BY <1>1, TopOK
<1>3. CASE v = Err
  <2>1. /\ itemsInputs' = [itemsInputs EXCEPT ![k] = Top.got]
        /\ Leave(Err) /\ UNCHANGED <<data, dv, applied>>
    BY <1>3 DEF EvaluateSet
  <2>2. MapsOK'
    BY <1>2, <2>1, MapsInputs DEF IInv
  <2> QED
    BY <1>1, <2>1, <2>2, RaisedOK
<1>4. CASE v # Err
  <2>1. Store(k, data[k], dv, itemsInputs, Top.got, v)
    BY <1>4 DEF EvaluateSet
  <2>2. dv \in Env /\ dv \in [Keys -> Slot] /\ itemsInputs \in [Keys -> Env \cup {Absent}]
    BY DEF IInv, MapsOK, Env
  <2>3. \A j \in Keys : dv[j] \in {dv[j], None}
    OBVIOUS
  <2> QED
    BY <1>1, <1>2, <1>4, <2>1, <2>2, <2>3, StoreOK
<1> QED
  BY <1>3, <1>4

LEMMA SetOK == ASSUME IInv, NEW k \in Keys, NEW w \in RawOf(k), Set(k, w) PROVE IInv'
<1>1. /\ stack = <<>> /\ toBuild = {} /\ k \in Declared
      /\ UNCHANGED <<applied, toBuild>>
  BY DEF Set, Ready
<1>2. w \in Value /\ (w \in Exprs => w \in Sources(k))
  BY ValuesAssumption DEF Sources
<1>3. CASE k \in ReadOnly \/ data[k] = Absent
  <2>1. /\ UNCHANGED <<data, dv, itemsInputs, stack>>
        /\ result' = [op |-> "set", key |-> k, out |-> Err]
    BY <1>3 DEF Set
  <2>2. MapsOK'
    BY <1>1, <2>1, MapsSame DEF IInv
  <2>3. CallsOK' /\ PresentOK'
    BY <1>1, <2>1, CallsIdle DEF ResultOK
  <2> QED
    BY <2>2, <2>3, Combine
<1>4. CASE ~(k \in ReadOnly \/ data[k] = Absent)
  <2> DEFINE f == [key |-> k, op |-> "set", phase |-> "inputs",
                   todo |-> InputKeys(k, w), got |-> NoInputs]
  <2>1. /\ data' = [data EXCEPT ![k] = w]
        /\ dv' = IF Touches(k, w) THEN TouchedValues(dv, k) ELSE dv
        /\ itemsInputs' = IF Touches(k, w) THEN TouchedInputs(itemsInputs, k)
                                           ELSE itemsInputs
        /\ result' = IF lazy THEN [op |-> "setlazy", key |-> k, out |-> None]
                             ELSE NoResult
        /\ stack' = IF lazy THEN <<>> ELSE <<f>>
    BY <1>4 DEF Set
  <2>2. MapsOK' /\ \A j \in Keys : data[j] # Absent => data'[j] # Absent
    BY <1>1, <1>2, <1>4, <2>1, MapsSetData DEF IInv
  <2>3. ResultOK'
    BY <2>1 DEF ResultOK, Value
  <2>4. f \in Frame /\ FrameOK(f) /\ f.key = k
    <3>1. /\ InputKeys(k, w) \subseteq Keys
          /\ \A j \in InputKeys(k, w) : Rank[j] < Rank[k]
      BY <1>2, InputKeysType
    <3> QED
      BY <1>1, <3>1, NoInputsType DEF Frame, FrameOK
  <2> HIDE DEF f
  <2>5. CallsOK' /\ PresentOK'
    <3>1. CASE lazy
      BY <1>1, <2>1, <2>3, <3>1, CallsIdle
    <3>2. CASE ~lazy
      <4>1. stack' = <<f>> /\ data'[f.key] # Absent
        BY <1>4, <2>1, <2>2, <2>4, <3>2
      <4> QED
        BY <1>1, <2>3, <2>4, <4>1, CallsStart
    <3> QED
      BY <3>1, <3>2
  <2> QED
    BY <2>2, <2>5, Combine
<1> QED
  BY <1>3, <1>4

LEMMA SetAdditionalOK ==
    ASSUME IInv, NEW k \in Keys, NEW w \in RawOf(k), SetAdditional(k, w)
    PROVE  IInv'
<1>1. /\ stack' = <<>> /\ toBuild = {} /\ k \in Additional
      /\ UNCHANGED <<itemsInputs, applied, toBuild>>
      /\ data' = [data EXCEPT ![k] = w] /\ dv' = [dv EXCEPT ![k] = w]
      /\ result' = [op |-> "setitem", key |-> k, out |-> w]
  BY DEF SetAdditional, Ready
<1>2. w \in Value /\ w # Absent /\ (w \in Exprs => w \in Sources(k))
  BY ValuesAssumption, SentinelAssumption DEF Sources, Value
<1>3. k \notin Setters
  BY <1>1, KeysAssumption
<1>4. MapsOK'
  <2>1. /\ data' \in [Keys -> Slot] /\ dv' \in [Keys -> Slot]
        /\ itemsInputs' \in [Keys -> Env \cup {Absent}] /\ applied' \in [Keys -> Slot]
    BY <1>1, <1>2 DEF IInv, MapsOK, Slot
  <2>2. /\ data'[k] = w /\ dv'[k] = w
        /\ \A j \in Keys \ {k} : data'[j] = data[j] /\ dv'[j] = dv[j]
    BY <1>1 DEF IInv, MapsOK
  <2>3. \A j \in Keys : data'[j] # Absent => dv'[j] # Absent
    BY <2>2 DEF IInv, MapsOK
  <2>4. SourcesOK'
    <3> SUFFICES ASSUME NEW j \in Keys, data'[j] \in Exprs
                 PROVE  data'[j] \in Sources(j)
      BY DEF SourcesOK, Sources
    <3> QED
      BY <1>2, <2>2 DEF IInv, MapsOK, SourcesOK
  <2>5. LiteralIsCurrent'
    BY <2>2 DEF IInv, MapsOK, LiteralIsCurrent
  <2>6. SetterApplied'
    <3>1. Setters \subseteq Keys
      BY KeysAssumption DEF Keys
    <3> QED
      BY <1>1, <1>3, <2>2, <3>1 DEF IInv, MapsOK, SetterApplied
  <2> QED
    BY <2>1, <2>3, <2>4, <2>5, <2>6 DEF MapsOK
<1>5. CallsOK' /\ PresentOK'
  <2>1. ResultOK'
    BY <1>1, <1>2 DEF ResultOK
  <2> QED
    BY <1>1, <2>1, CallsIdle
<1> QED
  BY <1>4, <1>5, Combine

\* What the deletions have in common; del obj[k] may leave a slot behind.
LEMMA DeletedOK ==
    ASSUME IInv, stack = <<>>, toBuild = {}, NEW k \in Keys,
           UNCHANGED <<applied, stack, toBuild>>, ResultOK',
           data' = [data EXCEPT ![k] = Absent],
           dv' \in {dv, [dv EXCEPT ![k] = Absent]},
           itemsInputs' \in {itemsInputs, [itemsInputs EXCEPT ![k] = Absent]}
    PROVE  IInv'
<1>1. /\ data' \in [Keys -> Slot] /\ dv' \in [Keys -> Slot]
      /\ itemsInputs' \in [Keys -> Env \cup {Absent}] /\ applied' \in [Keys -> Slot]
  BY DEF IInv, MapsOK, Slot
<1>2. /\ data'[k] = Absent /\ dv'[k] \in {dv[k], Absent}
      /\ \A j \in Keys \ {k} : data'[j] = data[j] /\ dv'[j] = dv[j]
  BY DEF IInv, MapsOK
<1>3. \A j \in Keys : data'[j] # Absent => dv'[j] # Absent
  BY <1>2 DEF IInv, MapsOK
<1>4. SourcesOK'
  <2> SUFFICES ASSUME NEW j \in Keys, data'[j] \in Exprs
               PROVE  data'[j] \in Sources(j)
    BY DEF SourcesOK, Sources
  <2>1. Absent \notin Exprs
    BY SentinelAssumption, KeysAssumption
  <2> QED
    BY <1>2, <2>1 DEF IInv, MapsOK, SourcesOK
<1>5. LiteralIsCurrent'
  BY <1>2 DEF IInv, MapsOK, LiteralIsCurrent
<1>6. SetterApplied'
  <2>1. Setters \subseteq Keys
    BY KeysAssumption DEF Keys
  <2> QED
    BY <1>2, <2>1 DEF IInv, MapsOK, SetterApplied
<1>7. MapsOK'
  BY <1>1, <1>3, <1>4, <1>5, <1>6 DEF MapsOK
<1>8. CallsOK' /\ PresentOK'
  BY CallsIdle
<1> QED
  BY <1>7, <1>8, Combine

LEMMA DelAttrOK == ASSUME IInv, NEW k \in Keys, DelAttr(k) PROVE IInv'
<1>1. stack = <<>> /\ toBuild = {} /\ UNCHANGED <<applied, stack, toBuild>>
  BY DEF DelAttr, Ready
<1>2. ResultOK'
  BY DEF DelAttr, ResultOK, Value
<1>3. CASE k \in Required \/ data[k] = Absent
  <2>1. UNCHANGED <<data, dv, itemsInputs>>
    BY <1>3 DEF DelAttr
  <2>2. MapsOK'
    BY <1>1, <2>1, MapsSame DEF IInv
  <2>3. CallsOK' /\ PresentOK'
    BY <1>1, <1>2, CallsIdle
  <2> QED
    BY <2>2, <2>3, Combine
<1>4. CASE ~(k \in Required \/ data[k] = Absent)
  <2>1. /\ data' = [data EXCEPT ![k] = Absent]
        /\ dv' \in {dv, [dv EXCEPT ![k] = Absent]}
        /\ itemsInputs' \in {itemsInputs, [itemsInputs EXCEPT ![k] = Absent]}
    BY <1>4 DEF DelAttr
  <2> QED
    BY <1>1, <1>2, <2>1, DeletedOK
<1> QED
  BY <1>3, <1>4

LEMMA DelItemOK == ASSUME IInv, NEW k \in Keys, DelItem(k) PROVE IInv'
<1>1. stack = <<>> /\ toBuild = {} /\ UNCHANGED <<applied, stack, toBuild>>
  BY DEF DelItem, Ready
<1>2. ResultOK'
  BY DEF DelItem, ResultOK, Value
<1>3. /\ data' = [data EXCEPT ![k] = Absent]
      /\ dv' \in {dv, [dv EXCEPT ![k] = Absent]}
      /\ itemsInputs' \in {itemsInputs, [itemsInputs EXCEPT ![k] = Absent]}
  BY DEF DelItem
<1> QED
  BY <1>1, <1>2, <1>3, DeletedOK

-----------------------------------------------------------------------------
(* The invariant *)

LEMMA InitOK == Init => IInv
<1> SUFFICES ASSUME Init PROVE IInv
  OBVIOUS
<1>1. data \in [Keys -> Slot] /\ \A k \in Keys : data[k] \in InitOf(k)
  BY DEF Init
<1>2. /\ dv \in [Keys -> Slot] /\ applied \in [Keys -> Slot]
      /\ \A k \in Keys : dv[k] \in {None, Absent}
      /\ \A k \in Keys : data[k] # Absent => dv[k] # Absent
  BY <1>1, SentinelAssumption DEF Init, Slot, Value
<1>3. itemsInputs \in [Keys -> Env \cup {Absent}]
  BY NoInputsType DEF Init
<1>4. SourcesOK
  BY <1>1 DEF SourcesOK, Sources
<1>5. LiteralIsCurrent
  BY <1>1, <1>2 DEF LiteralIsCurrent
<1>6. SetterApplied
  <2>1. Setters \subseteq Keys
    BY KeysAssumption DEF Keys
  <2> QED
    BY <1>2, <2>1 DEF SetterApplied
<1>7. MapsOK
  BY <1>1, <1>2, <1>3, <1>4, <1>5, <1>6 DEF MapsOK
<1>8. stack \in Seq(Frame) /\ Len(stack) = 0
  BY DEF Init
<1>9. CallsOK /\ PresentOK
  BY <1>8 DEF Init, CallsOK, StackOK, Descending, ResultOK, PresentOK
<1> QED
  BY <1>7, <1>9 DEF IInv, MapsOK, CallsOK, CacheTypeOK

LEMMA NextOK == IInv /\ [Next]_vars => IInv'
<1> SUFFICES ASSUME IInv, [Next]_vars PROVE IInv'
  OBVIOUS
<1>1. CASE Run
  <2>1. CASE ItemBuilt
    BY <2>1, ItemBuiltOK
  <2>2. ASSUME NEW k \in Keys, BuildItem(k) PROVE IInv'
    BY <2>2, BuildItemOK
  <2>3. ASSUME NEW k \in Keys, ReadInput(k) PROVE IInv'
    BY <2>3, ReadInputOK
  <2>4. CASE CheckDone
    BY <2>4, CheckDoneOK
  <2>5. CASE Evaluate
    BY <2>5, EvaluateOK
  <2>6. CASE EvaluateGetter
    BY <2>6, EvaluateGetterOK
  <2>7. CASE EvaluateItem
    BY <2>7, EvaluateItemOK
  <2>8. CASE AttrInputsRead
    BY <2>8, AttrInputsReadOK
  <2>9. CASE EvaluateSet
    BY <2>9, EvaluateSetOK
  <2> QED
    BY <1>1, <2>1, <2>2, <2>3, <2>4, <2>5, <2>6, <2>7, <2>8, <2>9 DEF Run
<1>2. CASE Call
  <2>1. ASSUME NEW k \in Keys, Get(k) PROVE IInv'
    BY <2>1, GetOK
  <2>2. ASSUME NEW k \in Keys, GetAttr(k) PROVE IInv'
    BY <2>2, GetAttrOK
  <2>3. ASSUME NEW k \in Keys, DelAttr(k) PROVE IInv'
    BY <2>3, DelAttrOK
  <2>4. ASSUME NEW k \in Keys, DelItem(k) PROVE IInv'
    BY <2>4, DelItemOK
  <2>5. ASSUME NEW k \in Keys, NEW w \in RawOf(k), Set(k, w) PROVE IInv'
    BY <2>5, SetOK
  <2>6. ASSUME NEW k \in Keys, NEW w \in RawOf(k), SetAdditional(k, w) PROVE IInv'
    BY <2>6, SetAdditionalOK
  <2> QED
    BY <1>2, <2>1, <2>2, <2>3, <2>4, <2>5, <2>6 DEF Call
<1>3. CASE UNCHANGED vars
  BY <1>3 DEF vars, IInv, CacheTypeOK, MapsOK, CallsOK, PresentOK, StackOK, Descending, FrameOK,
              ResultOK, SourcesOK, LiteralIsCurrent, SetterApplied
<1> QED
  BY <1>1, <1>2, <1>3 DEF Next

\* IInv holds in every reachable state.
THEOREM Invariance == Spec => []IInv
BY InitOK, NextOK, PTL DEF Spec

\* Every variable keeps its type and every key present has a cache slot.
THEOREM TypeCorrect == Spec => []TypeOK
<1>1. IInv => CacheTypeOK
  BY DEF IInv
<1>2. Init => lazy \in BOOLEAN
  BY DEF Init
<1>3. lazy \in BOOLEAN /\ [Next]_vars => (lazy \in BOOLEAN)'
  BY DEF Next, vars
<1>4. Spec => [](lazy \in BOOLEAN)
  BY <1>2, <1>3, PTL DEF Spec
<1>5. IInv /\ lazy \in BOOLEAN => TypeOK
  BY <1>1 DEF TypeOK
<1> QED
  BY <1>4, <1>5, Invariance, PTL

\* The cached value of a key given a literal is that literal, whatever the
\* order of reads, writes, getters, deletions and failures.
THEOREM LiteralsAreCurrent == Spec => []LiteralIsCurrent
<1>1. IInv => LiteralIsCurrent
  BY DEF IInv, MapsOK
<1> QED
  BY <1>1, Invariance, PTL

\* A setter was last called with the value its key is cached with.
THEOREM SettersAreApplied == Spec => []SetterApplied
<1>1. IInv => SetterApplied
  BY DEF IInv, MapsOK
<1> QED
  BY <1>1, Invariance, PTL

\* Evaluating never replaces an expression: only writes, deletions and getters
\* change the source of a key that has one.
THEOREM ExpressionsAreKept == Spec => ExpressionsSurviveReads
<1> DEFINE A == \A k \in Keys : (Run /\ k \in Primitive \ Getters /\ data[k] \in Exprs)
                                    => data'[k] = data[k]
<1>1. IInv /\ [Next]_vars => [A]_vars
  <2> SUFFICES ASSUME IInv, Run, NEW k \in Keys, k \in Primitive \ Getters,
                      data[k] \in Exprs
               PROVE  data'[k] = data[k]
    OBVIOUS
  <2>1. data \in [Keys -> Slot]
    BY DEF IInv, MapsOK
  <2>2. \A raw, v : Kept(k, data[k], v) = data[k]
    BY DEF Kept
  <2>3. CASE ItemBuilt \/ CheckDone \/ AttrInputsRead
    BY <2>3 DEF ItemBuilt, CheckDone, AttrInputsRead
  <2>4. ASSUME NEW j \in Keys, BuildItem(j) \/ ReadInput(j) PROVE data'[k] = data[k]
    BY <2>4 DEF BuildItem, ReadInput
  <2>5. CASE Evaluate
    BY <2>1, <2>2, <2>5 DEF Evaluate, Store
  <2>6. CASE EvaluateGetter
    BY <2>1, <2>6 DEF EvaluateGetter, Store
  <2>7. CASE EvaluateItem
    BY <2>1, <2>2, <2>7 DEF EvaluateItem
  <2>8. CASE EvaluateSet
    BY <2>1, <2>2, <2>8 DEF EvaluateSet, Store
  <2> QED
    BY <2>3, <2>4, <2>5, <2>6, <2>7, <2>8 DEF Run
<1> QED
  BY <1>1, Invariance, PTL DEF Spec, ExpressionsSurviveReads

-----------------------------------------------------------------------------
(* Answers are fresh                                                        *)
(*                                                                          *)
(* In an orderly class a read changes the slots of its own key only, so     *)
(* what a call has read stays as it was answered until the call ends: if S  *)
(* are the keys read since the call began and A what they answered, reading *)
(* one of them again finds A[k] and changes nothing (Calm).  Whatever was   *)
(* cached is what its source is worth with the inputs recorded (Coherent).  *)

\* The inputs of a key, what reading them finds, and what its own evaluation
\* then starts from and ends with.
Inputs(k) == InputKeys(k, data[k])
Found(k, A) == [x \in Keys |-> IF x \in Inputs(k) THEN A[x] ELSE Absent]
Given(k, e) == IF k \in Getters THEN Getter(k, e) ELSE data[k]
Worth(k, e) == EvalItem(k, Given(k, e), dv)

\* Nothing is cached; the key is evaluated whatever its inputs are.
Missing(k) == dv[k] = None /\ data[k] # None
Due(k) == Missing(k) \/ (k \in Getters /\ dv[k] = None) \/ (k \in Additional /\ lazy)

\* A key that was read and may be read again: it answered, or it raised.
Answers(k, A) ==
    /\ dv[k] = A[k] /\ RecordedInputs(k) = Found(k, A)
    /\ k \in Getters => \A j \in Deps[k] : A[j] # Absent
    /\ Due(k) => /\ Worth(k, Found(k, A)) = A[k]
                 /\ Kept(k, Given(k, Found(k, A)), A[k]) = data[k]

Raises(k, A) ==
    /\ k \in Declared /\ (Due(k) \/ RecordedInputs(k) # Found(k, A))
    /\ \/ k \in Getters /\ \E j \in Deps[k] : A[j] = Absent
       \/ /\ Worth(k, Found(k, A)) = Err
          /\ k \in Getters =>
                /\ Given(k, Found(k, A)) = data[k]
                /\ k \in Primitive \/ (dv[k] = None /\ RecordedInputs(k) = NoInputs)

Calm(k, S, A) ==
    IF data[k] = Absent THEN A[k] = Absent
    ELSE Inputs(k) \subseteq S /\ IF A[k] = Absent THEN Raises(k, A) ELSE Answers(k, A)

Steady(S, A) == S \subseteq Keys /\ A \in Env /\ \A k \in S : Calm(k, S, A)

\* The reads in progress have read keys of S and found what these answered.
Entered(f) ==
    f.op \in {"get", "item"} /\ f.phase = "check" =>
        ~Missing(f.key) /\ ~(f.key \in Additional /\ lazy)
Outdated(f, S, A) ==
    f.op \in {"get", "item"} /\ f.phase = "inputs" =>
        \/ Due(f.key)
        \/ Inputs(f.key) \subseteq S /\ RecordedInputs(f.key) # Found(f.key, A)
Walks(f, S, A) ==
    /\ f.todo \subseteq Inputs(f.key) /\ Inputs(f.key) \ f.todo \subseteq S
    /\ f.got = [x \in Keys |-> IF x \in Inputs(f.key) \ f.todo THEN A[x] ELSE Absent]
    /\ Entered(f) /\ Outdated(f, S, A)
    /\ f.op = "set" => f.key \notin Getters \cup ReadOnly /\ data[f.key] \in RawOf(f.key)

Reading(S, A) ==
    /\ \A i \in 1 .. Len(stack) :
          /\ Walks(stack[i], S, A)
          /\ i < Len(stack) => stack[i + 1].key \in stack[i].todo
          /\ stack[i].op \in {"set", "attr"} => i = 1 /\ stack[i].phase = "inputs"
    /\ stack # <<>> => \A y \in S : Rank[y] < Rank[stack[1].key]

\* What the caller was told: the answer of a key read, or that a written one raises.
Told(S, A) ==
    Evaluating =>
        /\ data[result.key] # Absent
        /\ \/ result.key \in S /\ A[result.key] = IF result.out = Err THEN Absent ELSE result.out
           \/ /\ result.out = Err /\ result.key \notin Getters
              /\ Inputs(result.key) \subseteq S /\ EvalItem(result.key, data[result.key], dv) = Err

\* A cached value is what its source is worth with the inputs recorded.
Coherent(k) ==
    k \in Declared /\ data[k] # Absent /\ dv[k] # Absent /\ dv[k] # None =>
        /\ k \in Getters =>
              /\ dv[k] = EvalItem(k, Getter(k, RecordedInputs(k)), NoInputs)
              /\ \A j \in Deps[k] : RecordedInputs(k)[j] # Absent
        /\ k \notin Getters
           /\ (k \in Primitive /\ data[k] \in Exprs =>
                    \A x \in Inputs(k) : RecordedInputs(k)[x] # Absent)
              => dv[k] = EvalItem(k, data[k], RecordedInputs(k))

\* A key that is not lazy is None only for lack of a default.
Defaulted ==
    ~lazy => \A k \in Declared : data[k] = None /\ Default[k] # None =>
                 stack # <<>> /\ stack[1].key = k /\ stack[1].op = "set"

FInv ==
    /\ stack # <<>> => result = NoResult
    /\ \A k \in Keys : Coherent(k)
    /\ Defaulted
    /\ \E S, A : Steady(S, A) /\ Reading(S, A) /\ Told(S, A)

-----------------------------------------------------------------------------
(* What being orderly says of a single evaluation *)

LEMMA ItemSame ==
    ASSUME OrderlyClass, NEW k \in Keys, NEW v \in Value, NEW e \in Env, NEW f \in Env,
           k \in Primitive /\ v \in Exprs => \A j \in InputKeys(k, v) : e[j] = f[j],
           v # None \/ Default[k] \notin Exprs \/ k \notin Primitive
    PROVE  EvalItem(k, v, e) = EvalItem(k, v, f)
<1> DEFINE given == IF v = None THEN Default[k] ELSE v
           Seen(g) == [j \in Keys |-> IF k \in Primitive /\ given \in Exprs
                                            /\ j \in ExprInputs(given)
                                      THEN g[j] ELSE Absent]
<1>1. CASE given = None
  BY <1>1 DEF EvalItem
<1>2. CASE given # None
  <2>1. given \in Raw
    BY <1>2, KeysAssumption DEF Value
  <2>2. Seen(e) = Seen(f)
    BY DEF InputKeys
  <2>3. \A g \in Env : Eval(k, given, g) = Eval(k, given, Seen(g))
    BY <2>1 DEF OrderlyClass, DependsOnInputs
  <2>4. Eval(k, given, e) = Eval(k, given, f)
    <3> HIDE DEF Seen, given
    <3> QED
      BY <2>2, <2>3
  <2> QED
    BY <1>2, <2>4 DEF EvalItem
<1> QED
  BY <1>1, <1>2

\* A default is never refused.
LEMMA DefaultHolds ==
    ASSUME OrderlyClass, NEW k \in Keys, NEW e \in Env
    PROVE  EvalItem(k, None, e) # Err
BY SentinelAssumption DEF OrderlyClass, DefaultsAreValid, EvalItem

\* The value that replaces its source evaluates to itself, from Deps alone.
LEMMA ItemSettles ==
    ASSUME OrderlyClass, NEW k \in Keys, NEW v \in Value, NEW e \in Env, NEW f \in Env,
           k \notin Primitive \/ v \notin Exprs, NEW w, w = EvalItem(k, v, e), w # Err
    PROVE  /\ w \in Value /\ EvalItem(k, w, f) = w
           /\ InputKeys(k, v) = Deps[k] /\ InputKeys(k, w) = Deps[k]
           /\ k \notin Primitive \/ w \notin Exprs
           /\ w = None => v = None /\ Default[k] = None
<1> DEFINE given == IF v = None THEN Default[k] ELSE v
<1>1. w \in Value /\ InputKeys(k, v) = Deps[k]
  BY EvalItemType DEF InputKeys
<1>2. CASE given = None
  <2>1. w = None /\ v = None /\ Default[k] = None
    BY <1>2 DEF EvalItem
  <2> QED
    BY <1>1, <2>1, SentinelAssumption, KeysAssumption DEF EvalItem
<1>3. CASE given # None
  <2>1. given \in Raw /\ w = Eval(k, given, e)
    BY <1>3, KeysAssumption DEF Value, EvalItem
  <2>2. k \notin Primitive \/ given \notin Exprs \/ given = Default[k]
    OBVIOUS
  <2>3. w # None /\ Eval(k, w, e) = w
    <3> HIDE DEF given
    <3> QED
      BY <2>1, <2>2 DEF OrderlyClass, ValuesSettle
  <2>4. k \notin Primitive \/ w \notin Exprs
    <3> SUFFICES ASSUME k \in Primitive, w \in Exprs PROVE FALSE
      OBVIOUS
    <3>1. given \in Exprs
      BY <2>1, EvalAssumption
    <3>2. v = None /\ given = Default[k]
      BY <3>1
    <3>3. w \notin Exprs
      BY <1>3, <2>1, <3>2 DEF OrderlyClass, DefaultsAreValid
    <3> QED
      BY <3>3
  <2>5. EvalItem(k, w, e) = w
    BY <2>3 DEF EvalItem
  <2>6. InputKeys(k, w) = Deps[k]
    BY <2>4 DEF InputKeys
  <2> QED
    <3>1. Eval(k, w, f) = Eval(k, w, e)
      <4>1. w \in Raw
        BY <1>1, <2>3 DEF Value
      <4>2. \A g \in Env : Eval(k, w, g) = Eval(k, w, NoInputs)
        <5> TAKE g \in Env
        <5>1. [j \in Keys |-> IF k \in Primitive /\ w \in Exprs /\ j \in ExprInputs(w)
                              THEN g[j] ELSE Absent] = NoInputs
          BY <2>4 DEF NoInputs
        <5> QED
          BY <4>1, <5>1 DEF OrderlyClass, DependsOnInputs
      <4> QED
        BY <4>2
    <3>2. EvalItem(k, w, f) = w
      BY <2>3, <3>1 DEF EvalItem
    <3> QED
      BY <1>1, <2>3, <2>4, <2>6, <3>2
<1> QED
  BY <1>2, <1>3

\* Nothing is declared to depend on a getter: touching it resets it alone.
LEMMA GetterTouches ==
    ASSUME OrderlyClass, NEW k \in Getters
    PROVE  TouchSet(k) = {k}
<1>1. k \in Keys /\ {k} \in SUBSET Keys
  BY KeysAssumption DEF Keys
<1>2. \A x \in {k} : \A y \in Keys : x \in Deps[y] => y \in {k}
  BY DEF OrderlyClass, GettersStandAlone
<1>3. k \in TouchSet(k)
  BY <1>1 DEF TouchSet
<1>4. ASSUME NEW j \in TouchSet(k) PROVE j \in {k}
  BY <1>1, <1>2, <1>4 DEF TouchSet
<1> QED
  BY <1>3, <1>4

LEMMA FoundType ==
    ASSUME NEW k \in Keys, NEW A \in Env
    PROVE  Found(k, A) \in Env
BY DEF Found, Env, Slot

LEMMA GivenType ==
    ASSUME IInv, OrderlyClass, NEW k \in Keys, data[k] # Absent, NEW e \in Env
    PROVE  /\ Given(k, e) \in Value
           /\ Given(k, e) \in Exprs => k \notin Getters /\ Given(k, e) \in Sources(k)
           /\ InputKeys(k, Given(k, e)) \subseteq Inputs(k)
           /\ Inputs(k) \subseteq Keys
           /\ \A j \in Inputs(k) : Rank[j] < Rank[k]
           /\ k \in Getters => Default[k] \notin Exprs /\ Inputs(k) = Deps[k]
<1>1. /\ data[k] \in Value
      /\ data[k] \in Exprs => data[k] \in Sources(k)
  BY DEF IInv, MapsOK, Slot, SourcesOK
<1>2. Inputs(k) \subseteq Keys /\ \A j \in Inputs(k) : Rank[j] < Rank[k]
  BY <1>1, InputKeysType DEF Inputs
<1>3. CASE k \in Getters
  <2>1. Getter(k, e) \in Value /\ Getter(k, e) \notin Exprs
    BY <1>3, EvalAssumption
  <2>2. Sources(k) = {}
    BY <1>3 DEF OrderlyClass, GettersStandAlone
  <2>3. Default[k] \notin Exprs /\ data[k] \notin Exprs
    BY <1>1, <2>2 DEF Sources
  <2>4. Inputs(k) = Deps[k] /\ InputKeys(k, Getter(k, e)) = Deps[k]
    BY <2>1, <2>3 DEF Inputs, InputKeys
  <2> QED
    BY <1>2, <1>3, <2>1, <2>3, <2>4 DEF Given
<1>4. CASE k \notin Getters
  BY <1>1, <1>2, <1>4 DEF Given, Inputs
<1> QED
  BY <1>3, <1>4

\* A source that raises, or that its value replaced, leaves nothing to a default
\* that names other keys.
LEMMA NoHiddenDefault ==
    ASSUME IInv, OrderlyClass, NEW k \in Keys, data[k] # Absent, NEW e \in Env, NEW f \in Env,
           NEW w, w = EvalItem(k, Given(k, e), f),
           w = Err \/ Kept(k, Given(k, e), w) = data[k]
    PROVE  Given(k, e) # None \/ Default[k] \notin Exprs
<1> SUFFICES ASSUME Given(k, e) = None PROVE Default[k] \notin Exprs
  OBVIOUS
<1>1. CASE k \in Getters
  BY <1>1, GivenType
<1>2. CASE k \notin Getters
  <2>1. data[k] = None
    BY <1>2 DEF Given
  <2>2. None \notin Exprs /\ None \in Value
    BY SentinelAssumption, KeysAssumption DEF Value
  <2>3. w # Err
    BY DefaultHolds
  <2>4. w = None
    BY <2>1, <2>2, <2>3 DEF Kept
  <2>5. Default[k] = None
    <3> SUFFICES ASSUME Default[k] # None PROVE FALSE
      OBVIOUS
    <3>1. w = Eval(k, Default[k], f)
      BY DEF EvalItem
    <3>2. Default[k] \in Raw
      BY KeysAssumption DEF Value
    <3> QED
      BY <2>3, <2>4, <3>1, <3>2 DEF OrderlyClass, ValuesSettle
  <2> QED
    BY <2>2, <2>5
<1> QED
  BY <1>1, <1>2

LEMMA GivenSame ==
    ASSUME IInv, OrderlyClass, NEW k \in Keys, data[k] # Absent, NEW e \in Env,
           NEW f \in Env, NEW g \in Env, \A j \in Inputs(k) : f[j] = g[j],
           EvalItem(k, Given(k, e), f) = Err \/
               Kept(k, Given(k, e), EvalItem(k, Given(k, e), f)) = data[k]
    PROVE  EvalItem(k, Given(k, e), f) = EvalItem(k, Given(k, e), g)
<1>1. Given(k, e) \in Value /\ InputKeys(k, Given(k, e)) \subseteq Inputs(k)
  BY GivenType
<1>2. Given(k, e) # None \/ Default[k] \notin Exprs
  BY NoHiddenDefault
<1> QED
  BY <1>1, <1>2, ItemSame

\* What was read stays calm while other keys change.
LEMMA CalmKept ==
    ASSUME IInv, IInv', OrderlyClass, NEW S, NEW A, NEW T, NEW B \in Env, Steady(S, A),
           S \subseteq T, \A y \in S : B[y] = A[y], lazy' = lazy,
           \A y \in S : /\ data'[y] = data[y] /\ dv'[y] = dv[y]
                        /\ RecordedInputs(y)' = RecordedInputs(y)
    PROVE  \A k \in S : Calm(k, T, B)'
<1> TAKE k \in S
<1>1. k \in Keys /\ A \in Env /\ Calm(k, S, A)
  BY DEF Steady
<1>2. CASE data[k] = Absent
  BY <1>1, <1>2 DEF Calm
<1>3. CASE data[k] # Absent
  <2>0. PICK e \in Env : e = Found(k, A)
    BY <1>1, FoundType
  <2>1. Inputs(k) \subseteq S /\ Inputs(k)' = Inputs(k)
    BY <1>1, <1>3 DEF Calm, Inputs
  <2>2. Found(k, B)' = e
    BY <2>0, <2>1 DEF Found
  <2>3. dv \in Env /\ dv' \in Env
    BY DEF IInv, MapsOK, Env
  <2>4. Given(k, e)' = Given(k, e)
    BY DEF Given
  <2>5. Due(k)' = Due(k)
    BY DEF Due, Missing
  <2>6. /\ data'[k] = data[k] /\ dv'[k] = dv[k] /\ B[k] = A[k]
        /\ RecordedInputs(k)' = RecordedInputs(k)
    OBVIOUS
  <2>7. ASSUME Worth(k, e) = Err \/ Kept(k, Given(k, e), Worth(k, e)) = data[k]
        PROVE  Worth(k, e)' = Worth(k, e)
    <3>1. EvalItem(k, Given(k, e), dv) = EvalItem(k, Given(k, e), dv')
      <4>1. \A j \in Inputs(k) : dv[j] = dv'[j]
        BY <2>1
      <4> QED
        BY <1>1, <1>3, <2>3, <2>7, <4>1, GivenSame DEF Worth
    <3>2. Worth(k, e)' = EvalItem(k, Given(k, e)', dv')
      BY DEF Worth
    <3> QED
      BY <2>4, <3>1, <3>2 DEF Worth
  <2>8. CASE A[k] # Absent
    <3>1. Answers(k, A)
      BY <1>1, <1>3, <2>8 DEF Calm
    <3>2. \A j \in Deps[k] : B[j] = A[j]
      BY <2>1 DEF Inputs, InputKeys
    <3>3. Due(k) => Worth(k, e) = A[k] /\ Kept(k, Given(k, e), A[k]) = data[k]
      BY <2>0, <3>1 DEF Answers
    <3>4. Due(k)' => Worth(k, e)' = B[k] /\ Kept(k, Given(k, e)', B[k]) = data'[k]
      BY <2>4, <2>5, <2>6, <2>7, <3>3
    <3>5. dv[k] = A[k] /\ RecordedInputs(k) = e /\ (k \in Getters => \A j \in Deps[k] : A[j] # Absent)
      BY <2>0, <3>1 DEF Answers
    <3>6. Answers(k, B)'
      BY <2>2, <2>6, <3>2, <3>4, <3>5 DEF Answers
    <3> QED
      BY <1>3, <2>1, <2>6, <2>8, <3>6 DEF Calm
  <2>9. CASE A[k] = Absent
    <3>1. Raises(k, A)
      BY <1>1, <1>3, <2>9 DEF Calm
    <3>2. \A j \in Deps[k] : B[j] = A[j]
      BY <2>1 DEF Inputs, InputKeys
    <3>3. /\ k \in Declared /\ (Due(k) \/ RecordedInputs(k) # e)
          /\ \/ k \in Getters /\ \E j \in Deps[k] : A[j] = Absent
             \/ /\ Worth(k, e) = Err
                /\ k \in Getters => /\ Given(k, e) = data[k]
                                    /\ k \in Primitive \/ (dv[k] = None /\ RecordedInputs(k) = NoInputs)
      BY <2>0, <3>1 DEF Raises
    <3>4. Due(k)' \/ RecordedInputs(k)' # e
      BY <2>5, <2>6, <3>3
    <3>5. \/ k \in Getters /\ \E j \in Deps[k] : B[j] = Absent
          \/ /\ Worth(k, e)' = Err
             /\ k \in Getters =>
                   /\ Given(k, e)' = data'[k]
                   /\ k \in Primitive \/ (dv'[k] = None /\ RecordedInputs(k)' = NoInputs)
      BY <2>4, <2>6, <2>7, <3>2, <3>3
    <3>6. Raises(k, B)'
      BY <2>2, <3>3, <3>4, <3>5 DEF Raises
    <3> QED
      BY <1>3, <2>1, <2>6, <2>9, <3>6 DEF Calm
  <2> QED
    BY <2>8, <2>9
<1> QED
  BY <1>2, <1>3

\* What answered among the inputs of a key is cached as it was answered.
LEMMA AnsweredIsCached ==
    ASSUME NEW S, NEW A, Steady(S, A), NEW j \in S, A[j] # Absent
    PROVE  dv[j] = A[j]
BY DEF Steady, Calm, Answers

\* Reading again what was read finds the same.
LEMMA Repeats ==
    ASSUME IInv, OrderlyClass, NEW S, NEW A, Steady(S, A), NEW c \in S, data[c] # Absent,
           Due(c) \/ RecordedInputs(c) # Found(c, A),
           NEW values \in Env, \A j \in Keys \ {c} : values[j] = dv[j],
           NEW e \in Env, e = Found(c, A)
    PROVE  /\ A[c] # Absent =>
                 /\ EvalItem(c, Given(c, e), values) = A[c]
                 /\ Kept(c, Given(c, e), A[c]) = data[c]
                 /\ dv[c] = A[c] /\ RecordedInputs(c) = e
                 /\ c \in Getters => \A j \in Deps[c] : A[j] # Absent
           /\ A[c] = Absent =>
                 /\ c \in Declared
                 /\ \/ c \in Getters /\ \E j \in Deps[c] : A[j] = Absent
                    \/ /\ EvalItem(c, Given(c, e), values) = Err
                       /\ c \in Getters =>
                             /\ Given(c, e) = data[c]
                             /\ c \in Primitive \/ (dv[c] = None /\ RecordedInputs(c) = NoInputs)
<1>1. c \in Keys /\ A \in Env /\ Calm(c, S, A) /\ dv \in Env
  BY DEF Steady, IInv, MapsOK, Env
<1>2. \A j \in Inputs(c) : values[j] = dv[j]
  <2>1. \A j \in Inputs(c) : j \in Keys /\ Rank[j] < Rank[c]
    BY <1>1, GivenType
  <2>2. Rank[c] \in Nat
    BY <1>1, AcyclicAssumption
  <2> QED
    BY <2>1, <2>2
<1>3. ASSUME Worth(c, e) = Err \/ Kept(c, Given(c, e), Worth(c, e)) = data[c]
      PROVE  EvalItem(c, Given(c, e), values) = Worth(c, e)
  BY <1>1, <1>2, <1>3, GivenSame DEF Worth
<1>4. CASE A[c] # Absent
  <2>1. Answers(c, A)
    BY <1>1, <1>4 DEF Calm
  <2> QED
    BY <1>3, <1>4, <2>1 DEF Answers
<1>5. CASE A[c] = Absent
  <2>1. Raises(c, A)
    BY <1>1, <1>5 DEF Calm
  <2> QED
    BY <1>3, <1>5, <2>1 DEF Raises
<1> QED
  BY <1>4, <1>5

\* A key that was just evaluated and stored is calm, and coherent.
LEMMA Stored ==
    ASSUME IInv, OrderlyClass, NEW S, NEW A, Steady(S, A),
           NEW c \in Keys, data[c] # Absent, Inputs(c) \subseteq S,
           NEW values \in Env, \A j \in Keys \ {c} : values[j] = dv[j] /\ dv'[j] = dv[j],
           dv' \in Env, EvalItem(c, Given(c, Found(c, A)), values) # Err,
           c \in Getters => \A j \in Deps[c] : A[j] # Absent,
           data'[c] = Kept(c, Given(c, Found(c, A)), dv'[c]),
           dv'[c] = EvalItem(c, Given(c, Found(c, A)), values),
           RecordedInputs(c)' = Found(c, A),
           NEW T, NEW B \in Env, S \subseteq T, \A j \in S \ {c} : B[j] = A[j], B[c] = dv'[c]
    PROVE  Inputs(c)' = Inputs(c) /\ Calm(c, T, B)' /\ Coherent(c)'
<1>0. A \in Env
  BY DEF Steady
<1>a. PICK e \in Env : e = Found(c, A)
  BY <1>0, FoundType
<1>b. PICK raw \in Value : raw = Given(c, e)
  BY GivenType
<1>c. PICK v : v = EvalItem(c, raw, values)
  OBVIOUS
<1>d. /\ v # Err /\ data'[c] = Kept(c, raw, v) /\ dv'[c] = v /\ B[c] = v
      /\ RecordedInputs(c)' = e
  BY <1>a, <1>b, <1>c
<1> USE <1>a, <1>b, <1>c, <1>d
<1>1. /\ raw \in Exprs => c \notin Getters
      /\ Inputs(c) \subseteq Keys /\ InputKeys(c, raw) \subseteq Inputs(c)
      /\ c \in Getters => Default[c] \notin Exprs /\ Inputs(c) = Deps[c]
      /\ c \notin Inputs(c)
  <2>1. /\ raw \in Exprs => c \notin Getters
        /\ Inputs(c) \subseteq Keys /\ InputKeys(c, raw) \subseteq Inputs(c)
        /\ c \in Getters => Default[c] \notin Exprs /\ Inputs(c) = Deps[c]
        /\ \A j \in Inputs(c) : Rank[j] < Rank[c]
    BY GivenType
  <2>2. Rank[c] \in Nat
    BY AcyclicAssumption
  <2> QED
    BY <2>1, <2>2
<1>2. /\ \A j \in Inputs(c) : values[j] = dv[j] /\ dv'[j] = dv[j] /\ e[j] = A[j] /\ B[j] = A[j]
      /\ \A j \in Inputs(c) : A[j] # Absent => values[j] = A[j]
  BY <1>1, AnsweredIsCached DEF Found
<1>3. None \notin Exprs
  BY SentinelAssumption, KeysAssumption
<1>4. v \in Value
  BY EvalItemType
<1>5. CASE c \in Primitive /\ raw \in Exprs
  <2>1. c \notin Getters /\ raw = data[c] /\ data'[c] = data[c] /\ raw # None
    BY <1>1, <1>3, <1>5 DEF Given, Kept
  <2>2. Inputs(c)' = Inputs(c) /\ InputKeys(c, raw) = Inputs(c)
    BY <2>1 DEF Inputs
  <2>3. Found(c, B)' = e
    BY <1>2, <2>2 DEF Found
  <2>4. EvalItem(c, raw, dv') = v
    <3>1. \A j \in InputKeys(c, raw) : values[j] = dv'[j]
      BY <1>2, <2>2
    <3>2. EvalItem(c, raw, values) = EvalItem(c, raw, dv')
      BY <2>1, <3>1, ItemSame
    <3> QED
      BY <3>2
  <2>5. Answers(c, B)'
    <3>1. Given(c, e)' = raw /\ Worth(c, e)' = v
      BY <2>1, <2>4 DEF Given, Worth
    <3>2. Kept(c, raw, v) = data'[c]
      OBVIOUS
    <3> QED
      BY <2>1, <2>3, <3>1, <3>2 DEF Answers
  <2>6. Calm(c, T, B)'
    <3>1. data'[c] # Absent /\ B[c] # Absent
      BY <1>4, <2>1, SentinelAssumption DEF Value
    <3> QED
      BY <2>2, <2>5, <3>1 DEF Calm
  <2>7. Coherent(c)'
    <3>1. ASSUME \A x \in Inputs(c) : e[x] # Absent
          PROVE  v = EvalItem(c, raw, e)
      <4>1. \A j \in InputKeys(c, raw) : values[j] = e[j]
        BY <1>2, <2>2, <3>1
      <4> QED
        BY <2>1, <4>1, ItemSame
    <3> QED
      BY <1>5, <2>1, <2>2, <3>1 DEF Coherent
  <2> QED
    BY <2>2, <2>6, <2>7
<1>6. CASE ~(c \in Primitive /\ raw \in Exprs)
  <2>1. data'[c] = v
    BY <1>6 DEF Kept
  <2>2. /\ \A f \in Env : EvalItem(c, v, f) = v
        /\ InputKeys(c, raw) = Deps[c] /\ InputKeys(c, v) = Deps[c]
        /\ c \notin Primitive \/ v \notin Exprs
    BY <1>6, ItemSettles
  <2>3. Inputs(c)' = Deps[c] /\ Inputs(c) = Deps[c]
    BY <1>1, <2>1, <2>2 DEF Inputs, Given
  <2>4. Found(c, B)' = e
    BY <1>2, <2>3 DEF Found
  <2>5. c \in Getters => \A f \in Env : EvalItem(c, raw, f) = v
    <3> SUFFICES ASSUME c \in Getters, NEW f \in Env
                 PROVE  EvalItem(c, raw, values) = EvalItem(c, raw, f)
      OBVIOUS
    <3> QED
      BY <1>1, ItemSame
  <2>6. Kept(c, v, v) = v
    BY DEF Kept
  <2>7. Answers(c, B)'
    <3>1. CASE c \in Getters
      <4>1. Given(c, e)' = raw /\ Worth(c, e)' = v
        BY <2>5, <3>1 DEF Given, Worth
      <4>2. Kept(c, raw, v) = data'[c] /\ \A j \in Deps[c] : B[j] # Absent
        BY <1>2, <2>3, <3>1
      <4> QED
        BY <2>4, <3>1, <4>1, <4>2 DEF Answers
    <3>2. CASE c \notin Getters
      <4>1. Given(c, e)' = v /\ Worth(c, e)' = v
        BY <2>1, <2>2, <3>2 DEF Given, Worth
      <4> QED
        BY <2>1, <2>4, <2>6, <3>2, <4>1 DEF Answers
    <3> QED
      BY <3>1, <3>2
  <2>8. Calm(c, T, B)'
    <3>1. data'[c] # Absent /\ B[c] # Absent
      BY <1>4, <2>1, SentinelAssumption DEF Value
    <3> QED
      BY <2>3, <2>7, <3>1 DEF Calm
  <2>9. Coherent(c)'
    <3>1. NoInputs \in Env
      BY NoInputsType
    <3>2. CASE c \in Getters
      <4>1. Getter(c, e) = raw
        BY <3>2 DEF Given
      <4>2. \A j \in Deps[c] : e[j] # Absent
        BY <1>2, <2>3, <3>2
      <4> QED
        BY <2>5, <3>1, <3>2, <4>1, <4>2 DEF Coherent
    <3>3. CASE c \notin Getters
      BY <2>1, <2>2, <3>3 DEF Coherent
    <3> QED
      BY <3>2, <3>3
  <2> QED
    BY <2>3, <2>8, <2>9
<1> QED
  BY <1>5, <1>6

-----------------------------------------------------------------------------
(* The reads in progress *)

LEMMA WalksKept ==
    ASSUME NEW S, NEW A, NEW T, NEW B, S \subseteq T, \A y \in S : B[y] = A[y],
           NEW f, Walks(f, S, A), data'[f.key] = data[f.key], dv'[f.key] = dv[f.key],
           RecordedInputs(f.key)' = RecordedInputs(f.key), lazy' = lazy
    PROVE  Walks(f, T, B)'
<1>1. Inputs(f.key)' = Inputs(f.key) /\ Due(f.key)' = Due(f.key) /\ Missing(f.key)' = Missing(f.key)
  BY DEF Inputs, Due, Missing
<1>2. Entered(f)'
  BY <1>1 DEF Walks, Entered
<1>3. Outdated(f, T, B)'
  <2>1. ASSUME Inputs(f.key) \subseteq S PROVE Found(f.key, B)' = Found(f.key, A)
    BY <1>1, <2>1 DEF Found
  <2> QED
    BY <1>1, <2>1 DEF Walks, Outdated
<1>4. /\ f.todo \subseteq Inputs(f.key)' /\ Inputs(f.key)' \ f.todo \subseteq T
      /\ f.got = [x \in Keys |-> IF x \in Inputs(f.key)' \ f.todo THEN B[x] ELSE Absent]
  <2>1. \A x \in Inputs(f.key) \ f.todo : B[x] = A[x]
    BY DEF Walks
  <2> QED
    BY <1>1, <2>1 DEF Walks
<1>5. f.op = "set" => f.key \notin Getters \cup ReadOnly /\ data'[f.key] \in RawOf(f.key)
  BY DEF Walks
<1> QED
  BY <1>2, <1>3, <1>4, <1>5 DEF Walks

LEMMA WalksOn ==
    ASSUME NEW S, NEW A, NEW f, Walks(f, S, A)', NEW c \in f.todo, c \in Keys, NEW out,
           A[c] = IF out = Err THEN Absent ELSE out, c \in S
    PROVE  Walks(WithInput(f, c, out), S, A)'
<1> DEFINE g == WithInput(f, c, out)
<1>1. /\ g.key = f.key /\ g.op = f.op /\ g.phase = f.phase /\ g.todo = f.todo \ {c}
      /\ g.got = [f.got EXCEPT ![c] = IF out = Err THEN Absent ELSE out]
  BY DEF WithInput
<1>2. Inputs(f.key)' \ g.todo = (Inputs(f.key)' \ f.todo) \cup {c}
  BY <1>1 DEF Walks
<1>3. g.got = [x \in Keys |-> IF x \in Inputs(f.key)' \ g.todo THEN A[x] ELSE Absent]
  BY <1>1, <1>2 DEF Walks
<1> HIDE DEF g
<1> QED
  BY <1>1, <1>2, <1>3 DEF Walks, Entered, Outdated, g

\* The frames of a state with a call in progress.
LEMMA FrameTypes ==
    ASSUME IInv, NEW i \in 1 .. Len(stack)
    PROVE  stack[i] \in Frame /\ stack[i].key \in Keys /\ data[stack[i].key] # Absent
<1>1. stack[i] \in Frame
  BY ElementOfSeq DEF IInv, CallsOK
<1> QED
  BY <1>1 DEF Frame, IInv, PresentOK

LEMMA OtherKeys ==
    ASSUME IInv, stack # <<>>, NEW i \in 1 .. Len(stack), i # Len(stack)
    PROVE  Rank[Top.key] < Rank[stack[i].key] /\ stack[i].key # Top.key
<1>1. Len(stack) \in Nat \ {0}
  BY TopType DEF IInv
<1>2. Rank[Top.key] < Rank[stack[i].key]
  BY <1>1 DEF IInv, CallsOK, StackOK, Descending, Top
<1>3. Rank[Top.key] \in Nat
  BY TopOK, AcyclicAssumption
<1> QED
  BY <1>2, <1>3

LEMMA LeaveForm ==
    ASSUME IInv, stack # <<>>, NEW out, Leave(out)
    PROVE  /\ Len(stack) \in Nat \ {0} /\ Len(stack') = Len(stack) - 1
           /\ \A i \in 1 .. Len(stack) - 1 :
                 stack'[i] = IF i = Len(stack) - 1 THEN WithInput(stack[i], Top.key, out)
                                                   ELSE stack[i]
<1>1. Len(stack) \in Nat \ {0}
  BY TopType DEF IInv
<1> DEFINE n == Len(stack) - 1
           g(i) == IF i = n THEN WithInput(stack[i], Top.key, out) ELSE stack[i]
<1>2. n \in Nat /\ stack' = [i \in 1 .. n |-> g(i)]
  BY <1>1 DEF Leave
<1> HIDE DEF g
<1>3. Len(stack') = n /\ \A i \in 1 .. n : stack'[i] = g(i)
  BY <1>2, LenProperties
<1> QED
  BY <1>1, <1>3 DEF g

\* The innermost call ends: its reader has read its key.
LEMMA LeaveReading ==
    ASSUME IInv, stack # <<>>, NEW out, Leave(out), NEW S, NEW A, S \subseteq Keys, Reading(S, A),
           NEW T, NEW B, T = S \cup {Top.key}, \A y \in S : B[y] = A[y],
           B[Top.key] = IF out = Err THEN Absent ELSE out, lazy' = lazy,
           \A y \in Keys \ {Top.key} : /\ data'[y] = data[y] /\ dv'[y] = dv[y]
                                       /\ RecordedInputs(y)' = RecordedInputs(y)
    PROVE  Reading(T, B)'
<1>1. PICK c \in Keys : c = Top.key
  BY TopOK
<1>2. PICK n \in Nat : n = Len(stack) - 1
  BY LeaveForm
<1>3. /\ Len(stack) = n + 1 /\ Len(stack') = n
      /\ \A i \in 1 .. n : stack'[i] = IF i = n THEN WithInput(stack[i], c, out) ELSE stack[i]
  BY <1>1, <1>2, LeaveForm
<1>4. Top = stack[n + 1]
  BY <1>3 DEF Top
<1>5. ASSUME NEW i \in 1 .. n
      PROVE  /\ Walks(stack[i], S, A) /\ stack[i + 1].key \in stack[i].todo
             /\ stack[i].op \in {"set", "attr"} => i = 1 /\ stack[i].phase = "inputs"
             /\ stack[i].key \in Keys /\ stack[i].key # c /\ i \in 1 .. Len(stack)
             /\ Rank[c] < Rank[stack[i].key]
  <2>1. i \in 1 .. Len(stack) /\ i # Len(stack) /\ i < Len(stack)
    BY <1>3
  <2> QED
    BY <1>1, <2>1, FrameTypes, OtherKeys DEF Reading
<1>6. ASSUME NEW i \in 1 .. n
      PROVE  /\ Walks(stack[i], T, B)'
             /\ stack'[i].key = stack[i].key /\ stack'[i].op = stack[i].op
             /\ stack'[i].phase = stack[i].phase /\ (i < n => stack'[i].todo = stack[i].todo)
  <2>1. PICK f : f = stack[i]
    OBVIOUS
  <2>2. f.key \in Keys /\ f.key # c /\ Walks(f, S, A)
    BY <1>5, <2>1
  <2>3. Walks(f, T, B)'
    BY <1>1, <2>2, WalksKept
  <2>4. CASE i # n
    <3>1. stack'[i] = f
      BY <1>3, <2>1, <2>4
    <3> QED
      BY <2>1, <2>3, <3>1
  <2>5. CASE i = n
    <3>1. stack'[i] = WithInput(f, c, out)
      BY <1>3, <2>1, <2>5
    <3>2. c \in f.todo
      BY <1>1, <1>4, <1>5, <2>1, <2>5
    <3>3. Walks(WithInput(f, c, out), T, B)'
      <4>1. c \in T /\ B[c] = IF out = Err THEN Absent ELSE out
        BY <1>1
      <4> QED
        BY <2>3, <3>2, <4>1, WalksOn
    <3>4. /\ WithInput(f, c, out).key = f.key /\ WithInput(f, c, out).op = f.op
          /\ WithInput(f, c, out).phase = f.phase
      BY DEF WithInput
    <3> QED
      BY <2>1, <2>5, <3>1, <3>3, <3>4
  <2> QED
    BY <2>4, <2>5
<1>7. ASSUME NEW i \in 1 .. Len(stack')
      PROVE  /\ Walks(stack[i], T, B)'
             /\ i < Len(stack') => stack'[i + 1].key \in stack'[i].todo
             /\ stack'[i].op \in {"set", "attr"} => i = 1 /\ stack'[i].phase = "inputs"
  <2>1. i \in 1 .. n /\ (i < n => i + 1 \in 1 .. n)
    BY <1>3
  <2> QED
    BY <1>3, <1>5, <1>6, <2>1
<1>8. ASSUME stack' # <<>>, NEW y \in T
      PROVE  Rank[y] < Rank[stack'[1].key]
  <2>1. n # 0
    BY <1>3, <1>8, EmptySeq, LeaveOK DEF IInv, CallsOK
  <2>2. 1 \in 1 .. n
    BY <2>1
  <2>3. stack'[1].key = stack[1].key
    BY <1>6, <2>2
  <2>4. CASE y \in S
    BY <2>3, <2>4 DEF Reading
  <2>5. CASE y = c
    BY <1>5, <2>2, <2>3, <2>5
  <2> QED
    BY <1>1, <2>4, <2>5
<1> QED
  BY <1>7, <1>8 DEF Reading

LEMMA ReplaceReading ==
    ASSUME IInv, stack # <<>>, NEW f, ReplaceTop(f), f.key = Top.key,
           NEW S, NEW A, Reading(S, A), NEW T, NEW B, S \subseteq T, \A y \in S : B[y] = A[y],
           \A y \in T : Rank[y] < Rank[stack[1].key], Walks(f, T, B)', lazy' = lazy,
           f.op \in {"set", "attr"} => Len(stack) = 1 /\ f.phase = "inputs",
           \A y \in Keys \ {Top.key} : /\ data'[y] = data[y] /\ dv'[y] = dv[y]
                                       /\ RecordedInputs(y)' = RecordedInputs(y)
    PROVE  Reading(T, B)'
<1>1. PICK c \in Keys : c = Top.key
  BY TopOK
<1>2. PICK n \in Nat \ {0} : n = Len(stack)
  BY TopType DEF IInv
<1>3. stack' = [stack EXCEPT ![n] = f] /\ stack \in Seq(Frame)
  BY <1>2 DEF ReplaceTop, IInv, CallsOK
<1>4. Len(stack') = n /\ \A i \in 1 .. n : stack'[i] = IF i = n THEN f ELSE stack[i]
  BY <1>2, <1>3
<1>5. stack[n].key = c /\ f.key = c
  BY <1>1, <1>2 DEF Top
<1>6. ASSUME NEW i \in 1 .. n
      PROVE  /\ Walks(stack[i], T, B)' /\ stack'[i].key = stack[i].key
             /\ i < n => stack'[i].todo = stack[i].todo
             /\ stack'[i].op \in {"set", "attr"} => i = 1 /\ stack'[i].phase = "inputs"
  <2>1. CASE i = n
    <3>1. stack'[i] = f
      BY <1>4, <2>1
    <3> QED
      BY <1>2, <1>5, <2>1, <3>1
  <2>2. CASE i # n
    <3>1. stack'[i] = stack[i]
      BY <1>4, <2>2
    <3>2. PICK g : g = stack[i]
      OBVIOUS
    <3>3. i \in 1 .. Len(stack) /\ i # Len(stack)
      BY <1>2, <2>2
    <3>4. g.key \in Keys /\ g.key # c /\ Walks(g, S, A)
      BY <1>1, <3>2, <3>3, FrameTypes, OtherKeys DEF Reading
    <3>5. Walks(g, T, B)'
      BY <1>1, <3>4, WalksKept
    <3>6. stack[i].op \in {"set", "attr"} => i = 1 /\ stack[i].phase = "inputs"
      BY <3>3 DEF Reading
    <3> QED
      BY <3>1, <3>2, <3>5, <3>6
  <2> QED
    BY <2>1, <2>2
<1>7. ASSUME NEW i \in 1 .. n, i < n
      PROVE  stack'[i + 1].key \in stack'[i].todo
  <2>1. i + 1 \in 1 .. n /\ i \in 1 .. Len(stack) /\ i < Len(stack)
    BY <1>2, <1>7
  <2> QED
    BY <1>6, <1>7, <2>1 DEF Reading
<1>8. \A y \in T : Rank[y] < Rank[stack'[1].key]
  BY <1>6
<1> QED
  BY <1>4, <1>6, <1>7, <1>8 DEF Reading

LEMMA PushReading ==
    ASSUME IInv, stack # <<>>, NEW f, stack' = Append(stack, f), f \in Frame, f.key \in Top.todo,
           NEW S, NEW A, Reading(S, A), Walks(f, S, A)', f.op \in {"get", "item"},
           UNCHANGED <<data, dv, itemsInputs, lazy>>
    PROVE  Reading(S, A)'
<1>1. PICK n \in Nat \ {0} : n = Len(stack)
  BY TopType DEF IInv
<1>2. /\ Len(stack') = n + 1 /\ stack'[n + 1] = f
      /\ \A i \in 1 .. n : stack'[i] = stack[i]
  BY <1>1, AppendProperties DEF IInv, CallsOK
<1>3. ASSUME NEW i \in 1 .. n
      PROVE  Walks(stack[i], S, A)'
  <2>1. PICK g : g = stack[i]
    OBVIOUS
  <2>2. Walks(g, S, A)
    BY <1>1, <2>1 DEF Reading
  <2>3. Walks(g, S, A)'
    BY <2>2, WalksKept DEF RecordedInputs
  <2> QED
    BY <1>2, <2>1, <2>3
<1>4. ASSUME NEW i \in 1 .. n + 1
      PROVE  /\ Walks(stack[i], S, A)'
             /\ i < n + 1 => stack'[i + 1].key \in stack'[i].todo
             /\ stack'[i].op \in {"set", "attr"} => i = 1 /\ stack'[i].phase = "inputs"
  <2>1. CASE i = n + 1
    BY <1>2, <2>1
  <2>2. CASE i = n
    BY <1>1, <1>2, <1>3, <2>2 DEF Reading, Top
  <2>3. CASE i \in 1 .. n /\ i # n
    <3>1. i + 1 \in 1 .. n /\ i < n
      BY <1>1, <2>3
    <3> QED
      BY <1>1, <1>2, <1>3, <2>3, <3>1 DEF Reading
  <2>4. i = n + 1 \/ i = n \/ (i \in 1 .. n /\ i # n)
    OBVIOUS
  <2> QED
    BY <2>1, <2>2, <2>3, <2>4
<1>5. \A y \in S : Rank[y] < Rank[stack'[1].key]
  BY <1>2 DEF Reading
<1> QED
  BY <1>2, <1>4, <1>5 DEF Reading

\* A call begins: nothing is read yet.
LEMMA StartReading ==
    ASSUME NEW f, stack' = <<f>>, NEW A, Walks(f, {}, A)',
           f.op \in {"set", "attr"} => f.phase = "inputs"
    PROVE  Reading({}, A)'
<1>1. Len(stack') = 1 /\ stack'[1] = f
  OBVIOUS
<1>2. ASSUME NEW i \in 1 .. Len(stack')
      PROVE  /\ Walks(stack[i], {}, A)'
             /\ ~(i < Len(stack'))
             /\ stack'[i].op \in {"set", "attr"} => i = 1 /\ stack'[i].phase = "inputs"
  BY <1>1
<1> QED
  BY <1>2 DEF Reading

LEMMA EmptyReading ==
    ASSUME stack' = <<>>, NEW S, NEW A
    PROVE  Reading(S, A)'
<1>1. Len(stack') = 0
  OBVIOUS
<1> QED
  BY <1>1 DEF Reading

\* A frame that has read nothing.
LEMMA NewWalks ==
    ASSUME NEW k \in Keys, NEW op, NEW phase, NEW f,
           f = [key |-> k, op |-> op, phase |-> phase, todo |-> Inputs(k)', got |-> NoInputs],
           Entered(f)', NEW S, NEW A,
           op \in {"get", "item"} /\ phase = "inputs" =>
               Due(k)' \/ (Inputs(k)' \subseteq S /\ RecordedInputs(k)' # Found(k, A)'),
           op = "set" => k \notin Getters \cup ReadOnly /\ data'[k] \in RawOf(k)
    PROVE  Walks(f, S, A)'
<1>1. Outdated(f, S, A)'
  BY DEF Outdated
<1>2. f.got = [x \in Keys |-> IF x \in Inputs(f.key)' \ f.todo THEN A[x] ELSE Absent]
  BY DEF NoInputs
<1> QED
  BY <1>1, <1>2 DEF Walks

LEMMA ReadFrameWalks ==
    ASSUME NEW k \in Keys, NEW f, f = ReadFrame(k), data'[k] = data[k], dv'[k] = dv[k], lazy' = lazy,
           NEW S, NEW A
    PROVE  Walks(f, S, A)' /\ f.op \in {"get", "item"} /\ f.key = k
<1>1. /\ Inputs(k)' = InputKeys(k, data[k]) /\ Missing(k)' = Missing(k) /\ Due(k)' = Due(k)
      /\ k \in Declared => k \notin Additional
      /\ k \notin Declared => k \in Additional
  BY KeysAssumption DEF Inputs, Missing, Due, Keys
<1>2. CASE k \in Declared
  <2>1. f = NewFrame(k, "get", IF Missing(k) THEN "inputs" ELSE "check")
    BY <1>2 DEF ReadFrame, Missing
  <2>2. PICK phase : phase = IF Missing(k) THEN "inputs" ELSE "check"
    OBVIOUS
  <2>3. f = [key |-> k, op |-> "get", phase |-> phase, todo |-> Inputs(k)', got |-> NoInputs]
    BY <1>1, <2>1, <2>2 DEF NewFrame
  <2>4. Entered(f)' /\ (phase = "inputs" => Due(k)')
    BY <1>1, <1>2, <2>2, <2>3 DEF Entered, Due
  <2> QED
    BY <2>3, <2>4, NewWalks
<1>3. CASE k \notin Declared
  <2>1. f = NewFrame(k, "item", IF lazy \/ Missing(k) THEN "inputs" ELSE "check")
    BY <1>3 DEF ReadFrame, Missing
  <2>2. PICK phase : phase = IF lazy \/ Missing(k) THEN "inputs" ELSE "check"
    OBVIOUS
  <2>3. f = [key |-> k, op |-> "item", phase |-> phase, todo |-> Inputs(k)', got |-> NoInputs]
    BY <1>1, <2>1, <2>2 DEF NewFrame
  <2>4. Entered(f)' /\ (phase = "inputs" => Due(k)')
    BY <1>1, <1>3, <2>2, <2>3 DEF Entered, Due
  <2> QED
    BY <2>3, <2>4, NewWalks
<1> QED
  BY <1>2, <1>3

-----------------------------------------------------------------------------
(* What holds between and during calls is kept *)

LEMMA CoherentKept ==
    ASSUME NEW k, Coherent(k), data'[k] = data[k], dv'[k] = dv[k],
           RecordedInputs(k)' = RecordedInputs(k)
    PROVE  Coherent(k)'
<1>1. Inputs(k)' = Inputs(k)
  BY DEF Inputs
<1> QED
  BY <1>1 DEF Coherent

LEMMA SteadyKept ==
    ASSUME IInv, IInv', OrderlyClass, NEW S, NEW A, Steady(S, A), lazy' = lazy,
           \A y \in S : /\ data'[y] = data[y] /\ dv'[y] = dv[y]
                        /\ RecordedInputs(y)' = RecordedInputs(y)
    PROVE  Steady(S, A)'
<1>1. A \in Env /\ S \subseteq Keys
  BY DEF Steady
<1>2. \A k \in S : Calm(k, S, A)'
  BY <1>1, CalmKept
<1> QED
  BY <1>1, <1>2 DEF Steady

\* One more key was read.
LEMMA SteadyGrown ==
    ASSUME IInv, IInv', OrderlyClass, NEW S, NEW A, Steady(S, A), lazy' = lazy,
           NEW c \in Keys, NEW T, T = S \cup {c}, NEW B \in Env, \A y \in S : B[y] = A[y],
           \A y \in S : /\ data'[y] = data[y] /\ dv'[y] = dv[y]
                        /\ RecordedInputs(y)' = RecordedInputs(y),
           c \notin S => Calm(c, T, B)'
    PROVE  Steady(T, B)'
<1>1. S \subseteq T /\ T \subseteq Keys
  BY DEF Steady
<1>2. \A k \in S : Calm(k, T, B)'
  BY <1>1, CalmKept
<1>3. \A k \in T : Calm(k, T, B)'
  BY <1>2
<1> QED
  BY <1>1, <1>3 DEF Steady

LEMMA QuietTold ==
    ASSUME result' = NoResult, NEW S, NEW A
    PROVE  Told(S, A)'
BY DEF Told, Evaluating, NoResult

LEMMA IdleHolds ==
    ASSUME stack' = <<>>, ~Evaluating'
    PROVE  \E S, A : Steady(S, A)' /\ Reading(S, A)' /\ Told(S, A)'
<1>1. Steady({}, NoInputs)'
  BY NoInputsType DEF Steady
<1>2. Reading({}, NoInputs)'
  BY EmptyReading
<1>3. Told({}, NoInputs)'
  BY DEF Told
<1> QED
  BY <1>1, <1>2, <1>3

LEMMA StartHolds ==
    ASSUME NEW f, stack' = <<f>>, result' = NoResult, Walks(f, {}, NoInputs)',
           f.op \in {"set", "attr"} => f.phase = "inputs"
    PROVE  \E S, A : Steady(S, A)' /\ Reading(S, A)' /\ Told(S, A)'
<1>1. Steady({}, NoInputs)'
  BY NoInputsType DEF Steady
<1>2. Reading({}, NoInputs)'
  BY StartReading
<1>3. Told({}, NoInputs)'
  BY QuietTold
<1> QED
  BY <1>1, <1>2, <1>3

LEMMA TopWalks ==
    ASSUME IInv, stack # <<>>, NEW S, NEW A, Reading(S, A)
    PROVE  /\ Walks(Top, S, A)
           /\ Top.op \in {"set", "attr"} => Len(stack) = 1 /\ Top.phase = "inputs"
           /\ Rank[Top.key] <= Rank[stack[1].key]
<1>1. PICK n \in Nat \ {0} : n = Len(stack)
  BY TopType DEF IInv
<1>2. n \in 1 .. Len(stack) /\ Top = stack[n]
  BY <1>1 DEF Top
<1>3. Rank[Top.key] <= Rank[stack[1].key]
  <2>1. Rank[Top.key] \in Nat
    BY TopOK, AcyclicAssumption
  <2>2. CASE n = 1
    BY <1>2, <2>1, <2>2
  <2>3. CASE n # 1
    <3>1. 1 \in 1 .. Len(stack) /\ 1 # Len(stack)
      BY <1>1, <2>3
    <3>2. Rank[stack[1].key] \in Nat
      BY <3>1, FrameTypes, AcyclicAssumption
    <3>3. Rank[Top.key] < Rank[stack[1].key]
      BY <3>1, OtherKeys
    <3> QED
      BY <2>1, <3>2, <3>3
  <2> QED
    BY <2>2, <2>3
<1> QED
  BY <1>1, <1>2, <1>3 DEF Reading

\* The innermost call has read all of its inputs.
LEMMA TopDone ==
    ASSUME IInv, stack # <<>>, NEW S, NEW A, Steady(S, A), Reading(S, A), Top.todo = {}
    PROVE  /\ Inputs(Top.key) \subseteq S /\ Top.key \notin Inputs(Top.key)
           /\ Top.got = Found(Top.key, A)
           /\ Top.op \in {"get", "item"} /\ Top.phase = "inputs" =>
                 Due(Top.key) \/ RecordedInputs(Top.key) # Found(Top.key, A)
           /\ Top.op \in {"get", "item"} /\ Top.phase = "check" =>
                 ~Missing(Top.key) /\ ~(Top.key \in Additional /\ lazy)
<1>1. Walks(Top, S, A)
  BY TopWalks
<1>2. Inputs(Top.key) \ Top.todo = Inputs(Top.key)
  OBVIOUS
<1>3. Top.got = Found(Top.key, A)
  BY <1>1, <1>2 DEF Walks, Found
<1>4. Inputs(Top.key) \subseteq S
  BY <1>1, <1>2 DEF Walks
<1>5. Top.key \notin Inputs(Top.key)
  <2>1. Top.key \in Keys /\ Rank[Top.key] \in Nat
    BY TopOK, AcyclicAssumption
  <2>2. data[Top.key] \in Exprs => data[Top.key] \in Sources(Top.key)
    BY <2>1 DEF IInv, MapsOK, SourcesOK
  <2>3. \A j \in Inputs(Top.key) : Rank[j] < Rank[Top.key]
    BY <2>1, <2>2, InputKeysType DEF Inputs
  <2> QED
    BY <2>1, <2>3
<1> QED
  BY <1>1, <1>3, <1>4, <1>5 DEF Walks, Entered, Outdated

\* A key with a default is None only while it is written.
LEMMA DefaultedSame ==
    ASSUME Defaulted, lazy' = lazy, \A k \in Declared : data'[k] = None => data[k] = None,
           stack # <<>> => stack' # <<>> /\ stack'[1].key = stack[1].key
                              /\ (stack[1].op = "set" => stack'[1].op = "set")
    PROVE  Defaulted'
BY DEF Defaulted

LEMMA DefaultedLeave ==
    ASSUME IInv, Defaulted, stack # <<>>, NEW out, Leave(out), lazy' = lazy,
           \A k \in Keys \ {Top.key} : data'[k] = data[k],
           \/ Default[Top.key] = None \/ data'[Top.key] # None
           \/ data'[Top.key] = data[Top.key] /\ Top.op # "set"
    PROVE  Defaulted'
<1> SUFFICES ASSUME ~lazy, NEW k \in Declared, data'[k] = None, Default[k] # None
             PROVE  stack' # <<>> /\ stack'[1].key = k /\ stack'[1].op = "set"
  BY DEF Defaulted
<1>1. PICK n \in Nat : Len(stack) = n + 1 /\ Len(stack') = n
        /\ \A i \in 1 .. n : stack'[i] = IF i = n THEN WithInput(stack[i], Top.key, out)
                                                  ELSE stack[i]
  <2>1. Len(stack) \in Nat \ {0} /\ Len(stack') = Len(stack) - 1
    BY LeaveForm
  <2>2. \A i \in 1 .. Len(stack) - 1 :
           stack'[i] = IF i = Len(stack) - 1 THEN WithInput(stack[i], Top.key, out) ELSE stack[i]
    BY LeaveForm
  <2>3. PICK n \in Nat : n = Len(stack) - 1
    BY <2>1
  <2>4. Len(stack) = n + 1 /\ Len(stack') = n
    BY <2>1, <2>3
  <2> QED
    BY <2>2, <2>3, <2>4
<1>2. data[k] = None
  BY DEF Keys
<1>3. stack[1].key = k /\ stack[1].op = "set"
  BY <1>2 DEF Defaulted
<1>4. n # 0
  <2> SUFFICES ASSUME n = 0 PROVE FALSE
    OBVIOUS
  <2>1. Top.key = k /\ Top.op = "set"
    BY <1>1, <1>3 DEF Top
  <2> QED
    BY <2>1
<1>5. 1 \in 1 .. n /\ stack' # <<>>
  BY <1>1, <1>4, EmptySeq
<1>6. stack'[1].key = stack[1].key /\ stack'[1].op = stack[1].op
  BY <1>1, <1>5 DEF WithInput
<1> QED
  BY <1>3, <1>5, <1>6

LEMMA CoherentOthers ==
    ASSUME FInv, NEW c,
           \A y \in Keys \ {c} : /\ data'[y] = data[y] /\ dv'[y] = dv[y]
                                 /\ RecordedInputs(y)' = RecordedInputs(y),
           c \in Keys => Coherent(c)'
    PROVE  \A k \in Keys : Coherent(k)'
<1> SUFFICES ASSUME NEW k \in Keys, k # c PROVE Coherent(k)'
  OBVIOUS
<1>1. Coherent(k)
  BY DEF FInv
<1> QED
  BY <1>1, CoherentKept

-----------------------------------------------------------------------------
(* Each action keeps FInv: calls that begin, and calls that do not evaluate *)

LEMMA QuietFresh ==
    ASSUME FInv, UNCHANGED <<data, dv, itemsInputs, lazy>>
    PROVE  \A k \in Keys : Coherent(k)'
<1> SUFFICES ASSUME NEW k \in Keys PROVE Coherent(k)'
  OBVIOUS
<1>1. Coherent(k) /\ RecordedInputs(k)' = RecordedInputs(k)
  BY DEF FInv, RecordedInputs
<1> QED
  BY <1>1, CoherentKept

LEMMA StartFresh ==
    ASSUME FInv, stack = <<>>, UNCHANGED <<data, dv, itemsInputs, lazy>>, result' = NoResult,
           NEW k \in Keys, NEW f, f = ReadFrame(k), stack' = <<f>>
    PROVE  FInv'
<1>1. Walks(f, {}, NoInputs)' /\ f.op \in {"get", "item"}
  BY ReadFrameWalks
<1>2. \E S, A : Steady(S, A)' /\ Reading(S, A)' /\ Told(S, A)'
  BY <1>1, StartHolds
<1>3. Defaulted'
  BY DefaultedSame DEF FInv
<1>4. \A j \in Keys : Coherent(j)'
  BY QuietFresh
<1> QED
  BY <1>2, <1>3, <1>4 DEF FInv

LEMMA BuildItemFresh ==
    ASSUME FInv, NEW k \in Keys, BuildItem(k), UNCHANGED lazy
    PROVE  FInv'
<1>1. PICK f : f = ReadFrame(k)
  OBVIOUS
<1>2. /\ stack = <<>> /\ UNCHANGED <<data, dv, itemsInputs, lazy>> /\ result' = NoResult
      /\ stack' = <<f>>
  BY <1>1 DEF BuildItem
<1> QED
  BY <1>1, <1>2, StartFresh

LEMMA GetFresh ==
    ASSUME FInv, NEW k \in Keys, Get(k), UNCHANGED lazy
    PROVE  FInv'
<1>1. PICK f : f = ReadFrame(k)
  OBVIOUS
<1>2. /\ stack = <<>> /\ UNCHANGED <<data, dv, itemsInputs, lazy>> /\ result' = NoResult
      /\ stack' = <<f>>
  BY <1>1 DEF Get, Ready
<1> QED
  BY <1>1, <1>2, StartFresh

LEMMA GetAttrFresh ==
    ASSUME FInv, NEW k \in Keys, GetAttr(k), UNCHANGED lazy
    PROVE  FInv'
<1>1. PICK f : f = NewFrame(k, "attr", "inputs")
  OBVIOUS
<1>2. /\ stack = <<>> /\ UNCHANGED <<data, dv, itemsInputs, lazy>> /\ result' = NoResult
      /\ stack' = <<f>>
  BY <1>1 DEF GetAttr, Ready
<1>3. f = [key |-> k, op |-> "attr", phase |-> "inputs", todo |-> Inputs(k)', got |-> NoInputs]
  BY <1>1, <1>2 DEF NewFrame, Inputs
<1>4. Entered(f)'
  BY <1>3 DEF Entered
<1>5. Walks(f, {}, NoInputs)'
  BY <1>3, <1>4, NewWalks
<1>6. f.op = "attr" /\ f.phase = "inputs"
  BY <1>3
<1>7. \E S, A : Steady(S, A)' /\ Reading(S, A)' /\ Told(S, A)'
  BY <1>2, <1>5, <1>6, StartHolds
<1>8. Defaulted'
  BY <1>2, DefaultedSame DEF FInv
<1>9. \A j \in Keys : Coherent(j)'
  BY <1>2, QuietFresh
<1> QED
  BY <1>2, <1>7, <1>8, <1>9 DEF FInv

LEMMA ItemBuiltFresh ==
    ASSUME FInv, ItemBuilt, UNCHANGED lazy
    PROVE  FInv'
<1>1. /\ stack = <<>> /\ stack' = <<>> /\ result' = NoResult
      /\ UNCHANGED <<data, dv, itemsInputs, lazy>>
  BY DEF ItemBuilt
<1>2. \E S, A : Steady(S, A)' /\ Reading(S, A)' /\ Told(S, A)'
  BY <1>1, IdleHolds DEF Evaluating, NoResult
<1>3. Defaulted'
  BY <1>1, DefaultedSame DEF FInv
<1>4. \A j \in Keys : Coherent(j)'
  BY <1>1, QuietFresh
<1> QED
  BY <1>1, <1>2, <1>3, <1>4 DEF FInv

\* A write or a deletion of one key outside any call.
LEMMA ChangeFresh ==
    ASSUME FInv, stack = <<>>, stack' = <<>>, lazy' = lazy, ~Evaluating', NEW k \in Keys,
           \A y \in Keys \ {k} : /\ data'[y] = data[y] /\ dv'[y] = dv[y]
                                 /\ RecordedInputs(y)' = RecordedInputs(y),
           k \notin Declared \/ data'[k] = Absent
    PROVE  FInv'
<1>1. \E S, A : Steady(S, A)' /\ Reading(S, A)' /\ Told(S, A)'
  BY IdleHolds
<1>2. Coherent(k)'
  BY DEF Coherent
<1>3. \A j \in Keys : Coherent(j)'
  BY <1>2, CoherentOthers
<1>4. Defaulted'
  <2>1. \A j \in Declared : data'[j] = None => data[j] = None
    BY SentinelAssumption DEF Keys
  <2> QED
    BY <2>1, DefaultedSame DEF FInv
<1> QED
  BY <1>1, <1>3, <1>4 DEF FInv

LEMMA SetAdditionalFresh ==
    ASSUME IInv, FInv, NEW k \in Keys, NEW v \in RawOf(k), SetAdditional(k, v), UNCHANGED lazy
    PROVE  FInv'
<1>1. /\ stack = <<>> /\ stack' = <<>> /\ k \notin Declared /\ itemsInputs' = itemsInputs
      /\ data' = [data EXCEPT ![k] = v] /\ dv' = [dv EXCEPT ![k] = v]
      /\ result'.op = "setitem"
  BY KeysAssumption DEF SetAdditional, Ready
<1>2. ~Evaluating'
  BY <1>1 DEF Evaluating
<1>3. \A y \in Keys \ {k} : /\ data'[y] = data[y] /\ dv'[y] = dv[y]
                            /\ RecordedInputs(y)' = RecordedInputs(y)
  BY <1>1 DEF IInv, MapsOK, RecordedInputs
<1> QED
  BY <1>1, <1>2, <1>3, ChangeFresh

LEMMA DelAttrFresh ==
    ASSUME IInv, FInv, NEW k \in Keys, DelAttr(k), UNCHANGED lazy
    PROVE  FInv'
<1>1. stack = <<>> /\ stack' = <<>> /\ result'.op = "delattr"
  BY DEF DelAttr, Ready
<1>2. ~Evaluating'
  BY <1>1 DEF Evaluating
<1>3. /\ \A y \in Keys \ {k} : /\ data'[y] = data[y] /\ dv'[y] = dv[y]
                               /\ RecordedInputs(y)' = RecordedInputs(y)
      /\ data'[k] = Absent \/ UNCHANGED <<data, dv, itemsInputs>>
  BY DEF DelAttr, IInv, MapsOK, RecordedInputs
<1>4. CASE data'[k] = Absent
  BY <1>1, <1>2, <1>3, <1>4, ChangeFresh
<1>5. CASE UNCHANGED <<data, dv, itemsInputs>>
  <2>1. \E S, A : Steady(S, A)' /\ Reading(S, A)' /\ Told(S, A)'
    BY <1>1, <1>2, IdleHolds
  <2>2. Defaulted'
    BY <1>1, <1>5, DefaultedSame DEF FInv
  <2>3. \A j \in Keys : Coherent(j)'
    BY <1>5, QuietFresh
  <2> QED
    BY <1>1, <2>1, <2>2, <2>3 DEF FInv
<1> QED
  BY <1>3, <1>4, <1>5

LEMMA DelItemFresh ==
    ASSUME IInv, FInv, NEW k \in Keys, DelItem(k), UNCHANGED lazy
    PROVE  FInv'
<1>1. stack = <<>> /\ stack' = <<>> /\ result'.op = "delitem"
  BY DEF DelItem, Ready
<1>2. ~Evaluating'
  BY <1>1 DEF Evaluating
<1>3. /\ \A y \in Keys \ {k} : /\ data'[y] = data[y] /\ dv'[y] = dv[y]
                               /\ RecordedInputs(y)' = RecordedInputs(y)
      /\ data'[k] = Absent
  BY DEF DelItem, IInv, MapsOK, RecordedInputs
<1> QED
  BY <1>1, <1>2, <1>3, ChangeFresh

LEMMA SetFresh ==
    ASSUME IInv, OrderlyClass, FInv, NEW k \in Keys, NEW v \in RawOf(k), Set(k, v), UNCHANGED lazy
    PROVE  FInv'
<1>1. stack = <<>> /\ k \in Declared
  BY DEF Set, Ready
<1>2. CASE k \in ReadOnly \/ data[k] = Absent
  <2>1. /\ UNCHANGED <<data, dv, itemsInputs, stack>>
        /\ result' = [op |-> "set", key |-> k, out |-> Err]
    BY <1>2 DEF Set
  <2>2. ~Evaluating'
    BY <1>2, <2>1 DEF Evaluating
  <2>3. \E S, A : Steady(S, A)' /\ Reading(S, A)' /\ Told(S, A)'
    BY <1>1, <2>1, <2>2, IdleHolds
  <2>4. Defaulted'
    BY <1>1, <2>1, DefaultedSame DEF FInv
  <2>5. \A j \in Keys : Coherent(j)'
    BY <2>1, QuietFresh
  <2> QED
    BY <1>1, <2>1, <2>3, <2>4, <2>5 DEF FInv
<1>3. CASE k \notin ReadOnly /\ data[k] # Absent
  <2>1. /\ data' = [data EXCEPT ![k] = v]
        /\ dv' = IF Touches(k, v) THEN TouchedValues(dv, k) ELSE dv
        /\ itemsInputs' = IF Touches(k, v) THEN TouchedInputs(itemsInputs, k) ELSE itemsInputs
        /\ result' = IF lazy THEN [op |-> "setlazy", key |-> k, out |-> None] ELSE NoResult
        /\ stack' = IF lazy THEN <<>>
                    ELSE <<[key |-> k, op |-> "set", phase |-> "inputs",
                            todo |-> InputKeys(k, v), got |-> NoInputs]>>
    BY <1>3 DEF Set
  <2>2. data'[k] = v /\ \A j \in Keys \ {k} : data'[j] = data[j]
    BY <2>1 DEF IInv, MapsOK
  <2>3. \A j \in Keys : Coherent(j)'
    <3> SUFFICES ASSUME NEW j \in Keys PROVE Coherent(j)'
      OBVIOUS
    <3>1. k \in TouchSet(k) /\ dv \in [Keys -> Slot]
      BY TouchedType DEF IInv, MapsOK
    <3>2. CASE Touches(k, v) /\ j \in TouchSet(k)
      <4>1. dv'[j] = None
        BY <2>1, <3>2 DEF TouchedValues
      <4> QED
        BY <4>1 DEF Coherent
    <3>3. CASE Touches(k, v) /\ j \notin TouchSet(k)
      <4>1. data'[j] = data[j] /\ dv'[j] = dv[j] /\ RecordedInputs(j)' = RecordedInputs(j)
        BY <2>1, <2>2, <3>1, <3>3 DEF TouchedValues, TouchedInputs, RecordedInputs
      <4>2. Coherent(j)
        BY DEF FInv
      <4> QED
        BY <4>1, <4>2, CoherentKept
    <3>4. CASE ~Touches(k, v)
      <4>1. data'[j] = data[j] /\ dv'[j] = dv[j] /\ RecordedInputs(j)' = RecordedInputs(j)
        BY <2>1, <2>2, <3>4 DEF Touches, RecordedInputs
      <4>2. Coherent(j)
        BY DEF FInv
      <4> QED
        BY <4>1, <4>2, CoherentKept
    <3> QED
      BY <3>2, <3>3, <3>4
  <2>4. CASE lazy
    <3>1. stack' = <<>> /\ result'.op = "setlazy"
      BY <2>1, <2>4
    <3>2. ~Evaluating'
      BY <3>1 DEF Evaluating
    <3>3. \E S, A : Steady(S, A)' /\ Reading(S, A)' /\ Told(S, A)'
      BY <3>1, <3>2, IdleHolds
    <3>4. Defaulted'
      BY <2>4 DEF Defaulted
    <3> QED
      BY <2>3, <3>1, <3>3, <3>4 DEF FInv
  <2>5. CASE ~lazy
    <3>1. PICK f : f = [key |-> k, op |-> "set", phase |-> "inputs",
                        todo |-> InputKeys(k, v), got |-> NoInputs]
      OBVIOUS
    <3>2. stack' = <<f>> /\ result' = NoResult
      BY <2>1, <2>5, <3>1
    <3>3. f = [key |-> k, op |-> "set", phase |-> "inputs", todo |-> Inputs(k)', got |-> NoInputs]
      BY <2>2, <3>1 DEF Inputs
    <3>4. k \notin Getters \cup ReadOnly /\ data'[k] \in RawOf(k)
      BY <1>3, <2>2 DEF OrderlyClass, GettersStandAlone
    <3>5. Entered(f)'
      BY <3>3 DEF Entered
    <3>6. Walks(f, {}, NoInputs)'
      BY <3>3, <3>4, <3>5, NewWalks
    <3>7. f.op = "set" /\ f.phase = "inputs" /\ f.key = k
      BY <3>1
    <3>8. \E S, A : Steady(S, A)' /\ Reading(S, A)' /\ Told(S, A)'
      BY <3>2, <3>6, <3>7, StartHolds
    <3>9. Defaulted'
      <4> SUFFICES ASSUME ~lazy, NEW j \in Declared, data'[j] = None, Default[j] # None
                   PROVE  stack' # <<>> /\ stack'[1].key = j /\ stack'[1].op = "set"
        BY DEF Defaulted
      <4>1. j = k
        <5> SUFFICES ASSUME j # k PROVE FALSE
          OBVIOUS
        <5>1. data[j] = None
          BY <2>2 DEF Keys
        <5> QED
          BY <1>1, <5>1 DEF FInv, Defaulted
      <4> QED
        BY <3>2, <3>7, <4>1
    <3> QED
      BY <2>3, <3>2, <3>8, <3>9 DEF FInv
  <2> QED
    BY <2>4, <2>5
<1> QED
  BY <1>2, <1>3

-----------------------------------------------------------------------------
(* Each action keeps FInv: the steps of a call *)

LEMMA InCall ==
    ASSUME FInv, stack # <<>>
    PROVE  \E S, A : Steady(S, A) /\ Reading(S, A) /\ result = NoResult
BY DEF FInv

LEMMA ReadInputFresh ==
    ASSUME IInv, IInv', OrderlyClass, FInv, NEW j \in Keys, ReadInput(j), UNCHANGED lazy
    PROVE  FInv'
<1>1. stack # <<>> /\ j \in Top.todo /\ UNCHANGED <<data, dv, itemsInputs, lazy>>
  BY DEF ReadInput
<1>2. PICK S, A : Steady(S, A) /\ Reading(S, A) /\ result = NoResult
  BY <1>1, InCall
<1>3. \A y \in Keys : /\ data'[y] = data[y] /\ dv'[y] = dv[y]
                      /\ RecordedInputs(y)' = RecordedInputs(y)
  BY <1>1 DEF RecordedInputs
<1>4. S \subseteq Keys /\ A \in Env /\ \A y \in S : Calm(y, S, A)
  BY <1>2 DEF Steady
<1>5. \A k \in Keys : Coherent(k)'
  BY <1>1, QuietFresh
<1>6. PICK c \in Keys : c = Top.key
  BY <1>1, TopOK
<1>7. PICK t : t = Top
  OBVIOUS
<1>8. /\ Walks(t, S, A) /\ t.key = c /\ j \in t.todo
      /\ t.op \in {"set", "attr"} => Len(stack) = 1 /\ t.phase = "inputs"
      /\ Rank[c] <= Rank[stack[1].key]
  BY <1>1, <1>2, <1>6, <1>7, TopWalks
<1>9. CASE data[j] = Absent
  <2>1. PICK f : f = WithInput(t, j, Err)
    OBVIOUS
  <2>2. ReplaceTop(f) /\ f.key = c /\ f.op = t.op /\ f.phase = t.phase
    BY <1>7, <1>8, <1>9, <2>1 DEF ReadInput, WithInput
  <2>3. PICK T : T = S \cup {j}
    OBVIOUS
  <2>4. PICK B : B = [A EXCEPT ![j] = Absent]
    OBVIOUS
  <2>5. B \in Env /\ B[j] = Absent /\ \A y \in S : B[y] = A[y]
    BY <1>4, <1>9, <2>4 DEF Env, Slot, Calm
  <2> HIDE <2>4
  <2>6. Calm(j, T, B)'
    BY <1>3, <1>9, <2>5 DEF Calm
  <2>7. \A y \in S : /\ data'[y] = data[y] /\ dv'[y] = dv[y]
                     /\ RecordedInputs(y)' = RecordedInputs(y)
    BY <1>3, <1>4
  <2>8. Steady(T, B)'
    BY <1>1, <1>2, <2>3, <2>5, <2>6, <2>7, SteadyGrown
  <2>9. Walks(t, T, B)'
    BY <1>1, <1>3, <1>8, <2>3, <2>5, WalksKept
  <2>10. Walks(f, T, B)'
    <3>1. j \in T /\ B[j] = IF Err = Err THEN Absent ELSE Err
      BY <2>3, <2>5
    <3> QED
      BY <1>8, <2>1, <2>9, <3>1, WalksOn
  <2>11. \A y \in T : Rank[y] < Rank[stack[1].key]
    <3>1. Rank[j] < Rank[c]
      <4>1. FrameOK(Top)
        BY <1>1, TopOK
      <4> QED
        BY <1>1, <1>6, <4>1 DEF FrameOK
    <3>2. Rank[j] \in Nat /\ Rank[c] \in Nat /\ Rank[stack[1].key] \in Nat
      <4>1. Len(stack) \in Nat \ {0}
        BY <1>1, TopType DEF IInv
      <4>2. 1 \in 1 .. Len(stack)
        BY <4>1
      <4>3. stack[1].key \in Keys
        BY <4>2, FrameTypes
      <4> QED
        BY <1>6, <4>3, AcyclicAssumption
    <3>3. Rank[j] < Rank[stack[1].key]
      BY <1>8, <3>1, <3>2
    <3>4. \A y \in S : Rank[y] < Rank[stack[1].key]
      BY <1>1, <1>2 DEF Reading
    <3> QED
      BY <2>3, <3>3, <3>4
  <2>12. Reading(T, B)'
    <3>1. f.op \in {"set", "attr"} => Len(stack) = 1 /\ f.phase = "inputs"
      BY <1>8, <2>2
    <3>2. S \subseteq T /\ \A y \in S : B[y] = A[y]
      BY <2>3, <2>5
    <3>3. f.key = Top.key
      BY <1>6, <2>2
    <3>4. \A y \in Keys \ {Top.key} : /\ data'[y] = data[y] /\ dv'[y] = dv[y]
                                      /\ RecordedInputs(y)' = RecordedInputs(y)
      BY <1>3
    <3> QED
      BY <1>1, <1>2, <2>2, <2>10, <2>11, <3>1, <3>2, <3>3, <3>4, ReplaceReading
  <2>13. result' = NoResult
    BY <1>2, <2>2 DEF ReplaceTop
  <2>14. Told(T, B)'
    BY <2>13, QuietTold
  <2>15. Defaulted'
    <3>1. stack' # <<>> /\ stack'[1].key = stack[1].key /\ stack'[1].op = stack[1].op
      <4>1. PICK n \in Nat \ {0} : n = Len(stack)
        BY <1>1, TopType DEF IInv
      <4>2. stack' = [stack EXCEPT ![n] = f] /\ stack \in Seq(Frame)
        BY <2>2, <4>1 DEF ReplaceTop, IInv, CallsOK
      <4>3. Len(stack') = n /\ stack'[1] = IF 1 = n THEN f ELSE stack[1]
        BY <4>1, <4>2
      <4>4. Top = stack[n]
        BY <4>1 DEF Top
      <4>5. stack' # <<>>
        BY <4>1, <4>3, EmptySeq
      <4> QED
        BY <1>7, <1>8, <2>2, <4>3, <4>4, <4>5
    <3> QED
      BY <1>1, <3>1, DefaultedSame DEF FInv
  <2> QED
    BY <1>5, <2>8, <2>12, <2>13, <2>14, <2>15 DEF FInv
<1>10. CASE data[j] # Absent
  <2>1. PICK f : f = ReadFrame(j)
    OBVIOUS
  <2>2. stack' = Append(stack, f) /\ result' = result
    BY <1>10, <2>1 DEF ReadInput
  <2>3. f \in Frame
    BY <2>1, ReadFrameOK DEF IInv, MapsOK
  <2>4. Walks(f, S, A)' /\ f.op \in {"get", "item"} /\ f.key = j
    BY <1>1, <2>1, ReadFrameWalks
  <2>5. Reading(S, A)'
    BY <1>1, <1>2, <2>2, <2>3, <2>4, PushReading
  <2>6. Steady(S, A)'
    BY <1>1, <1>2, <1>3, <1>4, SteadyKept
  <2>7. Told(S, A)'
    BY <1>2, <2>2, QuietTold
  <2>8. Defaulted'
    <3>1. stack \in Seq(Frame) /\ Len(stack) \in Nat \ {0}
      BY <1>1, TopType DEF IInv, CallsOK
    <3>2. stack' # <<>> /\ stack'[1] = stack[1]
      BY <2>2, <2>3, <3>1
    <3> QED
      BY <1>1, <3>2, DefaultedSame DEF FInv
  <2> QED
    BY <1>2, <1>5, <2>2, <2>5, <2>6, <2>7, <2>8 DEF FInv
<1> QED
  BY <1>9, <1>10

LEMMA AttrInputsReadFresh ==
    ASSUME IInv, IInv', OrderlyClass, FInv, AttrInputsRead, UNCHANGED lazy
    PROVE  FInv'
<1>1. /\ stack # <<>> /\ Top.op = "attr" /\ UNCHANGED <<data, dv, lazy>>
      /\ itemsInputs' = [itemsInputs EXCEPT ![Top.key] = Top.got]
      /\ ReplaceTop(ReadFrame(Top.key))
  BY DEF AttrInputsRead, Running
<1>2. PICK S, A : Steady(S, A) /\ Reading(S, A) /\ result = NoResult
  BY <1>1, InCall
<1>3. PICK c \in Keys : c = Top.key
  BY <1>1, TopOK
<1>4. PICK f : f = ReadFrame(c)
  OBVIOUS
<1>5. \A y \in Keys \ {c} : /\ data'[y] = data[y] /\ dv'[y] = dv[y]
                            /\ RecordedInputs(y)' = RecordedInputs(y)
  BY <1>1, <1>3 DEF RecordedInputs, IInv, MapsOK
<1>6. Len(stack) = 1 /\ \A y \in S : Rank[y] < Rank[stack[1].key]
  <2>1. Top.op \in {"set", "attr"} => Len(stack) = 1 /\ Top.phase = "inputs"
    BY <1>1, <1>2, TopWalks
  <2> QED
    BY <1>1, <1>2, <2>1 DEF Reading
<1>7. S \subseteq Keys /\ c \notin S
  <2>1. stack[1].key = c
    BY <1>3, <1>6 DEF Top
  <2>2. Rank[c] \in Nat
    BY AcyclicAssumption
  <2> QED
    BY <1>2, <1>6, <2>1, <2>2 DEF Steady
<1>8. \A y \in S : /\ data'[y] = data[y] /\ dv'[y] = dv[y]
                   /\ RecordedInputs(y)' = RecordedInputs(y)
  BY <1>5, <1>7
<1>9. Steady(S, A)'
  BY <1>1, <1>2, <1>8, SteadyKept
<1>10. Walks(f, S, A)' /\ f.op \in {"get", "item"} /\ f.key = c
  BY <1>1, <1>4, ReadFrameWalks
<1>11. ReplaceTop(f) /\ f.key = Top.key
  BY <1>1, <1>3, <1>4, <1>10
<1>12. Reading(S, A)'
  BY <1>1, <1>2, <1>3, <1>5, <1>6, <1>10, <1>11, ReplaceReading
<1>13. result' = NoResult
  BY <1>2, <1>11 DEF ReplaceTop
<1>14. Told(S, A)'
  BY <1>13, QuietTold
<1>15. c \notin Declared
  BY <1>1, <1>3, TopOK, KeysAssumption DEF FrameOK
<1>16. \A k \in Keys : Coherent(k)'
  <2>1. Coherent(c)'
    BY <1>15 DEF Coherent
  <2> QED
    BY <1>5, <2>1, CoherentOthers
<1>17. Defaulted'
  <2>1. stack \in Seq(Frame)
    BY DEF IInv, CallsOK
  <2>2. stack' = [stack EXCEPT ![1] = f]
    BY <1>6, <1>11 DEF ReplaceTop
  <2>3. Len(stack') = 1 /\ stack'[1] = f
    BY <1>6, <2>1, <2>2
  <2>4. stack' # <<>>
    BY <2>3, EmptySeq
  <2>5. stack[1].op = "attr" /\ stack[1].key = c
    BY <1>1, <1>3, <1>6 DEF Top
  <2> QED
    BY <1>1, <1>10, <2>3, <2>4, <2>5, DefaultedSame DEF FInv
<1> QED
  BY <1>9, <1>12, <1>13, <1>14, <1>16, <1>17 DEF FInv

-----------------------------------------------------------------------------
(* Each action keeps FInv: the ends of calls *)

\* The answers so far and one more.
With(A, c, x) == [A EXCEPT ![c] = x]

LEMMA WithOK ==
    ASSUME NEW A \in Env, NEW c \in Keys, NEW x \in Slot
    PROVE  /\ With(A, c, x) \in Env /\ With(A, c, x)[c] = x
           /\ \A y \in Keys \ {c} : With(A, c, x)[y] = A[y]
BY DEF With, Env

\* The innermost call ends having answered, or raised, what it would again.
LEMMA LeaveFresh ==
    ASSUME IInv, IInv', OrderlyClass, FInv, stack # <<>>,
           NEW S, NEW A, Steady(S, A), Reading(S, A),
           NEW out, Leave(out), NEW c \in Keys, c = Top.key, lazy' = lazy,
           \A y \in Keys \ {c} : /\ data'[y] = data[y] /\ dv'[y] = dv[y]
                                 /\ RecordedInputs(y)' = RecordedInputs(y),
           data'[c] # Absent,
           NEW B \in Env, \A y \in S : B[y] = A[y], B[c] = IF out = Err THEN Absent ELSE out,
           c \in S => /\ data'[c] = data[c] /\ dv'[c] = dv[c]
                      /\ RecordedInputs(c)' = RecordedInputs(c),
           NEW T, T = S \cup {c}, c \notin S => Calm(c, T, B)',
           Coherent(c)',
           \/ Default[c] = None \/ data'[c] # None
           \/ data'[c] = data[c] /\ Top.op # "set"
    PROVE  FInv'
<1>1. result = NoResult
  BY DEF FInv
<1>2. \E U, C : Steady(U, C)' /\ Reading(U, C)' /\ Told(U, C)'
  <2>1. S \subseteq Keys
    BY DEF Steady
  <2>2. \A y \in S : /\ data'[y] = data[y] /\ dv'[y] = dv[y]
                     /\ RecordedInputs(y)' = RecordedInputs(y)
    BY <2>1
  <2>3. Steady(T, B)'
    BY <2>2, SteadyGrown
  <2>4. Reading(T, B)'
    BY <2>1, LeaveReading
  <2>5. Told(T, B)'
    <3>1. CASE Len(stack) # 1
      <4>1. result' = NoResult
        BY <1>1, <3>1 DEF Leave
      <4> QED
        BY <4>1, QuietTold
    <3>2. CASE Len(stack) = 1
      <4>1. result' = [op |-> Top.op, key |-> c, out |-> out]
        BY <3>2 DEF Leave
      <4>2. result'.key = c /\ result'.out = out
        BY <4>1
      <4> QED
        BY <4>2 DEF Told
    <3> QED
      BY <3>1, <3>2
  <2> QED
    BY <2>3, <2>4, <2>5
<1>3. \A k \in Keys : Coherent(k)'
  BY CoherentOthers
<1>4. Defaulted'
  <2>1. Defaulted
    BY DEF FInv
  <2> QED
    BY <2>1, DefaultedLeave
<1>5. stack' # <<>> => result' = NoResult
  <2>1. CASE Len(stack) = 1
    <3>1. Len(stack') = 0
      BY <2>1, LeaveForm
    <3>2. stack' = <<>>
      BY <3>1, EmptySeq DEF IInv, CallsOK
    <3> QED
      BY <3>2
  <2>2. CASE Len(stack) # 1
    BY <1>1, <2>2 DEF Leave
  <2> QED
    BY <2>1, <2>2
<1> QED
  BY <1>2, <1>3, <1>4, <1>5 DEF FInv

\* Storing a value: the key answers it, whether it was read before or not.
LEMMA StoreFresh ==
    ASSUME IInv, IInv', OrderlyClass, FInv, stack # <<>>, lazy' = lazy,
           NEW S, NEW A, Steady(S, A), Reading(S, A),
           NEW c \in Keys, c = Top.key, data[c] # Absent, Inputs(c) \subseteq S,
           NEW e \in Env, e = Found(c, A), NEW raw \in Value, raw = Given(c, e),
           NEW values \in Env, \A j \in Keys \ {c} : values[j] = dv[j],
           NEW v, v = EvalItem(c, raw, values), v # Err, Leave(v),
           c \in Getters => \A j \in Deps[c] : e[j] # Absent,
           data'[c] = Kept(c, raw, v), dv'[c] = v, RecordedInputs(c)' = e,
           \A y \in Keys \ {c} : /\ data'[y] = data[y] /\ dv'[y] = dv[y]
                                 /\ RecordedInputs(y)' = RecordedInputs(y),
           c \in S => Due(c) \/ RecordedInputs(c) # Found(c, A)
    PROVE  FInv'
<1>1. A \in Env /\ S \subseteq Keys /\ dv \in Env /\ dv' \in Env
  BY DEF Steady, IInv, MapsOK, Env
<1>2. c \notin Primitive \/ raw \notin Exprs => (v = None => Default[c] = None)
  <2>1. PICK given : given = IF raw = None THEN Default[c] ELSE raw
    OBVIOUS
  <2> SUFFICES ASSUME c \notin Primitive \/ raw \notin Exprs, Default[c] # None PROVE v # None
    OBVIOUS
  <2>2. given \in Raw /\ given # None /\ (c \notin Primitive \/ given \notin Exprs \/ given = Default[c])
    BY <2>1, KeysAssumption DEF Value
  <2>3. v = Eval(c, given, values)
    BY <2>1, <2>2 DEF EvalItem
  <2> QED
    BY <2>2, <2>3 DEF OrderlyClass, ValuesSettle
<1>3. v \in Value /\ data'[c] # Absent
  <2>1. v \in Value
    BY EvalItemType
  <2> QED
    BY <1>2, <2>1, SentinelAssumption DEF Kept, Value
<1>4. c \in Getters => \A j \in Deps[c] : A[j] # Absent
  BY KeysAssumption DEF Found, Inputs, InputKeys
<1>5. c \in S => /\ A[c] = v /\ data'[c] = data[c] /\ dv'[c] = dv[c]
                 /\ RecordedInputs(c)' = RecordedInputs(c)
  <2> SUFFICES ASSUME c \in S
               PROVE  /\ A[c] = v /\ data'[c] = data[c] /\ dv'[c] = dv[c]
                      /\ RecordedInputs(c)' = RecordedInputs(c)
    OBVIOUS
  <2>1. A[c] # Absent
    <3> SUFFICES ASSUME A[c] = Absent PROVE FALSE
      OBVIOUS
    <3>1. \/ c \in Getters /\ \E j \in Deps[c] : A[j] = Absent
          \/ EvalItem(c, Given(c, e), values) = Err
      BY Repeats
    <3> QED
      BY <1>4, <3>1
  <2>2. /\ EvalItem(c, Given(c, e), values) = A[c]
        /\ Kept(c, Given(c, e), A[c]) = data[c]
        /\ dv[c] = A[c] /\ RecordedInputs(c) = e
    BY <2>1, Repeats
  <2> QED
    BY <1>2, <2>2
<1>6. PICK B \in Env : (\A y \in S : B[y] = A[y]) /\ B[c] = IF v = Err THEN Absent ELSE v
  <2>1. v \in Slot /\ (c \in S => A[c] = v)
    BY <1>3, <1>5 DEF Slot
  <2>2. With(A, c, v) \in Env /\ With(A, c, v)[c] = v /\ \A y \in S : With(A, c, v)[y] = A[y]
    BY <1>1, <2>1, WithOK
  <2> QED
    BY <2>2
<1>7. PICK T : T = S \cup {c}
  OBVIOUS
<1>8. Calm(c, T, B)' /\ Coherent(c)'
  <2>1. B[c] = dv'[c] /\ S \subseteq T /\ \A j \in S \ {c} : B[j] = A[j]
    BY <1>2, <1>6, <1>7
  <2>2. \A j \in Keys \ {c} : values[j] = dv[j] /\ dv'[j] = dv[j]
    BY <1>2
  <2>3. /\ EvalItem(c, Given(c, Found(c, A)), values) # Err
        /\ data'[c] = Kept(c, Given(c, Found(c, A)), dv'[c])
        /\ dv'[c] = EvalItem(c, Given(c, Found(c, A)), values)
        /\ RecordedInputs(c)' = Found(c, A)
    BY <1>2
  <2> QED
    BY <1>1, <1>4, <2>1, <2>2, <2>3, Stored
<1>9. Default[c] = None \/ data'[c] # None
  <2> SUFFICES ASSUME data'[c] = None PROVE Default[c] = None
    OBVIOUS
  <2>1. None \notin Exprs
    BY SentinelAssumption, KeysAssumption
  <2>2. v = None /\ (c \notin Primitive \/ raw \notin Exprs)
    BY <2>1 DEF Kept
  <2> QED
    BY <1>2, <2>2
<1>10. c \in S => /\ data'[c] = data[c] /\ dv'[c] = dv[c]
                  /\ RecordedInputs(c)' = RecordedInputs(c)
  BY <1>5
<1> QED
  BY <1>3, <1>6, <1>7, <1>8, <1>9, <1>10, LeaveFresh

\* Nothing changes when a key raises that would raise again.
LEMMA RaiseFresh ==
    ASSUME IInv, IInv', OrderlyClass, FInv, stack # <<>>, UNCHANGED <<data, dv, itemsInputs, lazy>>,
           NEW S, NEW A, Steady(S, A), Reading(S, A),
           NEW c \in Keys, c = Top.key, data[c] # Absent, Inputs(c) \subseteq S, c \notin Inputs(c),
           NEW e \in Env, e = Found(c, A), Leave(Err), c \in Declared,
           Top.op # "set", Due(c) \/ RecordedInputs(c) # e,
           \/ c \in Getters /\ \E j \in Deps[c] : A[j] = Absent
           \/ c \notin Getters /\ Worth(c, e) = Err
    PROVE  FInv'
<1>1. A \in Env /\ S \subseteq Keys /\ dv \in Env
  BY DEF Steady, IInv, MapsOK, Env
<1>2. \A y \in Keys : /\ data'[y] = data[y] /\ dv'[y] = dv[y]
                      /\ RecordedInputs(y)' = RecordedInputs(y)
  BY DEF RecordedInputs
<1>3. c \in S => A[c] = Absent
  <2> SUFFICES ASSUME c \in S, A[c] # Absent PROVE FALSE
    OBVIOUS
  <2>1. /\ EvalItem(c, Given(c, e), dv) = A[c]
        /\ c \in Getters => \A j \in Deps[c] : A[j] # Absent
    BY <1>1, Repeats
  <2>2. Worth(c, e) = A[c]
    BY <2>1 DEF Worth
  <2> QED
    BY <1>1, <2>1, <2>2, SentinelAssumption DEF Env, Slot, Value
<1>4. PICK B \in Env : (\A y \in S : B[y] = A[y]) /\ B[c] = IF Err = Err THEN Absent ELSE Err
  <2>1. Absent \in Slot
    BY DEF Slot
  <2>2. /\ With(A, c, Absent) \in Env /\ With(A, c, Absent)[c] = Absent
        /\ \A y \in S : With(A, c, Absent)[y] = A[y]
    BY <1>1, <1>3, <2>1, WithOK
  <2> QED
    BY <2>2
<1>5. PICK T : T = S \cup {c}
  OBVIOUS
<1>6. Calm(c, T, B)'
  <2>1. Inputs(c)' = Inputs(c) /\ Due(c)' = Due(c) /\ Worth(c, e)' = Worth(c, e)
    BY DEF Inputs, Due, Missing, Worth, Given
  <2>2. Found(c, B)' = e
    BY <1>4, <2>1 DEF Found
  <2>3. \A j \in Deps[c] : B[j] = A[j]
    BY <1>4 DEF Inputs, InputKeys
  <2>4. Due(c)' \/ RecordedInputs(c)' # e
    BY <1>2, <2>1
  <2>5. Raises(c, B)'
    BY <2>1, <2>2, <2>3, <2>4 DEF Raises
  <2> QED
    BY <1>2, <1>4, <1>5, <2>1, <2>5 DEF Calm
<1>7. Coherent(c)'
  <2>1. Coherent(c)
    BY DEF FInv
  <2> QED
    BY <1>2, <2>1, CoherentKept
<1>8. /\ \A y \in Keys \ {c} : /\ data'[y] = data[y] /\ dv'[y] = dv[y]
                               /\ RecordedInputs(y)' = RecordedInputs(y)
      /\ data'[c] = data[c] /\ dv'[c] = dv[c] /\ RecordedInputs(c)' = RecordedInputs(c)
      /\ data'[c] # Absent
  BY <1>2
<1> QED
  BY <1>4, <1>5, <1>6, <1>7, <1>8, LeaveFresh

LEMMA EvaluateFresh ==
    ASSUME IInv, IInv', OrderlyClass, FInv, Evaluate, UNCHANGED lazy
    PROVE  FInv'
<1>1. /\ stack # <<>> /\ Top.op = "get" /\ Top.phase = "inputs" /\ Top.todo = {}
      /\ Top.key \notin Getters
  BY DEF Evaluate, Running
<1>2. PICK S, A : Steady(S, A) /\ Reading(S, A) /\ result = NoResult
  BY <1>1, InCall
<1>3. PICK c \in Keys : c = Top.key
  BY <1>1, TopOK
<1>4. PICK e \in Env : e = Top.got
  BY <1>1, TopOK
<1>5. /\ Inputs(c) \subseteq S /\ c \notin Inputs(c) /\ e = Found(c, A)
      /\ Due(c) \/ RecordedInputs(c) # Found(c, A)
  BY <1>1, <1>2, <1>3, <1>4, TopDone
<1>6. c \in Declared /\ c \notin Getters /\ data[c] \in Value /\ data[c] # Absent
  <2>1. FrameOK(Top) /\ data[c] \in Value
    BY <1>1, <1>3, TopOK
  <2> QED
    BY <1>1, <1>3, <2>1, SentinelAssumption DEF FrameOK, Value
<1>7. Given(c, e) = data[c]
  BY <1>6 DEF Given
<1>8. CASE EvalItem(c, data[c], dv) = Err
  <2>1. Leave(Err) /\ UNCHANGED <<data, dv, itemsInputs, lazy>>
    BY <1>3, <1>8 DEF Evaluate
  <2>2. Worth(c, e) = Err
    BY <1>7, <1>8 DEF Worth
  <2> QED
    BY <1>1, <1>2, <1>3, <1>5, <1>6, <2>1, <2>2, RaiseFresh
<1>9. CASE EvalItem(c, data[c], dv) # Err
  <2>1. PICK v : v = EvalItem(c, data[c], dv)
    OBVIOUS
  <2>2. /\ data' = [data EXCEPT ![c] = Kept(c, data[c], v)] /\ dv' = [dv EXCEPT ![c] = v]
        /\ itemsInputs' = [itemsInputs EXCEPT ![c] = e] /\ Leave(v)
    BY <1>3, <1>4, <1>9, <2>1 DEF Evaluate, Store
  <2>3. /\ data'[c] = Kept(c, data[c], v) /\ dv'[c] = v /\ RecordedInputs(c)' = e
        /\ \A y \in Keys \ {c} : /\ data'[y] = data[y] /\ dv'[y] = dv[y]
                                 /\ RecordedInputs(y)' = RecordedInputs(y)
    BY <2>2, RecordsAssumption DEF IInv, MapsOK, RecordedInputs
  <2>4. dv \in Env
    BY DEF IInv, MapsOK, Env
  <2> QED
    BY <1>1, <1>2, <1>3, <1>5, <1>6, <1>7, <1>9, <2>1, <2>2, <2>3, <2>4, StoreFresh
<1> QED
  BY <1>8, <1>9

\* No additional key raises.
LEMMA AdditionalHolds ==
    ASSUME IInv, OrderlyClass, NEW c \in Additional, data[c] # Absent
    PROVE  EvalItem(c, data[c], dv) # Err
<1>1. c \in Keys /\ data[c] \in Value /\ (data[c] \in Exprs => data[c] \in Sources(c)) /\ dv \in Env
  BY DEF Keys, IInv, MapsOK, SourcesOK, Slot, Env
<1>2. CASE data[c] = None
  BY <1>1, <1>2, DefaultHolds
<1>3. CASE data[c] # None
  <2>1. data[c] \in (Raw \ Exprs) \cup Sources(c)
    BY <1>1, <1>3 DEF Value
  <2>2. EvalItem(c, data[c], dv) = Eval(c, data[c], dv)
    BY <1>3 DEF EvalItem
  <2> QED
    BY <1>1, <2>1, <2>2 DEF OrderlyClass, AdditionalIsValid
<1> QED
  BY <1>2, <1>3

LEMMA EvaluateItemFresh ==
    ASSUME IInv, IInv', OrderlyClass, FInv, EvaluateItem, UNCHANGED lazy
    PROVE  FInv'
<1>1. stack # <<>> /\ Top.op = "item" /\ Top.phase = "inputs" /\ Top.todo = {}
  BY DEF EvaluateItem, Running
<1>2. PICK S, A : Steady(S, A) /\ Reading(S, A) /\ result = NoResult
  BY <1>1, InCall
<1>3. PICK c \in Keys : c = Top.key
  BY <1>1, TopOK
<1>4. PICK e \in Env : e = Top.got
  BY <1>1, TopOK
<1>5. /\ Inputs(c) \subseteq S /\ c \notin Inputs(c) /\ e = Found(c, A)
      /\ Due(c) \/ RecordedInputs(c) # Found(c, A)
  BY <1>1, <1>2, <1>3, <1>4, TopDone
<1>6. c \in Additional /\ c \notin Getters /\ data[c] \in Value /\ data[c] # Absent
  <2>1. FrameOK(Top) /\ data[c] \in Value
    BY <1>1, <1>3, TopOK
  <2> QED
    BY <1>1, <1>3, <2>1, SentinelAssumption, KeysAssumption DEF FrameOK, Value
<1>7. Given(c, e) = data[c]
  BY <1>6 DEF Given
<1>8. EvalItem(c, data[c], dv) # Err
  BY <1>6, AdditionalHolds
<1>9. PICK v : v = EvalItem(c, data[c], dv)
  OBVIOUS
<1>10. /\ data' = [data EXCEPT ![c] = Kept(c, data[c], v)] /\ dv' = [dv EXCEPT ![c] = v]
       /\ itemsInputs' = [itemsInputs EXCEPT ![c] = e] /\ Leave(v)
  BY <1>3, <1>4, <1>8, <1>9 DEF EvaluateItem
<1>11. /\ data'[c] = Kept(c, data[c], v) /\ dv'[c] = v /\ RecordedInputs(c)' = e
       /\ \A y \in Keys \ {c} : /\ data'[y] = data[y] /\ dv'[y] = dv[y]
                                /\ RecordedInputs(y)' = RecordedInputs(y)
  BY <1>10, RecordsAssumption DEF IInv, MapsOK, RecordedInputs
<1>12. dv \in Env
  BY DEF IInv, MapsOK, Env
<1> QED
  BY <1>1, <1>2, <1>3, <1>5, <1>6, <1>7, <1>8, <1>9, <1>10, <1>11, <1>12, StoreFresh

LEMMA EvaluateSetFresh ==
    ASSUME IInv, IInv', OrderlyClass, FInv, EvaluateSet, UNCHANGED lazy
    PROVE  FInv'
<1>1. stack # <<>> /\ Top.op = "set" /\ Top.phase = "inputs" /\ Top.todo = {}
  BY DEF EvaluateSet, Running
<1>2. PICK S, A : Steady(S, A) /\ Reading(S, A) /\ result = NoResult
  BY <1>1, InCall
<1>3. PICK c \in Keys : c = Top.key
  BY <1>1, TopOK
<1>4. PICK e \in Env : e = Top.got
  BY <1>1, TopOK
<1>5. Inputs(c) \subseteq S /\ c \notin Inputs(c) /\ e = Found(c, A)
  BY <1>1, <1>2, <1>3, <1>4, TopDone
<1>6. /\ c \in Declared /\ data[c] \in Value /\ data[c] # Absent
      /\ c \notin Getters \cup ReadOnly /\ data[c] \in RawOf(c) /\ Len(stack) = 1
  <2>1. FrameOK(Top) /\ data[c] \in Value
    BY <1>1, <1>3, TopOK
  <2>2. Walks(Top, S, A) /\ Len(stack) = 1
    BY <1>1, <1>2, TopWalks
  <2>3. c \notin Getters \cup ReadOnly /\ data[c] \in RawOf(c)
    BY <1>1, <1>3, <2>2 DEF Walks
  <2> QED
    BY <1>1, <1>3, <2>1, <2>2, <2>3, SentinelAssumption DEF FrameOK, Value
<1>7. Given(c, e) = data[c] /\ dv \in Env
  BY <1>6 DEF Given, IInv, MapsOK, Env
<1>8. S \subseteq Keys /\ c \notin S
  <2>1. stack[1].key = c
    BY <1>3, <1>6 DEF Top
  <2>2. \A y \in S : Rank[y] < Rank[c]
    BY <1>1, <1>2, <2>1 DEF Reading
  <2>3. Rank[c] \in Nat
    BY AcyclicAssumption
  <2> QED
    BY <1>2, <2>2, <2>3 DEF Steady
<1>9. CASE EvalItem(c, data[c], dv) # Err
  <2>1. PICK v : v = EvalItem(c, data[c], dv)
    OBVIOUS
  <2>2. /\ data' = [data EXCEPT ![c] = Kept(c, data[c], v)] /\ dv' = [dv EXCEPT ![c] = v]
        /\ itemsInputs' = [itemsInputs EXCEPT ![c] = e] /\ Leave(v)
    BY <1>3, <1>4, <1>9, <2>1 DEF EvaluateSet, Store
  <2>3. /\ data'[c] = Kept(c, data[c], v) /\ dv'[c] = v /\ RecordedInputs(c)' = e
        /\ \A y \in Keys \ {c} : /\ data'[y] = data[y] /\ dv'[y] = dv[y]
                                 /\ RecordedInputs(y)' = RecordedInputs(y)
    BY <2>2, RecordsAssumption DEF IInv, MapsOK, RecordedInputs
  <2> QED
    BY <1>1, <1>2, <1>3, <1>5, <1>6, <1>7, <1>8, <1>9, <2>1, <2>2, <2>3, StoreFresh
<1>10. CASE EvalItem(c, data[c], dv) = Err
  <2>1. /\ itemsInputs' = [itemsInputs EXCEPT ![c] = e] /\ Leave(Err)
        /\ UNCHANGED <<data, dv, lazy>>
    BY <1>3, <1>4, <1>10 DEF EvaluateSet
  <2>2. /\ \A y \in Keys \ {c} : /\ data'[y] = data[y] /\ dv'[y] = dv[y]
                                 /\ RecordedInputs(y)' = RecordedInputs(y)
        /\ RecordedInputs(c)' = e
    BY <2>1, RecordsAssumption DEF IInv, MapsOK, RecordedInputs
  <2>3. \A y \in S : /\ data'[y] = data[y] /\ dv'[y] = dv[y]
                     /\ RecordedInputs(y)' = RecordedInputs(y)
    BY <1>8, <2>2
  <2>4. Steady(S, A)'
    BY <1>2, <2>1, <2>3, SteadyKept
  <2>5. stack' = <<>> /\ result' = [op |-> "set", key |-> c, out |-> Err]
    <3>1. Len(stack') = 0
      BY <1>1, <1>6, <2>1, LeaveForm
    <3>2. stack' = <<>>
      BY <3>1, EmptySeq DEF IInv, CallsOK
    <3> QED
      BY <1>1, <1>3, <1>6, <2>1, <3>2 DEF Leave
  <2>6. Reading(S, A)'
    BY <2>5, EmptyReading
  <2>7. Told(S, A)'
    <3>1. result'.key = c /\ result'.out = Err
      BY <2>5
    <3>2. Inputs(c)' \subseteq S /\ EvalItem(c, data'[c], dv') = Err
      BY <1>5, <1>10, <2>1 DEF Inputs
    <3> QED
      BY <1>6, <2>1, <3>1, <3>2 DEF Told
  <2>8. data[c] # None
    BY <1>7, <1>10, DefaultHolds
  <2>9. Coherent(c)'
    <3>1. CASE c \in Primitive /\ data[c] \in Exprs
      <4>1. \E x \in Inputs(c) : e[x] = Absent
        <5> SUFFICES ASSUME \A x \in Inputs(c) : e[x] # Absent PROVE FALSE
          OBVIOUS
        <5>1. \A x \in ExprInputs(data[c]) \cap Keys : dv[x] # Absent
          <6> SUFFICES ASSUME NEW x \in ExprInputs(data[c]) \cap Keys PROVE dv[x] # Absent
            OBVIOUS
          <6>1. x \in Inputs(c)
            BY <3>1 DEF Inputs, InputKeys
          <6>2. x \in S /\ A[x] = e[x] /\ A[x] # Absent
            BY <1>5, <1>8, <6>1 DEF Found
          <6>3. dv[x] = A[x]
            BY <1>2, <6>2, AnsweredIsCached
          <6> QED
            BY <6>2, <6>3
        <5>2. EvalItem(c, data[c], dv) = Eval(c, data[c], dv)
          BY <2>8 DEF EvalItem
        <5>3. Eval(c, data[c], dv) # Err
          BY <1>6, <1>7, <3>1, <5>1 DEF OrderlyClass, WrittenIsValid
        <5> QED
          BY <1>10, <5>2, <5>3
      <4>2. Inputs(c)' = Inputs(c)
        BY <2>1 DEF Inputs
      <4> QED
        BY <1>6, <2>1, <2>2, <3>1, <4>1, <4>2 DEF Coherent
    <3>2. CASE ~(c \in Primitive /\ data[c] \in Exprs)
      <4>1. dv[c] \in {None, Absent}
        <5> SUFFICES ASSUME dv[c] \notin {None, Absent} PROVE FALSE
          OBVIOUS
        <5>1. dv[c] = EvalItem(c, data[c], RecordedInputs(c))
          BY <1>6, <3>2 DEF FInv, Coherent
        <5>2. RecordedInputs(c) \in Env
          BY NoInputsType DEF IInv, MapsOK, RecordedInputs
        <5>3. EvalItem(c, data[c], RecordedInputs(c)) = EvalItem(c, data[c], dv)
          BY <1>6, <1>7, <2>8, <3>2, <5>2, ItemSame
        <5> QED
          BY <1>7, <1>10, <5>1, <5>3, SentinelAssumption DEF Env, Slot, Value
      <4> QED
        BY <2>1, <4>1 DEF Coherent
    <3> QED
      BY <3>1, <3>2
  <2>10. \A k \in Keys : Coherent(k)'
    BY <2>2, <2>9, CoherentOthers
  <2>11. Defaulted'
    <3>1. Defaulted /\ data'[c] # None
      BY <2>1, <2>8 DEF FInv
    <3> QED
      BY <1>1, <1>3, <2>1, <2>2, <3>1, DefaultedLeave
  <2> QED
    BY <2>4, <2>5, <2>6, <2>7, <2>10, <2>11 DEF FInv
<1> QED
  BY <1>9, <1>10

\* A getter's invalid result is kept as the source, and raises again.
LEMMA GetterRaiseFresh ==
    ASSUME IInv, IInv', OrderlyClass, FInv, stack # <<>>, lazy' = lazy,
           NEW S, NEW A, Steady(S, A), Reading(S, A),
           NEW c \in Getters, c = Top.key, data[c] # Absent, Inputs(c) \subseteq S, c \notin Inputs(c),
           NEW e \in Env, e = Found(c, A), Due(c) \/ RecordedInputs(c) # Found(c, A),
           NEW raw \in Value, raw = Given(c, e),
           EvalItem(c, raw, dv') = Err, Leave(Err), \A j \in Deps[c] : e[j] # Absent,
           data'[c] = raw,
           \A y \in Keys \ {c} : /\ data'[y] = data[y] /\ dv'[y] = dv[y]
                                 /\ RecordedInputs(y)' = RecordedInputs(y),
           IF Touches(c, raw)
           THEN dv'[c] = None /\ RecordedInputs(c)' = NoInputs
           ELSE dv'[c] = dv[c] /\ RecordedInputs(c)' = RecordedInputs(c)
    PROVE  FInv'
<1>1. A \in Env /\ S \subseteq Keys /\ dv \in Env /\ c \in Keys /\ c \in Declared
  BY KeysAssumption DEF Steady, IInv, MapsOK, Env, Keys
<1>2. /\ raw \notin Exprs /\ raw # Absent
      /\ Inputs(c) = Deps[c] /\ InputKeys(c, raw) = Deps[c]
  <2>1. Given(c, e) \notin Exprs
    BY <1>1, GivenType
  <2>2. Inputs(c) = Deps[c]
    BY <1>1, GivenType
  <2> QED
    BY <2>1, <2>2, SentinelAssumption DEF InputKeys, Value
<1>3. \A j \in Deps[c] : A[j] # Absent
  BY <1>1, <1>2, KeysAssumption DEF Found
<1>4. dv' \in Env /\ \A j \in Keys \ {c} : dv'[j] = dv[j]
  BY DEF IInv, MapsOK, Env
<1>5. c \in S => /\ A[c] = Absent /\ data'[c] = data[c] /\ dv'[c] = dv[c]
                 /\ RecordedInputs(c)' = RecordedInputs(c)
  <2> SUFFICES ASSUME c \in S
               PROVE  /\ A[c] = Absent /\ data'[c] = data[c] /\ dv'[c] = dv[c]
                      /\ RecordedInputs(c)' = RecordedInputs(c)
    OBVIOUS
  <2>1. A[c] = Absent
    <3> SUFFICES ASSUME A[c] # Absent PROVE FALSE
      OBVIOUS
    <3>1. EvalItem(c, Given(c, e), dv') = A[c]
      BY <1>4, Repeats
    <3> QED
      BY <1>1, <3>1, SentinelAssumption DEF Env, Slot, Value
  <2>2. Given(c, e) = data[c] /\ (c \in Primitive \/ (dv[c] = None /\ RecordedInputs(c) = NoInputs))
    BY <1>3, <1>4, <2>1, Repeats
  <2> QED
    BY <2>1, <2>2 DEF Touches
<1>6. PICK B \in Env : (\A y \in S : B[y] = A[y]) /\ B[c] = IF Err = Err THEN Absent ELSE Err
  <2>1. Absent \in Slot
    BY DEF Slot
  <2>2. /\ With(A, c, Absent) \in Env /\ With(A, c, Absent)[c] = Absent
        /\ \A y \in S : With(A, c, Absent)[y] = A[y]
    BY <1>1, <1>5, <2>1, WithOK
  <2> QED
    BY <2>2
<1>7. PICK T : T = S \cup {c}
  OBVIOUS
<1>8. Calm(c, T, B)'
  <2>1. Inputs(c)' = Inputs(c)
    BY <1>2 DEF Inputs
  <2>2. Found(c, B)' = e
    BY <1>6, <2>1 DEF Found
  <2>3. Given(c, e)' = raw
    BY DEF Given
  <2>4. Worth(c, e)' = Err
    BY <2>3 DEF Worth
  <2>5. Due(c)' \/ RecordedInputs(c)' # e
    <3>1. CASE Touches(c, raw)
      BY <3>1 DEF Due
    <3>2. CASE ~Touches(c, raw)
      <4>1. Due(c)' = Due(c)
        BY <3>2 DEF Due, Missing, Touches
      <4> QED
        BY <3>2, <4>1
    <3> QED
      BY <3>1, <3>2
  <2>6. c \in Primitive \/ (dv'[c] = None /\ RecordedInputs(c)' = NoInputs)
    BY DEF Touches
  <2>7. Raises(c, B)'
    BY <1>1, <2>2, <2>3, <2>4, <2>5, <2>6 DEF Raises
  <2> QED
    BY <1>2, <1>6, <1>7, <2>1, <2>7 DEF Calm
<1>9. Coherent(c)'
  <2>1. CASE Touches(c, raw)
    BY <2>1 DEF Coherent
  <2>2. CASE ~Touches(c, raw)
    <3>1. data'[c] = data[c] /\ dv'[c] = dv[c] /\ RecordedInputs(c)' = RecordedInputs(c)
      BY <2>2 DEF Touches
    <3>2. Coherent(c)
      BY <1>1 DEF FInv
    <3> QED
      BY <3>1, <3>2, CoherentKept
  <2> QED
    BY <2>1, <2>2
<1>10. data'[c] # None
  <2>1. raw # None
    BY <1>1, <1>4, DefaultHolds
  <2> QED
    BY <2>1
<1> QED
  BY <1>1, <1>2, <1>5, <1>6, <1>7, <1>8, <1>9, <1>10, LeaveFresh

LEMMA EvaluateGetterFresh ==
    ASSUME IInv, IInv', OrderlyClass, FInv, EvaluateGetter, UNCHANGED lazy
    PROVE  FInv'
<1>1. /\ stack # <<>> /\ Top.op = "get" /\ Top.phase = "inputs" /\ Top.todo = {}
      /\ Top.key \in Getters
  BY DEF EvaluateGetter, Running
<1>2. PICK S, A : Steady(S, A) /\ Reading(S, A) /\ result = NoResult
  BY <1>1, InCall
<1>3. PICK c \in Getters : c = Top.key
  BY <1>1
<1>4. PICK e \in Env : e = Top.got
  BY <1>1, TopOK
<1>5. /\ Inputs(c) \subseteq S /\ c \notin Inputs(c) /\ e = Found(c, A)
      /\ Due(c) \/ RecordedInputs(c) # Found(c, A)
  BY <1>1, <1>2, <1>3, <1>4, TopDone
<1>6. c \in Keys /\ c \in Declared /\ data[c] \in Value /\ data[c] # Absent
  <2>1. FrameOK(Top) /\ data[c] \in Value
    BY <1>1, <1>3, TopOK
  <2> QED
    BY <1>1, <1>3, <2>1, SentinelAssumption, KeysAssumption DEF Keys, FrameOK, Value
<1>7. PICK raw \in Value : raw = Given(c, e) /\ raw = Getter(c, e)
  BY <1>6, GivenType DEF Given
<1>8. PICK values : values = IF Touches(c, raw) THEN TouchedValues(dv, c) ELSE dv
  OBVIOUS
<1>9. PICK inputs : inputs = IF Touches(c, raw) THEN TouchedInputs(itemsInputs, c) ELSE itemsInputs
  OBVIOUS
<1>10. TouchSet(c) = {c}
  BY GetterTouches
<1>11. /\ values \in Env /\ \A j \in Keys \ {c} : values[j] = dv[j]
       /\ inputs \in [Keys -> Env \cup {Absent}] /\ \A j \in Keys \ {c} : inputs[j] = itemsInputs[j]
       /\ IF Touches(c, raw) THEN values[c] = None /\ inputs[c] = NoInputs
                             ELSE values[c] = dv[c] /\ inputs[c] = itemsInputs[c]
  BY <1>6, <1>8, <1>9, <1>10, TouchedType DEF IInv, MapsOK, TouchedValues, TouchedInputs, Env
<1>12. PICK v : v = EvalItem(c, raw, values)
  OBVIOUS
<1>13. \/ /\ \E j \in Deps[c] : e[j] = Absent
          /\ Leave(Err) /\ UNCHANGED <<data, dv, itemsInputs>>
       \/ /\ \A j \in Deps[c] : e[j] # Absent
          /\ v = Err /\ data' = [data EXCEPT ![c] = raw] /\ dv' = values
          /\ itemsInputs' = inputs /\ Leave(Err)
       \/ /\ \A j \in Deps[c] : e[j] # Absent
          /\ v # Err /\ Store(c, raw, values, inputs, e, v)
  BY <1>3, <1>4, <1>7, <1>8, <1>9, <1>12 DEF EvaluateGetter
<1>14. CASE /\ \E j \in Deps[c] : e[j] = Absent
            /\ Leave(Err) /\ UNCHANGED <<data, dv, itemsInputs>>
  <2>1. \E j \in Deps[c] : A[j] = Absent
    <3>1. PICK j \in Deps[c] : e[j] = Absent
      BY <1>14
    <3>2. j \in Inputs(c) /\ j \in Keys
      BY <1>6, KeysAssumption DEF Inputs, InputKeys
    <3>3. A[j] = Absent
      BY <1>5, <3>1, <3>2 DEF Found
    <3> QED
      BY <3>3
  <2>2. Leave(Err) /\ UNCHANGED <<data, dv, itemsInputs, lazy>>
    BY <1>14
  <2> QED
    BY <1>1, <1>2, <1>3, <1>5, <1>6, <2>1, <2>2, RaiseFresh
<1>15. CASE /\ \A j \in Deps[c] : e[j] # Absent
            /\ v = Err /\ data' = [data EXCEPT ![c] = raw] /\ dv' = values
            /\ itemsInputs' = inputs /\ Leave(Err)
  <2>1. /\ data'[c] = raw
        /\ \A y \in Keys \ {c} : /\ data'[y] = data[y] /\ dv'[y] = dv[y]
                                 /\ RecordedInputs(y)' = RecordedInputs(y)
    BY <1>6, <1>11, <1>15 DEF IInv, MapsOK, RecordedInputs
  <2>2. NoInputs # Absent
    BY NoInputsType, RecordsAssumption
  <2>3. IF Touches(c, raw)
        THEN dv'[c] = None /\ RecordedInputs(c)' = NoInputs
        ELSE dv'[c] = dv[c] /\ RecordedInputs(c)' = RecordedInputs(c)
    <3>1. dv'[c] = values[c] /\ itemsInputs'[c] = inputs[c]
      BY <1>15
    <3>2. CASE Touches(c, raw)
      BY <1>11, <2>2, <3>1, <3>2 DEF RecordedInputs
    <3>3. CASE ~Touches(c, raw)
      BY <1>11, <3>1, <3>3 DEF RecordedInputs
    <3> QED
      BY <3>2, <3>3
  <2>4. EvalItem(c, raw, dv') = Err /\ Leave(Err) /\ \A j \in Deps[c] : e[j] # Absent
    BY <1>12, <1>15
  <2>5. raw = Given(c, e)
    BY <1>7
  <2> QED
    BY <1>1, <1>2, <1>3, <1>5, <1>6, <2>1, <2>3, <2>4, <2>5, GetterRaiseFresh
<1>16. CASE /\ \A j \in Deps[c] : e[j] # Absent
            /\ v # Err /\ Store(c, raw, values, inputs, e, v)
  <2>1. /\ data' = [data EXCEPT ![c] = Kept(c, raw, v)] /\ dv' = [values EXCEPT ![c] = v]
        /\ itemsInputs' = [inputs EXCEPT ![c] = e] /\ Leave(v)
    BY <1>16 DEF Store
  <2>2. /\ data'[c] = Kept(c, raw, v) /\ dv'[c] = v /\ RecordedInputs(c)' = e
        /\ \A y \in Keys \ {c} : /\ data'[y] = data[y] /\ dv'[y] = dv[y]
                                 /\ RecordedInputs(y)' = RecordedInputs(y)
    BY <1>6, <1>11, <2>1, RecordsAssumption DEF IInv, MapsOK, RecordedInputs, Env
  <2>3. /\ values \in Env /\ \A j \in Keys \ {c} : values[j] = dv[j]
        /\ raw = Given(c, e) /\ v # Err /\ Leave(v) /\ \A j \in Deps[c] : e[j] # Absent
    BY <1>7, <1>11, <1>16, <2>1
  <2> QED
    BY <1>1, <1>2, <1>3, <1>5, <1>6, <1>12, <2>2, <2>3, StoreFresh
<1> QED
  BY <1>13, <1>14, <1>15, <1>16

LEMMA CheckDoneFresh ==
    ASSUME IInv, IInv', OrderlyClass, FInv, CheckDone, UNCHANGED lazy
    PROVE  FInv'
<1>1. /\ stack # <<>> /\ Top.op \in {"get", "item"} /\ Top.phase = "check" /\ Top.todo = {}
      /\ UNCHANGED <<data, dv, itemsInputs, lazy>>
  BY DEF CheckDone, Running
<1>2. PICK S, A : Steady(S, A) /\ Reading(S, A) /\ result = NoResult
  BY <1>1, InCall
<1>3. PICK c \in Keys : c = Top.key
  BY <1>1, TopOK
<1>4. PICK e \in Env : e = Top.got
  BY <1>1, TopOK
<1>5. /\ Inputs(c) \subseteq S /\ c \notin Inputs(c) /\ e = Found(c, A)
      /\ ~Missing(c) /\ ~(c \in Additional /\ lazy)
  BY <1>1, <1>2, <1>3, <1>4, TopDone
<1>6. S \subseteq Keys /\ A \in Env
  BY <1>2 DEF Steady
<1>7. \A y \in Keys : /\ data'[y] = data[y] /\ dv'[y] = dv[y]
                      /\ RecordedInputs(y)' = RecordedInputs(y)
  BY <1>1 DEF RecordedInputs
<1>8. \A k \in Keys : Coherent(k)'
  BY <1>1, QuietFresh
<1>9. CASE e # RecordedInputs(c) \/ (c \in Getters /\ dv[c] = None)
  <2>1. PICK op : op = Top.op
    OBVIOUS
  <2>2. PICK f : f = NewFrame(c, op, "inputs")
    OBVIOUS
  <2>3. ReplaceTop(f)
    BY <1>3, <1>4, <1>9, <2>1, <2>2 DEF CheckDone
  <2>4. f = [key |-> c, op |-> op, phase |-> "inputs", todo |-> Inputs(c)', got |-> NoInputs]
    BY <1>1, <2>2 DEF NewFrame, Inputs
  <2>5. f.key = c /\ f.op = op /\ f.phase = "inputs" /\ op \in {"get", "item"}
    BY <1>1, <2>1, <2>4
  <2>6. Entered(f)'
    BY <2>5 DEF Entered
  <2>7. Due(c)' \/ (Inputs(c)' \subseteq S /\ RecordedInputs(c)' # Found(c, A)')
    <3>1. Due(c)' = Due(c) /\ Inputs(c)' = Inputs(c) /\ Found(c, A)' = Found(c, A)
      BY <1>1 DEF Due, Missing, Inputs, Found
    <3>2. CASE c \in Getters /\ dv[c] = None
      BY <3>1, <3>2 DEF Due
    <3>3. CASE e # RecordedInputs(c)
      BY <1>5, <1>7, <3>1, <3>3
    <3> QED
      BY <1>9, <3>2, <3>3
  <2>8. Walks(f, S, A)'
    <3>1. op # "set"
      BY <2>5
    <3> QED
      BY <2>4, <2>6, <2>7, <3>1, NewWalks
  <2>9. \A y \in S : Rank[y] < Rank[stack[1].key]
    BY <1>1, <1>2 DEF Reading
  <2>10. Reading(S, A)'
    <3>1. f.key = Top.key /\ f.op \notin {"set", "attr"}
      BY <1>3, <2>5
    <3>2. \A y \in Keys \ {Top.key} : /\ data'[y] = data[y] /\ dv'[y] = dv[y]
                                      /\ RecordedInputs(y)' = RecordedInputs(y)
      BY <1>7
    <3> QED
      BY <1>1, <1>2, <2>3, <2>8, <2>9, <3>1, <3>2, ReplaceReading
  <2>11. Steady(S, A)'
    BY <1>1, <1>2, <1>6, <1>7, SteadyKept
  <2>12. result' = NoResult
    BY <1>2, <2>3 DEF ReplaceTop
  <2>13. Told(S, A)'
    BY <2>12, QuietTold
  <2>14. Defaulted'
    <3>1. PICK n \in Nat \ {0} : n = Len(stack)
      BY <1>1, TopType DEF IInv
    <3>2. stack' = [stack EXCEPT ![n] = f] /\ stack \in Seq(Frame)
      BY <2>3, <3>1 DEF ReplaceTop, IInv, CallsOK
    <3>3. Len(stack') = n /\ stack'[1] = IF 1 = n THEN f ELSE stack[1]
      BY <3>1, <3>2
    <3>4. Top = stack[n]
      BY <3>1 DEF Top
    <3>5. stack' # <<>>
      BY <3>1, <3>3, EmptySeq
    <3>6. stack'[1].key = stack[1].key /\ stack'[1].op = stack[1].op
      BY <1>3, <2>1, <2>5, <3>3, <3>4
    <3> QED
      BY <1>1, <3>5, <3>6, DefaultedSame DEF FInv
  <2> QED
    BY <1>8, <2>10, <2>11, <2>12, <2>13, <2>14 DEF FInv
<1>10. CASE e = RecordedInputs(c) /\ ~(c \in Getters /\ dv[c] = None)
  <2>1. PICK v : v = dv[c]
    OBVIOUS
  <2>2. Leave(v)
    BY <1>3, <1>4, <1>10, <2>1 DEF CheckDone
  <2>3. data[c] # Absent /\ v \in Value /\ v # Err /\ v # Absent
    <3>1. data[c] \in Value
      BY <1>1, <1>3, TopOK
    <3>2. data[c] # Absent
      BY <3>1, SentinelAssumption DEF Value
    <3>3. dv[c] \in Slot /\ dv[c] # Absent
      BY <3>2 DEF IInv, MapsOK
    <3> QED
      BY <2>1, <3>2, <3>3, SentinelAssumption DEF Slot, Value
  <2>4. ~Due(c) /\ RecordedInputs(c) = e
    BY <1>5, <1>10 DEF Due
  <2>5. c \in S => A[c] = v
    <3> SUFFICES ASSUME c \in S PROVE A[c] = v
      OBVIOUS
    <3>1. Calm(c, S, A)
      BY <1>2 DEF Steady
    <3>2. A[c] # Absent
      BY <1>5, <2>3, <2>4, <3>1 DEF Calm, Raises
    <3> QED
      BY <1>2, <2>1, <3>2, AnsweredIsCached
  <2>6. PICK B \in Env : (\A y \in S : B[y] = A[y]) /\ B[c] = IF v = Err THEN Absent ELSE v
    <3>1. v \in Slot
      BY <2>3 DEF Slot
    <3>2. With(A, c, v) \in Env /\ With(A, c, v)[c] = v /\ \A y \in S : With(A, c, v)[y] = A[y]
      BY <1>6, <2>5, <3>1, WithOK
    <3> QED
      BY <2>3, <3>2
  <2>7. PICK T : T = S \cup {c}
    OBVIOUS
  <2>8. Calm(c, T, B)'
    <3>1. Inputs(c)' = Inputs(c) /\ Due(c)' = Due(c)
      BY <1>1 DEF Inputs, Due, Missing
    <3>2. Found(c, B)' = e
      BY <1>5, <2>6, <3>1 DEF Found
    <3>3. c \in Getters => \A j \in Deps[c] : B[j] # Absent
      <4> SUFFICES ASSUME c \in Getters, NEW j \in Deps[c] PROVE B[j] # Absent
        OBVIOUS
      <4>1. j \in Inputs(c) /\ j \in Keys
        BY KeysAssumption DEF Inputs, InputKeys
      <4>2. c \in Declared /\ dv[c] # None /\ dv[c] # Absent
        BY <1>10, <2>1, <2>3, KeysAssumption
      <4>3. RecordedInputs(c)[j] # Absent
        BY <2>3, <4>2 DEF FInv, Coherent
      <4>4. e[j] = A[j] /\ B[j] = A[j]
        BY <1>5, <2>6, <4>1 DEF Found
      <4> QED
        BY <2>4, <4>3, <4>4
    <3>4. Answers(c, B)'
      <4>1. dv'[c] = B[c] /\ RecordedInputs(c)' = e
        BY <1>7, <2>1, <2>3, <2>4, <2>6
      <4> QED
        BY <2>4, <3>1, <3>2, <3>3, <4>1 DEF Answers
    <3> QED
      BY <1>5, <1>7, <2>3, <2>6, <2>7, <3>1, <3>4 DEF Calm
  <2>9. Top.op # "set"
    BY <1>1
  <2> QED
    BY <1>1, <1>2, <1>3, <1>7, <1>8, <2>2, <2>3, <2>6, <2>7, <2>8, <2>9, LeaveFresh
<1> QED
  BY <1>9, <1>10

-----------------------------------------------------------------------------
(* FInv is inductive *)

LEMMA InitFresh ==
    ASSUME OrderlyClass, Init
    PROVE  FInv
<1>1. stack = <<>> /\ result = NoResult
  BY DEF Init
<1>2. ASSUME NEW k \in Keys PROVE Coherent(k)
  <2>1. dv[k] \in {None, Absent}
    BY DEF Init
  <2> QED
    BY <2>1 DEF Coherent
<1>3. Defaulted
  <2> SUFFICES ASSUME NEW k \in Declared, data[k] = None, Default[k] # None PROVE FALSE
    BY DEF Defaulted
  <2>1. k \in Keys /\ data[k] \in InitOf(k)
    BY DEF Init, Keys
  <2> QED
    BY <2>1 DEF OrderlyClass, DefaultsAreValid
<1>4. Steady({}, NoInputs)
  BY NoInputsType DEF Steady
<1>5. Reading({}, NoInputs)
  <2>1. Len(stack) = 0
    BY <1>1
  <2> QED
    BY <1>1, <2>1 DEF Reading
<1>6. Told({}, NoInputs)
  BY <1>1 DEF Told, Evaluating, NoResult
<1> QED
  BY <1>1, <1>2, <1>3, <1>4, <1>5, <1>6 DEF FInv

LEMMA StutterFresh ==
    ASSUME IInv, IInv', OrderlyClass, FInv, UNCHANGED vars
    PROVE  FInv'
<1>1. UNCHANGED <<data, dv, itemsInputs, stack, result, lazy>>
  BY DEF vars
<1>2. \A k \in Keys : Coherent(k)'
  BY <1>1, QuietFresh
<1>3. Defaulted'
  BY <1>1, DefaultedSame DEF FInv
<1>4. PICK S, A : Steady(S, A) /\ Reading(S, A) /\ Told(S, A)
  BY DEF FInv
<1>5. Steady(S, A)'
  BY <1>1, <1>4 DEF Steady, Calm, Inputs, Raises, Answers, Due, Missing, Worth, Given, Found,
                    RecordedInputs
<1>6. Reading(S, A)'
  BY <1>1, <1>4 DEF Reading, Walks, Entered, Outdated, Inputs, Due, Missing, Found, RecordedInputs
<1>7. Told(S, A)'
  BY <1>1, <1>4 DEF Told, Evaluating, Inputs
<1>8. stack' # <<>> => result' = NoResult
  BY <1>1 DEF FInv
<1> QED
  BY <1>2, <1>3, <1>5, <1>6, <1>7, <1>8 DEF FInv

LEMMA NextFresh ==
    ASSUME IInv, OrderlyClass, FInv, [Next]_vars
    PROVE  FInv'
<1>1. IInv'
  BY NextOK
<1>2. CASE UNCHANGED vars
  BY <1>1, <1>2, StutterFresh
<1>3. CASE Next
  <2>1. UNCHANGED lazy /\ (Run \/ Call)
    BY <1>3 DEF Next
  <2>2. CASE ItemBuilt
    BY <2>1, <2>2, ItemBuiltFresh
  <2>3. ASSUME NEW k \in Keys, BuildItem(k) PROVE FInv'
    BY <2>1, <2>3, BuildItemFresh
  <2>4. ASSUME NEW k \in Keys, ReadInput(k) PROVE FInv'
    BY <1>1, <2>1, <2>4, ReadInputFresh
  <2>5. CASE CheckDone
    BY <1>1, <2>1, <2>5, CheckDoneFresh
  <2>6. CASE Evaluate
    BY <1>1, <2>1, <2>6, EvaluateFresh
  <2>7. CASE EvaluateGetter
    BY <1>1, <2>1, <2>7, EvaluateGetterFresh
  <2>8. CASE EvaluateItem
    BY <1>1, <2>1, <2>8, EvaluateItemFresh
  <2>9. CASE AttrInputsRead
    BY <1>1, <2>1, <2>9, AttrInputsReadFresh
  <2>10. CASE EvaluateSet
    BY <1>1, <2>1, <2>10, EvaluateSetFresh
  <2>11. ASSUME NEW k \in Keys, Get(k) PROVE FInv'
    BY <2>1, <2>11, GetFresh
  <2>12. ASSUME NEW k \in Keys, GetAttr(k) PROVE FInv'
    BY <2>1, <2>12, GetAttrFresh
  <2>13. ASSUME NEW k \in Keys, DelAttr(k) PROVE FInv'
    BY <2>1, <2>13, DelAttrFresh
  <2>14. ASSUME NEW k \in Keys, DelItem(k) PROVE FInv'
    BY <2>1, <2>14, DelItemFresh
  <2>15. ASSUME NEW k \in Keys, NEW v \in RawOf(k), Set(k, v) PROVE FInv'
    BY <2>1, <2>15, SetFresh
  <2>16. ASSUME NEW k \in Keys, NEW v \in RawOf(k), SetAdditional(k, v) PROVE FInv'
    BY <2>1, <2>16, SetAdditionalFresh
  <2>17. CASE Run
    BY <2>2, <2>3, <2>4, <2>5, <2>6, <2>7, <2>8, <2>9, <2>10, <2>17 DEF Run
  <2>18. CASE Call
    BY <2>11, <2>12, <2>13, <2>14, <2>15, <2>16, <2>18 DEF Call
  <2> QED
    BY <2>1, <2>17, <2>18
<1> QED
  BY <1>2, <1>3

-----------------------------------------------------------------------------
(* Fresh is well defined: a recursion that descends a rank has a solution *)

LEMMA LeastNumber ==
    ASSUME NEW T, T \subseteq Nat, T # {}
    PROVE  \E n \in T : \A m \in T : n <= m
<1> DEFINE R == OpToRel(<, Nat)
<1>1. IsWellFoundedOn(R, Nat)
  BY NatLessThanWellFounded
<1>2. PICK n \in T : \A m \in T : ~(<<m, n>> \in R)
  <2> HIDE DEF R
  <2> QED
    BY <1>1, WFMin
<1>3. \A m \in T : ~(m < n)
  BY <1>2 DEF OpToRel
<1> QED
  BY <1>3

\* g solves F for the members of K whose rank is below n.
Solves(g, K, X, rank, F, n) ==
    g \in [K -> X] /\ \A k \in K : rank[k] < n => g[k] = F[k][g]

Descends(K, X, rank, F) ==
    /\ rank \in [K -> Nat] /\ F \in [K -> [[K -> X] -> X]]
    /\ \A k \in K : \A g, h \in [K -> X] :
        (\A j \in K : rank[j] < rank[k] => g[j] = h[j]) => F[k][g] = F[k][h]

LEMMA SolvedBelow ==
    ASSUME NEW K, NEW X, X # {}, NEW rank, NEW F,
           Descends(K, X, rank, F), NEW n \in Nat
    PROVE  \E g : Solves(g, K, X, rank, F, n)
<1>0. rank \in [K -> Nat] /\ F \in [K -> [[K -> X] -> X]]
  BY DEF Descends
<1> SUFFICES ASSUME ~\E g : Solves(g, K, X, rank, F, n) PROVE FALSE
  OBVIOUS
<1> DEFINE T == {m \in Nat : ~\E g : Solves(g, K, X, rank, F, m)}
<1>1. T \subseteq Nat /\ n \in T
  OBVIOUS
<1>2. PICK m \in T : \A i \in T : m <= i
  <2> HIDE DEF T
  <2> QED
    BY <1>1, LeastNumber
<1>3. m \in Nat /\ ~\E g : Solves(g, K, X, rank, F, m)
  OBVIOUS
<1>4. m # 0
  <2> SUFFICES ASSUME m = 0 PROVE FALSE
    OBVIOUS
  <2>1. PICK x : x \in X
    OBVIOUS
  <2>2. Solves([k \in K |-> x], K, X, rank, F, 0)
    <3>1. \A k \in K : ~(rank[k] < 0)
      BY <1>0
    <3> QED
      BY <2>1, <3>1 DEF Solves
  <2> QED
    BY <1>3, <2>2
<1>5. PICK p \in Nat : m = p + 1
  <2>1. m - 1 \in Nat /\ m = (m - 1) + 1
    BY <1>3, <1>4
  <2> QED
    BY <2>1
<1>6. PICK g : Solves(g, K, X, rank, F, p)
  <2>1. p \notin T
    <3>1. ~(m <= p)
      BY <1>5
    <3> HIDE DEF T
    <3> QED
      BY <1>2, <3>1
  <2> QED
    BY <2>1
<1>7. g \in [K -> X] /\ \A k \in K : rank[k] < p => g[k] = F[k][g]
  BY <1>6 DEF Solves
<1>8. PICK h : h = [k \in K |-> IF rank[k] < m THEN F[k][g] ELSE g[k]]
  OBVIOUS
<1>9. h \in [K -> X]
  BY <1>0, <1>7, <1>8
<1>10. ASSUME NEW k \in K, rank[k] < m PROVE h[k] = F[k][h]
  <2>1. ASSUME NEW j \in K, rank[j] < rank[k] PROVE h[j] = g[j]
    <3>1. rank[j] < m /\ rank[j] < p
      BY <1>0, <1>3, <1>5, <1>10, <2>1
    <3> QED
      BY <1>7, <1>8, <3>1
  <2>2. F[k][h] = F[k][g]
    BY <1>7, <1>9, <2>1 DEF Descends
  <2> QED
    BY <1>8, <1>10, <2>2
<1>11. Solves(h, K, X, rank, F, m)
  BY <1>9, <1>10 DEF Solves
<1> QED
  BY <1>3, <1>11

LEMMA SolvedOnce ==
    ASSUME NEW K, NEW X, NEW rank, NEW F,
           Descends(K, X, rank, F), NEW n \in Nat, NEW m \in Nat, NEW g, NEW h,
           Solves(g, K, X, rank, F, n), Solves(h, K, X, rank, F, m),
           NEW k \in K, rank[k] < n, rank[k] < m
    PROVE  g[k] = h[k]
<1>0. rank \in [K -> Nat]
  BY DEF Descends
<1> DEFINE T == {i \in Nat : \E j \in K : /\ i = rank[j] /\ rank[j] < n /\ rank[j] < m
                                         /\ g[j] # h[j]}
<1>1. g \in [K -> X] /\ h \in [K -> X]
  BY DEF Solves
<1> SUFFICES ASSUME g[k] # h[k] PROVE FALSE
  OBVIOUS
<1>2. T \subseteq Nat /\ rank[k] \in T
  BY <1>0
<1>3. PICK i \in T : \A x \in T : i <= x
  <2> HIDE DEF T
  <2> QED
    BY <1>2, LeastNumber
<1>4. PICK j \in K : i = rank[j] /\ rank[j] < n /\ rank[j] < m /\ g[j] # h[j]
  OBVIOUS
<1>5. ASSUME NEW y \in K, rank[y] < rank[j] PROVE g[y] = h[y]
  <2> SUFFICES ASSUME g[y] # h[y] PROVE FALSE
    OBVIOUS
  <2>1. rank[y] \in Nat /\ rank[j] \in Nat /\ rank[y] < n /\ rank[y] < m
    BY <1>0, <1>4, <1>5
  <2>2. rank[y] \in T
    BY <2>1
  <2>3. rank[j] <= rank[y]
    <3> HIDE DEF T
    <3> QED
      BY <1>3, <1>4, <2>2
  <2> QED
    BY <1>5, <2>1, <2>3
<1>6. F[j][g] = F[j][h]
  BY <1>1, <1>5 DEF Descends
<1>7. g[j] = F[j][g] /\ h[j] = F[j][h]
  BY <1>4 DEF Solves
<1> QED
  BY <1>4, <1>6, <1>7

LEMMA Solution ==
    ASSUME NEW K, NEW X, X # {}, NEW rank, NEW F,
           Descends(K, X, rank, F)
    PROVE  \E f \in [K -> X] : \A k \in K : f[k] = F[k][f]
<1>0. rank \in [K -> Nat]
  BY DEF Descends
<1> DEFINE G(n) == CHOOSE g : Solves(g, K, X, rank, F, n)
           f == [k \in K |-> G(rank[k] + 1)[k]]
<1>1. ASSUME NEW n \in Nat PROVE Solves(G(n), K, X, rank, F, n)
  <2>1. \E g : Solves(g, K, X, rank, F, n)
    BY SolvedBelow
  <2> QED
    BY <2>1
<1> HIDE DEF G
<1>a. ASSUME NEW n \in Nat, NEW m \in Nat, NEW j \in K, rank[j] < n, rank[j] < m
      PROVE  G(n)[j] = G(m)[j]
  <2>1. Solves(G(n), K, X, rank, F, n) /\ Solves(G(m), K, X, rank, F, m)
    BY <1>1
  <2> QED
    BY <1>a, <2>1, SolvedOnce
<1>2. ASSUME NEW k \in K PROVE G(rank[k] + 1)[k] \in X
  <2>1. rank[k] + 1 \in Nat
    BY <1>0
  <2>2. G(rank[k] + 1) \in [K -> X]
    BY <1>1, <2>1 DEF Solves
  <2> QED
    BY <2>2
<1>3. f \in [K -> X]
  BY <1>2
<1>4. ASSUME NEW k \in K PROVE f[k] = F[k][f]
  <2>1. PICK n \in Nat : n = rank[k] + 1
    BY <1>0
  <2>2. PICK g : g = G(n)
    OBVIOUS
  <2>3. Solves(g, K, X, rank, F, n) /\ rank[k] < n
    BY <1>0, <1>1, <2>1, <2>2
  <2>4. g \in [K -> X] /\ g[k] = F[k][g] /\ f[k] = g[k]
    BY <2>1, <2>2, <2>3 DEF Solves
  <2>5. ASSUME NEW j \in K, rank[j] < rank[k] PROVE f[j] = g[j]
    <3>1. PICK m \in Nat : m = rank[j] + 1
      BY <1>0
    <3>2. PICK h : h = G(m)
      OBVIOUS
    <3>3. rank[j] < m /\ rank[j] < n
      BY <1>0, <2>1, <2>5, <3>1
    <3>4. h[j] = g[j]
      BY <1>a, <2>2, <3>2, <3>3
    <3> QED
      BY <3>1, <3>2, <3>4
  <2>6. F[k][f] = F[k][g]
    <3> HIDE DEF f
    <3> QED
      BY <1>3, <2>4, <2>5 DEF Descends
  <2> QED
    BY <2>4, <2>6
<1> HIDE DEF f
<1> QED
  BY <1>3, <1>4

-----------------------------------------------------------------------------
(* What a key is worth, given what its inputs are worth *)

Worths == Slot \cup {Err, Unknown}

FreshOf(k, g) ==
    LET needs == Needs(k)
        env == [j \in Keys |-> IF j \in needs THEN g[j] ELSE Absent]
    IN  CASE data[k] = Absent -> Absent
          [] data[k] # Absent /\ \E j \in needs : env[j] \in {Absent, Err, Unknown} ->
                Unknown
          [] OTHER ->
                CASE k \in Getters -> EvalItem(k, Getter(k, env), env)
                  [] k \notin Getters /\ NoneIsAmbiguous(k) -> Unknown
                  [] k \in Additional /\ ~lazy -> Unknown
                  [] \E i \in Getters \ Primitive, j \in needs :
                         i # j /\ j \in TouchSet(i) /\ g[i] = None -> Unknown
                  [] OTHER -> EvalItem(k, data[k], env)

LEMMA NeedsAreInputs ==
    ASSUME IInv, NEW k \in Keys
    PROVE  Needs(k) = Inputs(k) /\ Inputs(k) \subseteq Keys /\ \A j \in Inputs(k) : Rank[j] < Rank[k]
<1>1. data[k] \in Exprs => data[k] \in Sources(k)
  BY DEF IInv, MapsOK, SourcesOK
<1>2. Inputs(k) \subseteq Keys /\ \A j \in Inputs(k) : Rank[j] < Rank[k]
  BY <1>1, InputKeysType DEF Inputs
<1> QED
  BY <1>2 DEF Needs, Inputs, InputKeys

\* In an orderly class no getter touches another key.
LEMMA FreshCases ==
    ASSUME IInv, OrderlyClass, NEW k \in Keys, NEW g
    PROVE  FreshOf(k, g) =
             IF data[k] = Absent THEN Absent
             ELSE IF \E j \in Inputs(k) : g[j] \in {Absent, Err, Unknown} THEN Unknown
             ELSE IF k \in Getters THEN EvalItem(k, Getter(k, Found(k, g)), Found(k, g))
             ELSE IF NoneIsAmbiguous(k) \/ (k \in Additional /\ ~lazy) THEN Unknown
             ELSE EvalItem(k, data[k], Found(k, g))
<1>1. PICK needs : needs = Needs(k)
  OBVIOUS
<1>2. PICK env : env = [j \in Keys |-> IF j \in needs THEN g[j] ELSE Absent]
  OBVIOUS
<1>3. needs = Inputs(k) /\ needs \subseteq Keys
  BY <1>1, NeedsAreInputs
<1>4. Found(k, g) = env
  BY <1>2, <1>3 DEF Found
<1>5. (\E j \in needs : env[j] \in {Absent, Err, Unknown})
        <=> (\E j \in needs : g[j] \in {Absent, Err, Unknown})
  BY <1>2, <1>3
<1>6. ~\E i \in Getters \ Primitive, j \in needs : i # j /\ j \in TouchSet(i) /\ g[i] = None
  BY GetterTouches
<1>7. FreshOf(k, g) =
        CASE data[k] = Absent -> Absent
          [] data[k] # Absent /\ \E j \in needs : env[j] \in {Absent, Err, Unknown} ->
                Unknown
          [] OTHER ->
                CASE k \in Getters -> EvalItem(k, Getter(k, env), env)
                  [] k \notin Getters /\ NoneIsAmbiguous(k) -> Unknown
                  [] k \in Additional /\ ~lazy -> Unknown
                  [] \E i \in Getters \ Primitive, j \in needs :
                         i # j /\ j \in TouchSet(i) /\ g[i] = None -> Unknown
                  [] OTHER -> EvalItem(k, data[k], env)
  BY <1>1, <1>2 DEF FreshOf
<1> HIDE <1>1, <1>2
<1>8. k \in Getters => k \notin Additional
  BY KeysAssumption
<1> QED
  BY <1>3, <1>4, <1>5, <1>6, <1>7, <1>8

LEMMA FreshOfType ==
    ASSUME IInv, OrderlyClass, NEW k \in Keys, NEW g \in [Keys -> Worths]
    PROVE  FreshOf(k, g) \in Worths
<1>1. CASE data[k] = Absent \/ \E j \in Inputs(k) : g[j] \in {Absent, Err, Unknown}
  BY <1>1, FreshCases DEF Worths, Slot
<1>2. CASE data[k] # Absent /\ ~\E j \in Inputs(k) : g[j] \in {Absent, Err, Unknown}
  <2>1. Inputs(k) \subseteq Keys
    BY NeedsAreInputs
  <2>2. PICK e \in Env : e = Found(k, g)
    BY <1>2, <2>1 DEF Found, Env, Slot, Worths
  <2>3. data[k] \in Value
    BY <1>2 DEF IInv, MapsOK, Slot
  <2>4. k \in Getters => Getter(k, e) \in Value
    BY EvalAssumption
  <2>5. /\ k \in Getters => EvalItem(k, Getter(k, e), e) \in Value \cup {Err}
        /\ EvalItem(k, data[k], e) \in Value \cup {Err}
    BY <2>3, <2>4, EvalItemType
  <2>6. \/ FreshOf(k, g) = Unknown
        \/ k \in Getters /\ FreshOf(k, g) = EvalItem(k, Getter(k, e), e)
        \/ FreshOf(k, g) = EvalItem(k, data[k], e)
    BY <1>2, <2>2, FreshCases
  <2> QED
    BY <2>5, <2>6 DEF Worths, Slot
<1> QED
  BY <1>1, <1>2

LEMMA FreshOfInputs ==
    ASSUME IInv, OrderlyClass, NEW k \in Keys, NEW g, NEW h, \A j \in Inputs(k) : g[j] = h[j]
    PROVE  FreshOf(k, g) = FreshOf(k, h)
<1>1. Found(k, g) = Found(k, h)
  BY DEF Found
<1>2. (\E j \in Inputs(k) : g[j] \in {Absent, Err, Unknown})
        <=> (\E j \in Inputs(k) : h[j] \in {Absent, Err, Unknown})
  OBVIOUS
<1> QED
  BY <1>1, <1>2, FreshCases

LEMMA FreshUnfolds ==
    ASSUME IInv, OrderlyClass
    PROVE  \A k \in Keys : Fresh[k] = FreshOf(k, Fresh)
<1> DEFINE F == [k \in Keys |-> [g \in [Keys -> Worths] |-> FreshOf(k, g)]]
<1>1. \A k \in Keys : \A g \in [Keys -> Worths] : F[k][g] = FreshOf(k, g)
  OBVIOUS
<1>2. F \in [Keys -> [[Keys -> Worths] -> Worths]]
  BY FreshOfType
<1> HIDE DEF F
<1>3. ASSUME NEW k \in Keys, NEW g \in [Keys -> Worths], NEW h \in [Keys -> Worths],
             \A j \in Keys : Rank[j] < Rank[k] => g[j] = h[j]
      PROVE  F[k][g] = F[k][h]
  <2>1. \A j \in Inputs(k) : g[j] = h[j]
    BY <1>3, NeedsAreInputs
  <2>2. FreshOf(k, g) = FreshOf(k, h)
    BY <2>1, FreshOfInputs
  <2> QED
    BY <1>1, <2>2
<1>4. Descends(Keys, Worths, Rank, F)
  BY <1>2, <1>3, AcyclicAssumption DEF Descends
<1>5. Worths # {}
  BY DEF Worths
<1>6. PICK f \in [Keys -> Worths] : \A k \in Keys : f[k] = F[k][f]
  BY <1>4, <1>5, Solution
<1>7. f = [k \in Keys |-> FreshOf(k, f)]
  BY <1>1, <1>6
<1>8. Fresh = CHOOSE g : g = [k \in Keys |-> FreshOf(k, g)]
  BY DEF Fresh, FreshOf
<1>9. Fresh = [k \in Keys |-> FreshOf(k, Fresh)]
  BY <1>7, <1>8
<1> QED
  BY <1>9

-----------------------------------------------------------------------------
(* The answers of the keys that were read are what they are worth *)

\* w, what key k is worth, bears out a, what it answered.
Borne(k, w, a) ==
    \/ w = Unknown
    \/ a # Absent /\ w = a
    \/ a = Absent /\ w = IF data[k] = Absent THEN Absent ELSE Err

LEMMA WorthOfKey ==
    ASSUME IInv, OrderlyClass, FInv, stack = <<>>, NEW S, NEW A, Steady(S, A),
           NEW k \in S, NEW g, \A j \in Inputs(k) : Borne(j, g[j], A[j])
    PROVE  Borne(k, FreshOf(k, g), A[k])
<1>1. S \subseteq Keys /\ A \in Env /\ Calm(k, S, A) /\ k \in Keys /\ dv \in Env
  BY DEF Steady, IInv, MapsOK, Env
<1>2. CASE data[k] = Absent
  <2>1. A[k] = Absent
    BY <1>1, <1>2 DEF Calm
  <2>2. FreshOf(k, g) = Absent
    BY <1>1, <1>2, FreshCases
  <2> QED
    BY <1>2, <2>1, <2>2 DEF Borne
<1>3. CASE data[k] # Absent /\ \E j \in Inputs(k) : g[j] \in {Absent, Err, Unknown}
  <2>1. FreshOf(k, g) = Unknown
    BY <1>1, <1>3, FreshCases
  <2> QED
    BY <2>1 DEF Borne
<1>4. CASE data[k] # Absent /\ ~\E j \in Inputs(k) : g[j] \in {Absent, Err, Unknown}
  <2>1. Inputs(k) \subseteq S /\ IF A[k] = Absent THEN Raises(k, A) ELSE Answers(k, A)
    BY <1>1, <1>4 DEF Calm
  <2>2. ASSUME NEW j \in Inputs(k) PROVE g[j] = A[j] /\ A[j] # Absent /\ dv[j] = A[j]
    <3>1. g[j] = A[j] /\ A[j] # Absent
      BY <1>4 DEF Borne
    <3>2. j \in S
      BY <2>1
    <3> QED
      BY <3>1, <3>2, AnsweredIsCached
  <2>3. PICK e \in Env : e = Found(k, A)
    BY <1>1, FoundType
  <2>4. Found(k, g) = e /\ \A j \in Inputs(k) : dv[j] = e[j] /\ e[j] # Absent
    BY <1>1, <2>1, <2>2, <2>3 DEF Found
  <2>5. data[k] \in Value /\ A[k] # Err /\ RecordedInputs(k) \in Env
    BY <1>1, <1>4, NoInputsType, SentinelAssumption
      DEF IInv, MapsOK, Slot, Value, Env, RecordedInputs
  <2>6. CASE k \in Getters
    <3>1. FreshOf(k, g) = EvalItem(k, Getter(k, e), e)
      BY <1>1, <1>4, <2>4, <2>6, FreshCases
    <3>2. /\ Getter(k, e) \in Value /\ Getter(k, e) \notin Exprs
          /\ Default[k] \notin Exprs /\ Given(k, e) = Getter(k, e)
      <4>1. Given(k, e) = Getter(k, e)
        BY <2>6 DEF Given
      <4>2. Given(k, e) \in Value /\ Given(k, e) \notin Exprs /\ Default[k] \notin Exprs
        BY <1>1, <1>4, <2>6, GivenType
      <4> QED
        BY <4>1, <4>2
    <3>3. NoInputs \in Env
      BY NoInputsType
    <3>4. EvalItem(k, Getter(k, e), dv) = EvalItem(k, Getter(k, e), e)
      BY <1>1, <3>2, ItemSame
    <3>5. EvalItem(k, Getter(k, e), NoInputs) = EvalItem(k, Getter(k, e), e)
      BY <1>1, <3>2, <3>3, ItemSame
    <3>6. Worth(k, e) = FreshOf(k, g)
      BY <3>1, <3>2, <3>4 DEF Worth
    <3>7. CASE A[k] = Absent
      <4>1. Raises(k, A)
        BY <2>1, <3>7
      <4>2. ~\E j \in Deps[k] : A[j] = Absent
        BY <2>2 DEF Inputs, InputKeys
      <4>3. FreshOf(k, g) = Err
        BY <2>3, <3>6, <4>1, <4>2 DEF Raises
      <4> QED
        BY <1>4, <3>7, <4>3 DEF Borne
    <3>8. CASE A[k] # Absent
      <4>1. Answers(k, A)
        BY <2>1, <3>8
      <4>2. dv[k] = A[k] /\ RecordedInputs(k) = e
        BY <2>3, <4>1 DEF Answers
      <4>3. CASE dv[k] = None
        <5>1. Due(k)
          BY <2>6, <4>3 DEF Due
        <5>2. Worth(k, e) = A[k]
          BY <2>3, <4>1, <5>1 DEF Answers
        <5> QED
          BY <3>6, <3>8, <5>2 DEF Borne
      <4>4. CASE dv[k] # None
        <5>1. k \in Declared
          BY <2>6, KeysAssumption
        <5>2. Coherent(k)
          BY <1>1 DEF FInv
        <5>3. dv[k] = EvalItem(k, Getter(k, RecordedInputs(k)), NoInputs)
          BY <1>4, <2>6, <3>8, <4>2, <4>4, <5>1, <5>2 DEF Coherent
        <5> QED
          BY <3>1, <3>5, <3>8, <4>2, <5>3 DEF Borne
      <4> QED
        BY <4>3, <4>4
    <3> QED
      BY <3>7, <3>8
  <2>7. CASE k \notin Getters /\ (NoneIsAmbiguous(k) \/ (k \in Additional /\ ~lazy))
    <3>1. FreshOf(k, g) = Unknown
      BY <1>1, <1>4, <2>7, FreshCases
    <3> QED
      BY <3>1 DEF Borne
  <2>8. CASE k \notin Getters /\ ~(NoneIsAmbiguous(k) \/ (k \in Additional /\ ~lazy))
    <3>1. FreshOf(k, g) = EvalItem(k, data[k], e) /\ Given(k, e) = data[k]
      BY <1>1, <1>4, <2>4, <2>8, FreshCases DEF Given
    <3>2. ASSUME EvalItem(k, Given(k, e), dv) = Err
                   \/ Kept(k, Given(k, e), EvalItem(k, Given(k, e), dv)) = data[k]
          PROVE  FreshOf(k, g) = Worth(k, e)
      <4>1. \A j \in Inputs(k) : dv[j] = e[j]
        BY <2>4
      <4>2. EvalItem(k, Given(k, e), dv) = EvalItem(k, Given(k, e), e)
        BY <1>1, <1>4, <3>2, <4>1, GivenSame
      <4> QED
        BY <3>1, <4>2 DEF Worth
    <3>3. CASE A[k] = Absent
      <4>1. Raises(k, A)
        BY <2>1, <3>3
      <4>2. Worth(k, e) = Err
        BY <2>3, <2>8, <4>1 DEF Raises
      <4>3. FreshOf(k, g) = Err
        BY <3>2, <4>2 DEF Worth
      <4> QED
        BY <1>4, <3>3, <4>3 DEF Borne
    <3>4. CASE A[k] # Absent
      <4>1. Answers(k, A)
        BY <2>1, <3>4
      <4>2. dv[k] = A[k] /\ RecordedInputs(k) = e
        BY <2>3, <4>1 DEF Answers
      <4>3. CASE Due(k)
        <5>1. Worth(k, e) = A[k] /\ Kept(k, Given(k, e), A[k]) = data[k]
          BY <2>3, <4>1, <4>3 DEF Answers
        <5>2. FreshOf(k, g) = A[k]
          BY <3>2, <5>1 DEF Worth
        <5> QED
          BY <3>4, <5>2 DEF Borne
      <4>4. CASE ~Due(k)
        <5>1. k \in Declared
          BY <1>1, <2>8, <4>4 DEF Due, Keys
        <5>2. CASE dv[k] = None
          <6>1. data[k] = None
            BY <4>4, <5>2 DEF Due, Missing
          <6>2. Default[k] = None
            <7> SUFFICES ASSUME Default[k] # None PROVE FALSE
              OBVIOUS
            <7>1. ~lazy
              BY <2>8, <6>1 DEF NoneIsAmbiguous
            <7> QED
              BY <5>1, <6>1, <7>1 DEF FInv, Defaulted
          <6>3. EvalItem(k, data[k], e) = None
            BY <6>1, <6>2 DEF EvalItem
          <6> QED
            BY <3>1, <3>4, <4>2, <5>2, <6>3 DEF Borne
        <5>3. CASE dv[k] # None
          <6>1. Coherent(k)
            BY <1>1 DEF FInv
          <6>2. dv[k] = EvalItem(k, data[k], RecordedInputs(k))
            BY <1>4, <2>4, <2>8, <3>4, <4>2, <5>1, <5>3, <6>1 DEF Coherent
          <6> QED
            BY <3>1, <3>4, <4>2, <6>2 DEF Borne
        <5> QED
          BY <5>2, <5>3
      <4> QED
        BY <4>3, <4>4
    <3> QED
      BY <3>3, <3>4
  <2> QED
    BY <2>6, <2>7, <2>8
<1> QED
  BY <1>2, <1>3, <1>4

LEMMA WorthsAreAnswers ==
    ASSUME IInv, OrderlyClass, FInv, stack = <<>>, NEW S, NEW A, Steady(S, A)
    PROVE  \A k \in S : Borne(k, Fresh[k], A[k])
<1> DEFINE T == {n \in Nat : \E k \in S : n = Rank[k] /\ ~Borne(k, Fresh[k], A[k])}
<1>1. S \subseteq Keys /\ Rank \in [Keys -> Nat]
  BY AcyclicAssumption DEF Steady
<1> SUFFICES ASSUME NEW c \in S, ~Borne(c, Fresh[c], A[c]) PROVE FALSE
  OBVIOUS
<1>2. T \subseteq Nat /\ Rank[c] \in T
  BY <1>1
<1>3. PICK n \in T : \A m \in T : n <= m
  <2> HIDE DEF T
  <2> QED
    BY <1>2, LeastNumber
<1>4. PICK k \in S : n = Rank[k] /\ ~Borne(k, Fresh[k], A[k])
  OBVIOUS
<1>5. k \in Keys /\ Fresh[k] = FreshOf(k, Fresh)
  BY <1>1, FreshUnfolds
<1>6. CASE data[k] = Absent
  <2>1. Calm(k, S, A) /\ FreshOf(k, Fresh) = Absent
    BY <1>5, <1>6, FreshCases DEF Steady
  <2> QED
    BY <1>4, <1>5, <1>6, <2>1 DEF Borne, Calm
<1>7. CASE data[k] # Absent
  <2>1. Inputs(k) \subseteq S
    BY <1>7 DEF Steady, Calm
  <2>2. ASSUME NEW j \in Inputs(k) PROVE Borne(j, Fresh[j], A[j])
    <3>1. j \in S /\ Rank[j] < Rank[k] /\ Rank[j] \in Nat
      BY <1>1, <1>5, <2>1, NeedsAreInputs
    <3> SUFFICES ASSUME ~Borne(j, Fresh[j], A[j]) PROVE FALSE
      OBVIOUS
    <3>2. Rank[j] \in T
      BY <3>1
    <3>3. Rank[k] <= Rank[j]
      <4> HIDE DEF T
      <4> QED
        BY <1>3, <1>4, <3>2
    <3>4. Rank[k] \in Nat
      BY <1>1, <1>5
    <3> QED
      BY <3>1, <3>3, <3>4
  <2>3. PICK g : g = Fresh
    OBVIOUS
  <2>4. \A j \in Inputs(k) : Borne(j, g[j], A[j])
    BY <2>2, <2>3
  <2>5. Borne(k, FreshOf(k, g), A[k])
    BY <2>4, WorthOfKey
  <2> QED
    BY <1>4, <1>5, <2>3, <2>5
<1> QED
  BY <1>6, <1>7

\* The write that raised, too, raised because its value is invalid.
LEMMA FreshAnswer ==
    ASSUME IInv, OrderlyClass, FInv
    PROVE  AnswerIsFresh
<1> SUFFICES ASSUME Evaluating, Fresh[result.key] # Unknown
             PROVE  result.out = Fresh[result.key]
  BY DEF AnswerIsFresh
<1>1. result # NoResult
  BY DEF Evaluating, NoResult
<1>2. stack = <<>> /\ result.key \in Keys /\ result.out \in Value \cup {Err}
  BY <1>1 DEF FInv, IInv, CallsOK, ResultOK
<1>3. PICK S, A : Steady(S, A) /\ Told(S, A)
  BY DEF FInv
<1>4. PICK k \in Keys : k = result.key
  BY <1>2
<1>5. \A j \in S : Borne(j, Fresh[j], A[j])
  BY <1>2, <1>3, WorthsAreAnswers
<1>6. data[k] # Absent
  BY <1>3, <1>4 DEF Told
<1>7. \/ k \in S /\ A[k] = IF result.out = Err THEN Absent ELSE result.out
      \/ /\ result.out = Err /\ k \notin Getters
         /\ Inputs(k) \subseteq S /\ EvalItem(k, data[k], dv) = Err
  BY <1>3, <1>4 DEF Told
<1>8. CASE k \in S /\ A[k] = IF result.out = Err THEN Absent ELSE result.out
  <2>1. Borne(k, Fresh[k], A[k])
    BY <1>5, <1>8
  <2>2. result.out # Absent
    BY <1>2, SentinelAssumption DEF Value
  <2> QED
    BY <1>4, <1>6, <1>8, <2>1, <2>2 DEF Borne
<1>9. CASE /\ result.out = Err /\ k \notin Getters
           /\ Inputs(k) \subseteq S /\ EvalItem(k, data[k], dv) = Err
  <2>1. Fresh[k] = FreshOf(k, Fresh)
    BY FreshUnfolds
  <2>2. ~\E j \in Inputs(k) : Fresh[j] \in {Absent, Err, Unknown}
    BY <1>4, <1>6, <2>1, FreshCases
  <2>3. /\ ~(NoneIsAmbiguous(k) \/ (k \in Additional /\ ~lazy))
        /\ Fresh[k] = EvalItem(k, data[k], Found(k, Fresh))
    BY <1>4, <1>6, <1>9, <2>1, <2>2, FreshCases
  <2>4. A \in Env /\ dv \in Env
    BY <1>3 DEF Steady, IInv, MapsOK, Env
  <2>5. ASSUME NEW j \in Inputs(k) PROVE Fresh[j] = A[j] /\ dv[j] = A[j]
    <3>1. j \in S /\ Borne(j, Fresh[j], A[j])
      BY <1>5, <1>9
    <3>2. Fresh[j] = A[j] /\ A[j] # Absent
      BY <2>2, <3>1 DEF Borne
    <3> QED
      BY <1>3, <3>1, <3>2, AnsweredIsCached
  <2>6. PICK e \in Env : e = Found(k, A)
    BY <2>4, FoundType
  <2>7. Found(k, Fresh) = e
    BY <2>5, <2>6 DEF Found
  <2>8. \A j \in Inputs(k) : dv[j] = e[j]
    <3>1. Inputs(k) \subseteq Keys
      BY NeedsAreInputs
    <3> QED
      BY <2>5, <2>6, <3>1 DEF Found
  <2>9. Given(k, e) = data[k]
    BY <1>9 DEF Given
  <2>10. EvalItem(k, Given(k, e), dv) = EvalItem(k, Given(k, e), e)
    <3>1. EvalItem(k, Given(k, e), dv) = Err
      BY <1>9, <2>9
    <3> QED
      BY <1>6, <2>4, <2>8, <3>1, GivenSame
  <2> QED
    BY <1>4, <1>9, <2>3, <2>7, <2>9, <2>10
<1> QED
  BY <1>7, <1>8, <1>9

\* In an orderly class every read, and every write that evaluates, ends with
\* what the sources are then worth, however reads, writes, deletions, failures
\* and reads inside reads followed each other (__get__, __set__, _is_outdated,
\* _items_inputs_evaluate, _items_touch).
THEOREM AnswersAreFresh ==
    ASSUME OrderlyClass
    PROVE  Spec => []AnswerIsFresh
<1>1. Init => IInv /\ FInv
  BY InitOK, InitFresh
<1>2. IInv /\ FInv /\ [Next]_vars => (IInv /\ FInv)'
  BY NextOK, NextFresh
<1>3. IInv /\ FInv => AnswerIsFresh
  BY FreshAnswer
<1> QED
  BY <1>1, <1>2, <1>3, PTL DEF Spec
=============================================================================
