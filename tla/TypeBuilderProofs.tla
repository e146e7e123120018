-------------------------- MODULE TypeBuilderProofs --------------------------
(***************************************************************************)
(* Proofs about TypeBuilder, for any schemas, documents and calls.         *)
(*                                                                         *)
(* The inductive invariant is IInv.  Typing needs to know that a frame has *)
(* got as many classes as it has calls behind it, or the bases of a class  *)
(* could not be told from the answers (StackOK); that no id is entered     *)
(* twice needs that what is being built is marked; that a marked id has no *)
(* class needs both, for Finish unmarks exactly the id it registers.       *)
(***************************************************************************)
EXTENDS TypeBuilder, SequenceTheorems, FiniteSetTheorems, WellFoundedInduction, TLAPS

StackOK(s, n) ==
    /\ s \in Seq(FrameSpace(n))
    /\ s # <<>> => s[1].id = None
    /\ \A i \in 2..Len(s) : s[i].id \in Ids /\ Len(s[i].got) + Len(s[i].todo) = Len(CallsOf(s[i].id))
    /\ \A i \in 1..Len(s) - 1 : s[i].todo # <<>>
    /\ \A i, j \in 2..Len(s) : s[i].id = s[j].id => i = j

Marked(s, ids) == \A i \in 2..Len(s) : s[i].id \in ids

IInv ==
    /\ TypeOK
    /\ StackOK(stack, Len(made))
    /\ Marked(stack, underConstruction)
    /\ MarkedIsUnregistered

-----------------------------------------------------------------------------
(* What schemas ask for *)

LEMMA SchemaType ==
    ASSUME NEW id \in Ids
    PROVE  Schema[id] \in SchemaSpace
BY SchemaAssumption

LEMMA LoadsType ==
    ASSUME NEW s \in Seq(Ids)
    PROVE  /\ Loads(s) \in Seq(CallSpace) /\ Len(Loads(s)) = Len(s)
           /\ Builds(s) \in Seq(CallSpace) /\ Len(Builds(s)) = Len(s)
<1>1. DOMAIN s = 1..Len(s) /\ Len(s) \in Nat /\ \A i \in 1..Len(s) : s[i] \in Ids
  BY LenProperties
<1>2. \A i \in 1..Len(s) : Load(s[i]) \in CallSpace /\ Build(s[i]) \in CallSpace
  BY <1>1 DEF Load, Build, CallSpace
<1>3. Loads(s) \in [1..Len(s) -> CallSpace] /\ Builds(s) \in [1..Len(s) -> CallSpace]
  BY <1>1, <1>2 DEF Loads, Builds
<1>4. Loads(s) \in Seq(CallSpace) /\ Builds(s) \in Seq(CallSpace)
  BY <1>1, <1>3, SeqDef
<1> QED
  BY <1>1, <1>3, <1>4, LenProperties

LEMMA MaybeType ==
    ASSUME NEW id \in Ids \cup {None}
    PROVE  /\ Maybe(id) \in Seq(CallSpace) /\ Len(Maybe(id)) \in 0..1
           /\ id # None => Len(Maybe(id)) = 1
<1>1. CASE id = None
  BY <1>1, EmptySeq DEF Maybe
<1>2. CASE id # None
  <2>1. Load(id) \in CallSpace
    BY <1>2 DEF Load, CallSpace
  <2>2. Maybe(id) = <<Load(id)>>
    BY <1>2 DEF Maybe
  <2> QED
    BY <2>1, <2>2, <1>2
<1> QED
  BY <1>1, <1>2

\* The calls of a schema are calls, those for its bases come first.
LEMMA CallsType ==
    ASSUME NEW id \in Ids
    PROVE  /\ CallsOf(id) \in Seq(CallSpace)
           /\ Same(id) => Len(CallsOf(id)) >= 1
           /\ ~Same(id) => Parents(id) \in 0..Len(CallsOf(id))
<1> DEFINE s == Schema[id]
<1>1. /\ s.kind \in {"alias", "object", "array", "literal", "constant"}
      /\ s.target \in Ids \cup {None} /\ s.foreign \in Ids \cup {None}
      /\ s.extends \in Seq(Ids) /\ s.defs \in Seq(Ids) /\ s.parts \in Seq(Ids) /\ s.related \in Seq(Ids)
      /\ s.more \in BOOLEAN
  BY SchemaType DEF SchemaSpace
<1>2. /\ Loads(s.extends) \in Seq(CallSpace) /\ Len(Loads(s.extends)) = Len(s.extends)
      /\ Loads(s.defs) \in Seq(CallSpace) /\ Loads(s.related) \in Seq(CallSpace)
      /\ Builds(s.parts) \in Seq(CallSpace)
  BY <1>1, LoadsType
<1>3. /\ Maybe(s.target) \in Seq(CallSpace) /\ Maybe(s.foreign) \in Seq(CallSpace)
      /\ s.target # None => Len(Maybe(s.target)) = 1
  BY <1>1, MaybeType
<1>4. Len(s.extends) \in Nat
  BY <1>1, LenProperties
<1>5. /\ LiteralCalls(s) \in Seq(CallSpace)
      /\ Len(LiteralCalls(s)) >= Len(s.extends)
  BY <1>2, <1>3, <1>4, ConcatProperties, LenProperties DEF LiteralCalls
<1>6. CASE s.kind = "alias"
  <2>1. s.target # None
    BY <1>6, AliasAssumption
  <2>2. CallsOf(id) = Maybe(s.target) \o (IF s.more THEN LiteralCalls(s) ELSE <<>>)
    BY <1>6 DEF CallsOf
  <2>3. Parents(id) = 1 + Len(s.extends) /\ (Same(id) <=> ~s.more)
    BY <1>6 DEF Parents, Same
  <2>4. CASE s.more
    BY <2>1, <2>2, <2>3, <2>4, <1>3, <1>4, <1>5, ConcatProperties, LenProperties
  <2>5. CASE ~s.more
    <3>1. CallsOf(id) = Maybe(s.target)
      BY <2>2, <2>5, <1>3, ConcatEmptySeq
    <3>2. Same(id)
      BY <2>3, <2>5
    <3>3. Len(CallsOf(id)) = 1 /\ CallsOf(id) \in Seq(CallSpace)
      BY <3>1, <2>1, <1>3
    <3> QED
      BY <3>2, <3>3
  <2> QED
    BY <2>4, <2>5, <1>1
<1>7. CASE s.kind = "object"
  <2>1. /\ CallsOf(id) = ObjectCalls(s)
        /\ Parents(id) = Len(s.extends)
        /\ ~Same(id)
    BY <1>7 DEF CallsOf, Parents, Same
  <2> DEFINE t == Loads(s.extends) \o Loads(s.defs)
             u == t \o Builds(s.parts)
  <2>2. t \in Seq(CallSpace) /\ Len(t) >= Len(s.extends)
    BY <1>2, <1>4, ConcatProperties, LenProperties
  <2>3. u \in Seq(CallSpace) /\ Len(u) >= Len(t)
    BY <1>2, <2>2, ConcatProperties, LenProperties
  <2>4. u \o Loads(s.related) \in Seq(CallSpace) /\ Len(u \o Loads(s.related)) >= Len(u)
    BY <1>2, <2>3, ConcatProperties, LenProperties
  <2>5. ObjectCalls(s) = u \o Loads(s.related)
    BY DEF ObjectCalls
  <2>6. Len(t) \in Nat /\ Len(u) \in Nat /\ Len(CallsOf(id)) \in Nat
    BY <2>1, <2>2, <2>3, <2>4, <2>5, LenProperties
  <2> QED
    BY <2>1, <2>2, <2>3, <2>4, <2>5, <2>6, <1>4
<1>8. CASE s.kind = "literal"
  <2>1. CallsOf(id) = LiteralCalls(s) /\ Parents(id) = Len(s.extends) /\ ~Same(id)
    BY <1>8 DEF CallsOf, Parents, Same
  <2> QED
    BY <2>1, <1>4, <1>5, LenProperties
<1>9. CASE s.kind = "array"
  <2>1. CallsOf(id) = Builds(s.parts) /\ Parents(id) = 0 /\ ~Same(id)
    BY <1>9 DEF CallsOf, Parents, Same
  <2> QED
    BY <2>1, <1>2, LenProperties
<1>10. CASE s.kind = "constant"
  <2>1. CallsOf(id) = <<>> /\ Parents(id) = 0 /\ ~Same(id)
    BY <1>10 DEF CallsOf, Parents, Same
  <2> QED
    BY <2>1, EmptySeq
<1> QED
  BY <1>1, <1>6, <1>7, <1>8, <1>9, <1>10

-----------------------------------------------------------------------------
(* What happens to the stack *)

LEMMA FrameGrows ==
    ASSUME NEW n \in Nat, NEW m \in Nat, n <= m
    PROVE  /\ FrameSpace(n) \subseteq FrameSpace(m)
           /\ ClassSpace(n) \subseteq ClassSpace(m)
<1>1. 1..n \subseteq 1..m
  OBVIOUS
<1>2. Seq(1..n) \subseteq Seq(1..m)
  BY <1>1, SeqMonotonic
<1> QED
  BY <1>2 DEF FrameSpace, ClassSpace

LEMMA StackGrows ==
    ASSUME NEW n \in Nat, NEW m \in Nat, n <= m, NEW s, StackOK(s, n)
    PROVE  StackOK(s, m)
<1>1. s \in Seq(FrameSpace(m))
  BY FrameGrows, SeqMonotonic DEF StackOK
<1> QED
  BY <1>1 DEF StackOK

\* A frame that takes an answer keeps its id, and counts one call less to make.
LEMMA AnsweredFrame ==
    ASSUME NEW n \in Nat, NEW f \in FrameSpace(n), f.todo # <<>>, NEW c \in 1..n
    PROVE  /\ Answered(f, c) \in FrameSpace(n) /\ Answered(f, c).id = f.id
           /\ Len(Answered(f, c).got) + Len(Answered(f, c).todo) = Len(f.got) + Len(f.todo)
<1>1. /\ f.todo \in Seq(CallSpace) /\ f.got \in Seq(1..n)
      /\ f.id \in Ids \cup {None}
  BY DEF FrameSpace
<1>2. Tail(f.todo) \in Seq(CallSpace) /\ Len(Tail(f.todo)) = Len(f.todo) - 1
  BY <1>1, HeadTailProperties
<1>3. Append(f.got, c) \in Seq(1..n) /\ Len(Append(f.got, c)) = Len(f.got) + 1
  BY <1>1
<1>4. Len(f.got) \in Nat /\ Len(f.todo) \in Nat
  BY <1>1, LenProperties
<1>5. Answered(f, c) \in FrameSpace(n)
  BY <1>1, <1>2, <1>3 DEF FrameSpace, Answered
<1>6. \A a, b \in Nat : (a + 1) + (b - 1) = a + b
  OBVIOUS
<1>7. Len(Append(f.got, c)) + Len(Tail(f.todo)) = Len(f.got) + Len(f.todo)
  BY <1>2, <1>3, <1>4, <1>6, Zenon
<1>8. /\ Answered(f, c).id = f.id /\ Answered(f, c).todo = Tail(f.todo)
      /\ Answered(f, c).got = Append(f.got, c)
  BY DEF Answered
<1> QED
  BY <1>5, <1>7, <1>8, Zenon

LEMMA FrontProperties ==
    ASSUME NEW S, NEW s \in Seq(S), s # <<>>
    PROVE  /\ Front(s) \in Seq(S) /\ Len(Front(s)) = Len(s) - 1 /\ Len(s) \in Nat \ {0}
           /\ \A i \in 1..Len(s) - 1 : Front(s)[i] = s[i]
           /\ Last(s) = s[Len(s)] /\ Last(s) \in S
<1>1. Len(s) \in Nat \ {0} /\ \A i \in 1..Len(s) : s[i] \in S
  BY EmptySeq, ElementOfSeq
<1>2. /\ Front(s) \in Seq(S)
      /\ Len(Front(s)) = IF 1 <= Len(s) - 1 THEN Len(s) - 1 - 1 + 1 ELSE 0
      /\ \A i \in 1..(Len(s) - 1) - 1 + 1 : Front(s)[i] = s[1 + i - 1]
  BY <1>1, SubSeqProperties DEF Front
<1>3. Len(Front(s)) = Len(s) - 1
  <2>1. CASE Len(s) = 1
    BY <1>2, <2>1
  <2>2. CASE Len(s) # 1
    <3>1. \A l \in Nat \ {0} : l # 1 => 1 <= l - 1 /\ l - 1 - 1 + 1 = l - 1
      OBVIOUS
    <3>2. 1 <= Len(s) - 1 /\ Len(s) - 1 - 1 + 1 = Len(s) - 1
      BY <1>1, <2>2, <3>1, Zenon
    <3> QED
      BY <1>2, <3>2, Zenon
  <2> QED
    BY <2>1, <2>2
<1>4. ASSUME NEW i \in 1..Len(s) - 1
      PROVE  Front(s)[i] = s[i]
  <2>1. i \in 1..(Len(s) - 1) - 1 + 1 /\ 1 + i - 1 = i
    BY <1>1
  <2> QED
    BY <1>2, <2>1
<1>5. Last(s) = s[Len(s)] /\ Last(s) \in S
  BY <1>1 DEF Last
<1> QED
  BY <1>1, <1>2, <1>3, <1>4, <1>5

LEMMA ReceivedProperties ==
    ASSUME NEW n \in Nat, NEW s, StackOK(s, n), s # <<>>, Last(s).todo # <<>>, NEW c \in 1..n
    PROVE  /\ StackOK(Received(s, c), n)
           /\ Len(Received(s, c)) = Len(s)
           /\ \A i \in 1..Len(s) : Received(s, c)[i].id = s[i].id
<1> DEFINE F == FrameSpace(n)
           g == Answered(Last(s), c)
           r == Received(s, c)
<1>1. s \in Seq(F)
  BY DEF StackOK
<1>2. /\ Front(s) \in Seq(F) /\ Len(Front(s)) = Len(s) - 1 /\ Len(s) \in Nat \ {0}
      /\ \A i \in 1..Len(s) - 1 : Front(s)[i] = s[i]
      /\ Last(s) = s[Len(s)] /\ Last(s) \in F
  BY <1>1, FrontProperties
<1>3. g \in F /\ g.id = Last(s).id /\ Len(g.got) + Len(g.todo) = Len(Last(s).got) + Len(Last(s).todo)
  <2>1. Last(s) \in FrameSpace(n)
    BY <1>2
  <2>2. Last(s).todo # <<>> /\ c \in 1..n /\ n \in Nat
    OBVIOUS
  <2> QED
    BY <2>1, <2>2, AnsweredFrame
<1>4. r = Append(Front(s), g)
  BY DEF Received
<1> HIDE DEF g, r, F
<1>5. /\ r \in Seq(F) /\ Len(r) = Len(s)
      /\ \A i \in 1..Len(s) - 1 : r[i] = s[i]
      /\ r[Len(s)] = g
  BY <1>2, <1>3, <1>4
<1>6. ASSUME NEW i \in 1..Len(s)
      PROVE  r[i].id = s[i].id /\ Len(r[i].got) + Len(r[i].todo) = Len(s[i].got) + Len(s[i].todo)
  <2>1. CASE i = Len(s)
    BY <1>2, <1>3, <1>5, <2>1, Zenon
  <2>2. CASE i # Len(s)
    <3>1. i \in 1..Len(s) - 1
      BY <1>2, <2>2
    <3> QED
      BY <1>5, <3>1, Zenon
  <2> QED
    BY <2>1, <2>2
<1>7. /\ s[1].id = None
      /\ \A i \in 2..Len(s) : s[i].id \in Ids /\ Len(s[i].got) + Len(s[i].todo) = Len(CallsOf(s[i].id))
      /\ \A i \in 1..Len(s) - 1 : s[i].todo # <<>>
      /\ \A i, j \in 2..Len(s) : s[i].id = s[j].id => i = j
  BY DEF StackOK
<1>8. /\ r[1].id = None
      /\ \A i \in 2..Len(r) : r[i].id \in Ids /\ Len(r[i].got) + Len(r[i].todo) = Len(CallsOf(r[i].id))
      /\ \A i \in 1..Len(r) - 1 : r[i].todo # <<>>
      /\ \A i, j \in 2..Len(r) : r[i].id = r[j].id => i = j
  <2>0. 1 \in 1..Len(s)
    BY <1>2
  <2>1. r[1].id = None
    BY <1>6, <1>7, <2>0
  <2>2. \A i \in 2..Len(r) : i \in 1..Len(s) /\ i \in 2..Len(s)
    BY <1>2, <1>5
  <2>3. \A i \in 2..Len(r) : r[i].id \in Ids /\ Len(r[i].got) + Len(r[i].todo) = Len(CallsOf(r[i].id))
    BY <1>6, <1>7, <2>2, Zenon
  <2>4. \A i \in 1..Len(r) - 1 : r[i].todo # <<>>
    BY <1>5, <1>7
  <2>5. \A i, j \in 2..Len(r) : r[i].id = r[j].id => i = j
    BY <1>6, <1>7, <2>2, Zenon
  <2> QED
    BY <2>1, <2>3, <2>4, <2>5
<1>9. StackOK(r, n)
  BY <1>5, <1>8 DEF StackOK, F
<1> QED
  BY <1>5, <1>6, <1>9 DEF r

\* Without its top frame a stack is a stack, and the frame below waits for a call.
LEMMA FrontOK ==
    ASSUME NEW n \in Nat, NEW s, StackOK(s, n), s # <<>>, Last(s).id # None
    PROVE  /\ StackOK(Front(s), n) /\ Front(s) # <<>> /\ Last(Front(s)).todo # <<>>
           /\ Len(s) \in Nat /\ Len(s) >= 2 /\ Len(Front(s)) = Len(s) - 1
           /\ \A i \in 1..Len(s) - 1 : Front(s)[i] = s[i]
           /\ Last(s) = s[Len(s)]
<1> DEFINE F == FrameSpace(n)
           t == Front(s)
<1>1. s \in Seq(F)
  BY DEF StackOK
<1>2. /\ t \in Seq(F) /\ Len(t) = Len(s) - 1 /\ Len(s) \in Nat \ {0}
      /\ \A i \in 1..Len(s) - 1 : t[i] = s[i]
      /\ Last(s) = s[Len(s)]
  BY <1>1, FrontProperties
<1>3. /\ s[1].id = None
      /\ \A i \in 2..Len(s) : s[i].id \in Ids /\ Len(s[i].got) + Len(s[i].todo) = Len(CallsOf(s[i].id))
      /\ \A i \in 1..Len(s) - 1 : s[i].todo # <<>>
      /\ \A i, j \in 2..Len(s) : s[i].id = s[j].id => i = j
  BY DEF StackOK
<1> HIDE DEF t, F
<1>4. Len(s) >= 2
  BY <1>2, <1>3
<1>5. t # <<>>
  BY <1>2, <1>4, EmptySeq
<1>6. /\ t[1].id = None
      /\ \A i \in 2..Len(t) : t[i].id \in Ids /\ Len(t[i].got) + Len(t[i].todo) = Len(CallsOf(t[i].id))
      /\ \A i \in 1..Len(t) - 1 : t[i].todo # <<>>
      /\ \A i, j \in 2..Len(t) : t[i].id = t[j].id => i = j
  <2>1. \A i \in 2..Len(t) : i \in 1..Len(s) - 1 /\ i \in 2..Len(s)
    BY <1>2
  <2>2. t[1].id = None
    BY <1>2, <1>3, <1>4
  <2>3. \A i \in 2..Len(t) : t[i].id \in Ids /\ Len(t[i].got) + Len(t[i].todo) = Len(CallsOf(t[i].id))
    BY <1>2, <1>3, <2>1, Zenon
  <2>4. \A i \in 1..Len(t) - 1 : t[i].todo # <<>>
    BY <1>2, <1>3
  <2>5. \A i, j \in 2..Len(t) : t[i].id = t[j].id => i = j
    BY <1>2, <1>3, <2>1, Zenon
  <2> QED
    BY <2>2, <2>3, <2>4, <2>5
<1>7. StackOK(t, n)
  BY <1>2, <1>6 DEF StackOK, F
<1>8. Last(t) = t[Len(s) - 1]
  BY <1>2 DEF Last
<1>9. Last(t).todo # <<>>
  BY <1>2, <1>3, <1>4, <1>8
<1> QED
  BY <1>2, <1>4, <1>5, <1>7, <1>9 DEF t

\* A new frame for an id that is not being built.
LEMMA PushOK ==
    ASSUME NEW n \in Nat, NEW s, StackOK(s, n), s # <<>>, Last(s).todo # <<>>, NEW id \in Ids,
           \A i \in 2..Len(s) : s[i].id # id
    PROVE  LET r == Append(s, Frame(id, CallsOf(id)))
           IN  /\ StackOK(r, n) /\ Len(r) = Len(s) + 1 /\ Len(s) \in Nat \ {0}
               /\ \A i \in 1..Len(s) : r[i] = s[i]
               /\ r[Len(s) + 1].id = id
<1> DEFINE F == FrameSpace(n)
           g == Frame(id, CallsOf(id))
           r == Append(s, g)
<1>1. s \in Seq(F)
  BY DEF StackOK
<1>2. Len(s) \in Nat \ {0}
  BY <1>1, EmptySeq
<1>3. CallsOf(id) \in Seq(CallSpace) /\ Len(CallsOf(id)) \in Nat
  BY CallsType, LenProperties
<1>4. g \in F /\ g.id = id /\ Len(g.got) + Len(g.todo) = Len(CallsOf(id))
  BY <1>3, EmptySeq DEF Frame, FrameSpace
<1>5. Last(s) = s[Len(s)]
  BY DEF Last
<1>6. /\ s[1].id = None
      /\ \A i \in 2..Len(s) : s[i].id \in Ids /\ Len(s[i].got) + Len(s[i].todo) = Len(CallsOf(s[i].id))
      /\ \A i \in 1..Len(s) - 1 : s[i].todo # <<>>
      /\ \A i, j \in 2..Len(s) : s[i].id = s[j].id => i = j
  BY DEF StackOK
<1> HIDE DEF g, F
<1>7. /\ r \in Seq(F) /\ Len(r) = Len(s) + 1
      /\ \A i \in 1..Len(s) : r[i] = s[i]
      /\ r[Len(s) + 1] = g
  BY <1>1, <1>2, <1>4
<1> HIDE DEF r
<1>8. /\ r # <<>> => r[1].id = None
      /\ \A i \in 1..Len(r) - 1 : r[i].todo # <<>>
  BY <1>2, <1>5, <1>6, <1>7
<1>9. \A i \in 2..Len(r) : r[i].id \in Ids /\ Len(r[i].got) + Len(r[i].todo) = Len(CallsOf(r[i].id))
  <2>1. \A i \in 2..Len(r) : i = Len(s) + 1 \/ (i \in 1..Len(s) /\ i \in 2..Len(s))
    BY <1>2, <1>7
  <2> QED
    BY <1>4, <1>6, <1>7, <2>1, Zenon
<1>10. \A i, j \in 2..Len(r) : r[i].id = r[j].id => i = j
  <2>1. \A i \in 2..Len(r) : i = Len(s) + 1 \/ (i \in 1..Len(s) /\ i \in 2..Len(s))
    BY <1>2, <1>7
  <2> QED
    BY <1>4, <1>6, <1>7, <2>1, Zenon
<1>11. StackOK(r, n)
  BY <1>7, <1>8, <1>9, <1>10 DEF StackOK, F
<1> QED
  BY <1>2, <1>4, <1>7, <1>11 DEF r, g

LEMMA MadeGrows ==
    ASSUME NEW m, m \in Seq(ClassSpace(Len(m))), NEW r \in ClassSpace(Len(m) + 1)
    PROVE  /\ Append(m, r) \in Seq(ClassSpace(Len(Append(m, r))))
           /\ Len(Append(m, r)) = Len(m) + 1 /\ Len(m) \in Nat
<1>1. Len(m) \in Nat
  BY LenProperties
<1>2. ClassSpace(Len(m)) \subseteq ClassSpace(Len(m) + 1)
  BY <1>1, FrameGrows
<1>3. m \in Seq(ClassSpace(Len(m) + 1))
  BY <1>2, SeqMonotonic
<1>4. Append(m, r) \in Seq(ClassSpace(Len(m) + 1)) /\ Len(Append(m, r)) = Len(m) + 1
  BY <1>3
<1> QED
  BY <1>1, <1>4

-----------------------------------------------------------------------------
(* The invariant is kept, one lemma for each step *)

LEMMA InitIInv == Init => IInv
<1> SUFFICES ASSUME Init
             PROVE  IInv
  OBVIOUS
<1>1. Len(made) = 0 /\ Len(stack) = 0 /\ made = <<>> /\ stack = <<>>
  BY DEF Init
<1>2. TypeOK
  <2>1. made \in Seq(ClassSpace(Len(made))) /\ stack \in Seq(FrameSpace(Len(made)))
    BY <1>1, EmptySeq
  <2>2. registry \in [Ids -> 1..Len(made) \cup {None}]
    BY DEF Init
  <2> QED
    BY <2>1, <2>2, SchemaAssumption DEF Init, TypeOK
<1>3. StackOK(stack, Len(made))
  BY <1>1, <1>2 DEF StackOK, TypeOK
<1>4. Marked(stack, underConstruction) /\ MarkedIsUnregistered
  BY <1>1 DEF Init, Marked, MarkedIsUnregistered
<1> QED
  BY <1>2, <1>3, <1>4 DEF IInv

\* What a waiting call knows.
LEMMA RunningFacts ==
    ASSUME IInv, Running
    PROVE  /\ Len(made) \in Nat /\ stack # <<>> /\ Last(stack).todo # <<>>
           /\ Asked \in CallSpace /\ Asked.id \in Ids
<1>1. Len(made) \in Nat
  BY LenProperties DEF IInv, TypeOK
<1>2. stack # <<>> /\ Last(stack).todo # <<>>
  BY DEF Running, Idle, Top
<1>3. Last(stack) \in FrameSpace(Len(made))
  BY <1>2, FrontProperties DEF IInv, TypeOK
<1>4. Last(stack).todo \in Seq(CallSpace)
  BY <1>3 DEF FrameSpace
<1>5. Asked \in CallSpace
  BY <1>2, <1>4, HeadTailProperties DEF Asked, Top
<1> QED
  BY <1>1, <1>2, <1>5 DEF CallSpace

\* An answer to the call in progress leaves the stack in order and marked.
LEMMA AnswerOK ==
    ASSUME IInv, Running, NEW n \in Nat, Len(made) <= n, NEW c \in 1..n
    PROVE  StackOK(Received(stack, c), n) /\ Marked(Received(stack, c), underConstruction)
<1>1. StackOK(stack, n)
  BY RunningFacts, StackGrows DEF IInv
<1>2. /\ StackOK(Received(stack, c), n) /\ Len(Received(stack, c)) = Len(stack)
      /\ \A i \in 1..Len(stack) : Received(stack, c)[i].id = stack[i].id
  BY <1>1, RunningFacts, ReceivedProperties
<1>3. \A i \in 2..Len(stack) : i \in 1..Len(stack)
  OBVIOUS
<1> QED
  BY <1>2, <1>3, Zenon DEF IInv, Marked

LEMMA FoundKeeps ==
    ASSUME IInv, Found
    PROVE  IInv'
<1>1. Running /\ Asked.id \in Ids /\ Len(made) \in Nat
  BY RunningFacts DEF Found
<1>2. registry[Asked.id] \in 1..Len(made)
  BY <1>1 DEF Found, Unregistered, IInv, TypeOK
<1>3. StackOK(stack', Len(made)) /\ Marked(stack', underConstruction)
  BY <1>1, <1>2, AnswerOK DEF Found
<1>4. UNCHANGED <<docs, registry, underConstruction, made, calls>>
  BY DEF Found
<1>5. TypeOK'
  BY <1>3, <1>4 DEF IInv, TypeOK, StackOK
<1> QED
  BY <1>3, <1>4, <1>5 DEF IInv, MarkedIsUnregistered

\* A proxy or a constant is one more class, and the answer.
LEMMA NewAnswerOK ==
    ASSUME IInv, Running, NEW what \in {"proxy", "constant"},
           made' = Append(made, [id |-> Asked.id, what |-> what, bases |-> <<>>, parts |-> <<>>]),
           stack' = Received(stack, Len(made'))
    PROVE  /\ made' \in Seq(ClassSpace(Len(made')))
           /\ Len(made') = Len(made) + 1 /\ Len(made) \in Nat
           /\ StackOK(stack', Len(made')) /\ Marked(stack', underConstruction)
<1> DEFINE r == [id |-> Asked.id, what |-> what, bases |-> <<>>, parts |-> <<>>]
<1>1. r \in ClassSpace(Len(made) + 1)
  BY RunningFacts, EmptySeq DEF ClassSpace
<1>2. made \in Seq(ClassSpace(Len(made)))
  BY DEF IInv, TypeOK
<1> HIDE DEF r
<1>3. /\ made' \in Seq(ClassSpace(Len(made')))
      /\ Len(made') = Len(made) + 1 /\ Len(made) \in Nat
  BY <1>1, <1>2, MadeGrows DEF r
<1>4. Len(made') \in Nat /\ Len(made) <= Len(made') /\ Len(made') \in 1..Len(made')
  BY <1>3
<1> QED
  BY <1>3, <1>4, AnswerOK

LEMMA ProxiedKeeps ==
    ASSUME IInv, Proxied
    PROVE  IInv'
<1>1. UNCHANGED <<docs, registry, underConstruction, calls>>
  BY DEF Proxied
<1>2. /\ made' \in Seq(ClassSpace(Len(made')))
      /\ Len(made') = Len(made) + 1 /\ Len(made) \in Nat
      /\ StackOK(stack', Len(made')) /\ Marked(stack', underConstruction)
  BY NewAnswerOK DEF Proxied, Met
<1>3. registry \in [Ids -> 1..Len(made') \cup {None}]
  BY <1>2 DEF IInv, TypeOK
<1>4. TypeOK'
  BY <1>1, <1>2, <1>3 DEF IInv, TypeOK, StackOK
<1> QED
  BY <1>1, <1>2, <1>4 DEF IInv, MarkedIsUnregistered

LEMMA ConstantKeeps ==
    ASSUME IInv, Constant
    PROVE  IInv'
<1>1. UNCHANGED <<docs, underConstruction, calls>>
  BY DEF Constant
<1>2. /\ made' \in Seq(ClassSpace(Len(made')))
      /\ Len(made') = Len(made) + 1 /\ Len(made) \in Nat
      /\ StackOK(stack', Len(made')) /\ Marked(stack', underConstruction)
  BY NewAnswerOK DEF Constant
<1>3. Asked.id \in Ids /\ Asked.id \notin underConstruction
  BY RunningFacts DEF Constant, Fresh
<1>4. registry' = IF Asked.op = "load" THEN [registry EXCEPT ![Asked.id] = Len(made')] ELSE registry
  BY DEF Constant
<1>5. registry' \in [Ids -> 1..Len(made') \cup {None}]
  <2>1. registry \in [Ids -> 1..Len(made') \cup {None}]
    BY <1>2 DEF IInv, TypeOK
  <2>2. Len(made') \in 1..Len(made')
    BY <1>2
  <2> QED
    BY <1>4, <2>1, <2>2
<1>6. TypeOK'
  BY <1>1, <1>2, <1>5 DEF IInv, TypeOK, StackOK
<1>7. MarkedIsUnregistered'
  BY <1>1, <1>3, <1>4 DEF IInv, TypeOK, MarkedIsUnregistered
<1> QED
  BY <1>1, <1>2, <1>6, <1>7 DEF IInv

LEMMA DescendKeeps ==
    ASSUME IInv, Descend
    PROVE  IInv'
<1>1. UNCHANGED <<docs, registry, made, calls>> /\ underConstruction' = underConstruction \cup {Asked.id}
  BY DEF Descend
<1>2. Asked.id \in Ids /\ registry[Asked.id] = None /\ Asked.id \notin underConstruction
  BY RunningFacts DEF Descend, Fresh, Unregistered
<1>3. \A i \in 2..Len(stack) : stack[i].id # Asked.id
  BY <1>2 DEF IInv, Marked
<1>4. StackOK(stack, Len(made)) /\ Len(made) \in Nat /\ stack # <<>> /\ Last(stack).todo # <<>>
  BY RunningFacts DEF IInv, Descend
<1>5. /\ StackOK(stack', Len(made)) /\ Len(stack') = Len(stack) + 1 /\ Len(stack) \in Nat \ {0}
      /\ \A i \in 1..Len(stack) : stack'[i] = stack[i]
      /\ stack'[Len(stack) + 1].id = Asked.id
  BY <1>2, <1>3, <1>4, PushOK DEF Descend
<1>6. Marked(stack', underConstruction')
  <2>1. \A i \in 2..Len(stack') : i = Len(stack) + 1 \/ (i \in 1..Len(stack) /\ i \in 2..Len(stack))
    BY <1>5
  <2> QED
    BY <2>1, <1>1, <1>5, Zenon DEF IInv, Marked
<1>7. TypeOK'
  BY <1>1, <1>2, <1>5 DEF IInv, TypeOK, StackOK
<1>8. MarkedIsUnregistered'
  BY <1>1, <1>2 DEF IInv, MarkedIsUnregistered
<1> QED
  BY <1>1, <1>5, <1>6, <1>7, <1>8 DEF IInv

\* What is known of a frame whose answers are all there.
LEMMA FinishingFacts ==
    ASSUME IInv, Finishing
    PROVE  /\ Top \in FrameSpace(Len(made)) /\ Top.id \in Ids /\ Len(made) \in Nat
           /\ Len(Top.got) = Len(CallsOf(Top.id))
           /\ stack # <<>> /\ Last(stack).id # None
           /\ \A i \in 2..Len(stack) - 1 : stack[i].id # Top.id
<1>1. Len(made) \in Nat
  BY LenProperties DEF IInv, TypeOK
<1>2. stack # <<>> /\ Top = Last(stack) /\ Top.todo = <<>> /\ Top.id # None
  BY DEF Finishing, Idle, Top
<1>3. /\ Len(stack) \in Nat /\ Len(stack) >= 2 /\ Top = stack[Len(stack)]
      /\ StackOK(stack, Len(made))
  BY <1>1, <1>2, FrontOK DEF IInv
<1>4. Len(stack) \in 2..Len(stack)
  BY <1>3
<1>5. Top.id \in Ids /\ Len(Top.got) + Len(Top.todo) = Len(CallsOf(Top.id))
  BY <1>3, <1>4, Zenon DEF StackOK
<1>6. Top \in FrameSpace(Len(made))
  BY <1>2, FrontProperties DEF IInv, TypeOK
<1>7. Len(Top.got) \in Nat /\ Len(Top.todo) = 0
  BY <1>2, <1>6, EmptySeq, LenProperties DEF FrameSpace
<1>8. Len(Top.got) = Len(CallsOf(Top.id))
  BY <1>5, <1>7
<1>9. ASSUME NEW i \in 2..Len(stack) - 1
      PROVE  stack[i].id # Top.id
  <2>1. i \in 2..Len(stack) /\ i # Len(stack)
    BY <1>3
  <2> QED
    BY <1>3, <1>4, <2>1, Zenon DEF StackOK
<1> QED
  BY <1>1, <1>2, <1>5, <1>6, <1>8, <1>9

\* The class made of a frame refers to classes made before.
LEMMA NewClassType ==
    ASSUME NEW n \in Nat, NEW f \in FrameSpace(n), f.id \in Ids,
           Len(f.got) = Len(CallsOf(f.id)), ~Same(f.id)
    PROVE  NewClass(f) \in ClassSpace(n + 1)
<1> DEFINE p == Parents(f.id)
<1>1. f.got \in Seq(1..n) /\ Len(f.got) \in Nat
  BY LenProperties DEF FrameSpace
<1>2. p \in 0..Len(f.got)
  BY CallsType
<1> HIDE DEF p
<1>3. f.got \in Seq(1..n + 1)
  <2>1. 1..n \subseteq 1..n + 1
    OBVIOUS
  <2> QED
    BY <1>1, <2>1, SeqMonotonic
<1>4. \A i \in 1..Len(f.got) : f.got[i] \in 1..n + 1
  BY <1>3, ElementOfSeq
<1>5. SubSeq(f.got, 1, p) \in Seq(1..n + 1)
  <2>1. \A i \in 1..p : f.got[i] \in 1..n + 1
    BY <1>1, <1>2, <1>4
  <2> QED
    BY <1>1, <1>2, <1>3, <2>1, SubSeqProperties
<1>6. SubSeq(f.got, p + 1, Len(f.got)) \in Seq(1..n + 1)
  <2>1. \A i \in p + 1..Len(f.got) : f.got[i] \in 1..n + 1
    BY <1>1, <1>2, <1>4
  <2> QED
    BY <1>1, <1>2, <1>3, <2>1, SubSeqProperties
<1>7. NewClass(f) = [id |-> f.id, what |-> "class", bases |-> SubSeq(f.got, 1, p),
                     parts |-> SubSeq(f.got, p + 1, Len(f.got))]
  BY DEF NewClass, p
<1> QED
  BY <1>5, <1>6, <1>7 DEF ClassSpace

LEMMA FinishKeeps ==
    ASSUME IInv, Finish
    PROVE  IInv'
<1> DEFINE f == Top
           t == Front(stack)
           c == IF Same(f.id) THEN f.got[1] ELSE Len(made')
<1>1. /\ f \in FrameSpace(Len(made)) /\ f.id \in Ids /\ Len(made) \in Nat
      /\ Len(f.got) = Len(CallsOf(f.id))
      /\ stack # <<>> /\ Last(stack).id # None
      /\ \A i \in 2..Len(stack) - 1 : stack[i].id # f.id
  BY FinishingFacts DEF Finish
<1>2. /\ StackOK(t, Len(made)) /\ t # <<>> /\ Last(t).todo # <<>>
      /\ Len(stack) \in Nat /\ Len(t) = Len(stack) - 1
      /\ \A i \in 1..Len(stack) - 1 : t[i] = stack[i]
  <2>1. StackOK(stack, Len(made))
    BY DEF IInv
  <2> QED
    BY <1>1, <2>1, FrontOK
<1>3. /\ made' = IF Same(f.id) THEN made ELSE Append(made, NewClass(f))
      /\ registry' = [registry EXCEPT ![f.id] = c]
      /\ stack' = Received(t, c)
      /\ underConstruction' = underConstruction \ {f.id}
      /\ UNCHANGED <<docs, calls>>
  BY DEF Finish, Registered, Left
<1> HIDE DEF f, t
<1>4. /\ made' \in Seq(ClassSpace(Len(made'))) /\ Len(made') \in Nat /\ Len(made) <= Len(made')
      /\ c \in 1..Len(made')
  <2>0. made \in Seq(ClassSpace(Len(made)))
    BY DEF IInv, TypeOK
  <2>1. CASE Same(f.id)
    <3>1. Len(f.got) >= 1 /\ f.got \in Seq(1..Len(made))
      BY <1>1, <2>1, CallsType DEF FrameSpace
    <3>2. f.got[1] \in 1..Len(made)
      <4>1. Len(f.got) \in Nat
        BY <3>1, LenProperties
      <4>2. 1 \in 1..Len(f.got)
        BY <3>1, <4>1
      <4> QED
        BY <3>1, <4>2, ElementOfSeq
    <3> QED
      BY <1>1, <1>3, <2>0, <2>1, <3>2
  <2>2. CASE ~Same(f.id)
    <3>1. NewClass(f) \in ClassSpace(Len(made) + 1)
      BY <1>1, <2>2, NewClassType
    <3>2. made' = Append(made, NewClass(f))
      BY <1>3, <2>2
    <3>3. made' \in Seq(ClassSpace(Len(made'))) /\ Len(made') = Len(made) + 1
      BY <2>0, <3>1, <3>2, MadeGrows
    <3> QED
      BY <1>1, <2>2, <3>3
  <2> QED
    BY <2>1, <2>2
<1> HIDE DEF c
<1>5. /\ StackOK(stack', Len(made')) /\ Len(stack') = Len(t)
      /\ \A i \in 1..Len(t) : stack'[i].id = t[i].id
  <2>1. StackOK(t, Len(made'))
    BY <1>1, <1>2, <1>4, StackGrows
  <2> QED
    BY <1>2, <1>3, <1>4, <2>1, ReceivedProperties
<1>6. Marked(stack', underConstruction')
  <2>1. ASSUME NEW i \in 2..Len(stack')
        PROVE  stack'[i].id \in underConstruction'
    <3>1. i \in 2..Len(stack) - 1 /\ i \in 1..Len(t) /\ i \in 1..Len(stack) - 1 /\ i \in 2..Len(stack)
      BY <1>2, <1>5
    <3>2. stack'[i].id = stack[i].id /\ stack[i].id # f.id
      BY <1>1, <1>2, <1>5, <3>1, Zenon
    <3>3. stack[i].id \in underConstruction
      BY <3>1 DEF IInv, Marked
    <3> QED
      BY <1>3, <3>2, <3>3
  <2> QED
    BY <2>1 DEF Marked
<1>7. registry' \in [Ids -> 1..Len(made') \cup {None}]
  <2>1. registry \in [Ids -> 1..Len(made') \cup {None}]
    BY <1>1, <1>4 DEF IInv, TypeOK
  <2> QED
    BY <1>3, <1>4, <2>1
<1>8. TypeOK'
  BY <1>3, <1>4, <1>5, <1>7 DEF IInv, TypeOK, StackOK
<1>9. MarkedIsUnregistered'
  BY <1>1, <1>3 DEF IInv, TypeOK, MarkedIsUnregistered
<1> QED
  BY <1>5, <1>6, <1>8, <1>9 DEF IInv

\* An exception, or the program's own return.
LEMMA AbandonKeeps ==
    ASSUME IInv, Abandon
    PROVE  IInv'
<1>1. UNCHANGED <<docs, registry, underConstruction, made, calls>> /\ stack' = <<>>
  BY DEF Abandon
<1>2. stack' \in Seq(FrameSpace(Len(made))) /\ Len(stack') = 0
  BY <1>1, EmptySeq
<1>3. StackOK(stack', Len(made)) /\ Marked(stack', underConstruction)
  BY <1>1, <1>2 DEF StackOK, Marked
<1> QED
  BY <1>1, <1>2, <1>3 DEF IInv, TypeOK, MarkedIsUnregistered

\* The stack of a call of the program.
LEMMA CalledOK ==
    ASSUME NEW n \in Nat, NEW c \in CallSpace, NEW ids
    PROVE  /\ StackOK(<<Frame(None, <<c>>)>>, n) /\ Marked(<<Frame(None, <<c>>)>>, ids)
<1> DEFINE f == Frame(None, <<c>>)
           s == <<f>>
<1>1. f \in FrameSpace(n) /\ f.id = None
  BY EmptySeq DEF Frame, FrameSpace
<1> HIDE DEF f
<1>2. s \in Seq(FrameSpace(n)) /\ Len(s) = 1 /\ s[1] = f
  BY <1>1
<1> HIDE DEF s
<1>3. StackOK(s, n) /\ Marked(s, ids)
  BY <1>1, <1>2 DEF StackOK, Marked
<1> QED
  BY <1>3 DEF s, f

LEMMA CallKeeps ==
    ASSUME IInv, Call
    PROVE  IInv'
<1>0. Len(made) \in Nat
  BY LenProperties DEF IInv, TypeOK
<1>1. ASSUME NEW d \in Docs \ docs, RegisterDoc(d)
      PROVE  IInv'
  <2>1. /\ docs' = docs \cup {d} /\ calls < MaxCalls /\ calls' = calls + 1
        /\ UNCHANGED <<registry, underConstruction, made, stack>>
    BY <1>1 DEF RegisterDoc, Calling
  <2>2. TypeOK'
    BY <2>1, SchemaAssumption DEF IInv, TypeOK
  <2> QED
    BY <2>1, <2>2 DEF IInv, MarkedIsUnregistered
<1>2. ASSUME NEW id \in Named, LoadType(id)
      PROVE  IInv'
  <2>1. /\ stack' = <<Frame(None, <<Load(id)>>)>> /\ calls < MaxCalls /\ calls' = calls + 1
        /\ UNCHANGED <<docs, registry, underConstruction, made>>
    BY <1>2 DEF LoadType, Calling
  <2>2. Load(id) \in CallSpace
    BY IdsAssumption DEF Load, CallSpace
  <2>3. StackOK(stack', Len(made)) /\ Marked(stack', underConstruction)
    BY <1>0, <2>1, <2>2, CalledOK
  <2>4. TypeOK'
    BY <2>1, <2>3, SchemaAssumption DEF IInv, TypeOK, StackOK
  <2> QED
    BY <2>1, <2>3, <2>4 DEF IInv, MarkedIsUnregistered
<1>3. ASSUME NEW id \in Redefined, DefineClass(id)
      PROVE  IInv'
  <2>1. /\ stack' = <<Frame(None, <<Build(id)>>)>> /\ calls < MaxCalls /\ calls' = calls + 1
        /\ registry' = [registry EXCEPT ![id] = None]
        /\ UNCHANGED <<docs, underConstruction, made>>
    BY <1>3 DEF DefineClass, Calling
  <2>2. Build(id) \in CallSpace
    BY IdsAssumption DEF Build, CallSpace
  <2>3. StackOK(stack', Len(made)) /\ Marked(stack', underConstruction)
    BY <1>0, <2>1, <2>2, CalledOK
  <2>4. TypeOK'
    <3>1. registry' \in [Ids -> 1..Len(made) \cup {None}]
      BY <2>1 DEF IInv, TypeOK
    <3>2. stack' \in Seq(FrameSpace(Len(made)))
      BY <2>3 DEF StackOK
    <3>3. calls' \in 0..MaxCalls
      BY <2>1, SchemaAssumption DEF IInv, TypeOK
    <3> QED
      BY <2>1, <3>1, <3>2, <3>3 DEF IInv, TypeOK
  <2>5. MarkedIsUnregistered'
    BY <2>1 DEF IInv, TypeOK, MarkedIsUnregistered
  <2> QED
    BY <2>1, <2>3, <2>4, <2>5 DEF IInv
<1> QED
  BY <1>1, <1>2, <1>3 DEF Call

-----------------------------------------------------------------------------
(* Classes are registered, and proxies find them                            *)

\* The program has dropped the class of id, and is about to build it again.
Rebuilding(id) == ~Idle /\ Top.id = None /\ Top.todo = <<Build(id)>>

ClassesRegistered ==
    \A p \in DOMAIN made : made[p].what = "class" /\ made[p].id \notin Redefined => registry[made[p].id] = p

\* What a proxy may stand for, and what is registered for such an id.
Proxiable(id) == Schema[id].type # None /\ Schema[id].kind # "constant"
OnlyClasses == \A id \in Ids : Proxiable(id) /\ registry[id] # None => made[registry[id]].what = "class"

Awaited(id) == registry[id] # None \/ id \in underConstruction \/ Rebuilding(id)
ProxiesAwaited == \A p \in DOMAIN made : made[p].what = "proxy" => Proxiable(made[p].id) /\ Awaited(made[p].id)

Registrations ==
    /\ ClassesRegistered /\ OnlyClasses /\ ProxiesAwaited
    /\ \A id \in underConstruction : Schema[id].kind # "constant"

LEMMA MadeForm ==
    ASSUME IInv
    PROVE  /\ Len(made) \in Nat /\ DOMAIN made = 1..Len(made)
           /\ \A p \in DOMAIN made : made[p].id \in Ids
           /\ \A id \in Ids : registry[id] # None => registry[id] \in DOMAIN made
           /\ underConstruction \subseteq Ids
<1>1. made \in Seq(ClassSpace(Len(made)))
  BY DEF IInv, TypeOK
<1>2. Len(made) \in Nat /\ DOMAIN made = 1..Len(made)
  BY <1>1, LenProperties
<1>3. \A p \in DOMAIN made : made[p] \in ClassSpace(Len(made))
  BY <1>1, <1>2, ElementOfSeq
<1>4. \A p \in DOMAIN made : made[p].id \in Ids
  BY <1>3 DEF ClassSpace
<1> QED
  BY <1>2, <1>4 DEF IInv, TypeOK

\* An id that is built again is asked for with its schema at hand.
LEMMA RebuildingRuns ==
    ASSUME NEW id, Rebuilding(id)
    PROVE  Running /\ Asked = Build(id) /\ Resolved(Asked)
<1>1. Top.todo = <<Build(id)>> /\ ~Idle
  BY DEF Rebuilding
<1>2. Top.todo # <<>> /\ Head(Top.todo) = Build(id)
  BY <1>1
<1> QED
  BY <1>1, <1>2 DEF Running, Asked, Resolved, Build

\* A step that makes and registers nothing.
LEMMA QuietKeeps ==
    ASSUME IInv, Registrations, UNCHANGED <<made, registry>>,
           underConstruction \subseteq underConstruction',
           \A id \in underConstruction' : Schema[id].kind # "constant",
           \A id \in Ids : Rebuilding(id) /\ Proxiable(id) /\ registry[id] = None => id \in underConstruction'
    PROVE  Registrations'
<1>1. ClassesRegistered' /\ OnlyClasses'
  BY DEF Registrations, ClassesRegistered, OnlyClasses, Proxiable
<1>2. ASSUME NEW p \in DOMAIN made, made[p].what = "proxy"
      PROVE  Proxiable(made[p].id) /\ (registry[made[p].id] # None \/ made[p].id \in underConstruction')
  BY <1>2, MadeForm DEF Registrations, ProxiesAwaited, Awaited
<1>3. ProxiesAwaited'
  BY <1>2 DEF ProxiesAwaited, Awaited, Proxiable
<1> QED
  BY <1>1, <1>3 DEF Registrations

\* A step that makes one more class, and may register one.
LEMMA AddedKeeps ==
    ASSUME IInv, IInv', Registrations, NEW r, made' = Append(made, r),
           NEW id \in Ids, r.id = id, NEW registers \in BOOLEAN,
           registry' = IF registers THEN [registry EXCEPT ![id] = Len(made')] ELSE registry,
           registers => registry[id] = None /\ (Proxiable(id) => r.what = "class"),
           r.what = "class" => registers,
           r.what = "proxy" => Proxiable(id) /\ id \in underConstruction',
           underConstruction' \subseteq underConstruction,
           \A j \in underConstruction \ underConstruction' : j = id /\ registers,
           \A j \in Ids : Rebuilding(j) /\ Proxiable(j) /\ registry[j] = None => j \in underConstruction
    PROVE  Registrations'
<1>1. /\ Len(made) \in Nat /\ DOMAIN made = 1..Len(made)
      /\ \A p \in DOMAIN made : made[p].id \in Ids
      /\ \A j \in Ids : registry[j] # None => registry[j] \in DOMAIN made
      /\ underConstruction \subseteq Ids
  BY MadeForm
<1>2. PICK n : n = Len(made) + 1
  OBVIOUS
<1>3. /\ Len(made') = n /\ n \in Nat /\ n # None /\ n \notin DOMAIN made
      /\ DOMAIN made' = DOMAIN made \cup {n} /\ made'[n] = r
      /\ \A p \in DOMAIN made : made'[p] = made[p]
  <2>1. made \in Seq(ClassSpace(Len(made)))
    BY DEF IInv, TypeOK
  <2>2. DOMAIN made' = 1..n /\ made'[n] = r /\ \A p \in 1..Len(made) : made'[p] = made[p]
    BY <1>1, <1>2, <2>1
  <2>3. Len(made') = n
    BY <1>1, <1>2, <2>1
  <2>4. n \in Nat /\ n # None
    BY <1>1, <1>2, IdsAssumption
  <2> QED
    BY <1>1, <1>2, <2>2, <2>3, <2>4
<1>4. /\ registers => registry'[id] = n
      /\ \A j \in Ids : (~registers \/ j # id) => registry'[j] = registry[j]
      /\ \A j \in Ids : registry[j] # None => registry'[j] = registry[j]
  <2>1. registry \in [Ids -> 1..Len(made) \cup {None}]
    BY DEF IInv, TypeOK
  <2> QED
    BY <1>3, <2>1
<1>5. ClassesRegistered'
  <2>1. ASSUME NEW p \in DOMAIN made', made'[p].what = "class", made'[p].id \notin Redefined
        PROVE  registry'[made'[p].id] = p
    <3>1. CASE p = n
      BY <1>3, <1>4, <2>1, <3>1
    <3>2. CASE p # n
      <4>1. p \in DOMAIN made /\ made'[p] = made[p]
        BY <1>3, <3>2
      <4>2. registry[made[p].id] = p /\ made[p].id \in Ids
        BY <1>1, <2>1, <4>1 DEF Registrations, ClassesRegistered
      <4>3. p # None
        BY <1>1, <4>1, IdsAssumption
      <4> QED
        BY <1>4, <4>1, <4>2, <4>3
    <3> QED
      BY <3>1, <3>2
  <2> QED
    BY <2>1 DEF ClassesRegistered
<1>6. OnlyClasses'
  <2>1. ASSUME NEW j \in Ids, Proxiable(j), registry'[j] # None
        PROVE  made'[registry'[j]].what = "class"
    <3>1. CASE registers /\ j = id
      BY <1>3, <1>4, <2>1, <3>1
    <3>2. CASE ~(registers /\ j = id)
      <4>1. registry'[j] = registry[j]
        BY <1>4, <3>2
      <4>2. registry[j] \in DOMAIN made /\ made[registry[j]].what = "class"
        BY <1>1, <2>1, <4>1 DEF Registrations, OnlyClasses
      <4> QED
        BY <1>3, <4>1, <4>2
    <3> QED
      BY <3>1, <3>2
  <2> QED
    BY <2>1 DEF OnlyClasses, Proxiable
<1>7. ProxiesAwaited'
  <2>1. ASSUME NEW p \in DOMAIN made', made'[p].what = "proxy"
        PROVE  Proxiable(made'[p].id) /\ (registry'[made'[p].id] # None \/ made'[p].id \in underConstruction')
    <3>1. CASE p = n
      BY <1>3, <2>1, <3>1
    <3>2. CASE p # n
      <4>1. p \in DOMAIN made /\ made'[p] = made[p] /\ made[p].id \in Ids
        BY <1>1, <1>3, <3>2
      <4>2. Proxiable(made[p].id) /\ (registry[made[p].id] # None \/ made[p].id \in underConstruction)
        BY <2>1, <4>1 DEF Registrations, ProxiesAwaited, Awaited
      <4>3. CASE registry[made[p].id] # None
        BY <1>4, <4>1, <4>2, <4>3
      <4>4. CASE made[p].id \in underConstruction \ underConstruction'
        BY <1>3, <1>4, <4>1, <4>2, <4>4
      <4> QED
        BY <4>1, <4>2, <4>3, <4>4
    <3> QED
      BY <3>1, <3>2
  <2> QED
    BY <2>1 DEF ProxiesAwaited, Awaited, Proxiable
<1>8. \A j \in underConstruction' : Schema[j].kind # "constant"
  BY DEF Registrations
<1> QED
  BY <1>5, <1>6, <1>7, <1>8 DEF Registrations

LEMMA StepRegisters ==
    ASSUME IInv, IInv', Registrations, Step
    PROVE  Registrations'
<1>0. \A j \in Ids : Rebuilding(j) /\ registry[j] = None => Running /\ Asked.id = j /\ Resolved(Asked)
                        /\ Unregistered(Asked.id)
  BY RebuildingRuns DEF Build, Unregistered
<1>1. CASE Found
  BY <1>0, <1>1, QuietKeeps DEF Found, Registrations
<1>2. CASE Unresolvable \/ Untyped \/ Uncreatable \/ Return
  <2>1. UNCHANGED <<made, registry, underConstruction>>
    BY <1>2 DEF Unresolvable, Untyped, Uncreatable, Return, Abandon
  <2>2. ASSUME NEW j \in Ids, Rebuilding(j), registry[j] = None
        PROVE  j \in underConstruction
    <3>1. Running /\ Asked.id = j /\ Resolved(Asked)
      BY <1>0, <2>2
    <3>2. ~Unresolvable /\ ~Uncreatable /\ ~Return
      BY <3>1 DEF Unresolvable, Uncreatable, Return, Running, Finishing
    <3> QED
      BY <1>2, <3>1, <3>2 DEF Untyped, Met
  <2> QED
    BY <2>1, <2>2, QuietKeeps DEF Registrations
<1>3. CASE Descend
  <2>1. UNCHANGED <<made, registry>> /\ underConstruction' = underConstruction \cup {Asked.id}
    BY <1>3 DEF Descend
  <2>2. Schema[Asked.id].kind # "constant"
    BY <1>3 DEF Descend
  <2> QED
    BY <1>0, <2>1, <2>2, QuietKeeps DEF Registrations
<1>4. CASE Proxied
  <2>1. PICK r : r = [id |-> Asked.id, what |-> "proxy", bases |-> <<>>, parts |-> <<>>]
    OBVIOUS
  <2>2. PICK id : id = Asked.id
    OBVIOUS
  <2>3. /\ made' = Append(made, r) /\ UNCHANGED <<registry, underConstruction>>
        /\ id \in underConstruction /\ Schema[id].type # None
    BY <1>4, <2>1, <2>2 DEF Proxied, Met
  <2>4. id \in Ids /\ Proxiable(id)
    BY <2>3, MadeForm DEF Registrations, Proxiable
  <2>5. r.id = id /\ r.what = "proxy"
    BY <2>1, <2>2
  <2>6. \A j \in Ids : Rebuilding(j) /\ Proxiable(j) /\ registry[j] = None => j \in underConstruction
    BY <1>0, <2>2, <2>3
  <2>7. PICK registers \in BOOLEAN : ~registers
    OBVIOUS
  <2> QED
    BY <2>3, <2>4, <2>5, <2>6, <2>7, AddedKeeps
<1>5. CASE Constant
  <2>1. PICK r : r = [id |-> Asked.id, what |-> "constant", bases |-> <<>>, parts |-> <<>>]
    OBVIOUS
  <2>2. PICK id : id = Asked.id
    OBVIOUS
  <2>3. PICK registers \in BOOLEAN : registers <=> Asked.op = "load"
    BY Zenon
  <2>4. /\ made' = Append(made, r) /\ UNCHANGED underConstruction
        /\ registry' = IF registers THEN [registry EXCEPT ![id] = Len(made')] ELSE registry
        /\ registry[id] = None /\ Schema[id].kind = "constant" /\ Running
    BY <1>5, <2>1, <2>2, <2>3 DEF Constant, Fresh, Unregistered
  <2>5. id \in Ids
    BY <2>2, <2>4, RunningFacts
  <2>6. r.id = id /\ r.what = "constant"
    BY <2>1, <2>2
  <2>7. ~Proxiable(id)
    BY <2>4 DEF Proxiable
  <2>8. \A j \in Ids : Rebuilding(j) /\ Proxiable(j) /\ registry[j] = None => j \in underConstruction
    BY <1>0, <2>2, <2>7
  <2> QED
    BY <2>4, <2>5, <2>6, <2>7, <2>8, AddedKeeps
<1>6. CASE Finish
  <2>1. PICK id : id = Top.id
    OBVIOUS
  <2>2. /\ id \in Ids /\ ~Running
        /\ underConstruction' = underConstruction \ {id}
    BY <1>6, <2>1, FinishingFacts DEF Finish, Finishing, Running, Left
  <2>3. id \in underConstruction /\ registry[id] = None
    <3>1. Len(stack) \in 2..Len(stack) /\ stack[Len(stack)].id = id
      <4>1. /\ Len(made) \in Nat /\ stack # <<>> /\ Last(stack).id # None
        BY <1>6, FinishingFacts DEF Finish
      <4>2. Len(stack) \in Nat /\ Len(stack) >= 2
        BY <4>1, FrontOK DEF IInv
      <4> QED
        BY <2>1, <4>1, <4>2 DEF Top, Last
    <3>2. id \in underConstruction
      BY <3>1 DEF IInv, Marked
    <3> QED
      BY <3>2 DEF IInv, MarkedIsUnregistered
  <2>4. \A j \in Ids : Rebuilding(j) /\ registry[j] = None => j \in underConstruction
    BY <1>0, <2>2
  <2>5. CASE ~Same(id)
    <3>1. PICK r : r = NewClass(Top)
      OBVIOUS
    <3>2. made' = Append(made, r) /\ registry' = [registry EXCEPT ![id] = Len(made')]
      BY <1>6, <2>1, <2>5, <3>1 DEF Finish, Registered
    <3>3. r.id = id /\ r.what = "class"
      BY <2>1, <3>1 DEF NewClass
    <3>4. PICK registers \in BOOLEAN : registers
      OBVIOUS
    <3> QED
      BY <2>2, <2>3, <2>4, <3>2, <3>3, <3>4, AddedKeeps
  <2>6. CASE Same(id)
    <3>1. PICK c : c = Top.got[1]
      OBVIOUS
    <3>2. made' = made /\ registry' = [registry EXCEPT ![id] = c]
      BY <1>6, <2>1, <2>6, <3>1 DEF Finish, Registered
    <3>3. ~Proxiable(id)
      BY <2>2, <2>6, AliasAssumption DEF Same, Proxiable
    <3>4. registry \in [Ids -> 1..Len(made) \cup {None}]
      BY DEF IInv, TypeOK
    <3>5. \A j \in Ids : j # id => registry'[j] = registry[j]
      BY <3>2, <3>4
    <3>6. ClassesRegistered'
      <4>1. ASSUME NEW p \in DOMAIN made, made[p].what = "class", made[p].id \notin Redefined
            PROVE  registry'[made[p].id] = p
        <5>1. registry[made[p].id] = p /\ made[p].id \in Ids /\ p \in Nat
          BY <4>1, MadeForm DEF Registrations, ClassesRegistered
        <5>2. made[p].id # id
          BY <2>3, <5>1, IdsAssumption
        <5> QED
          BY <3>5, <5>1, <5>2
      <4> QED
        BY <3>2, <4>1 DEF ClassesRegistered
    <3>7. OnlyClasses'
      <4>1. ASSUME NEW j \in Ids, Proxiable(j), registry'[j] # None
            PROVE  made[registry'[j]].what = "class"
        <5>1. j # id
          BY <3>3, <4>1
        <5> QED
          BY <3>5, <4>1, <5>1 DEF Registrations, OnlyClasses
      <4> QED
        BY <3>2, <4>1 DEF OnlyClasses, Proxiable
    <3>8. ProxiesAwaited'
      <4>1. ASSUME NEW p \in DOMAIN made, made[p].what = "proxy"
            PROVE  Proxiable(made[p].id) /\ (registry'[made[p].id] # None \/ made[p].id \in underConstruction')
        <5>1. Proxiable(made[p].id) /\ Awaited(made[p].id) /\ made[p].id \in Ids
          BY <4>1, MadeForm DEF Registrations, ProxiesAwaited
        <5>2. made[p].id # id
          BY <3>3, <5>1
        <5> QED
          BY <2>2, <2>4, <3>5, <5>1, <5>2 DEF Awaited
      <4> QED
        BY <3>2, <4>1 DEF ProxiesAwaited, Awaited, Proxiable
    <3> QED
      BY <2>2, <3>6, <3>7, <3>8 DEF Registrations
  <2> QED
    BY <2>5, <2>6
<1> QED
  BY <1>1, <1>2, <1>3, <1>4, <1>5, <1>6 DEF Step

LEMMA CallRegisters ==
    ASSUME IInv, Registrations, Call
    PROVE  Registrations'
<1>1. \A id : ~Rebuilding(id)
  BY DEF Call, RegisterDoc, LoadType, DefineClass, Calling, Rebuilding
<1>2. CASE UNCHANGED <<made, registry, underConstruction>>
  BY <1>1, <1>2, QuietKeeps DEF Registrations
<1>3. ASSUME NEW id \in Redefined, DefineClass(id)
      PROVE  Registrations'
  <2>1. /\ stack' = <<Frame(None, <<Build(id)>>)>> /\ registry' = [registry EXCEPT ![id] = None]
        /\ UNCHANGED <<underConstruction, made>>
    BY <1>3 DEF DefineClass
  <2>2. registry \in [Ids -> 1..Len(made) \cup {None}] /\ id \in Ids
    BY IdsAssumption DEF IInv, TypeOK
  <2>3. registry'[id] = None /\ \A j \in Ids : j # id => registry'[j] = registry[j]
    BY <2>1, <2>2
  <2>4. Rebuilding(id)'
    <3>1. PICK f : f = Frame(None, <<Build(id)>>)
      OBVIOUS
    <3>2. f.id = None /\ f.todo = <<Build(id)>>
      BY <3>1 DEF Frame
    <3>3. stack' = <<f>> /\ stack' # <<>> /\ Last(stack') = f
      BY <2>1, <3>1 DEF Last
    <3> QED
      BY <3>2, <3>3 DEF Rebuilding, Idle, Top, Build
  <2>5. ClassesRegistered'
    <3>1. ASSUME NEW p \in DOMAIN made, made[p].what = "class", made[p].id \notin Redefined
          PROVE  registry'[made[p].id] = p
      BY <2>3, <3>1, MadeForm DEF Registrations, ClassesRegistered
    <3> QED
      BY <2>1, <3>1 DEF ClassesRegistered
  <2>6. OnlyClasses'
    BY <2>1, <2>3 DEF Registrations, OnlyClasses, Proxiable
  <2>7. ProxiesAwaited'
    <3>1. ASSUME NEW p \in DOMAIN made, made[p].what = "proxy"
          PROVE  Proxiable(made[p].id) /\ Awaited(made[p].id)'
      <4>1. Proxiable(made[p].id) /\ Awaited(made[p].id) /\ made[p].id \in Ids
        BY <3>1, MadeForm DEF Registrations, ProxiesAwaited
      <4>2. CASE made[p].id = id
        <5>1. PICK j : j = made[p].id
          OBVIOUS
        <5>2. Rebuilding(j)' /\ made'[p].id = j
          BY <2>1, <2>4, <4>2, <5>1
        <5>3. Awaited(j)'
          BY <5>2 DEF Awaited
        <5> QED
          BY <2>1, <4>1, <5>1, <5>2, <5>3
      <4>3. CASE made[p].id # id
        BY <1>1, <2>1, <2>3, <4>1, <4>3 DEF Awaited
      <4> QED
        BY <4>2, <4>3
    <3> QED
      BY <2>1, <3>1 DEF ProxiesAwaited, Proxiable
  <2> QED
    BY <2>1, <2>5, <2>6, <2>7 DEF Registrations
<1> QED
  BY <1>2, <1>3 DEF Call, RegisterDoc, LoadType

LEMMA LeastNumber ==
    ASSUME NEW T, T \subseteq Nat, T # {}
    PROVE  \E n \in T : \A m \in T : n <= m
<1> DEFINE R == OpToRel(<, Nat)
<1>1. IsWellFoundedOn(R, Nat)
  BY NatLessThanWellFounded
<1>2. PICK n \in T : \A m \in T : ~(<<m, n>> \in R)
  <2> HIDE DEF R
  <2> QED
    BY <1>1, WFMin
<1>3. \A m \in T : ~(m < n)
  BY <1>2 DEF OpToRel
<1> QED
  BY <1>3

\* A proxy ends at once: what is registered for its id is no proxy.
LEMMA EndIsNear ==
    ASSUME IInv, Registrations, NEW c \in DOMAIN made
    PROVE  EndOf(c) = HandedTo(c)
<1> DEFINE N == Cardinality(Ids)
           Finds(f) == f = [n \in 0..N |-> IF n = 0 THEN c ELSE HandedTo(f[n - 1])]
           after[n \in 0..N] == IF n = 0 THEN c ELSE HandedTo(after[n - 1])
           g == [n \in 0..N |-> IF n = 0 THEN c ELSE HandedTo(c)]
<1>1. N \in Nat /\ N # 0
  <2>1. Ids # {}
    BY MadeForm
  <2> QED
    BY <2>1, IdsAssumption, FS_CardinalityType, FS_EmptySet
<1>2. HandedTo(HandedTo(c)) = HandedTo(c)
  <2>1. CASE made[c].what = "proxy" /\ registry[made[c].id] # None
    <3>1. PICK id : id = made[c].id /\ id \in Ids
      BY MadeForm
    <3>2. HandedTo(c) = registry[id]
      BY <2>1, <3>1 DEF HandedTo
    <3>3. Proxiable(id)
      BY <2>1, <3>1 DEF Registrations, ProxiesAwaited
    <3>4. made[registry[id]].what = "class"
      BY <2>1, <3>1, <3>3 DEF Registrations, OnlyClasses
    <3> QED
      BY <3>2, <3>4 DEF HandedTo
  <2>2. CASE ~(made[c].what = "proxy" /\ registry[made[c].id] # None)
    BY <2>2 DEF HandedTo
  <2> QED
    BY <2>1, <2>2
<1>3. Finds(g)
  <2>1. ASSUME NEW n \in 0..N
        PROVE  g[n] = IF n = 0 THEN c ELSE HandedTo(g[n - 1])
    <3>1. n # 0 => n - 1 \in 0..N
      BY <1>1
    <3> HIDE DEF N
    <3> QED
      BY <1>2, <3>1
  <2> HIDE DEF N
  <2> QED
    BY <2>1
<1>4. Finds(after)
  <2>1. \E f : Finds(f)
    BY <1>3
  <2> QED
    BY <2>1
<1> HIDE DEF after, g
<1> DEFINE T == {n \in 0..N : n # 0 /\ after[n] # HandedTo(c)}
<1>5. T = {}
  <2>1. SUFFICES ASSUME T # {}
                 PROVE  FALSE
    OBVIOUS
  <2>2. PICK n \in T : \A m \in T : n <= m
    <3>1. T \subseteq Nat
      BY <1>1
    <3> HIDE DEF T
    <3> QED
      BY <2>1, <3>1, LeastNumber
  <2>3. n \in 0..N /\ n # 0 /\ n - 1 \in 0..N /\ ~(n <= n - 1)
    BY <1>1, <2>2
  <2>4. n - 1 = 0 \/ after[n - 1] = HandedTo(c)
    BY <2>2, <2>3
  <2>5. after[n] = HandedTo(after[n - 1])
    BY <1>4, <2>3
  <2>6. n - 1 = 0 => after[n - 1] = c
    BY <1>4, <2>3
  <2> QED
    BY <1>2, <2>2, <2>4, <2>5, <2>6
<1>6. after[N] = HandedTo(c)
  <2>1. N \in 0..N
    BY <1>1
  <2> HIDE DEF N
  <2> QED
    BY <1>1, <1>5, <2>1
<1> QED
  BY <1>6 DEF EndOf, after

-----------------------------------------------------------------------------
(* Theorems *)

\* The invariant the others rest on.
THEOREM Invariance == Spec => []IInv
<1>1. IInv /\ [Next]_vars => IInv'
  <2> SUFFICES ASSUME IInv, [Next]_vars
               PROVE  IInv'
    OBVIOUS
  <2>1. CASE Step
    <3>1. Unresolvable \/ Untyped \/ Uncreatable \/ Return => Abandon
      BY DEF Unresolvable, Untyped, Uncreatable, Return
    <3> QED
      BY <2>1, <3>1, FoundKeeps, ProxiedKeeps, ConstantKeeps, DescendKeeps, FinishKeeps, AbandonKeeps
         DEF Step
  <2>2. CASE Call
    BY <2>2, CallKeeps
  <2>3. CASE UNCHANGED vars
    BY <2>3 DEF vars, IInv, TypeOK, MarkedIsUnregistered
  <2> QED
    BY <2>1, <2>2, <2>3 DEF Next, Over
<1> QED
  BY InitIInv, <1>1, PTL DEF Spec

\* Every variable keeps its type; in particular whatever refers to a class
\* refers to one that was made.
THEOREM TypeCorrect == Spec => []TypeOK
<1>1. IInv => TypeOK
  BY DEF IInv
<1> QED
  BY <1>1, Invariance, PTL

\* TypeBuilder.build never enters an id inside its own build, whatever the
\* cycles of the schemas.
THEOREM BuildsDoNotReenter == Spec => []NoReentry
<1>1. IInv => NoReentry
  BY DEF IInv, NoReentry, InBuild, StackOK, Marked
<1> QED
  BY <1>1, Invariance, PTL

\* An id that is being built, or whose build failed, has no class in the registry.
THEOREM MarkedHaveNoClass == Spec => []MarkedIsUnregistered
<1>1. IInv => MarkedIsUnregistered
  BY DEF IInv
<1> QED
  BY <1>1, Invariance, PTL

\* A registered class stays the class of its id until the program defines it again.
THEOREM RegisteredAreKept == Spec => ClassesAreKept
<1> DEFINE Kept == \A id \in Ids : registry[id] # None => registry'[id] = registry[id] \/ DefineClass(id)
<1>1. IInv /\ [Next]_vars => [Kept]_vars
  <2> SUFFICES ASSUME IInv, Next
               PROVE  Kept
    OBVIOUS
  <2>0. registry \in [Ids -> 1..Len(made) \cup {None}]
    BY DEF IInv, TypeOK
  <2>1. CASE Constant
    <3>1. Asked.id \in Ids /\ registry[Asked.id] = None
      BY <2>1, RunningFacts DEF Constant, Fresh, Unregistered
    <3>2. registry' = registry \/ registry' = [registry EXCEPT ![Asked.id] = Len(made')]
      BY <2>1 DEF Constant
    <3> QED
      BY <2>0, <3>1, <3>2
  <2>2. CASE Finish
    <3>1. Top.id \in Ids /\ Top.id \in underConstruction
      <4>1. Len(made) \in Nat /\ stack # <<>> /\ Last(stack).id # None /\ Top.id \in Ids
        BY <2>2, FinishingFacts DEF Finish
      <4>2. Len(stack) \in Nat /\ Len(stack) >= 2 /\ Last(stack) = stack[Len(stack)]
        BY <4>1, FrontOK DEF IInv
      <4>3. Len(stack) \in 2..Len(stack)
        BY <4>2
      <4> QED
        BY <4>1, <4>2, <4>3 DEF IInv, Marked, Top
    <3>2. registry[Top.id] = None
      BY <3>1 DEF IInv, MarkedIsUnregistered
    <3>3. PICK c : registry' = [registry EXCEPT ![Top.id] = c]
      BY <2>2 DEF Finish, Registered
    <3> QED
      BY <2>0, <3>1, <3>2, <3>3
  <2>3. CASE Call
    <3>1. ASSUME NEW id \in Redefined, DefineClass(id)
          PROVE  Kept
      BY <2>0, <3>1 DEF DefineClass
    <3>2. ASSUME NEW d \in Docs \ docs, RegisterDoc(d)
          PROVE  Kept
      BY <3>2 DEF RegisterDoc
    <3>3. ASSUME NEW id \in Named, LoadType(id)
          PROVE  Kept
      BY <3>3 DEF LoadType
    <3> QED
      BY <2>3, <3>1, <3>2, <3>3 DEF Call
  <2>4. CASE UNCHANGED registry
    BY <2>4
  <2>5. Next => Constant \/ Finish \/ Call \/ UNCHANGED registry
    BY DEF Next, Step, Over, vars, Found, Proxied, Descend, Unresolvable, Untyped, Uncreatable, Return, Abandon
  <2> QED
    BY <2>1, <2>2, <2>3, <2>4, <2>5
<1> QED
  BY <1>1, Invariance, PTL DEF Spec, ClassesAreKept

\* Every class that was made stays the registered one of its id, and no proxy
\* waits for an id that nobody builds or has abandoned.
THEOREM RegistrationsHold == Spec => []Registrations
<1>1. Init => Registrations
  <2>1. Init => made = <<>> /\ underConstruction = {} /\ registry = [id \in Ids |-> None] /\ DOMAIN made = {}
    BY DEF Init
  <2> QED
    BY <2>1 DEF Registrations, ClassesRegistered, OnlyClasses, ProxiesAwaited
<1>2. IInv /\ IInv' /\ Registrations /\ [Next]_vars => Registrations'
  <2> SUFFICES ASSUME IInv, IInv', Registrations, [Next]_vars
               PROVE  Registrations'
    OBVIOUS
  <2>1. CASE UNCHANGED vars
    BY <2>1 DEF vars, Registrations, ClassesRegistered, OnlyClasses, ProxiesAwaited, Proxiable, Awaited,
                Rebuilding, Idle, Top
  <2> QED
    BY <2>1, StepRegisters, CallRegisters DEF Next, Over
<1> QED
  BY <1>1, <1>2, Invariance, PTL DEF Spec

\* The types of the properties of a registered class, and its parents, are the
\* registered classes of their ids: whichever schema of a cycle is loaded first,
\* and whatever failed before, there is one class of an id (TypeBuilder.build).
THEOREM OneClassOfAnId == Spec => []PartsAreRegistered
<1>1. IInv /\ Registrations => PartsAreRegistered
  <2> SUFFICES ASSUME IInv, Registrations, NEW id \in Ids, registry[id] # None,
                      NEW c, c = made[registry[id]], NEW p \in ToSet(c.bases \o c.parts),
                      made[p].what = "class", made[p].id \notin Redefined
               PROVE  registry[made[p].id] = p
    BY DEF PartsAreRegistered
  <2>1. Len(made) \in Nat /\ DOMAIN made = 1..Len(made) /\ registry[id] \in DOMAIN made
    BY MadeForm
  <2>2. c \in ClassSpace(Len(made))
    <3>1. made \in Seq(ClassSpace(Len(made)))
      BY DEF IInv, TypeOK
    <3> QED
      BY <2>1, <3>1, ElementOfSeq
  <2>3. c.bases \in Seq(1..Len(made)) /\ c.parts \in Seq(1..Len(made))
    BY <2>2 DEF ClassSpace
  <2>4. c.bases \o c.parts \in Seq(1..Len(made))
    BY <2>3, ConcatProperties
  <2>5. PICK i \in DOMAIN (c.bases \o c.parts) : p = (c.bases \o c.parts)[i]
    BY DEF ToSet
  <2>6. p \in 1..Len(made)
    BY <2>4, <2>5, ElementOfSeq, LenProperties
  <2> QED
    BY <2>1, <2>6 DEF Registrations, ClassesRegistered
<1> QED
  BY <1>1, Invariance, RegistrationsHold, PTL

\* Between calls a proxy ends at a class, for any cycles of schemas and any order
\* of loads, unless the build of its id was abandoned (TypeProxy.proxy_type).
THEOREM ProxiesEndAtClasses == Spec => []ProxiesResolve
<1>1. IInv /\ Registrations => ProxiesResolve
  <2> SUFFICES ASSUME IInv, Registrations, Idle, NEW c \in DOMAIN made,
                      made[EndOf(c)].what = "proxy"
               PROVE  made[EndOf(c)].id \in underConstruction
    BY DEF ProxiesResolve
  <2>1. EndOf(c) = HandedTo(c)
    BY EndIsNear
  <2>2. CASE made[c].what = "proxy" /\ registry[made[c].id] # None
    <3>1. PICK id : id = made[c].id /\ id \in Ids
      BY MadeForm
    <3>2. Proxiable(id)
      BY <2>2, <3>1 DEF Registrations, ProxiesAwaited
    <3>3. made[registry[id]].what = "class" /\ EndOf(c) = registry[id]
      BY <2>1, <2>2, <3>1, <3>2 DEF Registrations, OnlyClasses, HandedTo
    <3> QED
      BY <3>3
  <2>3. CASE ~(made[c].what = "proxy" /\ registry[made[c].id] # None)
    <3>1. EndOf(c) = c /\ made[c].what = "proxy" /\ registry[made[c].id] = None
      BY <2>1, <2>3 DEF HandedTo
    <3>2. ~Rebuilding(made[c].id)
      BY DEF Rebuilding
    <3> QED
      BY <3>1, <3>2 DEF Registrations, ProxiesAwaited, Awaited
  <2> QED
    BY <2>2, <2>3
<1> QED
  BY <1>1, Invariance, RegistrationsHold, PTL
=============================================================================
