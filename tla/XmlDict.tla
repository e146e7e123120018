------------------------------- MODULE XmlDict -------------------------------
(* utils/xmltodict.py: a parser that builds a dictionary from the events of  *)
(* an XML document, with a stack of half built elements, and the printer     *)
(* that walks a dictionary. A document is read, printed and read again.      *)
EXTENDS Integers, Sequences, FiniteSets, SequencesExt

CONSTANTS
  Names,            \* of elements
  Attributes,       \* of attributes, their keys with the prefix
  Forced,           \* force_list: the elements that are always in a list
  ProcessComments,
  TextKey, TailKey, CommentKey,
  BufferSize,       \* of the parser: the words that it reports at once
  MaxRun,           \* bound: the words of a text of the document
  MaxParts,         \* bound: the elements, texts and comments of a document
  MaxDepth          \* bound: the nesting of elements

ASSUME XmlDictAssumption ==
  /\ Forced \subseteq Names /\ ProcessComments \in BOOLEAN
  /\ Cardinality({TextKey, TailKey, CommentKey}) = 3
  /\ (Names \cup Attributes) \cap {TextKey, TailKey, CommentKey} = {}
  /\ Names \cap Attributes = {}
  /\ MaxParts \in Nat /\ MaxDepth \in Nat /\ MaxRun \in Nat /\ BufferSize \in Nat \ {0}

(* A text is the sequence of its words, each numbered by its place in the    *)
(* document; a blank text, once stripped, is the empty sequence.             *)
Blank == << >>
Text(words) == [kind |-> "text", text |-> words]
Dict(at) == [kind |-> "dict", at |-> at]
List(of) == [kind |-> "list", of |-> of]
NoItem == [kind |-> "none"]

VARIABLES
  item,     \* the dictionary of the innermost open element, or NoItem
  data,     \* its chunks of text, in the order they were met
  stack,    \* item and data of the elements around it
  path,     \* the names of the open elements
  phase,    \* "reading" a document, "read", "again", "done" or "failed"
  rest,     \* what is still to be read of the printed document
  document, \* the dictionary that was printed
  parts, words, last,  \* of the document read so far: how many parts and
                       \* words, what the last event was
  crowded   \* history: an element had a third chunk of text

handler == <<item, data, stack, path>>
source == <<parts, words, last, crowded>>
vars == <<handler, phase, rest, document, source>>

Fresh == item' = NoItem /\ data' = << >> /\ stack' = << >> /\ path' = << >>

Init ==
  /\ item = NoItem /\ data = << >> /\ stack = << >> /\ path = << >>
  /\ phase = "reading" /\ rest = << >> /\ document = NoItem
  /\ parts = 0 /\ words = 0 /\ last = "start" /\ crowded = FALSE

-----------------------------------------------------------------------------
(* The handler                                                               *)

\* push_data: a second value under a key makes a list of the two.
Pushed(into, key, value) ==
  LET at == IF into = NoItem THEN << >> ELSE into.at
      new == IF key \notin DOMAIN at
               THEN IF key \in Forced THEN List(<<value>>) ELSE value
             ELSE IF at[key].kind = "list" THEN List(Append(at[key].of, value))
             ELSE List(<<at[key], value>>)
  IN Dict([k \in DOMAIN at \cup {key} |-> IF k = key THEN new ELSE at[k]])

\* Mutant: the text of the parent is left for the child.
StartElementKeepingData(name, attrs) ==
  /\ path' = Append(path, name)
  /\ stack' = Append(stack, [item |-> item, data |-> data])
  /\ item' = IF attrs = {} THEN NoItem ELSE Dict([a \in attrs |-> Text(<<0>>)])
  /\ UNCHANGED data

StartElement(name, attrs) ==
  /\ path' = Append(path, name)
  /\ stack' = Append(stack, [item |-> item, data |-> data])
  /\ item' = IF attrs = {} THEN NoItem ELSE Dict([a \in attrs |-> Text(<<0>>)])
  /\ data' = << >>

Optional(into, key, chunk) ==
  IF chunk = Blank THEN into ELSE Pushed(into, key, Text(chunk))

\* The first chunk is the text, the second one the tail, the others are lost,
\* unless the element has neither attributes nor children.
Closed(it, chunks) ==
  IF it = NoItem THEN Text(FlattenSeq(chunks))
  ELSE LET n == Len(chunks)
           withText == IF n > 0 THEN Optional(it, TextKey, chunks[1]) ELSE it
       IN IF n > 1 THEN Optional(withText, TailKey, chunks[2]) ELSE withText

EndElement ==
  /\ item' = Pushed(Last(stack).item, Last(path), Closed(item, data))
  /\ data' = Last(stack).data
  /\ stack' = Front(stack) /\ path' = Front(path)

Characters(chunks) == data' = data \o chunks /\ UNCHANGED <<item, stack, path>>

Comments(chunk) ==
  /\ item' = IF ProcessComments THEN Pushed(item, CommentKey, Text(chunk)) ELSE item
  /\ UNCHANGED <<data, stack, path>>

-----------------------------------------------------------------------------
(* The printer, and what the parser reports of what was printed              *)

Opening(name, attrs) == <<[ev |-> "start", name |-> name, attrs |-> attrs]>>
Closing == <<[ev |-> "end"]>>
Written(chunk) == <<[ev |-> "text", chunk |-> chunk]>>

RECURSIVE Emit(_, _, _, _)
\* _emit: white space is written between elements when the output is pretty.
Emit(key, value, depth, pretty) ==
  LET values == IF value.kind = "list" THEN value.of ELSE <<value>>
      White(cond) == IF pretty /\ cond THEN Written(Blank) ELSE << >>
      Write(at, k) == IF k \in DOMAIN at /\ at[k].text # Blank
                      THEN Written(at[k].text) ELSE << >>
      One(v) ==
        LET at == IF v.kind = "text" THEN [k \in {TextKey} |-> v] ELSE v.at
            children == SetToSeq(DOMAIN at \ (Attributes \cup {TextKey, TailKey}))
            inside == [i \in DOMAIN children |->
                         Emit(children[i], at[children[i]], depth + 1, pretty)]
            parent == children # << >>
        IN White(depth > 0) \o Opening(key, DOMAIN at \cap Attributes)
           \o White(parent) \o Write(at, TextKey) \o FlattenSeq(inside)
           \o White(parent /\ depth > 0) \o Write(at, TailKey)
           \o Closing \o White(depth > 0)
  IN FlattenSeq([i \in DOMAIN values |-> One(values[i])])

\* A text that is longer than the buffer of the parser is reported in pieces.
Pieces(chunk) ==
  IF chunk = Blank THEN <<chunk>>
  ELSE [n \in 1..((Len(chunk) - 1) \div BufferSize) + 1 |->
          SubSeq(chunk, (n - 1) * BufferSize + 1,
                 IF n * BufferSize < Len(chunk) THEN n * BufferSize ELSE Len(chunk))]

\* Mutant: each text is reported by itself.
ReportedApart(events) == events

\* buffer_text: a run of text is put together before it is reported; outside
\* of the root, none is.
Reported(events) ==
  LET upTo[n \in 0..Len(events)] ==
        LET seen == upTo[n - 1]
            e    == events[n]
        IN IF n = 0 THEN << >>
           ELSE IF e.ev = "text" /\ seen # << >> /\ Last(seen).ev = "text"
           THEN Front(seen) \o Written(Last(seen).chunk \o e.chunk)
           ELSE Append(seen, e)
      runs == upTo[Len(events)]
      Each(e) == IF e.ev # "text" THEN <<e>>
                 ELSE FlattenSeq([n \in DOMAIN Pieces(e.chunk) |-> Written(Pieces(e.chunk)[n])])
  IN FlattenSeq([n \in DOMAIN runs |-> Each(runs[n])])

-----------------------------------------------------------------------------
(* Reading a document that somebody wrote: expat reports it part by part.    *)

Part(kind) ==
  /\ phase = "reading" /\ parts < MaxParts
  /\ parts' = parts + 1 /\ last' = kind
  /\ UNCHANGED <<phase, rest, document>>

ReadStart == \E name \in Names, attrs \in SUBSET Attributes :
  /\ Part("start") /\ Len(path) < MaxDepth
  /\ path = << >> => parts = 0
  /\ StartElement(name, attrs)
  /\ UNCHANGED <<words, crowded>>

ReadText == \E n \in 0..MaxRun : \E chunks \in {Pieces([w \in 1..n |-> words + w])} :
  /\ Part("text") /\ path # << >> /\ last # "text"
  /\ Characters(chunks)
  /\ words' = words + n
  /\ crowded' = (crowded \/ Len(data) + Len(chunks) > 2)

ReadComment ==
  /\ Part("comment") /\ path # << >>
  /\ Comments(<<words + 1>>)
  /\ words' = words + (IF ProcessComments THEN 1 ELSE 0)
  /\ UNCHANGED crowded

ReadEnd ==
  /\ phase = "reading" /\ path # << >>
  /\ EndElement
  /\ last' = "end"
  /\ phase' = IF Len(path) = 1 THEN "read" ELSE phase
  /\ UNCHANGED <<rest, document, parts, words, crowded>>

\* unparse(parse(...)), pretty or not, given to a new parser.
Unparse == \E pretty \in BOOLEAN :
  /\ phase = "read"
  /\ document' = item
  /\ LET root == CHOOSE k \in DOMAIN item.at : TRUE
     IN \E printed \in {Emit(root, item.at[root], 0, pretty)} : rest' = Reported(printed)
  /\ phase' = "again" /\ Fresh /\ UNCHANGED source

\* A comment's key is no name of an element.
Malformed ==
  /\ phase = "again" /\ Head(rest).ev = "start" /\ Head(rest).name = CommentKey
  /\ phase' = "failed"
  /\ UNCHANGED <<handler, rest, document, source>>

ReadPrinted ==
  /\ phase = "again"
  /\ LET e == Head(rest) IN
       \/ e.ev = "start" /\ e.name # CommentKey /\ StartElement(e.name, e.attrs)
       \/ e.ev = "text" /\ Characters(<<e.chunk>>)
       \/ e.ev = "end" /\ EndElement
  /\ rest' = Tail(rest)
  /\ phase' = IF Len(rest) = 1 THEN "done" ELSE phase
  /\ UNCHANGED <<document, source>>

Finished == phase \in {"done", "failed"} /\ UNCHANGED vars

Next ==
  ReadStart \/ ReadText \/ ReadComment \/ ReadEnd \/ Unparse \/ Malformed
  \/ ReadPrinted \/ Finished

Spec == Init /\ [][Next]_vars

-----------------------------------------------------------------------------
(* Properties                                                                *)

RECURSIVE KeysOf(_), WordsOf(_)
KeysOf(v) == CASE v.kind = "list" -> UNION {KeysOf(v.of[i]) : i \in DOMAIN v.of}
               [] v.kind = "dict" -> DOMAIN v.at \cup UNION {KeysOf(v.at[k]) : k \in DOMAIN v.at}
               [] OTHER -> {}
WordsOf(v) == CASE v.kind = "list" -> FlattenSeq([i \in DOMAIN v.of |-> WordsOf(v.of[i])])
                [] v.kind = "dict" ->
                     FoldSet(LAMBDA k, some : some \o WordsOf(v.at[k]), << >>, DOMAIN v.at)
                [] v.kind = "text" -> v.text
                [] OTHER -> << >>

\* The parser's stack is that of the open elements, and what it keeps of an
\* element is a dictionary or nothing yet.
TypeOK ==
  /\ phase \in {"reading", "read", "again", "done", "failed"}
  /\ Len(stack) = Len(path) /\ path \in Seq(Names)
  /\ item.kind \in {"none", "dict"}
  /\ \A n \in DOMAIN stack : stack[n].item.kind \in {"none", "dict"}
  /\ phase = "done" => path = << >>

\* While a document is read, each word of it is in exactly one place, the
\* dictionary or the chunks of an open element, unless an element has more
\* than two chunks of text.
Kept == WordsOf(item) \o FlattenSeq(data)
        \o FlattenSeq([n \in DOMAIN stack |->
             WordsOf(stack[n].item) \o FlattenSeq(stack[n].data)])
WordsAreKept ==
  phase \in {"reading", "read"} /\ ~crowded =>
    LET kept == SelectSeq(Kept, LAMBDA w : w # 0)
    IN Len(kept) = words /\ Range(kept) = 1..words

\* What is printed from a dictionary that parse() made, in either layout, is
\* read as the same dictionary, when no element has a tail or a comment. It
\* cannot be read at all exactly when an element has a comment: its key is
\* printed as the name of an element (unparse, _emit), which is documented as the
\* "reverse of `parse`" (xmltodict.py:458).
UnparseReverses ==
  /\ phase = "failed" => CommentKey \in KeysOf(document)
  /\ phase = "done" => CommentKey \notin KeysOf(document)
  /\ phase = "done" /\ TailKey \notin KeysOf(document) => item = document
=============================================================================
