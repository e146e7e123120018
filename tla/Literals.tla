------------------------------ MODULE Literals ------------------------------
(* The types of literals: what a value is converted to, what is refused, and *)
(* what it is written as. A value is a record whose kind is its Python type: *)
(*   int, Decimal (in halves), bool, date, time, Arrow and datetime (a day   *)
(*   and a clock), url, Path, symbol, entity, tuple, none                    *)
(*   str: what a program would print so (says), or another word              *)
(*   expression: a string that mentions other keys (inputs) and what it is   *)
(*   worth where it is evaluated, which may be an error                      *)
(* A type has a name, an enum (<< >> if none), a default, a format (none,    *)
(* strftime or tokens), the values its schema refuses, and the names of the  *)
(* types of the keys it refers to. A literal is raw when it is asked not to  *)
(* be taken for an expression.                                               *)
(* Texts of numbers, dates and times are those the program prints; symbols   *)
(* and entities are given by name or as such, never by an expression.        *)
EXTENDS Integers, Sequences

CONSTANTS
  Importables,     \* the symbols that a word can be imported as, by word
  FormatsSearched  \* whether arrow finds a format inside a longer text

None  == [kind |-> "none"]
Error == [kind |-> "error"]

Whole(n)  == [kind |-> "int", n |-> n]
Dec(n)  == [kind |-> "Decimal", halves |-> n]
Bool(b) == [kind |-> "bool", b |-> b]
Date(d) == [kind |-> "date", day |-> d]
Time(t) == [kind |-> "time", clock |-> t]
Arrow(d, t) == [kind |-> "Arrow", day |-> d, clock |-> t]
Str(v)  == [kind |-> "str", says |-> v]
Word(w) == Str([kind |-> "word", of |-> w])
Today   == "today"
Midnight == "midnight"
DayOne  == "0001-01-01"

IsString(v) == v.kind \in {"str", "expression"}

(* str(value): a whole Decimal prints as an int does *)
Text(v) == CASE IsString(v) -> v
             [] v.kind = "Decimal" -> Str(IF v.halves % 2 = 0 THEN Whole(v.halves \div 2) ELSE v)
             [] OTHER -> Str(v)

(* isinstance: a bool is an int, a datetime is a date *)
IsA(v, py) == \/ v.kind = py
              \/ py = "str" /\ IsString(v)
              \/ py = "int" /\ v.kind = "bool"
              \/ py = "date" /\ v.kind = "datetime"

Halves(v) == CASE v.kind = "int"     -> 2 * v.n
               [] v.kind = "Decimal" -> v.halves
               [] v.kind = "bool"    -> IF v.b THEN 2 ELSE 0

IsFalse(v) == v \in {None, Word(""), Whole(0), Dec(0), Bool(FALSE)}

IsNumber(v) == v.kind \in {"int", "Decimal", "bool"}

(* ==: numbers are compared whatever their types *)
Equal(v, w) == IF IsNumber(v) /\ IsNumber(w) THEN Halves(v) = Halves(w) ELSE v = w

Truncated(h) == IF h < 0 THEN -((-h) \div 2) ELSE h \div 2

(* int(value): the text of a fraction or of a boolean is refused *)
ToInt(v) == CASE IsNumber(v) -> Whole(Truncated(Halves(v)))
              [] v.kind = "str" /\ v.says.kind = "int" -> v.says
              [] OTHER -> Error

ToDecimal(v) == CASE IsNumber(v) -> Dec(Halves(v))
                  [] v.kind = "str" /\ v.says.kind \in {"int", "Decimal"} -> Dec(Halves(v.says))
                  [] OTHER -> Error

---------------------------------------------------------------------------
IsExpression(v) == v.kind = "expression"

(* Expr._convert, Pattern._convert: the text of what it is worth *)
Worth(v) == IF v.worth \in {None, Error} THEN v.worth ELSE Text(v.worth)

(* Primitive._inputs: the names that a value mentions *)
Mentions(v) == IF IsExpression(v) THEN v.inputs ELSE {}

(* Primitive._convert: an expression is replaced by what it is worth; if     *)
(* that fails, a warning is logged and the string stays.                     *)
Expanded(v, raw) == IF IsExpression(v) /\ Worth(v) # Error /\ ~raw THEN Worth(v) ELSE v

(* Converter._convert: no value and a value of the type are kept *)
Cast(py, v) == CASE v = None \/ IsA(v, py) -> v
                 [] py = "str"     -> Text(v)
                 [] py = "int"     -> ToInt(v)
                 [] py = "Decimal" -> ToDecimal(v)

(* Enum._convert drops the context: an expression that mentions a key fails *)
WithoutContext(v) ==
  IF Mentions(v) # {} THEN [v EXCEPT !.worth = Error] ELSE v

Among(v, enum) == \E n \in DOMAIN enum : Equal(v, enum[n])

(* enum[i]: from the end if i is negative *)
Member(enum, i) == CASE i \in 0..Len(enum) - 1 -> enum[i + 1]
                     [] i \in -Len(enum)..-1   -> enum[Len(enum) + i + 1]
                     [] OTHER                  -> Error

(* Mutant: a number is taken as an index before it is looked for. *)
MemberIndexFirst(enum, v, s, i) == IF IsA(i, "int") THEN Member(enum, Truncated(Halves(i))) ELSE v

(* Enum._convert: a string s or an int i of the enum is itself, any other    *)
(* value that makes an int is an index; a string that makes none is refused, *)
(* the empty one stands for the first member.                                *)
MemberOf(enum, v, s, i) ==
  CASE IsString(v) /\ Among(s, enum) -> s
    [] IsA(i, "int") /\ Among(i, enum) -> i
    [] IsA(i, "int") -> Member(enum, Truncated(Halves(i)))
    [] IsString(v) /\ s \in {None, Word("")} -> enum[1]
    [] OTHER -> Error

InEnum(enum, v, raw) ==
  MemberOf(enum, v, Expanded(WithoutContext(v), raw), Cast("int", Expanded(WithoutContext(v), FALSE)))

(* Boolean._convert: no expression; 0 and 1, but not those of another type *)
AsBoolean(v) ==
  CASE v.kind = "bool" -> v
    [] v.kind = "str" /\ v.says.kind = "bool" -> v.says
    [] v.kind = "int" /\ v.n \in {0, 1} -> Bool(v.n = 1)
    [] OTHER -> Error

(* Date._convert, Time._convert: a moment is a date if it is midnight, and a *)
(* time if it is of the first day                                            *)
DateSaid(s) ==
  CASE s \in {Word("now"), Word("today")} -> Date(Today)
    [] s.kind = "str" /\ s.says.kind = "date" -> s.says
    [] s.kind = "str" /\ s.says.kind = "Arrow" /\ FormatsSearched -> Date(s.says.day)
    [] OTHER -> Error

AsDate(v, raw) ==
  CASE v.kind \in {"none", "date"} -> v
    [] v.kind \in {"Arrow", "datetime"} -> IF v.clock = Midnight THEN Date(v.day) ELSE Error
    [] IsString(v) -> DateSaid(Expanded(v, raw))
    [] OTHER -> Error

TimeSaid(s) ==
  CASE s \in {Word("now"), Word("today")} -> Time("now")
    [] s.kind = "str" /\ s.says.kind = "time" -> s.says
    [] s.kind = "str" /\ s.says.kind = "Arrow" /\ FormatsSearched -> Time(s.says.clock)
    [] OTHER -> Error

AsTime(v, raw) ==
  CASE v.kind \in {"none", "time"} -> v
    [] v.kind \in {"Arrow", "datetime"} -> IF v.day = DayOne THEN Time(v.clock) ELSE Error
    [] IsString(v) -> TimeSaid(Expanded(v, raw))
    [] OTHER -> Error

(* Datetime._convert: a string is a day and a clock, found one after the     *)
(* other; a value that is no string, nor a moment, is dropped                *)
MomentSaid(s) ==
  CASE s = Word("now")   -> Arrow(Today, "now")
    [] s = Word("today") -> Arrow(Today, Midnight)
    [] s.kind = "str" /\ s.says.kind = "Arrow" /\ FormatsSearched -> s.says
    [] OTHER -> Error

AsMoment(v, raw) ==
  CASE v.kind \in {"none", "Arrow"} -> v
    [] v.kind = "datetime" -> Arrow(v.day, v.clock)
    [] ~IsString(v) -> None
    [] OTHER -> MomentSaid(Expanded(v, raw))

(* Uri._convert, Path._convert: each is made of the text of the other; there *)
(* is a url of no value, and no path of a value that is false                *)
AsUri(v, raw) ==
  CASE v.kind = "url"  -> v
    [] v.kind = "Path" -> [kind |-> "url", text |-> Str(v)]
    [] Expanded(v, raw) = None -> [kind |-> "url", text |-> [kind |-> "bytes"]]
    [] OTHER           -> [kind |-> "url", text |-> Text(Expanded(v, raw))]

PathOf(s) == IF s = None THEN Error ELSE [kind |-> "Path", text |-> IF s = Word("") THEN Word(".") ELSE s]

AsPath(v, raw) ==
  CASE v.kind = "url" -> [kind |-> "Path", text |-> v.text]
    [] IsFalse(v)       -> v
    [] v.kind = "Path"  -> PathOf(Expanded(v.text, raw))
    [] OTHER            -> PathOf(Expanded(Text(v), raw))

SymbolTypes == {"importable", "module", "function", "class", "method", "staticmethod", "classmethod",
                "instance", "callable"}

(* check_symbol of each type: no method is a classmethod object *)
IsSymbolOf(name, s) ==
  CASE name = "importable"   -> TRUE
    [] name = "instance"     -> ~(s.kind = "symbol" /\ s.is = "class")
    [] name = "callable"     -> s.kind = "symbol" /\ s.is \in {"function", "class", "method"}
    [] name = "staticmethod" -> s.kind = "symbol" /\ s.is = "method"
    [] OTHER                 -> s.kind = "symbol" /\ s.is = name

(* Symbol._convert: what cannot be imported is logged and kept, then refused *)
(* by the types that ask for a kind of symbol                                *)
AsSymbol(name, v) ==
  LET Checked(s) == IF s = None \/ IsSymbolOf(name, s) THEN s ELSE Error
      named == v.kind = "str" /\ v.says.kind = "word" /\ v.says.of \in DOMAIN Importables
  IN  Checked(IF named THEN Importables[v.says.of] ELSE v)

(* _True._convert, Converter._convert of the constants *)
AsConstant(name, v, raw) == IF name = "true" THEN Expanded(v, raw) ELSE v

(* The conversion of each type that a key may refer to *)
Simple(name, v, raw) ==
  CASE name = "boolean"  -> AsBoolean(v)
    [] name = "date"     -> AsDate(v, raw)
    [] name = "time"     -> AsTime(v, raw)
    [] name = "datetime" -> AsMoment(v, raw)
    [] name = "uri"      -> AsUri(v, raw)
    [] name = "path"     -> AsPath(v, raw)
    [] name \in SymbolTypes -> AsSymbol(name, v)
    [] name \in {"true", "null", "false"} -> AsConstant(name, v, raw)
    [] raw \/ name = "any" -> v
    [] name = "string"   -> Cast("str", Expanded(v, raw))
    [] name = "integer"  -> Cast("int", Expanded(v, raw))
    [] name = "number"   -> Cast("Decimal", Expanded(v, raw))

(* Array.deserialize(value, split_string=True) *)
Parts(v) == CASE v.kind = "tuple" -> v.items
              [] v.kind = "str" /\ v.says.kind = "tuple" -> [n \in DOMAIN v.says.items |-> Text(v.says.items[n])]
              [] OTHER -> <<v>>

(* ForeignKey._convert: an entity is its keys, a negative int no key at all; *)
(* one key is not put in a tuple                                             *)
Keyed(keys, items) ==
  CASE \E n \in DOMAIN items : items[n] = Error -> Error
    [] Len(keys) = 1 -> items[1]
    [] OTHER -> [kind |-> "tuple", items |-> items]

AsKey(keys, v) ==
  LET parts == IF v.kind = "entity" THEN v.keys ELSE Parts(v)
  IN  IF v = None \/ (v.kind = "int" /\ v.n < 0) THEN None
      ELSE Keyed(keys, [n \in DOMAIN keys \cap DOMAIN parts |-> Simple(keys[n], parts[n], FALSE)])

Converted(ty, v, raw) ==
  CASE ty.enum # << >>        -> InEnum(ty.enum, v, raw)
    [] ty.name = "foreignKey" -> AsKey(ty.keys, v)
    [] OTHER                  -> Simple(ty.name, v, raw)

(* _False._validate, _True._validate: the one refuses all, the other nothing *)
ConstantRefuses(name) == name = "false"

(* Validator._validate: what the schema refuses *)
Refuses(ty, v) ==
  IF ty.name \in {"true", "false"} THEN ConstantRefuses(ty.name) ELSE v \in ty.refused

(* Validator._evaluate: the default stands for no value *)
Evaluated(ty, v, raw) ==
  LET Validated(w) == IF Refuses(ty, w) THEN Error ELSE w
      given == IF v = None THEN ty.dft ELSE v
  IN  IF given = None THEN None ELSE Validated(Converted(ty, given, raw))

(* Date._check, Time._check, Datetime._check: a moment passes for each *)
DatePasses(v)   == v.kind \in {"Arrow", "datetime", "date"}
TimePasses(v)   == v.kind \in {"Arrow", "datetime", "time"}
MomentPasses(v) == v.kind \in {"Arrow", "datetime"}

(* Uri._check: what is no url raises before a path or a string is looked for *)
UriPasses(v) == v.kind = "url"

(* Constant._check *)
ConstantPasses(name) == name = "true"

(* The _check of each type *)
PassesAs(name, v) ==
  CASE v = Error -> FALSE
    [] name = "string"   -> IsA(v, "str")
    [] name = "integer"  -> IsA(v, "int")
    [] name = "boolean"  -> v.kind = "bool"
    [] name = "number"   -> IsNumber(v)
    [] name = "date"     -> DatePasses(v)
    [] name = "time"     -> TimePasses(v)
    [] name = "datetime" -> MomentPasses(v)
    [] name = "uri"      -> UriPasses(v)
    [] name = "path"     -> v.kind = "Path"
    [] name \in {"true", "null", "false"} -> ConstantPasses(name)
    [] OTHER -> TRUE

(* ForeignKey._check: what is false is made an empty array of keys, and a    *)
(* key among others that is false is no key                                  *)
KeyPasses(keys, v) ==
  /\ v # Error
  /\ ~IsFalse(v) => \A n \in DOMAIN keys \cap DOMAIN Parts(v) :
                       ~IsFalse(Parts(v)[n]) /\ PassesAs(keys[n], Parts(v)[n])

(* Enum._check: a member, or what its type takes if it is not false *)
EnumPasses(ty, v) == Among(v, ty.enum) \/ (~IsFalse(v) /\ PassesAs(ty.name, v))

Passes(ty, v) ==
  CASE ty.name = "foreignKey" -> KeyPasses(ty.keys, v)
    [] ty.enum # << >>        -> EnumPasses(ty, v)
    [] OTHER                  -> PassesAs(ty.name, v)

(* _dt_serialize: a format is asked of no value too, and a date or a time    *)
(* cannot be given a format of tokens                                        *)
DtSerialized(format, v) ==
  CASE v = None -> IF format = "none" THEN None ELSE Error
    [] v.kind \in {"date", "time"} /\ format # "tokens" -> Str(v)
    [] v.kind \in {"Arrow", "datetime"} -> Str(v)
    [] OTHER -> Error

(* Symbol._serialize: the name it is imported by *)
SymbolName(v) == IF v.kind = "symbol" THEN Word(v.of) ELSE v

KeySerialized(keys, v) == CASE Len(keys) = 1 -> Simple(keys[1], v, FALSE)
                            [] v = None      -> Error
                            [] OTHER         -> AsKey(keys, v)

PathSerialized(v) == IF v.kind = "Path" THEN v.text ELSE Text(v)

(* Uri._serialize *)
UriSerialized(v) == AsUri(v, FALSE).text

(* Constant._serialize, _True._serialize *)
ConstantSerialized(name, v) == IF name = "true" THEN v ELSE None

(* The _serialize of each type; again is whether the value is first          *)
(* evaluated again. A url and a path are made of no value.                   *)
Serialized(ty, v, again) ==
  LET Plainly(w) == IF ty.name \in SymbolTypes THEN SymbolName(w) ELSE w
  IN  CASE ty.name \in {"date", "time", "datetime"} -> DtSerialized(ty.format, v)
        [] ty.name = "uri"  -> UriSerialized(v)
        [] ty.name = "path" -> PathSerialized(v)
        [] ty.name \in {"true", "null", "false"} -> ConstantSerialized(ty.name, v)
        [] ty.name = "foreignKey" -> KeySerialized(ty.keys, v)
        [] OTHER -> Plainly(IF again THEN Evaluated(ty, v, FALSE) ELSE v)
=============================================================================
