-------------------------- MODULE MCSerialization --------------------------
(* A and three classes that extend it, a diamond among them, a class whose   *)
(* bases have no order, and two that give a value to properties of L, one of *)
(* them a wrong one, and one that is to populate C back. Keys are optional,  *)
(* required, read only, not serialized, with a default, of a pattern, an     *)
(* array, an object or anything; those of L are of every type of literal.    *)
EXTENDS Serialization

S0 == [extends |-> << >>, bases |-> << >>, props |-> << >>, required |-> {}, readOnly |-> {},
       notSerialized |-> {}, notValidated |-> {}, deps |-> << >>, getters |-> << >>, keys |-> {},
       aliases |-> << >>, negated |-> << >>, relations |-> << >>, attrs |-> << >>, methods |-> << >>,
       patterns |-> {}, additional |-> [Literal EXCEPT !.name = "true"]]

other      == Word("other")
zero       == Whole(0)
expr(S, w) == [kind |-> "expression", inputs |-> S, worth |-> w]
map(f)     == [kind |-> "mapping", schema |-> "none", val |-> f]
obj(c, f)  == [kind |-> "object", cls |-> c, val |-> f]
of(n)      == [Literal EXCEPT !.name = n]
enum(s)    == [of("integer") EXCEPT !.enum = s]
key(s, p)  == [of("foreignKey") EXCEPT !.keys = s, !.to = "A", !.ptr = p]
tuple(s)   == [kind |-> "tuple", items |-> s]
Arr(s)     == [kind |-> "array", items |-> s]
symbol(n)  == [kind |-> "symbol", is |-> "class", of |-> n]

MCIds    == {"A", "B", "C", "D", "E", "L", "M", "N", "P"}
MCSchema ==
  [A |-> [S0 EXCEPT !.props = [a |-> [of("number") EXCEPT !.dft = expr({"b"}, Dec(3))], b |-> Literal],
                    !.required = {"b"}, !.deps = [a |-> {"c"}], !.notValidated = {"b"}, !.methods = [b |-> {"get"}],
                    !.patterns = {[names |-> {"n1", "n2"}, ty |-> of("integer")]}, !.additional = of("false")],
   B |-> [S0 EXCEPT !.extends = <<"A">>, !.notSerialized = {"c"},
                    !.props = [o |-> ObjectOf("A"), l |-> [ObjectOf("A") EXCEPT !.kind = "array", !.min = 1]],
                    !.getters = [o |-> {"a"}], !.methods = [o |-> {"get"}, c |-> {"set"}]],
   C |-> [S0 EXCEPT !.extends = <<"A">>, !.props = [a |-> of("number"), c |-> Literal,
                              n |-> [of("date") EXCEPT !.kind = "array"]],
                    !.readOnly = {"a"}, !.aliases = [x |-> "c"], !.negated = [y |-> "a"], !.keys = {"b"},
                    !.methods = [a |-> {"get", "set"}]],
   D |-> [S0 EXCEPT !.bases = <<"B">>, !.extends = <<"A", "C">>, !.attrs = [c |-> Word("c")]],
   E |-> [S0 EXCEPT !.extends = <<"A", "B">>],
   L |-> [S0 EXCEPT !.props =
            [d |-> of("date"), t |-> [of("time") EXCEPT !.format = "strftime"], z |-> of("datetime"),
             u |-> of("uri"), p |-> of("path"), s |-> of("class"), m |-> of("importable"),
             i |-> [of("integer") EXCEPT !.refused = {Whole(1)}, !.dft = zero], e |-> enum(<<Whole(1), zero>>),
             w |-> [of("string") EXCEPT !.enum = <<Word("now"), Text(zero)>>],
             f |-> [of("number") EXCEPT !.enum = <<Dec(3), Dec(1)>>],
             y |-> of("boolean"), q |-> key(<<"integer">>, "q_ptr"), r |-> key(<<"string", "integer">>, "r_ptr"), v |-> of("true"),
             g |-> [of("number") EXCEPT !.kind = "array", !.split = TRUE, !.min = 2, !.dft = Arr(<<Whole(0), Whole(1)>>)],
             h |-> [of("any") EXCEPT !.kind = "array", !.list = <<of("integer"), Literal>>]],
            !.relations = [c |-> [to |-> "C", keys |-> {}, back |-> FALSE], l |-> [to |-> "L", keys |-> {}, back |-> TRUE]]],
   M |-> [S0 EXCEPT !.extends = <<"L">>, !.attrs = [d |-> Str(Date("d1")), e |-> zero, y |-> Str(Bool(TRUE))],
                    !.required = {"must"}],
   N |-> [S0 EXCEPT !.extends = <<"L">>, !.attrs = [i |-> Text(zero)]],
   P |-> [S0 EXCEPT !.extends = <<"A">>, !.relations = [c |-> [to |-> "C", keys |-> {}, back |-> TRUE]]]]

MCMappings ==
  {<<"A", [a |-> None, b |-> other]>>,
   <<"B", [a |-> expr({"o"}, Error), b |-> other]>>,
   <<"B", [a |-> zero, o |-> map([b |-> other]), l |-> None]>>,
   <<"C", [a |-> expr({"c"}, zero), c |-> expr({"b"}, None)]>>,
   <<"C", [c |-> expr({"a"}, other), more |-> expr({"c"}, other)]>>,
   <<"D", [a |-> expr({"l"}, zero), c |-> other, l |-> None, o |-> None]>>}

A(v)     == obj("A", [a |-> Dec(v), b |-> other])
C(v, w)  == obj("C", [a |-> v, b |-> None, c |-> w, n |-> Arr(<< >>)])

L0 == [k \in DOMAIN MCSchema.L.props |->
         IF MCSchema.L.props[k].kind = "array" THEN Arr(<< >>) ELSE None]
Ld == [L0 EXCEPT !.i = zero, !.e = Whole(1), !.w = Word("now"), !.f = Dec(3)]
Lv == [d |-> Date("d1"), t |-> Time("t1"), z |-> None, u |-> AsUri(other, FALSE), p |-> AsPath(other, FALSE),
       s |-> symbol("int"), m |-> other, i |-> Whole(2), e |-> zero, w |-> Text(zero), f |-> Dec(3),
       y |-> Bool(FALSE), q |-> zero, r |-> tuple(<<other, zero>>), v |-> Dec(1), g |-> Arr(<<Dec(1), None>>), h |-> Arr(<<Whole(2), other>>)]
More(f, v) == f @@ [must |-> v]

MCObjects ==
  {A(3), A(0), obj("A", [a |-> None, b |-> other, n1 |-> Whole(2)]), C(None, other), C(Dec(0), None),
   obj("B", [a |-> Dec(3), b |-> other, o |-> C(Dec(1), other), l |-> Arr(<<None>>)]),
   obj("D", [a |-> Dec(0), b |-> other, c |-> Word("c"), o |-> None, l |-> Arr(<<A(0), C(None, other)>>),
               n |-> Arr(<<Date("d1"), None>>)]),
   obj("D", [a |-> Dec(3), b |-> None, c |-> other, o |-> A(3), l |-> Arr(<<A(3)>>),
               n |-> Arr(<< >>)]),
   obj("L", Lv), obj("M", More([Lv EXCEPT !.e = Whole(1)], A(3))),
   obj("L", [Ld EXCEPT !.t = Time("t1"), !.r = tuple(<<other, None>>)]),
   obj("M", More([Ld EXCEPT !.t = Time("t1"), !.r = tuple(<<other, None>>), !.d = Date("d1"), !.e = zero,
                            !.y = Bool(TRUE)], None))}

MCOptions ==
  [excludes : {{}, {"a"}}, only : {{}, {"c", "o"}, {"x", "l", "s"}}, no_defaults : BOOLEAN,
   no_readOnly : BOOLEAN, again : BOOLEAN]

MCPlain == {[required |-> {"b"}, readOnly |-> {"a"}, val |-> [a |-> other, b |-> None, z |-> other]]}

MCImportables == [int |-> symbol("int"), now |-> symbol("int")]

MCLiteralValues ==
  LET moments == {Arrow("d1", Midnight), Arrow(DayOne, "t1"), [Arrow("d1", "t1") EXCEPT !.kind = "datetime"]}
      typed   == {Whole(n) : n \in -2..2} \cup {Dec(n) : n \in -1..3} \cup {Bool(TRUE), Date("d1"), Time("t1")} \cup moments
      words   == {Word(w) : w \in {"", "now", "today", "int", "other"}}
      special == {AsUri(other, FALSE), AsPath(other, FALSE), AsUri(AsPath(other, FALSE), FALSE), symbol("int"),
                  tuple(<<Whole(1), Dec(2)>>), [kind |-> "entity", keys |-> <<other, Whole(1)>>]}
  IN  typed \cup words \cup special \cup {Text(v) : v \in typed \cup {tuple(<<Whole(1), Dec(2)>>)}}
        \cup {expr({}, v) : v \in typed \cup words} \cup {expr({"b"}, Whole(1)), expr({"b"}, Error), expr({}, None)}
=============================================================================
