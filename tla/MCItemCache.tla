---------------------------- MODULE MCItemCache ----------------------------
(***************************************************************************)
(* Instances of ItemCache, one for each Shape of class:                    *)
(*   "chain"    the class of tests/test_types_object_protocol.py           *)
(*              (test_call_order): an integer b, a string a = "{{b}}" and  *)
(*              a read-only integer c = "int(a)+1" of at most 2; and, as   *)
(*              additional properties are allowed, an additional key x;    *)
(*   "getters"  a name n, a getter o that depends on n and may return None *)
(*              or an invalid value, a getter m that depends on o and n,   *)
(*              and a string p = "{{m}}/{{o}}" that reads both.            *)
(***************************************************************************)
EXTENDS ItemCache

CONSTANT Shape

MCDeclared == IF Shape = "chain" THEN {"a", "b", "c"} ELSE {"n", "o", "m", "p"}
MCAdditional == IF Shape = "chain" THEN {"x"} ELSE {}
MCKeys == MCDeclared \cup MCAdditional

MCGetters == {"o", "m"} \cap MCDeclared
MCPrimitive == MCKeys \ {"o"}    \* the schema of "o" is true: any value

MCExprs == IF Shape = "chain" THEN {"{{b}}", "a+1"} ELSE {"{{m}}/{{o}}"}
MCRaw == MCExprs \cup {"1", "2", "bad", "text"} \cup
         IF Shape = "getters" THEN {"obj", "m1", "m2", "p1", "p2"} ELSE {"one"}

MCDeps == [k \in MCKeys |-> CASE k = "o" -> {"n"} [] k = "m" -> {"n", "o"}
                              [] OTHER -> {}]
MCRank == [k \in MCKeys |-> CASE k \in {"b", "n"} -> 0 [] k \in {"a", "x", "o"} -> 1
                              [] k \in {"c", "m"} -> 2 [] k = "p" -> 3]
MCDefault == [k \in MCKeys |-> CASE k = "a" -> "{{b}}" [] k \in {"b", "n"} -> "1"
                                 [] OTHER -> None]

\* "one" is a text that the integer type converts to 1; "bad" is not valid.
MCRawOf(k) == CASE k = "b" -> {"one", "2", "bad", None}
                [] k = "a" -> {"{{b}}", "1", None}
                [] k = "c" -> {"1"}
                [] k = "n" -> {"1", "2", "text", "bad"}
                [] k = "p" -> {"{{m}}/{{o}}", "p1"}
                [] k = "x" -> {"{{b}}", "one"}
                [] OTHER -> {}
MCInitOf(k) == CASE k = "b" -> {"one", "bad"}
                 [] k = "n" -> {"1", "2"}
                 [] k = "a" -> {"{{b}}"}
                 [] k = "c" -> {"a+1"}
                 [] k = "p" -> {"{{m}}/{{o}}"}
                 [] k = "x" -> {"{{b}}", Absent}
                 [] OTHER -> {None}

MCExprInputs(v) == CASE v = "{{b}}" -> {"b"} [] v = "a+1" -> {"a"}
                     [] v = "{{m}}/{{o}}" -> {"m", "o"}
                     [] OTHER -> {}

\* Jinja renders a missing or None name as a text; an Expr raises on it.
MCEval(k, v, env) ==
    CASE v = "one" -> "1"
      [] v = "bad" /\ k # "x" -> Err     \* additional keys take any value
      [] v = "{{b}}" -> IF env["b"] \in {"1", "2"} THEN env["b"] ELSE "text"
      [] v = "a+1" -> IF env["a"] = "1" THEN "2" ELSE Err
      [] v = "{{m}}/{{o}}" -> CASE env["m"] = "m1" /\ env["o"] = None -> "p1"
                                [] env["m"] = "m2" /\ env["o"] = "obj" -> "p2"
                                [] OTHER -> "text"
      [] OTHER -> v
MCGetter(k, env) ==
    CASE k = "o" -> CASE env["n"] = "1" -> None [] env["n"] = "2" -> "obj"
                      [] OTHER -> "bad"
      [] k = "m" -> IF env["o"] = None THEN "m1" ELSE "m2"

\* The first class is one AnswerIsFresh is proved for; in the second, a getter
\* depends on another.
ASSUME OrderlyChain == Shape = "chain" => OrderlyClass
============================================================================
