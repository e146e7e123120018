----------------------------- MODULE MCDocStore -----------------------------
(* Instances of DocStore for TLC. *)
EXTENDS DocStore
CONSTANTS d1, f1, f2, u1, U1, u2, p1, p2
MCDocs == {d1}
MCFiles == {f1, f2}
MCUris == {u1, U1, u2}
MCKeyOf == [u \in MCUris |-> IF u = U1 THEN u1 ELSE u]
MCAsked == {U1}
MCParts == {p1, p2}
MCParsed == {p1, p2}
MCIdOf == [p \in MCParts |-> IF p = p1 THEN u1 ELSE Nothing]
MCOwnId == [d \in MCDocs |-> u1]
MCStem == [f \in MCFiles |-> u1]
MCWeb == [u \in MCAsked |-> p2]
=============================================================================
