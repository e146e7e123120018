------------------------------ MODULE MCXmlDict ------------------------------
(* Instances of XmlDict for TLC. *)
EXTENDS XmlDict
CONSTANTS a, b, id
MCNames == {a, b}
MCAttributes == {id}
MCForced == {b}
=============================================================================
