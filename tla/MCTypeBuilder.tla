--------------------------- MODULE MCTypeBuilder ---------------------------
(***************************************************************************)
(* Two documents.  In the first, Part has a property of the type Whole,    *)
(* Whole extends Part and lists its kids, Peer is another name of Part and *)
(* the type of one of its properties, Odd is a Part with a default that    *)
(* its type refuses.  In the second, Far is a Part with a foreign key to   *)
(* Whole, and Whole has a property of a type based on Far.                 *)
(***************************************************************************)
EXTENDS TypeBuilder

Empty == [kind |-> "object", type |-> "object", target |-> None, more |-> FALSE, extends |-> <<>>,
          defs |-> <<>>, parts |-> <<>>, foreign |-> None, related |-> <<>>]
Alias(id) == [Empty EXCEPT !.kind = "alias", !.type = None, !.target = id]

MCSchema ==
    [Part      |-> [Empty EXCEPT !.parts = <<"PartWhole", "PartPeer">>],
     PartWhole |-> Alias("Whole"),
     PartPeer  |-> Alias("Peer"),
     Peer      |-> Alias("Part"),
     Whole     |-> [Empty EXCEPT !.extends = <<"Part">>, !.defs = <<"Kids">>, !.parts = <<"WholeFar", "WholeMore">>],
     Kids      |-> [Empty EXCEPT !.kind = "array", !.type = "array", !.parts = <<"KidsItem">>],
     KidsItem  |-> Alias("Part"),
     WholeFar  |-> [Alias("Far") EXCEPT !.more = TRUE],
     WholeMore |-> [Empty EXCEPT !.kind = "constant", !.type = None],
     Odd       |-> [Empty EXCEPT !.extends = <<"Part">>],
     Far       |-> [Empty EXCEPT !.parts = <<"FarKey">>, !.related = <<"Whole">>],
     FarKey    |-> [Empty EXCEPT !.kind = "literal", !.type = "literal", !.foreign = "Whole"]]

MCIds == DOMAIN MCSchema
MCDocOf == [id \in MCIds |-> IF id \in {"Far", "FarKey"} THEN "far.json" ELSE "near.json"]
MCBroken == {"Odd"}
MCNamed == {"Part", "Peer", "Whole", "Odd", "Far", "WholeMore"}
MCRedefined == {"Whole", "Far"}
=============================================================================
