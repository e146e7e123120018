----------------------------- MODULE MCNamespace -----------------------------
(* Instances of Namespace for TLC: a document, one below it, and one whose    *)
(* name begins with the same letters.                                         *)
EXTENDS Namespace
MCSegs == {"", "$defs", "D", "E", "doc", "document", "host", "https:", "properties", "sub", "ument"}
MCRank == [s \in MCSegs |-> CHOOSE i \in 1..11 :
  <<"", "$defs", "D", "E", "doc", "document", "host", "https:", "properties", "sub", "ument">>[i] = s]
MCCut == [p \in MCSegs \X MCSegs |-> IF p = <<"doc", "document">> THEN "ument" ELSE Nothing]
MCClean == [s \in MCSegs |-> IF s = "https:" THEN "" ELSE s]
MCUpper == {"D", "E"}
MCOrigin == <<"https:", "", "host">>
Doc == Uri(<<"doc">>, << >>)
Sub == Uri(<<"doc", "sub">>, << >>)
Document == Uri(<<"document">>, << >>)
MCDocUris == {Doc, Sub}
MCPaths == [u \in MCDocUris |->
  IF u = Doc THEN << <<"$defs", "D">>, <<"$defs", "D", "$defs", "E">> >>
  ELSE << <<"properties", "D">> >>]
MCBindings == { << <<"doc">>, Doc >>, << <<"doc", "sub">>, Sub >>,
                << <<"sub">>, Sub >>, << <<"doc">>, Document >>}
MCNamed == {<< <<"document">>, Document >>}
MCRefs == {Uri(<<"doc">>, <<"$defs", "D">>), Uri(<<"doc", "sub">>, <<"$defs", "D">>),
           Uri(<<"document">>, <<"$defs", "D">>)}
MCCNames == {<<"D">>, <<"doc", "sub", "D">>}
=============================================================================
