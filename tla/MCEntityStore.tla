---------------------------- MODULE MCEntityStore ----------------------------
(* Instances of EntityStore for TLC. *)
EXTENDS EntityStore
CONSTANTS e1, e2, r1, r2, default, other
MCEntities == {e1, e2}
MCRepos == {r1, r2}
MCSessions == {default, other}
MCLinking == {e1}
MCEligible == {r1, r2}
MCInitialValues == {<< >>, <<e1, e2>>}
MCSessionOf == [e \in MCEntities |-> default]
=============================================================================
