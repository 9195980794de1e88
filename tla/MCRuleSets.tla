----------------------------- MODULE MCRuleSets -----------------------------
(* Rule sets with a source path of their own. *)
EXTENDS RuleSets

OwnPaths == [t \in RuleTags |-> t]
=============================================================================
