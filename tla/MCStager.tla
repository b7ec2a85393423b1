------------------------------ MODULE MCStager ------------------------------
(***************************************************************************)
(* The store alone, with callers that use every method of its interface.   *)
(* Three identifiers for four Stage calls force a displacement by an equal *)
(* identifier, and over a capacity of two they force the excess.           *)
(***************************************************************************)
EXTENDS Stager

CONSTANTS i1, i2, i3, build

MCActionID == {i1, i2, i3}
MCPayload == {build}
MCPruneAge == {-1, 0, 2}
=============================================================================
