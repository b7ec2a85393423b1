---------------------------- MODULE MCMcpServer -----------------------------
(***************************************************************************)
(* A session of four concurrent tool calls over a store of capacity one:   *)
(* enough for a staged build to be displaced or evicted while two clients  *)
(* confirm it, or a confirmation, a discard and a listing meet on it.      *)
(***************************************************************************)
EXTENDS McpServer

CONSTANTS i1, i2, known, unknown, ci, nowhere

MCActionID == {i1, i2}
MCFlavor == {known, unknown}
MCCatalog == {known}
MCBackend == {ci, nowhere}
MCSupported == {ci}
MCPayload == [flavor : MCFlavor, backend : MCBackend]
MCPruneAge == {0}

Build(flavor, backend, dryRun, confirmed) ==
  [tool |-> "trigger_build", flavor |-> flavor, backend |-> backend,
   dry_run |-> dryRun, confirmed |-> confirmed]

\* Everything a client may ask for, the inert variants once.
MCRequest ==
  [tool : {"confirm_action", "discard_staged_action"}, action_id : MCActionID]
    \union {Build(known, ci, FALSE, FALSE), Build(unknown, ci, FALSE, FALSE),
            Build(known, ci, FALSE, TRUE), Build(known, nowhere, TRUE, FALSE)}
    \union [tool : {"list_staged_actions", "malformed"}]
    \union {[tool |-> "apply_flavor", flavor |-> unknown, dry_run |-> FALSE]}
=============================================================================
