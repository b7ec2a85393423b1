------------------------------ MODULE Builder -------------------------------
(***************************************************************************)
(* pkg/builder/builder.go: what Dispatch does with a build request.  The   *)
(* nine dispatch functions only formulate a result and none can fail, so   *)
(* a supported backend stands for all of them.  The message, the pipeline  *)
(* identifier and the artifact location are texts and are left out.        *)
(***************************************************************************)
CONSTANTS
  Flavor,     \* the values of a request's flavor
  Catalog,    \* those that flavors.Get finds
  Backend,    \* the values of a request's backend
  Supported   \* those the switch of Dispatch names

ASSUME BuilderAssumption ==
  /\ Catalog \subseteq Flavor
  /\ Supported \subseteq Backend

\* "rejected" is a non-nil error, the other two are results with Success.
Outcome == {"dry-run", "executed", "rejected"}

\* Mutant: an unknown flavor goes through to the backend.
DispatchUnchecked(flavor, backend, dryRun) ==
  IF dryRun THEN "dry-run"
  ELSE IF backend \in Supported THEN "executed"
  ELSE "rejected"

\* The catalog is consulted first, the backend only by a real run.
Dispatch(flavor, backend, dryRun) ==
  IF flavor \notin Catalog THEN "rejected"
  ELSE IF dryRun THEN "dry-run"
  ELSE IF backend \in Supported THEN "executed"
  ELSE "rejected"
=============================================================================
