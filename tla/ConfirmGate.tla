---------------------------- MODULE ConfirmGate -----------------------------
(***************************************************************************)
(* What the two-phase guardrail promises, without identifiers, clocks,     *)
(* locks or handlers.  A mutating call becomes a proposal; a proposal is   *)
(* settled (run, or refused by the builder) only after an approval, and    *)
(* once; a proposal that was not approved can be dropped, an approved one  *)
(* cannot.                                                                 *)
(***************************************************************************)
EXTENDS Integers, Sequences

VARIABLE gate   \* the stage of each proposal, in the order they were made

GateStage == {"pending", "approved", "executed", "rejected", "dropped"}

GatePending == {r \in DOMAIN gate : gate[r] = "pending"}

\* The pending proposals in gone are dropped.
Without(gone) == [r \in DOMAIN gate |-> IF r \in gone THEN "dropped" ELSE gate[r]]

\* A new proposal; making room for it may drop pending ones.
Propose ==
  \E gone \in SUBSET GatePending : gate' = Append(Without(gone), "pending")

Drop ==
  \E gone \in SUBSET GatePending : gate' = Without(gone)

Approve ==
  \E r \in GatePending : gate' = [gate EXCEPT ![r] = "approved"]

Settle ==
  \E r \in DOMAIN gate, outcome \in {"executed", "rejected"} :
    /\ gate[r] = "approved"
    /\ gate' = [gate EXCEPT ![r] = outcome]

GateInit == gate = <<>>

GateNext == Propose \/ Drop \/ Approve \/ Settle

GateSpec == GateInit /\ [][GateNext]_gate
=============================================================================
