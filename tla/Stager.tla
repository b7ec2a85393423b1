------------------------------- MODULE Stager -------------------------------
(***************************************************************************)
(* pkg/mcp/staging.go: the in-memory store of mutating tool calls that     *)
(* wait for a confirmation.  Every method holds Stager.mu from its first   *)
(* line to its return, so one method is one atomic action.                 *)
(*                                                                         *)
(* The map holds pointers, and Stage, Get, List and Confirm hand those     *)
(* pointers out; an object therefore outlives its map entry.  heap keeps   *)
(* every StagedAction ever allocated and a pointer is an index into it.    *)
(*                                                                         *)
(* Left out: Preview and Target (texts for the reader of the card) and     *)
(* Tool (the server stages trigger_build only).                            *)
(***************************************************************************)
EXTENDS Integers, Sequences, FiniteSets, Functions

CONSTANTS
  ActionID,           \* the identifiers generateActionID can draw
  Payload,            \* what a staged call would execute
  DefaultStagingTTL,  \* clock ticks in 15 minutes
  MaxStagedCapacity,  \* the number of entries that makes Stage prune
  PruneAge,           \* the arguments callers of Prune pass
  MaxTime,            \* bound: the clock stops here
  MaxStaged           \* bound: the number of Stage calls in a behaviour

ASSUME StagerAssumption ==
  /\ DefaultStagingTTL \in Nat \ {0}
  /\ MaxStagedCapacity \in Nat \ {0}
  /\ PruneAge \subseteq Int
  /\ MaxTime \in Nat
  /\ MaxStaged \in Nat

VARIABLES
  now,      \* time.Now(): UTC() keeps the monotonic reading, so it never goes back
  heap,     \* the StagedAction objects in the order of their allocation
  actions   \* Stager.actions: identifier -> pointer

stagerVars == <<now, heap, actions>>

Status == {"pending", "confirmed", "discarded"}

StagedAction ==
  [id : ActionID, payload : Payload, status : Status, created_at : Nat]

Ref == 1 .. Len(heap)

\* The pointers some map entry still holds.
Reachable == {actions[id] : id \in DOMAIN actions}

(***************************************************************************)
(* Operations.                                                             *)
(***************************************************************************)
EffectiveAge(maxAge) == IF maxAge <= 0 THEN DefaultStagingTTL ELSE maxAge

\* Mutant: !CreatedAt.After(cutoff) in place of CreatedAt.Before(cutoff).
OlderOrEqual(r, age) == heap[r].created_at <= now - age

\* act.CreatedAt.Before(cutoff): an object exactly maxAge old stays.
OlderThan(r, age) == heap[r].created_at < now - age

\* The map pruneLocked leaves; it does not look at the status.
PruneLocked(maxAge) ==
  Restrict(actions,
           {id \in DOMAIN actions : ~OlderThan(actions[id], EffectiveAge(maxAge))})

\* Mutant: a capacity test that is off by one.
RoomForTwo ==
  IF Cardinality(DOMAIN actions) > MaxStagedCapacity
  THEN PruneLocked(DefaultStagingTTL)
  ELSE actions

\* What Stage keeps of the map before it adds its own entry.
RoomForOne ==
  IF Cardinality(DOMAIN actions) >= MaxStagedCapacity
  THEN PruneLocked(DefaultStagingTTL)
  ELSE actions

\* Mutant: an identifier in use reuses its object.
StageInPlace(id, payload) ==
  LET act == [id |-> id, payload |-> payload, status |-> "pending", created_at |-> now]
  IN  IF id \in DOMAIN actions
      THEN heap' = [heap EXCEPT ![actions[id]] = act] /\ UNCHANGED <<now, actions>>
      ELSE /\ heap' = Append(heap, act)
           /\ actions' = [k \in DOMAIN RoomForOne \union {id} |->
                            IF k = id THEN Len(heap) + 1 ELSE RoomForOne[k]]
           /\ UNCHANGED now

\* Mutant: the entry is made before the object it should point to.
StageTooEarly(id, payload) ==
  /\ heap' = Append(heap, [id |-> id, payload |-> payload,
                           status |-> "pending", created_at |-> now])
  /\ actions' = [k \in DOMAIN RoomForOne \union {id} |->
                   IF k = id THEN Len(heap) ELSE RoomForOne[k]]
  /\ UNCHANGED now

\* The identifier is drawn without a look at the map, so it may be in use.
Stage(id, payload) ==
  /\ heap' = Append(heap, [id |-> id, payload |-> payload,
                           status |-> "pending", created_at |-> now])
  /\ actions' = [k \in DOMAIN RoomForOne \union {id} |->
                   IF k = id THEN Len(heap) + 1 ELSE RoomForOne[k]]
  /\ UNCHANGED now

Prune(maxAge) ==
  /\ actions' = PruneLocked(maxAge)
  /\ UNCHANGED <<now, heap>>

Confirmable(id) ==
  /\ id \in DOMAIN actions
  /\ heap[actions[id]].status = "pending"

\* Mutant: a confirmation that does not look at the status.
ConfirmTwice(id) ==
  /\ id \in DOMAIN actions
  /\ heap' = [heap EXCEPT ![actions[id]].status = "confirmed"]
  /\ UNCHANGED <<now, actions>>

\* Mutant: a confirmation that searches every object with that identifier.
ConfirmAnyByID(id) ==
  /\ \E r \in Ref :
       /\ heap[r].id = id /\ heap[r].status = "pending"
       /\ heap' = [heap EXCEPT ![r].status = "confirmed"]
  /\ UNCHANGED <<now, actions>>

Confirm(id) ==
  /\ Confirmable(id)
  /\ heap' = [heap EXCEPT ![actions[id]].status = "confirmed"]
  /\ UNCHANGED <<now, actions>>

\* Mutant: delete(s.actions, id) is forgotten.
DiscardKeepsEntry(id) ==
  /\ id \in DOMAIN actions
  /\ heap' = [heap EXCEPT ![actions[id]].status = "discarded"]
  /\ UNCHANGED <<now, actions>>

\* Whatever the status is: an action already confirmed can be discarded too.
Discard(id) ==
  /\ id \in DOMAIN actions
  /\ heap' = [heap EXCEPT ![actions[id]].status = "discarded"]
  /\ actions' = Restrict(actions, DOMAIN actions \ {id})
  /\ UNCHANGED now

Tick ==
  /\ now < MaxTime
  /\ now' = now + 1
  /\ UNCHANGED <<heap, actions>>

StagerInit ==
  /\ now = 0
  /\ heap = <<>>
  /\ actions = [id \in {} |-> 0]

StagerNext ==
  \/ Tick
  \/ \E id \in ActionID, payload \in Payload :
       Len(heap) < MaxStaged /\ Stage(id, payload)
  \/ \E maxAge \in PruneAge : Prune(maxAge)
  \/ \E id \in ActionID : Confirm(id)
  \/ \E id \in ActionID : Discard(id)

StagerSpec == StagerInit /\ [][StagerNext]_stagerVars

(***************************************************************************)
(* Properties.                                                             *)
(***************************************************************************)
\* Type invariant of the store.
StagerTypeOK ==
  /\ now \in Nat
  /\ heap \in Seq(StagedAction)
  /\ DOMAIN actions \subseteq ActionID
  /\ actions \in [DOMAIN actions -> Ref]

\* The index stays sound whatever the identifiers drawn: an entry points to an
\* object staged under its own key, never to a discarded one, so no two keys
\* share an object and no discarded object can be confirmed (Stage, Discard).
IndexSound ==
  \A id \in DOMAIN actions :
    /\ heap[actions[id]].id = id
    /\ heap[actions[id]].status # "discarded"

\* An object that left the map (discarded, pruned or displaced by an equal
\* identifier) never comes back and is never written again: a late
\* confirm_action cannot revive it.
NoRevival ==
  [][\A r \in Ref \ Reachable : r \notin Reachable' /\ heap'[r] = heap[r]]_stagerVars

\* Confirm is the only way out of "pending" but for Discard, and no call leads
\* back to "pending": an object is confirmed at most once in its life.
StatusAdvances ==
  [][\A r \in Ref :
       /\ heap[r].status # "pending" => heap'[r].status # "pending"
       /\ heap[r].status = "discarded" => heap'[r].status = "discarded"]_stagerVars

\* What the bound of Stage really is: a Stage that ends above MaxStagedCapacity
\* has left no expired entry behind, so the excess is all live.
ExcessIsLive ==
  [][(Len(heap') > Len(heap) /\ Cardinality(DOMAIN actions') > MaxStagedCapacity)
       => \A id \in DOMAIN actions' :
            heap'[actions'[id]].created_at >= now - DefaultStagingTTL]_stagerVars

\* staging.go:39 says that MaxStagedCapacity is the maximum number of actions
\* stored before the oldest are evicted; Stage evicts expired entries only.
CapacityHeld == Cardinality(DOMAIN actions) <= MaxStagedCapacity
=============================================================================
