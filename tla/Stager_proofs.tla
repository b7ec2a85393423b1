--------------------------- MODULE Stager_proofs ----------------------------
(***************************************************************************)
(* Theorems about the store: its index stays sound, an object that left    *)
(* the map is gone for good, and a status only moves forward.  They hold   *)
(* for any identifiers, payloads, TTL, capacity and bounds.                *)
(***************************************************************************)
EXTENDS Stager, FiniteSetTheorems, SequenceTheorems, TLAPS

\* The inductive invariant: IndexSound alone says nothing of what a pointer is.
StagerInv == StagerTypeOK /\ IndexSound

USE StagerAssumption

(***************************************************************************)
(* Lemmas about the operators the steps are built from.                    *)
(***************************************************************************)
\* pruneLocked only forgets: what it keeps is as it was.
LEMMA PruneKeeps ==
  ASSUME StagerTypeOK, NEW maxAge
  PROVE  /\ DOMAIN PruneLocked(maxAge) \subseteq DOMAIN actions
         /\ \A id \in DOMAIN PruneLocked(maxAge) : PruneLocked(maxAge)[id] = actions[id]
         /\ PruneLocked(maxAge) \in [DOMAIN PruneLocked(maxAge) -> Ref]
  BY DEF PruneLocked, Restrict, StagerTypeOK

\* So does the room that Stage makes.
LEMMA RoomKeeps ==
  ASSUME StagerTypeOK
  PROVE  /\ DOMAIN RoomForOne \subseteq DOMAIN actions
         /\ \A id \in DOMAIN RoomForOne : RoomForOne[id] = actions[id]
         /\ RoomForOne \in [DOMAIN RoomForOne -> Ref]
  <1>1. CASE Cardinality(DOMAIN actions) >= MaxStagedCapacity
    BY <1>1, PruneKeeps DEF RoomForOne
  <1>2. CASE ~(Cardinality(DOMAIN actions) >= MaxStagedCapacity)
    BY <1>2 DEF RoomForOne, StagerTypeOK
  <1> QED
    BY <1>1, <1>2

\* Stage appends one pending object and gives it a key; every other key it
\* keeps still points where it did.
LEMMA StageShape ==
  ASSUME StagerTypeOK, NEW id \in ActionID, NEW payload \in Payload,
         Stage(id, payload)
  PROVE  /\ heap' \in Seq(StagedAction)
         /\ Len(heap') = Len(heap) + 1
         /\ Ref' = Ref \union {Len(heap) + 1}
         /\ Len(heap) + 1 \notin Ref
         /\ \A r \in Ref : heap'[r] = heap[r]
         /\ heap'[Len(heap) + 1].id = id
         /\ heap'[Len(heap) + 1].payload = payload
         /\ heap'[Len(heap) + 1].status = "pending"
         /\ heap'[Len(heap) + 1].created_at = now
         /\ DOMAIN actions' \subseteq DOMAIN actions \union {id}
         /\ actions' \in [DOMAIN actions' -> Ref']
         /\ id \in DOMAIN actions'
         /\ actions'[id] = Len(heap) + 1
         /\ \A k \in DOMAIN actions' \ {id} : k \in DOMAIN actions /\ actions'[k] = actions[k]
         /\ now' = now
  <1> DEFINE act == [id |-> id, payload |-> payload,
                     status |-> "pending", created_at |-> now]
  <1>1. act \in StagedAction
    BY DEF StagedAction, Status, StagerTypeOK
  <1>2. heap' = Append(heap, act) /\ now' = now
    BY DEF Stage
  <1>3. /\ heap' \in Seq(StagedAction) /\ Len(heap') = Len(heap) + 1
        /\ \A r \in Ref : heap'[r] = heap[r]
        /\ heap'[Len(heap) + 1] = act
        /\ act.id = id /\ act.payload = payload /\ act.status = "pending"
        /\ act.created_at = now
    BY <1>1, <1>2 DEF StagerTypeOK, Ref
  <1>4. actions' = [k \in DOMAIN RoomForOne \union {id} |->
                      IF k = id THEN Len(heap) + 1 ELSE RoomForOne[k]]
    BY DEF Stage
  <1>5. Ref' = Ref \union {Len(heap) + 1} /\ Len(heap) + 1 \notin Ref
    BY <1>3 DEF StagerTypeOK, Ref
  <1> QED
    BY <1>2, <1>3, <1>4, <1>5, RoomKeeps

\* Confirm and Discard write the status of one object and nothing else.
LEMMA SetStatus ==
  ASSUME StagerTypeOK, NEW r \in Ref, NEW s \in Status,
         heap' = [heap EXCEPT ![r].status = s]
  PROVE  /\ heap' \in Seq(StagedAction)
         /\ Len(heap') = Len(heap)
         /\ \A q \in Ref : q # r => heap'[q] = heap[q]
         /\ heap'[r].id = heap[r].id
         /\ heap'[r].payload = heap[r].payload
         /\ heap'[r].status = s
  <1> DEFINE act == [heap[r] EXCEPT !.status = s]
  <1>1. heap \in Seq(StagedAction) /\ r \in 1 .. Len(heap)
    BY DEF StagerTypeOK, Ref
  <1>2. heap[r] \in StagedAction
    BY <1>1
  <1>3. /\ act \in StagedAction /\ act.id = heap[r].id /\ act.payload = heap[r].payload
        /\ act.status = s
    BY <1>2 DEF StagedAction
  <1>4. heap' = [heap EXCEPT ![r] = act]
    OBVIOUS
  <1> HIDE DEF act
  <1>5. heap' \in Seq(StagedAction) /\ Len(heap') = Len(heap)
    BY <1>1, <1>3, <1>4, ExceptSeq
  <1>6. heap'[r] = act /\ \A q \in Ref : q # r => heap'[q] = heap[q]
    BY <1>1, <1>4 DEF Ref
  <1> QED
    BY <1>3, <1>5, <1>6

(***************************************************************************)
(* Type correctness and the soundness of the index.                        *)
(***************************************************************************)
LEMMA StagerInitInv == StagerInit => StagerInv
  BY DEF StagerInit, StagerInv, StagerTypeOK, IndexSound, Ref

LEMMA TickInv == StagerInv /\ Tick => StagerInv'
  BY DEF StagerInv, StagerTypeOK, IndexSound, Ref, Tick

LEMMA StageInv ==
  ASSUME StagerInv, NEW id \in ActionID, NEW payload \in Payload, Stage(id, payload)
  PROVE  StagerInv'
  <1>0. StagerTypeOK
    BY DEF StagerInv
  <1>1. DOMAIN actions' \subseteq ActionID
    BY <1>0, StageShape DEF StagerTypeOK
  <1>2. actions' \in [DOMAIN actions' -> Ref']
    BY <1>0, StageShape
  <1>3. StagerTypeOK'
    BY <1>0, <1>1, <1>2, StageShape DEF StagerTypeOK
  <1>4. ASSUME NEW k \in DOMAIN actions'
        PROVE  heap'[actions'[k]].id = k /\ heap'[actions'[k]].status # "discarded"
    <2>1. CASE k = id
      BY <1>0, <2>1, StageShape
    <2>2. CASE k # id
      <3>1. k \in DOMAIN actions /\ actions'[k] = actions[k]
        BY <1>0, <2>2, <1>4, StageShape
      <3>2. heap'[actions[k]] = heap[actions[k]]
        BY <1>0, <3>1, StageShape DEF StagerTypeOK
      <3> QED
        BY <3>1, <3>2 DEF StagerInv, IndexSound
    <2> QED
      BY <2>1, <2>2
  <1>5. IndexSound'
    BY <1>4 DEF IndexSound
  <1> QED
    BY <1>3, <1>5 DEF StagerInv

LEMMA PruneInv ==
  ASSUME StagerInv, NEW maxAge, Prune(maxAge)
  PROVE  StagerInv'
  BY PruneKeeps DEF StagerInv, StagerTypeOK, IndexSound, Ref, Prune

LEMMA ConfirmShape ==
  ASSUME StagerTypeOK, NEW id \in ActionID, Confirm(id)
  PROVE  /\ actions[id] \in Ref
         /\ actions[id] \in Reachable
         /\ heap[actions[id]].status = "pending"
         /\ heap' = [heap EXCEPT ![actions[id]].status = "confirmed"]
         /\ actions' = actions /\ now' = now
  BY DEF StagerTypeOK, Confirm, Confirmable, Reachable

LEMMA ConfirmInv ==
  ASSUME StagerInv, NEW id \in ActionID, Confirm(id)
  PROVE  StagerInv'
  <1>0. StagerTypeOK /\ "confirmed" \in Status
    BY DEF StagerInv, Status
  <1>1. actions[id] \in Ref /\ heap' = [heap EXCEPT ![actions[id]].status = "confirmed"]
    BY <1>0, ConfirmShape
  <1>2. /\ heap' \in Seq(StagedAction) /\ Len(heap') = Len(heap)
        /\ \A r \in Ref : heap'[r].id = heap[r].id
        /\ \A r \in Ref : heap'[r].status \in {heap[r].status, "confirmed"}
    BY <1>0, <1>1, SetStatus
  <1>3. actions' = actions /\ now' = now
    BY <1>0, ConfirmShape
  <1>4. StagerTypeOK'
    BY <1>0, <1>2, <1>3 DEF StagerTypeOK, Ref
  <1>5. IndexSound'
    BY <1>0, <1>2, <1>3 DEF StagerInv, IndexSound, StagerTypeOK
  <1> QED
    BY <1>4, <1>5 DEF StagerInv

LEMMA DiscardShape ==
  ASSUME StagerTypeOK, NEW id \in ActionID, Discard(id)
  PROVE  /\ actions[id] \in Ref
         /\ actions[id] \in Reachable
         /\ heap' = [heap EXCEPT ![actions[id]].status = "discarded"]
         /\ DOMAIN actions' = DOMAIN actions \ {id}
         /\ \A k \in DOMAIN actions' : actions'[k] = actions[k]
         /\ actions' \in [DOMAIN actions' -> Ref]
         /\ now' = now
  BY DEF StagerTypeOK, Discard, Reachable, Restrict

LEMMA DiscardInv ==
  ASSUME StagerInv, NEW id \in ActionID, Discard(id)
  PROVE  StagerInv'
  <1>0. StagerTypeOK /\ "discarded" \in Status
    BY DEF StagerInv, Status
  <1>1. actions[id] \in Ref /\ heap' = [heap EXCEPT ![actions[id]].status = "discarded"]
    BY <1>0, DiscardShape
  <1>2. /\ heap' \in Seq(StagedAction) /\ Len(heap') = Len(heap)
        /\ \A r \in Ref : r # actions[id] => heap'[r] = heap[r]
    BY <1>0, <1>1, SetStatus
  <1>3. /\ DOMAIN actions' = DOMAIN actions \ {id}
        /\ \A k \in DOMAIN actions' : actions'[k] = actions[k]
        /\ actions' \in [DOMAIN actions' -> Ref]
        /\ now' = now
    BY <1>0, DiscardShape
  <1>4. StagerTypeOK'
    BY <1>0, <1>2, <1>3 DEF StagerTypeOK, Ref
  <1>5. id \in DOMAIN actions
    BY DEF Discard
  <1>6. \A k \in DOMAIN actions' : actions'[k] \in Ref \ {actions[id]}
    BY <1>3, <1>5 DEF StagerInv, IndexSound
  <1>7. IndexSound'
    BY <1>2, <1>3, <1>6 DEF StagerInv, IndexSound
  <1> QED
    BY <1>4, <1>7 DEF StagerInv

LEMMA StagerNextInv == StagerInv /\ [StagerNext]_stagerVars => StagerInv'
  <1> SUFFICES ASSUME StagerInv, [StagerNext]_stagerVars
               PROVE  StagerInv'
    OBVIOUS
  <1>1. CASE Tick
    BY <1>1, TickInv
  <1>2. CASE \E id \in ActionID, payload \in Payload :
               Len(heap) < MaxStaged /\ Stage(id, payload)
    BY <1>2, StageInv
  <1>3. CASE \E maxAge \in PruneAge : Prune(maxAge)
    BY <1>3, PruneInv
  <1>4. CASE \E id \in ActionID : Confirm(id)
    BY <1>4, ConfirmInv
  <1>5. CASE \E id \in ActionID : Discard(id)
    BY <1>5, DiscardInv
  <1>6. CASE UNCHANGED stagerVars
    BY <1>6 DEF stagerVars, StagerInv, StagerTypeOK, IndexSound, Ref
  <1> QED
    BY <1>1, <1>2, <1>3, <1>4, <1>5, <1>6 DEF StagerNext

\* The store is well typed and its index sound in every reachable state.
THEOREM StagerInvariance == StagerSpec => []StagerInv
  BY StagerInitInv, StagerNextInv, PTL DEF StagerSpec

\* Every variable of the store keeps its type.
THEOREM StagerTypeCorrect == StagerSpec => []StagerTypeOK
  <1>1. StagerInv => StagerTypeOK
    BY DEF StagerInv
  <1> QED
    BY <1>1, StagerInvariance, PTL

\* The map never leads to a discarded object or to one staged under another
\* key (Stage, Prune, Confirm and Discard of staging.go).
THEOREM IndexIsSound == StagerSpec => []IndexSound
  <1>1. StagerInv => IndexSound
    BY DEF StagerInv
  <1> QED
    BY <1>1, StagerInvariance, PTL

\* The map is finite, so its size is a number.
LEMMA MapFinite == StagerSpec => []IsFiniteSet(DOMAIN actions)
  <1>1. StagerInit => IsFiniteSet(DOMAIN actions)
    BY FS_EmptySet DEF StagerInit
  <1>2. ASSUME StagerInv, IsFiniteSet(DOMAIN actions), [StagerNext]_stagerVars
        PROVE  IsFiniteSet(DOMAIN actions)'
    <2>0. StagerTypeOK
      BY <1>2 DEF StagerInv
    <2>1. CASE Tick \/ UNCHANGED stagerVars
      BY <1>2, <2>1 DEF Tick, stagerVars
    <2>2. ASSUME NEW id \in ActionID, NEW payload \in Payload, Stage(id, payload)
          PROVE  IsFiniteSet(DOMAIN actions)'
      <3>1. DOMAIN actions' \subseteq DOMAIN actions \union {id}
        BY <2>0, <2>2, StageShape
      <3>2. IsFiniteSet(DOMAIN actions \union {id})
        BY <1>2, FS_AddElement
      <3> QED
        BY <3>1, <3>2, FS_Subset
    <2>3. ASSUME NEW maxAge, Prune(maxAge)
          PROVE  IsFiniteSet(DOMAIN actions)'
      BY <1>2, <2>0, <2>3, PruneKeeps, FS_Subset DEF Prune
    <2>4. ASSUME NEW id \in ActionID, Confirm(id)
          PROVE  IsFiniteSet(DOMAIN actions)'
      BY <1>2, <2>4 DEF Confirm
    <2>5. ASSUME NEW id \in ActionID, Discard(id)
          PROVE  IsFiniteSet(DOMAIN actions)'
      <3>1. DOMAIN actions' \subseteq DOMAIN actions
        BY <2>0, <2>5, DiscardShape
      <3> QED
        BY <1>2, <3>1, FS_Subset
    <2> QED
      BY <1>2, <2>1, <2>2, <2>3, <2>4, <2>5 DEF StagerNext
  <1> QED
    BY <1>1, <1>2, StagerInvariance, PTL DEF StagerSpec

(***************************************************************************)
(* What a step never does.                                                 *)
(***************************************************************************)
\* The two action properties, as facts about one step.
StepKeepsGone == \A r \in Ref \ Reachable : r \notin Reachable' /\ heap'[r] = heap[r]

StepAdvances ==
  \A r \in Ref :
    /\ heap[r].status # "pending" => heap'[r].status # "pending"
    /\ heap[r].status = "discarded" => heap'[r].status = "discarded"

\* The action property about the capacity, as a fact about one step.
StepExcess ==
  (Len(heap') > Len(heap) /\ Cardinality(DOMAIN actions') > MaxStagedCapacity)
    => \A id \in DOMAIN actions' :
         heap'[actions'[id]].created_at >= now - DefaultStagingTTL

\* Stage either prunes first, and then nothing expired is left, or had room.
LEMMA StageExcess ==
  ASSUME StagerInv, IsFiniteSet(DOMAIN actions),
         NEW id \in ActionID, NEW payload \in Payload, Stage(id, payload)
  PROVE  StepExcess
  <1>0. StagerTypeOK /\ DefaultStagingTTL \in Nat /\ now \in Nat
    BY DEF StagerInv, StagerTypeOK
  <1>1. CASE Cardinality(DOMAIN actions) >= MaxStagedCapacity
    <2>1. RoomForOne = PruneLocked(DefaultStagingTTL)
      BY <1>1 DEF RoomForOne
    <2>2. \A k \in DOMAIN RoomForOne :
            /\ RoomForOne[k] \in Ref
            /\ heap[RoomForOne[k]].created_at \in Nat
            /\ heap[RoomForOne[k]].created_at >= now - DefaultStagingTTL
      <3>1. \A k \in DOMAIN RoomForOne :
              /\ RoomForOne[k] = actions[k]
              /\ RoomForOne[k] \in Ref
              /\ ~OlderThan(actions[k], EffectiveAge(DefaultStagingTTL))
        <4>1. DOMAIN RoomForOne = {k \in DOMAIN actions :
                 ~OlderThan(actions[k], EffectiveAge(DefaultStagingTTL))}
          BY <2>1 DEF PruneLocked, Restrict
        <4>2. \A k \in DOMAIN RoomForOne : RoomForOne[k] = actions[k]
          BY <1>0, RoomKeeps
        <4> QED
          BY <1>0, <4>1, <4>2 DEF StagerTypeOK
      <3>2. EffectiveAge(DefaultStagingTTL) = DefaultStagingTTL
        BY <1>0 DEF EffectiveAge
      <3>3. \A r \in Ref : heap[r] \in StagedAction
        BY <1>0 DEF StagerTypeOK, Ref
      <3>4. \A r \in Ref : heap[r].created_at \in Nat
        BY <3>3 DEF StagedAction
      <3> QED
        BY <1>0, <3>1, <3>2, <3>4 DEF OlderThan
    <2>3. \A k \in DOMAIN actions' \ {id} : k \in DOMAIN RoomForOne /\ actions'[k] = RoomForOne[k]
      BY DEF Stage
    <2>4. \A r \in Ref : heap'[r] = heap[r]
      BY <1>0, StageShape
    <2>5. heap'[actions'[id]].created_at = now
      BY <1>0, StageShape
    <2>6. \A k \in DOMAIN actions' \ {id} :
            heap'[actions'[k]].created_at >= now - DefaultStagingTTL
      BY <2>2, <2>3, <2>4
    <2>7. heap'[actions'[id]].created_at >= now - DefaultStagingTTL
      BY <1>0, <2>5
    <2> QED
      BY <2>6, <2>7 DEF StepExcess
  <1>2. CASE ~(Cardinality(DOMAIN actions) >= MaxStagedCapacity)
    <2>1. /\ Cardinality(DOMAIN actions) \in Nat
          /\ Cardinality(DOMAIN actions) + 1 <= MaxStagedCapacity
      BY <1>2, FS_CardinalityType
    <2>2. /\ IsFiniteSet(DOMAIN actions \union {id})
          /\ Cardinality(DOMAIN actions \union {id}) <= Cardinality(DOMAIN actions) + 1
      <3>1. /\ IsFiniteSet(DOMAIN actions \union {id})
            /\ Cardinality(DOMAIN actions \union {id})
                 \in {Cardinality(DOMAIN actions), Cardinality(DOMAIN actions) + 1}
        BY FS_AddElement
      <3> QED
        BY <2>1, <3>1
    <2>3. DOMAIN actions' \subseteq DOMAIN actions \union {id}
      BY <1>0, StageShape
    <2>4. /\ Cardinality(DOMAIN actions') \in Nat
          /\ Cardinality(DOMAIN actions') <= Cardinality(DOMAIN actions \union {id})
      BY <2>2, <2>3, FS_Subset, FS_CardinalityType
    <2>5. Cardinality(DOMAIN actions') <= MaxStagedCapacity
      BY <2>1, <2>2, <2>4, FS_CardinalityType
    <2> QED
      BY <2>4, <2>5 DEF StepExcess
  <1> QED
    BY <1>1, <1>2

LEMMA StageStep ==
  ASSUME StagerInv, NEW id \in ActionID, NEW payload \in Payload, Stage(id, payload)
  PROVE  StepKeepsGone /\ StepAdvances
  <1>1. StagerTypeOK
    BY DEF StagerInv
  <1>2. \A r \in Ref : heap'[r] = heap[r]
    BY <1>1, StageShape
  <1>3. Reachable' \subseteq Reachable \union {Len(heap) + 1} /\ Len(heap) + 1 \notin Ref
    BY <1>1, StageShape DEF Reachable
  <1> QED
    BY <1>2, <1>3 DEF StepKeepsGone, StepAdvances

LEMMA PruneStep ==
  ASSUME StagerInv, NEW maxAge, Prune(maxAge)
  PROVE  StepKeepsGone /\ StepAdvances
  BY PruneKeeps DEF StagerInv, Prune, Reachable, StepKeepsGone, StepAdvances

LEMMA ConfirmStep ==
  ASSUME StagerInv, NEW id \in ActionID, Confirm(id)
  PROVE  StepKeepsGone /\ StepAdvances
  <1>0. StagerTypeOK /\ "confirmed" \in Status
    BY DEF StagerInv, Status
  <1>1. actions[id] \in Ref /\ heap' = [heap EXCEPT ![actions[id]].status = "confirmed"]
    BY <1>0, ConfirmShape
  <1>2. /\ \A r \in Ref : r # actions[id] => heap'[r] = heap[r]
        /\ heap'[actions[id]].status = "confirmed"
    BY <1>0, <1>1, SetStatus
  <1>3. /\ actions[id] \in Reachable /\ heap[actions[id]].status = "pending"
        /\ actions' = actions
    BY <1>0, ConfirmShape
  <1> QED
    BY <1>2, <1>3 DEF StepKeepsGone, StepAdvances, Reachable

LEMMA DiscardStep ==
  ASSUME StagerInv, NEW id \in ActionID, Discard(id)
  PROVE  StepKeepsGone /\ StepAdvances
  <1>0. StagerTypeOK /\ "discarded" \in Status
    BY DEF StagerInv, Status
  <1>1. actions[id] \in Ref /\ heap' = [heap EXCEPT ![actions[id]].status = "discarded"]
    BY <1>0, DiscardShape
  <1>2. /\ \A r \in Ref : r # actions[id] => heap'[r] = heap[r]
        /\ heap'[actions[id]].status = "discarded"
    BY <1>0, <1>1, SetStatus
  <1>3. actions[id] \in Reachable /\ Reachable' \subseteq Reachable
    BY <1>0, DiscardShape DEF Reachable
  <1> QED
    BY <1>2, <1>3 DEF StepKeepsGone, StepAdvances

LEMMA StagerStep ==
  StagerInv /\ [StagerNext]_stagerVars => StepKeepsGone /\ StepAdvances
  <1> SUFFICES ASSUME StagerInv, [StagerNext]_stagerVars
               PROVE  StepKeepsGone /\ StepAdvances
    OBVIOUS
  <1>1. CASE Tick \/ UNCHANGED stagerVars
    BY <1>1 DEF Tick, stagerVars, StepKeepsGone, StepAdvances, Reachable
  <1>2. CASE \E id \in ActionID, payload \in Payload :
               Len(heap) < MaxStaged /\ Stage(id, payload)
    BY <1>2, StageStep
  <1>3. CASE \E maxAge \in PruneAge : Prune(maxAge)
    BY <1>3, PruneStep
  <1>4. CASE \E id \in ActionID : Confirm(id)
    BY <1>4, ConfirmStep
  <1>5. CASE \E id \in ActionID : Discard(id)
    BY <1>5, DiscardStep
  <1> QED
    BY <1>1, <1>2, <1>3, <1>4, <1>5 DEF StagerNext

\* A discarded, pruned or displaced object is never reached or written again.
THEOREM GoneForGood == StagerSpec => NoRevival
  <1>1. StagerInv /\ [StagerNext]_stagerVars
          => [\A r \in Ref \ Reachable : r \notin Reachable' /\ heap'[r] = heap[r]]_stagerVars
    BY StagerStep DEF StepKeepsGone
  <1> QED
    BY <1>1, StagerInvariance, PTL DEF StagerSpec, NoRevival

\* An object leaves "pending" at most once and "discarded" never.
THEOREM StatusOnlyAdvances == StagerSpec => StatusAdvances
  <1>1. StagerInv /\ [StagerNext]_stagerVars
          => [\A r \in Ref :
                /\ heap[r].status # "pending" => heap'[r].status # "pending"
                /\ heap[r].status = "discarded" => heap'[r].status = "discarded"]_stagerVars
    BY StagerStep DEF StepAdvances
  <1> QED
    BY <1>1, StagerInvariance, PTL DEF StagerSpec, StatusAdvances
\* Above the capacity the store holds live actions only: Stage is bounded by
\* the calls of one TTL, not by MaxStagedCapacity.
THEOREM ExcessOnlyLive == StagerSpec => ExcessIsLive
  <1>1. ASSUME StagerInv, IsFiniteSet(DOMAIN actions), [StagerNext]_stagerVars
        PROVE  StepExcess
    <2>1. CASE \E id \in ActionID, payload \in Payload :
                 Len(heap) < MaxStaged /\ Stage(id, payload)
      BY <1>1, <2>1, StageExcess
    <2>2. CASE \/ Tick \/ UNCHANGED stagerVars
               \/ \E maxAge \in PruneAge : Prune(maxAge)
      <3>1. heap' = heap
        BY <2>2 DEF Tick, Prune, stagerVars
      <3> QED
        BY <3>1, <1>1 DEF StepExcess, StagerInv, StagerTypeOK
    <2>3. CASE \E id \in ActionID : Confirm(id) \/ Discard(id)
      <3>1. Len(heap') = Len(heap)
        BY <1>1, <2>3 DEF Confirm, Discard, StagerInv, StagerTypeOK
      <3> QED
        BY <3>1, <1>1 DEF StepExcess, StagerInv, StagerTypeOK
    <2> QED
      BY <1>1, <2>1, <2>2, <2>3 DEF StagerNext
  <1>2. StagerInv /\ IsFiniteSet(DOMAIN actions) /\ [StagerNext]_stagerVars
          => [(Len(heap') > Len(heap) /\ Cardinality(DOMAIN actions') > MaxStagedCapacity)
                => \A id \in DOMAIN actions' :
                     heap'[actions'[id]].created_at >= now - DefaultStagingTTL]_stagerVars
    BY <1>1 DEF StepExcess
  <1> QED
    BY <1>2, StagerInvariance, MapFinite, PTL DEF StagerSpec, ExcessIsLive
=============================================================================
