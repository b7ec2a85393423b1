-------------------------- MODULE McpServer_proofs --------------------------
(***************************************************************************)
(* Theorems about the tool handlers over the store, for any number of      *)
(* concurrent calls, any requests, identifiers, TTL and capacity:  the     *)
(* guardrail runs a staged build at most once, and the handlers implement  *)
(* the two-phase gate of ConfirmGate.tla.                                  *)
(***************************************************************************)
EXTENDS McpServer, Stager_proofs

\* The inductive invariant.  AtMostOnce speaks of answers; it is kept only
\* because a confirmed object has one holder, and that only because the map
\* never leads two identifiers to one object.
McpInv == TypeOK /\ IndexSound /\ HandlersSound

USE StagerAssumption, BuilderAssumption, McpAssumption

(***************************************************************************)
(* Lemmas about requests, outcomes and the store's invariant.              *)
(***************************************************************************)
LEMMA BuildFields ==
  ASSUME NEW q \in Request, q.tool = "trigger_build"
  PROVE  /\ q.flavor \in Flavor /\ q.backend \in Backend
         /\ q.dry_run \in BOOLEAN /\ q.confirmed \in BOOLEAN
         /\ [flavor |-> q.flavor, backend |-> q.backend] \in Payload
  BY DEF BuildRequest, FlavorRequest, StagedRequest, ListRequest, BadRequest

LEMMA StagedFields ==
  ASSUME NEW q \in Request, q.tool \in {"confirm_action", "discard_staged_action"}
  PROVE  q.action_id \in ActionID
  BY DEF BuildRequest, FlavorRequest, StagedRequest, ListRequest, BadRequest

\* A real run of a build is executed or rejected, a dry run is never executed.
LEMMA DispatchOutcome ==
  \A flavor, backend :
    /\ Dispatch(flavor, backend, FALSE) \in {"executed", "rejected"}
    /\ \A dryRun \in BOOLEAN :
         /\ Dispatch(flavor, backend, dryRun) \in Outcome
         /\ Dispatch(flavor, backend, dryRun) = "executed" => ~dryRun
  BY DEF Dispatch, Outcome

LEMMA StoreInv == McpInv => StagerInv
  BY DEF McpInv, TypeOK, StagerInv

(***************************************************************************)
(* A handler that only answers: the store, the held objects and the        *)
(* listings are as they were.                                              *)
(***************************************************************************)
LEMMA AnswerInv ==
  ASSUME McpInv, NEW c \in Call, held[c] = 0, pc[c] # "done",
         NEW q \in Request \union {NoRequest}, NEW kind \in ReplyKind,
         kind = "executed" => q.confirmed,
         req' = [req EXCEPT ![c] = q], Answer(c, kind, 0),
         UNCHANGED <<stagerVars, held, shown>>
  PROVE  McpInv'
  <1>1. TypeOK'
    BY DEF McpInv, TypeOK, StagerTypeOK, Ref, Answer, stagerVars, HandlerStage
  <1>2. IndexSound'
    BY DEF McpInv, IndexSound, stagerVars
  <1>3. HandlersSound'
    BY DEF McpInv, TypeOK, HandlersSound, Answer, stagerVars
  <1> QED
    BY <1>1, <1>2, <1>3 DEF McpInv

\* Handlers that read the store only.
LEMMA ReadersInv ==
  ASSUME McpInv, NEW c \in Call, NEW q \in Request,
         \/ RefuseMalformed(c, q) \/ RunBuild(c, q) \/ ApplyFlavor(c, q)
         \/ RefuseConfirm(c, q) \/ RefuseDiscard(c, q)
  PROVE  McpInv'
  <1>1. pc[c] = "idle" /\ held[c] = 0 /\ req' = [req EXCEPT ![c] = q]
    BY DEF McpInv, HandlersSound, RefuseMalformed, RunBuild, ApplyFlavor,
           RefuseConfirm, RefuseDiscard, Serves
  <1>2. UNCHANGED <<stagerVars, held, shown>>
    BY DEF RefuseMalformed, RunBuild, ApplyFlavor, RefuseConfirm, RefuseDiscard
  <1>3. CASE RunBuild(c, q)
    <2>1. q.tool = "trigger_build" /\ (q.dry_run \/ q.confirmed)
      BY <1>3 DEF RunBuild, Serves
    <2>2. q.dry_run \in BOOLEAN /\ q.confirmed \in BOOLEAN
      BY <2>1, BuildFields
    <2> DEFINE kind == Dispatch(q.flavor, q.backend, q.dry_run)
    <2>3. kind \in ReplyKind /\ (kind = "executed" => q.confirmed)
      BY <2>1, <2>2, DispatchOutcome DEF ReplyKind
    <2>4. Answer(c, kind, 0)
      BY <1>3 DEF RunBuild
    <2> QED
      BY <1>1, <1>2, <2>3, <2>4, AnswerInv
  <1>4. CASE ~RunBuild(c, q)
    <2>1. PICK kind \in {"script", "error"} : Answer(c, kind, 0)
      BY <1>4 DEF RefuseMalformed, ApplyFlavor, RefuseConfirm, RefuseDiscard
    <2> QED
      BY <1>1, <1>2, <2>1, AnswerInv DEF ReplyKind
  <1> QED
    BY <1>3, <1>4

(***************************************************************************)
(* Handlers that change the store.                                         *)
(***************************************************************************)
LEMMA StageBuildInv ==
  ASSUME McpInv, NEW c \in Call, NEW q \in Request, StageBuild(c, q)
  PROVE  McpInv'
  <1>0. q.tool = "trigger_build" /\ StagerInv /\ StagerTypeOK
    BY StoreInv DEF StageBuild, Serves, StagerInv
  <1>1. PICK id \in ActionID :
          Stage(id, [flavor |-> q.flavor, backend |-> q.backend])
    BY DEF StageBuild
  <1>2. [flavor |-> q.flavor, backend |-> q.backend] \in Payload
    BY <1>0, BuildFields
  <1>3. StagerInv'
    BY <1>0, <1>1, <1>2, StageInv
  <1>4. /\ Ref' = Ref \union {Len(heap) + 1} /\ 0 \notin Ref'
        /\ \A r \in Ref : heap'[r] = heap[r]
    BY <1>0, <1>1, <1>2, StageShape DEF StagerTypeOK, Ref
  <1>5. /\ pc[c] = "idle" /\ held[c] = 0 /\ held' = held /\ shown' = shown
        /\ req' = [req EXCEPT ![c] = q]
        /\ Answer(c, "staged", Len(heap) + 1)
    BY DEF McpInv, HandlersSound, StageBuild, Serves
  <1>6. TypeOK'
    BY <1>3, <1>4, <1>5 DEF McpInv, TypeOK, StagerInv, Answer, HandlerStage, ReplyKind
  <1>7. HandlersSound'
    BY <1>4, <1>5 DEF McpInv, TypeOK, HandlersSound, Answer
  <1> QED
    BY <1>3, <1>6, <1>7 DEF McpInv, StagerInv

LEMMA ConfirmActionInv ==
  ASSUME McpInv, NEW c \in Call, NEW q \in Request, ConfirmAction(c, q)
  PROVE  McpInv'
  <1> DEFINE r0 == actions[q.action_id]
  <1>0. /\ StagerInv /\ StagerTypeOK /\ "confirmed" \in Status
        /\ q.action_id \in ActionID /\ Confirm(q.action_id)
    BY StoreInv, StagedFields DEF ConfirmAction, Serves, StagerInv, Status
  <1>1. StagerInv'
    BY <1>0, ConfirmInv
  <1>2. /\ r0 \in Ref /\ heap[r0].status = "pending"
        /\ heap' = [heap EXCEPT ![r0].status = "confirmed"]
    BY <1>0, ConfirmShape
  <1>3. /\ Ref' = Ref /\ 0 \notin Ref /\ heap'[r0].status = "confirmed"
        /\ \A r \in Ref : r # r0 => heap'[r] = heap[r]
    BY <1>0, <1>2, SetStatus DEF Ref
  <1>4. /\ pc[c] = "idle" /\ held[c] = 0 /\ shown' = shown /\ reply' = reply
        /\ req' = [req EXCEPT ![c] = q]
        /\ held' = [held EXCEPT ![c] = r0]
        /\ pc' = [pc EXCEPT ![c] = "confirmed"]
    BY DEF McpInv, HandlersSound, ConfirmAction, Serves
  <1>5. \A d \in Call : held[d] # r0
    BY <1>2, <1>3 DEF McpInv, HandlersSound
  <1> HIDE DEF r0
  <1>6. TypeOK'
    BY <1>1, <1>2, <1>3, <1>4 DEF McpInv, TypeOK, StagerInv, HandlerStage
  <1>7. HandlersSound'
    BY <1>2, <1>3, <1>4, <1>5 DEF McpInv, TypeOK, HandlersSound
  <1> QED
    BY <1>1, <1>6, <1>7 DEF McpInv, StagerInv

LEMMA DiscardActionInv ==
  ASSUME McpInv, NEW c \in Call, NEW q \in Request, DiscardAction(c, q)
  PROVE  McpInv'
  <1> DEFINE r0 == actions[q.action_id]
  <1>0. /\ StagerInv /\ StagerTypeOK /\ "discarded" \in Status
        /\ q.action_id \in ActionID /\ Discard(q.action_id)
    BY StoreInv, StagedFields DEF DiscardAction, Serves, StagerInv, Status
  <1>1. StagerInv'
    BY <1>0, DiscardInv
  <1>2. r0 \in Ref /\ heap' = [heap EXCEPT ![r0].status = "discarded"]
    BY <1>0, DiscardShape
  <1>3. /\ Ref' = Ref /\ 0 \notin Ref /\ heap'[r0].status = "discarded"
        /\ \A r \in Ref : r # r0 => heap'[r] = heap[r]
    BY <1>0, <1>2, SetStatus DEF Ref
  <1>4. /\ pc[c] = "idle" /\ held[c] = 0 /\ held' = held /\ shown' = shown
        /\ req' = [req EXCEPT ![c] = q]
        /\ Answer(c, "discarded", r0)
    BY DEF McpInv, HandlersSound, DiscardAction, Serves
  <1> HIDE DEF r0
  <1>5. TypeOK'
    BY <1>1, <1>2, <1>3, <1>4 DEF McpInv, TypeOK, StagerInv, Answer, HandlerStage, ReplyKind
  <1>6. HandlersSound'
    BY <1>2, <1>3, <1>4 DEF McpInv, TypeOK, HandlersSound, Answer
  <1> QED
    BY <1>1, <1>5, <1>6 DEF McpInv, StagerInv

(***************************************************************************)
(* Steps outside the lock.                                                 *)
(***************************************************************************)
LEMMA ExecuteConfirmedInv ==
  ASSUME McpInv, NEW c \in Call, ExecuteConfirmed(c)
  PROVE  McpInv'
  <1>1. /\ pc[c] = "confirmed" /\ held[c] \in Ref
        /\ UNCHANGED <<now, heap, actions, req, held, shown>>
    BY DEF McpInv, TypeOK, HandlersSound, ExecuteConfirmed, stagerVars
  <1>2. PICK kind \in {"executed", "rejected"} : Answer(c, kind, held[c])
    BY DispatchOutcome DEF ExecuteConfirmed
  <1>3. TypeOK'
    BY <1>1, <1>2 DEF McpInv, TypeOK, StagerTypeOK, Ref, Answer, HandlerStage, ReplyKind, Outcome
  <1>4. HandlersSound'
    BY <1>1, <1>2 DEF McpInv, TypeOK, HandlersSound, Answer
  <1>5. IndexSound'
    BY <1>1 DEF McpInv, IndexSound
  <1> QED
    BY <1>3, <1>4, <1>5 DEF McpInv

LEMMA ListActionsInv ==
  ASSUME McpInv, NEW c \in Call, NEW q \in Request, ListActions(c, q)
  PROVE  McpInv'
  <1>1. /\ pc[c] = "idle" /\ UNCHANGED <<now, heap, actions, held, reply>>
        /\ pc' = [pc EXCEPT ![c] = "listing"] /\ req' = [req EXCEPT ![c] = q]
        /\ shown' = [shown EXCEPT ![c] = [r \in Reachable |-> Unread]]
    BY DEF ListActions, Serves, stagerVars
  <1>2. Reachable \subseteq Ref /\ Unread \in [text : Word, length : Word]
    BY DEF McpInv, TypeOK, StagerTypeOK, Reachable, Unread, Word
  <1>3. \A d \in Call : /\ DOMAIN shown'[d] \subseteq Ref
                        /\ shown'[d] \in [DOMAIN shown'[d] -> [text : Word, length : Word]]
    BY <1>1, <1>2 DEF McpInv, TypeOK
  <1>4. TypeOK'
    BY <1>1, <1>3 DEF McpInv, TypeOK, StagerTypeOK, Ref, HandlerStage
  <1>5. HandlersSound'
    BY <1>1 DEF McpInv, TypeOK, HandlersSound
  <1>6. IndexSound'
    BY <1>1 DEF McpInv, IndexSound
  <1> QED
    BY <1>4, <1>5, <1>6 DEF McpInv

LEMMA LoadStatusInv ==
  ASSUME McpInv, NEW c \in Call, LoadStatus(c)
  PROVE  McpInv'
  <1>1. UNCHANGED <<now, heap, actions, pc, req, held, reply>>
    BY DEF LoadStatus, stagerVars
  <1>2. PICK r \in DOMAIN shown[c], w \in {"text", "length"} :
          shown' = [shown EXCEPT ![c][r][w] = heap[r].status]
    BY DEF LoadStatus
  <1>3. r \in Ref /\ heap[r].status \in Word
    <2>1. r \in Ref /\ heap[r] \in StagedAction
      BY <1>2 DEF McpInv, TypeOK, StagerTypeOK, Ref
    <2> QED
      BY <2>1 DEF StagedAction, Word
  <1>4. \A d \in Call : /\ DOMAIN shown'[d] \subseteq Ref
                        /\ shown'[d] \in [DOMAIN shown'[d] -> [text : Word, length : Word]]
    BY <1>2, <1>3 DEF McpInv, TypeOK
  <1>5. TypeOK'
    BY <1>1, <1>2, <1>4 DEF McpInv, TypeOK, StagerTypeOK, Ref
  <1>6. HandlersSound'
    BY <1>1 DEF McpInv, HandlersSound
  <1>7. IndexSound'
    BY <1>1 DEF McpInv, IndexSound
  <1> QED
    BY <1>5, <1>6, <1>7 DEF McpInv

LEMMA AnswerListingInv ==
  ASSUME McpInv, NEW c \in Call, AnswerListing(c)
  PROVE  McpInv'
  <1>1. /\ pc[c] = "listing" /\ held[c] = 0 /\ Answer(c, "listed", 0)
        /\ UNCHANGED <<stagerVars, held, shown>>
        /\ req[c] \in Request \union {NoRequest}
        /\ req' = [req EXCEPT ![c] = req[c]]
    BY DEF McpInv, TypeOK, HandlersSound, AnswerListing
  <1> QED
    BY <1>1, AnswerInv DEF ReplyKind

LEMMA McpNextInv == McpInv /\ [Next]_vars => McpInv'
  <1> SUFFICES ASSUME McpInv, [Next]_vars
               PROVE  McpInv'
    OBVIOUS
  <1>1. CASE Tick /\ UNCHANGED callVars
    <2>1. StagerInv'
      BY <1>1, StoreInv, TickInv
    <2> QED
      BY <1>1, <2>1 DEF McpInv, TypeOK, StagerInv, HandlersSound, Tick, callVars, Ref
  <1>2. ASSUME NEW c \in Call, NEW q \in Request,
               \/ RefuseMalformed(c, q)
               \/ StageBuild(c, q) \/ RunBuild(c, q) \/ ApplyFlavor(c, q)
               \/ ConfirmAction(c, q) \/ RefuseConfirm(c, q)
               \/ DiscardAction(c, q) \/ RefuseDiscard(c, q)
               \/ ListActions(c, q)
        PROVE  McpInv'
    BY <1>2, ReadersInv, StageBuildInv, ConfirmActionInv, DiscardActionInv, ListActionsInv
  <1>3. ASSUME NEW c \in Call, Continue(c)
        PROVE  McpInv'
    BY <1>3, ExecuteConfirmedInv, LoadStatusInv, AnswerListingInv DEF Continue
  <1>4. CASE UNCHANGED vars
    BY <1>4 DEF vars, stagerVars, callVars, McpInv, TypeOK, StagerTypeOK, Ref,
                IndexSound, HandlersSound
  <1> QED
    BY <1>1, <1>2, <1>3, <1>4 DEF Next, Begin, Quiescent

LEMMA McpInitInv == Init => McpInv
  <1> SUFFICES ASSUME Init PROVE McpInv
    OBVIOUS
  <1>1. StagerInv
    BY StagerInitInv DEF Init
  <1>2. TypeOK
    BY <1>1 DEF Init, TypeOK, StagerInv, StagerInit, HandlerStage, ReplyKind, Ref, Unread
  <1>3. HandlersSound
    BY DEF Init, HandlersSound
  <1> QED
    BY <1>1, <1>2, <1>3 DEF McpInv, StagerInv

\* Types, the store's index and the handlers' hold on objects are kept by every
\* interleaving of any number of calls.
THEOREM McpInvariance == Spec => []McpInv
  BY McpInitInv, McpNextInv, PTL DEF Spec

\* The server's type invariant.
THEOREM McpTypeCorrect == Spec => []TypeOK
  BY McpInvariance, PTL DEF McpInv

\* An object a confirmation has taken belongs to that handler alone, whatever
\* other handlers confirm, discard or evict before it dispatches.
THEOREM HandlersAreSound == Spec => []HandlersSound
  BY McpInvariance, PTL DEF McpInv

\* No staged build runs unapproved, and none runs twice.
THEOREM GuardedOnce == Spec => []AtMostOnce
  <1>1. McpInv => AtMostOnce
    <2> SUFFICES ASSUME McpInv, NEW c \in Executed
                 PROVE  /\ reply[c].ref = 0 => req[c].confirmed
                        /\ reply[c].ref # 0 => heap[reply[c].ref].status # "pending"
                        /\ \A d \in Executed \ {c} :
                             reply[c].ref = reply[d].ref => reply[c].ref = 0
      BY DEF AtMostOnce
    <2>1. \A d \in Executed : /\ d \in Call /\ pc[d] = "done"
                              /\ held[d] \in Ref \union {0} /\ reply[d].ref = held[d]
      BY DEF McpInv, TypeOK, HandlersSound, Executed, HandlerStage
    <2> QED
      BY <2>1 DEF McpInv, HandlersSound, Executed
  <1> QED
    BY <1>1, McpInvariance, PTL

(***************************************************************************)
(* The handlers implement the two-phase gate.                              *)
(***************************************************************************)
\* The stage of an object told from its holder instead of from the answers.
HeldSettled(r, outcome) ==
  \E c \in Call : pc[c] = "done" /\ held[c] = r /\ reply[c].kind = outcome

HeldStage(r) ==
  IF HeldSettled(r, "executed") THEN "executed"
  ELSE IF HeldSettled(r, "rejected") THEN "rejected"
  ELSE IF \E c \in Call : held[c] = r THEN "approved"
  ELSE IF r \in Reachable /\ heap[r].status = "pending" THEN "pending"
  ELSE "dropped"

GateMap == [r \in Ref |-> HeldStage(r)]

Held == INSTANCE ConfirmGate WITH gate <- GateMap

\* It is the stage of the refinement mapping: an outcome names an object only
\* if the handler that answers holds it.
StageMap == [r \in Ref |-> GateOf(r)]

StagesAgree == StageMap = GateMap

LEMMA StageByHolder == McpInv => StagesAgree
  <1> SUFFICES ASSUME McpInv, NEW r \in Ref
               PROVE  GateOf(r) = HeldStage(r)
    BY DEF GateMap, StageMap, StagesAgree
  <1>1. r # 0
    BY DEF Ref
  <1>2. ASSUME NEW outcome \in {"executed", "rejected"}
        PROVE  Settled(r, outcome) <=> HeldSettled(r, outcome)
    <2>1. ASSUME NEW c \in Call
          PROVE  reply[c] = [kind |-> outcome, ref |-> r]
                   <=> pc[c] = "done" /\ held[c] = r /\ reply[c].kind = outcome
      <3>1. reply[c] \in [kind : ReplyKind, ref : Ref \union {0}]
        BY DEF McpInv, TypeOK
      <3>2. reply[c] = [kind |-> outcome, ref |-> r]
              <=> reply[c].kind = outcome /\ reply[c].ref = r
        BY <3>1
      <3> QED
        BY <1>1, <3>2 DEF McpInv, HandlersSound
    <2> QED
      BY <2>1 DEF Settled, HeldSettled
  <1> QED
    BY <1>2 DEF GateOf, HeldStage

\* So a step of the gate told from the holders is a step of the gate.
LEMMA StageByHolderNext == McpInv' => StagesAgree'
  BY StageByHolder, PTL

LEMMA HeldStep ==
  ASSUME McpInv, McpInv', [Held!GateNext]_GateMap
  PROVE  [Gate!GateNext]_([r \in Ref |-> GateOf(r)])
  <1>1. [r \in Ref |-> GateOf(r)] = GateMap
    BY StageByHolder DEF StageMap, StagesAgree
  <1>2. [r \in Ref |-> GateOf(r)]' = GateMap'
    BY StageByHolderNext DEF StageMap, StagesAgree
  <1>3. CASE GateMap' = GateMap
    BY <1>1, <1>2, <1>3
  <1>4. ASSUME Held!Propose PROVE Gate!Propose
    <2>1. PICK gone \in SUBSET Held!GatePending :
            GateMap' = Append(Held!Without(gone), "pending")
      BY <1>4 DEF Held!Propose
    <2>2. Held!GatePending = Gate!GatePending
      BY <1>1 DEF Held!GatePending, Gate!GatePending
    <2>3. Held!Without(gone) = Gate!Without(gone)
      BY <1>1 DEF Held!Without, Gate!Without
    <2> QED
      BY <1>2, <2>1, <2>2, <2>3 DEF Gate!Propose
  <1>5. Held!Drop => Gate!Drop
    BY <1>1, <1>2 DEF Held!Drop, Gate!Drop, Held!Without, Gate!Without,
                      Held!GatePending, Gate!GatePending
  <1>6. Held!Approve => Gate!Approve
    BY <1>1, <1>2 DEF Held!Approve, Gate!Approve, Held!GatePending, Gate!GatePending
  <1>7. Held!Settle => Gate!Settle
    BY <1>1, <1>2 DEF Held!Settle, Gate!Settle
  <1> QED
    BY <1>3, <1>4, <1>5, <1>6, <1>7 DEF Held!GateNext, Gate!GateNext

\* The stages of HeldStage, for an object whose holder is known.
LEMMA HolderStage ==
  ASSUME McpInv, NEW c \in Call, held[c] # 0
  PROVE  HeldStage(held[c]) = IF pc[c] = "done" THEN reply[c].kind ELSE "approved"
  <1>1. \A d \in Call : held[d] = held[c] => d = c
    BY DEF McpInv, HandlersSound
  <1>2. pc[c] = "done" => reply[c].kind \in {"executed", "rejected"}
    BY DEF McpInv, HandlersSound
  <1> QED
    BY <1>1, <1>2 DEF HeldStage, HeldSettled

\* And for one that no handler holds.
LEMMA FreeStage ==
  ASSUME NEW r, \A c \in Call : held[c] # r
  PROVE  HeldStage(r) = IF r \in Reachable /\ heap[r].status = "pending"
                     THEN "pending" ELSE "dropped"
  BY DEF HeldStage, HeldSettled

\* A handler that holds nothing and touches nothing moves no stage.
LEMMA InertStage ==
  ASSUME held' = held, heap' = heap, actions' = actions,
         \A c \in Call : held[c] # 0 => pc'[c] = pc[c] /\ reply'[c] = reply[c],
         TypeOK
  PROVE  GateMap' = GateMap
  <1>1. Ref' = Ref /\ Reachable' = Reachable /\ 0 \notin Ref
    BY DEF Ref, Reachable
  <1>2. \A r \in Ref : HeldStage(r)' = HeldStage(r)
    BY <1>1 DEF HeldStage, HeldSettled
  <1> QED
    BY <1>1, <1>2 DEF GateMap

LEMMA GateMapType == McpInv => /\ GateMap \in Seq(Held!GateStage)
                               /\ Len(GateMap) = Len(heap)
                               /\ DOMAIN GateMap = Ref
  <1> SUFFICES ASSUME McpInv
               PROVE  /\ GateMap \in Seq(Held!GateStage)
                      /\ Len(GateMap) = Len(heap) /\ DOMAIN GateMap = Ref
    OBVIOUS
  <1>1. Len(heap) \in Nat /\ Ref = 1 .. Len(heap)
    BY DEF McpInv, TypeOK, StagerTypeOK, Ref
  <1>2. \A r \in Ref : HeldStage(r) \in Held!GateStage
    BY DEF HeldStage, Held!GateStage
  <1> QED
    BY <1>1, <1>2 DEF GateMap

LEMMA AppendDef ==
  ASSUME NEW S, NEW s \in Seq(S), NEW e
  PROVE  Append(s, e) = [i \in 1 .. Len(s) + 1 |-> IF i = Len(s) + 1 THEN e ELSE s[i]]
  <1> DEFINE T == S \union {e}
             t == [i \in 1 .. Len(s) + 1 |-> IF i = Len(s) + 1 THEN e ELSE s[i]]
  <1>1. Len(s) \in Nat /\ s \in Seq(T)
    OBVIOUS
  <1>2. t \in Seq(T) /\ Len(t) = Len(s) + 1
    BY <1>1
  <1>3. Append(s, e) \in Seq(T) /\ Len(Append(s, e)) = Len(s) + 1
    BY <1>1
  <1>4. \A i \in 1 .. Len(Append(s, e)) : Append(s, e)[i] = t[i]
    BY <1>1, <1>3
  <1> QED
    BY <1>2, <1>3, <1>4, SeqEqual

\* StageBuild proposes, and drops what it prunes or displaces.
LEMMA StageBuildGate ==
  ASSUME McpInv, NEW c \in Call, NEW q \in Request, StageBuild(c, q)
  PROVE  Held!Propose
  <1>0. q.tool = "trigger_build" /\ StagerInv /\ StagerTypeOK
    BY StoreInv DEF StageBuild, Serves, StagerInv
  <1>1. PICK id \in ActionID :
          Stage(id, [flavor |-> q.flavor, backend |-> q.backend])
    BY DEF StageBuild
  <1>2. [flavor |-> q.flavor, backend |-> q.backend] \in Payload
    BY <1>0, BuildFields
  <1>a. PICK n \in Nat : n = Len(heap) + 1
    BY <1>0 DEF StagerTypeOK
  <1>3. /\ Ref' = Ref \union {n} /\ n \notin Ref /\ 0 \notin Ref
        /\ Len(heap') = n /\ Len(heap) \in Nat
        /\ \A r \in Ref : heap'[r] = heap[r]
        /\ heap'[n].status = "pending" /\ n \in Reachable'
        /\ Reachable' \subseteq Reachable \union {n}
    <2>1. /\ Ref' = Ref \union {n} /\ n \notin Ref
          /\ Len(heap') = n /\ heap'[n].status = "pending"
          /\ \A r \in Ref : heap'[r] = heap[r]
      BY <1>0, <1>1, <1>2, <1>a, StageShape
    <2>2. n \in Reachable' /\ Reachable' \subseteq Reachable \union {n}
      <3>1. /\ \E k \in DOMAIN actions' : actions'[k] = n
            /\ \A k \in DOMAIN actions' :
                 actions'[k] = n \/ (k \in DOMAIN actions /\ actions'[k] = actions[k])
        BY <1>0, <1>1, <1>2, <1>a, StageShape
      <3> QED
        BY <3>1 DEF Reachable
    <2>3. Len(heap) \in Nat /\ 0 \notin Ref
      BY <1>0 DEF StagerTypeOK, Ref
    <2> QED
      BY <2>1, <2>2, <2>3
  <1>4. /\ held' = held /\ held[c] = 0
        /\ \A d \in Call : held[d] # 0 => pc'[d] = pc[d] /\ reply'[d] = reply[d]
        /\ \A d \in Call : held[d] \in Ref \union {0}
    BY DEF McpInv, TypeOK, HandlersSound, StageBuild, Serves, Answer
  <1> DEFINE gone == {r \in Ref : HeldStage(r) = "pending" /\ r \notin Reachable'}
  <1>5. \A r \in Ref : HeldStage(r)' = IF r \in gone THEN "dropped" ELSE HeldStage(r)
    <2> SUFFICES ASSUME NEW r \in Ref
                 PROVE  HeldStage(r)' = IF r \in gone THEN "dropped" ELSE HeldStage(r)
      OBVIOUS
    <2>1. CASE \E d \in Call : held[d] = r
      BY <1>3, <1>4, <2>1 DEF HeldStage, HeldSettled
    <2>2. CASE ~ \E d \in Call : held[d] = r
      BY <1>3, <1>4, <2>2 DEF HeldStage, HeldSettled
    <2> QED
      BY <2>1, <2>2
  <1>6. HeldStage(n)' = "pending"
    <2>1. \A d \in Call : held'[d] # n
      BY <1>3, <1>4, <1>a
    <2> QED
      BY <1>3, <2>1 DEF HeldStage, HeldSettled
  <1>7. gone \in SUBSET {r \in DOMAIN GateMap : GateMap[r] = "pending"}
    BY DEF GateMap
  <1> DEFINE kept == [r \in DOMAIN GateMap |-> IF r \in gone THEN "dropped" ELSE GateMap[r]]
  <1>8. kept \in Seq(Held!GateStage) /\ Len(kept) = Len(heap)
        /\ \A r \in Ref : kept[r] = IF r \in gone THEN "dropped" ELSE HeldStage(r)
    BY <1>3, GateMapType DEF GateMap, Held!GateStage, Ref
  <1>9. GateMap' = Append(kept, "pending")
    <2>1. Ref' = 1 .. n /\ Ref = 1 .. Len(heap)
      BY <1>3 DEF Ref
    <2>2. GateMap' = [r \in 1 .. n |-> IF r = n THEN "pending" ELSE kept[r]]
      BY <1>3, <1>5, <1>6, <1>8, <2>1 DEF GateMap
    <2> HIDE DEF kept
    <2>3. Append(kept, "pending") = [r \in 1 .. n |-> IF r = n THEN "pending" ELSE kept[r]]
      BY <1>3, <1>8, <1>a, AppendDef
    <2> QED
      BY <2>2, <2>3
  <1> QED
    BY <1>7, <1>9 DEF Held!Propose, Held!Without, Held!GatePending, GateMap

\* ConfirmAction approves the one object it takes.
LEMMA ConfirmActionGate ==
  ASSUME McpInv, NEW c \in Call, NEW q \in Request, ConfirmAction(c, q)
  PROVE  Held!Approve
  <1>0. /\ StagerTypeOK /\ "confirmed" \in Status
        /\ q.action_id \in ActionID /\ Confirm(q.action_id)
    BY StoreInv, StagedFields DEF ConfirmAction, Serves, StagerInv, Status
  <1>a. PICK r0 \in Ref : r0 = actions[q.action_id]
    BY <1>0, ConfirmShape
  <1>1. /\ r0 \in Ref /\ r0 \in Reachable /\ heap[r0].status = "pending"
        /\ heap' = [heap EXCEPT ![r0].status = "confirmed"]
        /\ actions' = actions
    BY <1>0, <1>a, ConfirmShape
  <1>2. /\ Ref' = Ref /\ 0 \notin Ref /\ Reachable' = Reachable
        /\ \A r \in Ref : r # r0 => heap'[r] = heap[r]
    BY <1>0, <1>1, SetStatus DEF Ref, Reachable
  <1>3. /\ pc[c] = "idle" /\ held[c] = 0 /\ reply' = reply
        /\ held' = [held EXCEPT ![c] = r0]
        /\ pc' = [pc EXCEPT ![c] = "confirmed"]
        /\ c \in DOMAIN held /\ c \in DOMAIN pc
    BY <1>a DEF McpInv, TypeOK, HandlersSound, ConfirmAction, Serves
  <1>4. \A d \in Call : held[d] # r0
    BY <1>1, <1>2 DEF McpInv, HandlersSound
  <1>5. HeldStage(r0) = "pending"
    BY <1>1, <1>4, FreeStage
  <1>6. HeldStage(r0)' = "approved"
    BY <1>3, <1>4 DEF HeldStage, HeldSettled
  <1>7. \A r \in Ref \ {r0} : HeldStage(r)' = HeldStage(r)
    BY <1>2, <1>3 DEF HeldStage, HeldSettled
  <1>8. GateMap' = [GateMap EXCEPT ![r0] = "approved"]
    BY <1>1, <1>2, <1>6, <1>7 DEF GateMap
  <1>9. r0 \in {r \in DOMAIN GateMap : GateMap[r] = "pending"}
    BY <1>1, <1>5 DEF GateMap
  <1> QED
    BY <1>8, <1>9 DEF Held!Approve, Held!GatePending, GateMap

\* ExecuteConfirmed settles the object its handler holds.
LEMMA ExecuteConfirmedGate ==
  ASSUME McpInv, NEW c \in Call, ExecuteConfirmed(c)
  PROVE  Held!Settle
  <1>1. /\ pc[c] = "confirmed" /\ held[c] \in Ref /\ 0 \notin Ref
        /\ UNCHANGED <<heap, actions, held>>
    BY DEF McpInv, TypeOK, HandlersSound, ExecuteConfirmed, stagerVars, Ref
  <1>2. PICK kind \in {"executed", "rejected"} : Answer(c, kind, held[c])
    BY DispatchOutcome DEF ExecuteConfirmed
  <1>3. \A d \in Call : d # c => held[d] # held[c] /\ pc'[d] = pc[d] /\ reply'[d] = reply[d]
    BY <1>1, <1>2 DEF McpInv, TypeOK, HandlersSound, Answer
  <1>4. pc'[c] = "done" /\ reply'[c].kind = kind
    BY <1>2 DEF McpInv, TypeOK, Answer
  <1>5. HeldStage(held[c]) = "approved"
    BY <1>1, HolderStage
  <1>6. HeldStage(held[c])' = kind
    BY <1>1, <1>3, <1>4 DEF HeldStage, HeldSettled
  <1>7. \A r \in Ref \ {held[c]} : HeldStage(r)' = HeldStage(r)
    BY <1>1, <1>3 DEF HeldStage, HeldSettled, Reachable
  <1>8. Ref' = Ref
    BY <1>1 DEF Ref
  <1>9. GateMap' = [GateMap EXCEPT ![held[c]] = kind] /\ GateMap[held[c]] = "approved"
        /\ held[c] \in DOMAIN GateMap
    BY <1>1, <1>5, <1>6, <1>7, <1>8 DEF GateMap
  <1> QED
    BY <1>9 DEF Held!Settle, GateMap

\* DiscardAction drops a pending object and leaves an approved one approved.
LEMMA DiscardActionGate ==
  ASSUME McpInv, NEW c \in Call, NEW q \in Request, DiscardAction(c, q)
  PROVE  Held!Drop
  <1>0. /\ StagerInv /\ StagerTypeOK /\ "discarded" \in Status
        /\ q.action_id \in ActionID /\ Discard(q.action_id)
    BY StoreInv, StagedFields DEF DiscardAction, Serves, StagerInv, Status
  <1>a. PICK r0 \in Ref : r0 = actions[q.action_id]
    BY <1>0, DiscardShape
  <1>1. /\ r0 \in Ref /\ heap' = [heap EXCEPT ![r0].status = "discarded"]
        /\ DOMAIN actions' = DOMAIN actions \ {q.action_id}
        /\ \A k \in DOMAIN actions' : actions'[k] = actions[k]
    BY <1>0, <1>a, DiscardShape
  <1>2. /\ Ref' = Ref /\ 0 \notin Ref /\ heap'[r0].status = "discarded"
        /\ \A r \in Ref : r # r0 => heap'[r] = heap[r]
    BY <1>0, <1>1, SetStatus DEF Ref
  <1>3. /\ held' = held /\ held[c] = 0
        /\ \A d \in Call : held[d] # 0 => pc'[d] = pc[d] /\ reply'[d] = reply[d]
    BY DEF McpInv, TypeOK, HandlersSound, DiscardAction, Serves, Answer
  <1>4. \A r \in Ref \ {r0} : r \in Reachable' <=> r \in Reachable
    <2>1. \A k \in DOMAIN actions : actions[k] # r0 => k # q.action_id
      BY <1>a
    <2> QED
      BY <1>1, <2>1 DEF Reachable
  <1> DEFINE gone == {r \in {r0} : GateMap[r] = "pending"}
  <1>5. \A r \in Ref : HeldStage(r)' = IF r \in gone THEN "dropped" ELSE HeldStage(r)
    <2>0. GateMap[r0] = HeldStage(r0)
      BY <1>1 DEF GateMap
    <2>1. ASSUME NEW r \in Ref, r # r0
          PROVE  HeldStage(r)' = HeldStage(r)
      BY <1>2, <1>3, <1>4, <2>1 DEF HeldStage, HeldSettled
    <2>2. CASE \E d \in Call : held[d] = r0
      <3>1. PICK d \in Call : held[d] = r0
        BY <2>2
      <3>2. HeldStage(r0) \in {"approved", "executed", "rejected"}
        BY <1>1, <1>2, <3>1, HolderStage DEF McpInv, HandlersSound
      <3>3. HeldStage(r0)' = HeldStage(r0)
        BY <1>1, <1>2, <1>3, <3>1 DEF HeldStage, HeldSettled
      <3> QED
        BY <2>0, <2>1, <3>2, <3>3
    <2>3. CASE ~ \E d \in Call : held[d] = r0
      <3>1. HeldStage(r0) \in {"pending", "dropped"}
        BY <2>3, FreeStage
      <3>2. HeldStage(r0)' = "dropped"
        BY <1>2, <1>3, <2>3 DEF HeldStage, HeldSettled
      <3> QED
        BY <2>0, <2>1, <3>1, <3>2
    <2> QED
      BY <2>2, <2>3
  <1>6. gone \in SUBSET {r \in DOMAIN GateMap : GateMap[r] = "pending"}
    BY <1>1 DEF GateMap
  <1>7. GateMap' = [r \in DOMAIN GateMap |-> IF r \in gone THEN "dropped" ELSE GateMap[r]]
    BY <1>2, <1>5 DEF GateMap
  <1> QED
    BY <1>6, <1>7 DEF Held!Drop, Held!Without, Held!GatePending, GateMap

\* Every other step is a stutter of the gate.
LEMMA InertGate ==
  ASSUME McpInv, NEW c \in Call, NEW q \in Request,
         \/ RefuseMalformed(c, q) \/ RunBuild(c, q) \/ ApplyFlavor(c, q)
         \/ RefuseConfirm(c, q) \/ RefuseDiscard(c, q) \/ ListActions(c, q)
         \/ LoadStatus(c) \/ AnswerListing(c)
  PROVE  GateMap' = GateMap
  <1>1. held[c] = 0 /\ UNCHANGED <<heap, actions, held>>
    BY DEF McpInv, HandlersSound, RefuseMalformed, RunBuild, ApplyFlavor, RefuseConfirm,
           RefuseDiscard, ListActions, LoadStatus, AnswerListing, Serves, stagerVars
  <1>2. \A d \in Call : d # c => pc'[d] = pc[d] /\ reply'[d] = reply[d]
    BY DEF McpInv, TypeOK, RefuseMalformed, RunBuild, ApplyFlavor, RefuseConfirm,
           RefuseDiscard, ListActions, LoadStatus, AnswerListing, Answer
  <1> QED
    BY <1>1, <1>2, InertStage DEF McpInv

LEMMA GateStep == McpInv /\ [Next]_vars => [Held!GateNext]_GateMap
  <1> SUFFICES ASSUME McpInv, [Next]_vars
               PROVE  Held!GateNext \/ GateMap' = GateMap
    OBVIOUS
  <1>1. CASE (Tick /\ UNCHANGED callVars) \/ UNCHANGED vars
    BY <1>1, InertStage DEF McpInv, Tick, callVars, vars, stagerVars
  <1>2. ASSUME NEW c \in Call, NEW q \in Request,
               \/ RefuseMalformed(c, q)
               \/ StageBuild(c, q) \/ RunBuild(c, q) \/ ApplyFlavor(c, q)
               \/ ConfirmAction(c, q) \/ RefuseConfirm(c, q)
               \/ DiscardAction(c, q) \/ RefuseDiscard(c, q)
               \/ ListActions(c, q)
        PROVE  Held!GateNext \/ GateMap' = GateMap
    BY <1>2, StageBuildGate, ConfirmActionGate, DiscardActionGate, InertGate
       DEF Held!GateNext
  <1>3. ASSUME NEW c \in Call, Continue(c)
        PROVE  Held!GateNext \/ GateMap' = GateMap
    <2>1. CASE ExecuteConfirmed(c)
      BY <2>1, ExecuteConfirmedGate DEF Held!GateNext
    <2>2. CASE LoadStatus(c) \/ AnswerListing(c)
      <3>1. held[c] = 0 /\ UNCHANGED <<heap, actions, held>>
        BY <2>2 DEF McpInv, HandlersSound, LoadStatus, AnswerListing, stagerVars
      <3>2. \A d \in Call : d # c => pc'[d] = pc[d] /\ reply'[d] = reply[d]
        BY <2>2 DEF McpInv, TypeOK, LoadStatus, AnswerListing, Answer
      <3> QED
        BY <3>1, <3>2, InertStage DEF McpInv
    <2> QED
      BY <1>3, <2>1, <2>2 DEF Continue
  <1> QED
    BY <1>1, <1>2, <1>3 DEF Next, Begin, Quiescent

LEMMA GateStart == Init => Gate!GateInit
  <1> SUFFICES ASSUME Init PROVE [r \in Ref |-> GateOf(r)] = <<>>
    BY DEF Gate!GateInit
  <1>1. Ref = {}
    BY DEF Init, StagerInit, Ref
  <1> QED
    BY <1>1

\* Whatever interleaves, a staged build goes through the abstract gate: one
\* approval before one outcome, and an approval is never taken back.
THEOREM RefinesGate == Spec => ImplementsGate
  <1>1. McpInv /\ McpInv' /\ [Next]_vars
          => [Gate!GateNext]_([r \in Ref |-> GateOf(r)])
    BY GateStep, HeldStep
  <1> QED
    BY <1>1, GateStart, McpInvariance, PTL DEF Spec, ImplementsGate, Gate!GateSpec

(***************************************************************************)
(* What a step of any handler does to the store.                           *)
(***************************************************************************)
StoreStep ==
  \/ Tick \/ UNCHANGED stagerVars
  \/ \E id \in ActionID, payload \in Payload : Stage(id, payload)
  \/ \E id \in ActionID : Confirm(id) \/ Discard(id)

LEMMA StepsOfTheStore == McpInv /\ [Next]_vars => StoreStep
  <1> SUFFICES ASSUME McpInv, [Next]_vars PROVE StoreStep
    OBVIOUS
  <1>1. CASE Tick \/ UNCHANGED vars
    BY <1>1 DEF StoreStep, vars
  <1>2. ASSUME NEW c \in Call, NEW q \in Request, StageBuild(c, q) PROVE StoreStep
    BY <1>2, BuildFields DEF StageBuild, Serves, StoreStep
  <1>3. ASSUME NEW c \in Call, NEW q \in Request,
               ConfirmAction(c, q) \/ DiscardAction(c, q)
        PROVE  StoreStep
    BY <1>3, StagedFields DEF ConfirmAction, DiscardAction, Serves, StoreStep
  <1>4. ASSUME NEW c \in Call, NEW q \in Request,
               \/ RefuseMalformed(c, q) \/ RunBuild(c, q) \/ ApplyFlavor(c, q)
               \/ RefuseConfirm(c, q) \/ RefuseDiscard(c, q) \/ ListActions(c, q)
        PROVE  StoreStep
    BY <1>4 DEF RefuseMalformed, RunBuild, ApplyFlavor, RefuseConfirm, RefuseDiscard,
                ListActions, StoreStep
  <1>5. ASSUME NEW c \in Call, Continue(c) PROVE StoreStep
    BY <1>5 DEF Continue, ExecuteConfirmed, LoadStatus, AnswerListing, StoreStep
  <1> QED
    BY <1>1, <1>2, <1>3, <1>4, <1>5 DEF Next, Begin, Quiescent

\* No handler takes the status of an object back.
LEMMA StatusesAdvance == McpInv /\ [Next]_vars => StepAdvances
  <1> SUFFICES ASSUME McpInv, StoreStep PROVE StepAdvances
    BY StepsOfTheStore
  <1>1. CASE Tick \/ UNCHANGED stagerVars
    BY <1>1 DEF Tick, stagerVars, StepAdvances
  <1>2. CASE \E id \in ActionID, payload \in Payload : Stage(id, payload)
    BY <1>2, StoreInv, StageStep
  <1>3. CASE \E id \in ActionID : Confirm(id) \/ Discard(id)
    BY <1>3, StoreInv, ConfirmStep, DiscardStep
  <1> QED
    BY <1>1, <1>2, <1>3 DEF StoreStep

LEMMA RanksAdvance ==
  ASSUME McpInv, [Next]_vars, NEW r \in Ref
  PROVE  /\ r \in Ref'
         /\ Rank[heap[r].status] \in Nat /\ Rank[heap'[r].status] \in Nat
         /\ Rank[heap[r].status] <= Rank[heap'[r].status]
  <1>1. McpInv'
    BY McpNextInv
  <1>2. r \in Ref'
    <2>1. CASE UNCHANGED heap
      BY <2>1 DEF Ref
    <2>2. CASE \E id \in ActionID, payload \in Payload : Stage(id, payload)
      BY <2>2, StageShape DEF McpInv, TypeOK
    <2>3. CASE \E id \in ActionID : Confirm(id) \/ Discard(id)
      <3>1. \E id \in ActionID, s \in Status :
              actions[id] \in Ref /\ heap' = [heap EXCEPT ![actions[id]].status = s]
        BY <2>3, ConfirmShape, DiscardShape DEF McpInv, TypeOK, Status
      <3> QED
        BY <3>1, SetStatus DEF McpInv, TypeOK, Ref
    <2> QED
      BY <2>1, <2>2, <2>3, StepsOfTheStore DEF StoreStep, Tick, stagerVars
  <1>3. heap[r] \in StagedAction /\ heap'[r] \in StagedAction
    BY <1>1, <1>2 DEF McpInv, TypeOK, StagerTypeOK, Ref
  <1>4. heap[r].status \in Status /\ heap'[r].status \in Status
    BY <1>3 DEF StagedAction
  <1>5. /\ heap[r].status # "pending" => heap'[r].status # "pending"
        /\ heap[r].status = "discarded" => heap'[r].status = "discarded"
    BY StatusesAdvance DEF StepAdvances
  <1> QED
    BY <1>2, <1>4, <1>5 DEF Rank, Status

\* A listing only ever gains words, each read from the store.
LEMMA ListingsGrow ==
  ASSUME McpInv, [Next]_vars, NEW c \in Call, NEW r \in DOMAIN shown'[c],
         NEW w \in {"text", "length"}, shown'[c][r][w] # "unread"
  PROVE  /\ r \in Ref
         /\ \/ shown'[c][r][w] = heap[r].status
            \/ r \in DOMAIN shown[c] /\ shown'[c][r][w] = shown[c][r][w]
  <1>1. ASSUME NEW d \in Call, NEW q \in Request, ListActions(d, q)
        PROVE  r \in DOMAIN shown[c] /\ shown'[c] = shown[c]
    <2>1. shown' = [shown EXCEPT ![d] = [x \in Reachable |-> Unread]]
      BY <1>1 DEF ListActions
    <2>2. CASE c = d
      <3>1. shown'[c] = [x \in Reachable |-> Unread]
        BY <2>1, <2>2 DEF McpInv, TypeOK
      <3> QED
        BY <3>1 DEF Unread
    <2> QED
      BY <2>1, <2>2
  <1>2. ASSUME NEW d \in Call, LoadStatus(d)
        PROVE  /\ r \in DOMAIN shown[c]
               /\ shown'[c][r][w] \in {heap[r].status, shown[c][r][w]}
    <2>1. PICK x \in DOMAIN shown[d], v \in {"text", "length"} :
            shown' = [shown EXCEPT ![d][x][v] = heap[x].status]
      BY <1>2 DEF LoadStatus
    <2> QED
      BY <2>1 DEF McpInv, TypeOK
  <1>3. CASE UNCHANGED shown
    BY <1>3 DEF McpInv, TypeOK
  <1>4. \/ UNCHANGED shown
        \/ \E d \in Call : LoadStatus(d) \/ \E q \in Request : ListActions(d, q)
    BY DEF Next, Begin, Continue, Quiescent, vars, callVars, RefuseMalformed, StageBuild,
           RunBuild, ApplyFlavor, ConfirmAction, RefuseConfirm, DiscardAction,
           RefuseDiscard, ExecuteConfirmed, AnswerListing
  <1>5. \/ shown'[c][r][w] = heap[r].status
        \/ r \in DOMAIN shown[c] /\ shown'[c][r][w] = shown[c][r][w]
    BY <1>1, <1>2, <1>3, <1>4
  <1>6. r \in DOMAIN shown[c]
    BY <1>1, <1>2, <1>3, <1>4
  <1> QED
    BY <1>5, <1>6 DEF McpInv, TypeOK

\* A listing read without the lock lags behind the store or is level with it:
\* it never shows a status its object has not reached.
THEOREM ListingsLag == Spec => []ListingNeverAhead
  <1>1. Init => ListingNeverAhead
    BY DEF Init, ListingNeverAhead
  <1>2. McpInv /\ ListingNeverAhead /\ [Next]_vars => ListingNeverAhead'
    <2> SUFFICES ASSUME McpInv, ListingNeverAhead, [Next]_vars, NEW c \in Call,
                        NEW r \in DOMAIN shown'[c], NEW w \in {"text", "length"},
                        shown'[c][r][w] # "unread"
                 PROVE  Rank[shown'[c][r][w]] <= Rank[heap'[r].status]
      BY DEF ListingNeverAhead
    <2>1. /\ r \in Ref
          /\ \/ shown'[c][r][w] = heap[r].status
             \/ r \in DOMAIN shown[c] /\ shown'[c][r][w] = shown[c][r][w]
      BY ListingsGrow
    <2>2. /\ Rank[heap[r].status] \in Nat /\ Rank[heap'[r].status] \in Nat
          /\ Rank[heap[r].status] <= Rank[heap'[r].status]
      BY <2>1, RanksAdvance
    <2>3. CASE shown'[c][r][w] = heap[r].status
      BY <2>2, <2>3
    <2>4. CASE r \in DOMAIN shown[c] /\ shown'[c][r][w] = shown[c][r][w]
      <3>1. shown[c][r][w] \in Word \ {"unread"}
        BY <2>4 DEF McpInv, TypeOK
      <3>2. Rank[shown[c][r][w]] \in Nat
        BY <3>1 DEF Word, Status, Rank
      <3>3. Rank[shown[c][r][w]] <= Rank[heap[r].status]
        BY <2>4 DEF ListingNeverAhead
      <3> QED
        BY <2>2, <2>4, <3>2, <3>3
    <2> QED
      BY <2>1, <2>3, <2>4
  <1> QED
    BY <1>1, <1>2, McpInvariance, PTL DEF Spec

\* What becomes of the entry of one identifier in a step.
EntryFate(id) ==
  \/ id \in DOMAIN actions' /\ actions'[id] = actions[id]
  \/ now - heap[actions[id]].created_at > DefaultStagingTTL
  \/ heap'[actions[id]].status = "discarded"
  \/ Len(heap') > Len(heap) /\ heap'[Len(heap')].id = id

LEMMA StageFate ==
  ASSUME StagerTypeOK, NEW new \in ActionID, NEW payload \in Payload,
         Stage(new, payload), NEW id \in DOMAIN actions
  PROVE  EntryFate(id)
  <1>1. /\ Len(heap') = Len(heap) + 1 /\ Len(heap) \in Nat
        /\ heap'[Len(heap')].id = new
    BY DEF Stage, StagerTypeOK
  <1>2. CASE id = new
    BY <1>1, <1>2 DEF EntryFate
  <1>3. CASE id # new /\ id \in DOMAIN RoomForOne
    <2>1. RoomForOne[id] = actions[id]
      BY <1>3, RoomKeeps
    <2> QED
      BY <1>3, <2>1 DEF Stage, EntryFate
  <1>4. CASE id \notin DOMAIN RoomForOne
    <2>1. id \notin DOMAIN PruneLocked(DefaultStagingTTL)
      BY <1>4 DEF RoomForOne
    <2>2. OlderThan(actions[id], EffectiveAge(DefaultStagingTTL))
      BY <2>1 DEF PruneLocked, Restrict
    <2>3. /\ now \in Nat /\ DefaultStagingTTL \in Nat
          /\ heap[actions[id]].created_at \in Nat
      <3>1. actions[id] \in Ref
        BY DEF StagerTypeOK
      <3>2. heap[actions[id]] \in StagedAction
        BY <3>1 DEF StagerTypeOK, Ref
      <3> QED
        BY <3>2 DEF StagerTypeOK, StagedAction
    <2>4. now - heap[actions[id]].created_at > DefaultStagingTTL
      BY <2>2, <2>3 DEF OlderThan, EffectiveAge
    <2> QED
      BY <2>4 DEF EntryFate
  <1> QED
    BY <1>2, <1>3, <1>4

LEMMA DiscardFate ==
  ASSUME StagerTypeOK, NEW gone \in ActionID, Discard(gone), NEW id \in DOMAIN actions
  PROVE  EntryFate(id)
  <1>1. CASE id = gone
    <2>1. "discarded" \in Status
      BY DEF Status
    <2>2. heap'[actions[gone]].status = "discarded"
      BY <2>1, DiscardShape, SetStatus
    <2> QED
      BY <1>1, <2>2 DEF EntryFate
  <1>2. CASE id # gone
    BY <1>2, DiscardShape DEF EntryFate
  <1> QED
    BY <1>1, <1>2

\* A pending build is lost to age, to a client's discard or to an equal
\* identifier, and to nothing else, whatever the capacity.
THEOREM LossHasACause == Spec => NoPrematureLoss
  <1>1. McpInv /\ [Next]_vars => [\A id \in DOMAIN actions : EntryFate(id)]_vars
    <2> SUFFICES ASSUME McpInv, StoreStep, NEW id \in DOMAIN actions
                 PROVE  EntryFate(id)
      BY StepsOfTheStore
    <2>0. StagerTypeOK
      BY DEF McpInv, TypeOK
    <2>1. CASE Tick \/ UNCHANGED stagerVars
      BY <2>1 DEF Tick, stagerVars, EntryFate
    <2>2. CASE \E new \in ActionID, payload \in Payload : Stage(new, payload)
      BY <2>0, <2>2, StageFate
    <2>3. CASE \E k \in ActionID : Confirm(k)
      BY <2>0, <2>3, ConfirmShape DEF EntryFate
    <2>4. CASE \E k \in ActionID : Discard(k)
      BY <2>0, <2>4, DiscardFate
    <2> QED
      BY <2>1, <2>2, <2>3, <2>4 DEF StoreStep
  <1> QED
    BY <1>1, McpInvariance, PTL DEF Spec, NoPrematureLoss, EntryFate
=============================================================================
