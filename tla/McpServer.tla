----------------------------- MODULE McpServer ------------------------------
(***************************************************************************)
(* pkg/mcp/server.go: the handlers of the tools that stage, confirm,       *)
(* discard, list and run mutating calls, over the store of Stager.tla and  *)
(* the dispatcher of Builder.tla.                                          *)
(*                                                                         *)
(* The SDK starts a goroutine per tool call, so handlers interleave at     *)
(* every point where Stager.mu is free.  confirm_action dispatches after   *)
(* Confirm has released the lock and list_staged_actions marshals after    *)
(* List has: each of them takes more than one step.                        *)
(*                                                                         *)
(* The tools that only read the catalog, the standards or the manifest     *)
(* touch none of this state and are not here.                              *)
(***************************************************************************)
EXTENDS Stager, Builder

CONSTANTS
  MaxCall,  \* bound: the number of tool calls of a session
  Request   \* what clients may ask for

\* The tool calls, a goroutine each, numbered in the order of their first step.
Call == 1 .. MaxCall

BuildRequest ==
  [tool : {"trigger_build"}, flavor : Flavor, backend : Backend,
   dry_run : BOOLEAN, confirmed : BOOLEAN]

FlavorRequest == [tool : {"apply_flavor"}, flavor : Flavor, dry_run : BOOLEAN]

StagedRequest ==
  [tool : {"confirm_action", "discard_staged_action"}, action_id : ActionID]

ListRequest == [tool : {"list_staged_actions"}]

\* A request for one of these tools whose arguments do not decode.
BadRequest == [tool : {"malformed"}]

NoRequest == [tool |-> "none"]

ASSUME McpAssumption ==
  /\ MaxCall \in Nat
  /\ Request \subseteq BuildRequest \union FlavorRequest \union StagedRequest
                         \union ListRequest \union BadRequest
  /\ Payload = [flavor : Flavor, backend : Backend]

VARIABLES
  pc,      \* where each handler is
  req,     \* the request it serves
  held,    \* the object Confirm returned to it, 0 for none
  shown,   \* for each object of its listing, the words of Status read so far
  reply    \* what it answered, and about which object

callVars == <<pc, req, held, shown, reply>>
vars == <<stagerVars, callVars>>

HandlerStage == {"idle", "confirmed", "listing", "done"}

ReplyKind ==
  Outcome \union {"none", "staged", "script", "discarded", "listed", "error"}

\* A Go string is two words, the bytes' address and the length; neither
\* encoding/json nor the compiler reads them as one.
Word == Status \union {"unread"}
Unread == [text |-> "unread", length |-> "unread"]

\* A handler ends with its answer.
Answer(c, kind, r) ==
  /\ pc' = [pc EXCEPT ![c] = "done"]
  /\ reply' = [reply EXCEPT ![c] = [kind |-> kind, ref |-> r]]

\* The next handler begins to serve a request for the tool.  What it does before
\* it first touches the store has no effect, so arrival and first step are one.
Serves(c, q, tool) ==
  /\ pc[c] = "idle"
  /\ \A d \in Call : d < c => pc[d] # "idle"
  /\ q.tool = tool
  /\ req' = [req EXCEPT ![c] = q]

(***************************************************************************)
(* Handlers.                                                               *)
(***************************************************************************)
\* json.Unmarshal fails before anything is done.
RefuseMalformed(c, q) ==
  /\ Serves(c, q, "malformed")
  /\ Answer(c, "error", 0)
  /\ UNCHANGED <<stagerVars, held, shown>>

\* trigger_build without dry_run and confirmed: the request is staged as it
\* came, neither the flavor nor the backend is looked at.
StageBuild(c, q) ==
  /\ Serves(c, q, "trigger_build")
  /\ ~q.dry_run /\ ~q.confirmed
  /\ \E id \in ActionID :
       Stage(id, [flavor |-> q.flavor, backend |-> q.backend])
  /\ Answer(c, "staged", Len(heap) + 1)
  /\ UNCHANGED <<held, shown>>

\* trigger_build with dry_run or confirmed bypasses the store.
RunBuild(c, q) ==
  /\ Serves(c, q, "trigger_build")
  /\ q.dry_run \/ q.confirmed
  /\ Answer(c, Dispatch(q.flavor, q.backend, q.dry_run), 0)
  /\ UNCHANGED <<stagerVars, held, shown>>

\* apply_flavor answers with the script and stages nothing.
ApplyFlavor(c, q) ==
  /\ Serves(c, q, "apply_flavor")
  /\ Answer(c, IF q.flavor \in Catalog THEN "script" ELSE "error", 0)
  /\ UNCHANGED <<stagerVars, held, shown>>

ConfirmAction(c, q) ==
  /\ Serves(c, q, "confirm_action")
  /\ Confirm(q.action_id)
  /\ held' = [held EXCEPT ![c] = actions[q.action_id]]
  /\ pc' = [pc EXCEPT ![c] = "confirmed"]
  /\ UNCHANGED <<shown, reply>>

RefuseConfirm(c, q) ==
  /\ Serves(c, q, "confirm_action")
  /\ ~Confirmable(q.action_id)
  /\ Answer(c, "error", 0)
  /\ UNCHANGED <<stagerVars, held, shown>>

\* Mutant: the held action is found again by its identifier.
ExecuteLatest(c) ==
  /\ pc[c] = "confirmed"
  /\ req[c].action_id \in DOMAIN actions
  /\ LET payload == heap[actions[req[c].action_id]].payload
     IN  Answer(c, Dispatch(payload.flavor, payload.backend, FALSE),
                actions[req[c].action_id])
  /\ UNCHANGED <<stagerVars, req, held, shown>>

\* The lock is free again: the payload is the held object's, its status is not
\* looked at a second time, and the entry stays in the map.
ExecuteConfirmed(c) ==
  /\ pc[c] = "confirmed"
  /\ LET payload == heap[held[c]].payload
     IN  Answer(c, Dispatch(payload.flavor, payload.backend, FALSE), held[c])
  /\ UNCHANGED <<stagerVars, req, held, shown>>

DiscardAction(c, q) ==
  /\ Serves(c, q, "discard_staged_action")
  /\ Discard(q.action_id)
  /\ Answer(c, "discarded", actions[q.action_id])
  /\ UNCHANGED <<held, shown>>

RefuseDiscard(c, q) ==
  /\ Serves(c, q, "discard_staged_action")
  /\ q.action_id \notin DOMAIN actions
  /\ Answer(c, "error", 0)
  /\ UNCHANGED <<stagerVars, held, shown>>

\* List copies the pointers, of every status, under the read lock.
ListActions(c, q) ==
  /\ Serves(c, q, "list_staged_actions")
  /\ shown' = [shown EXCEPT ![c] = [r \in Reachable |-> Unread]]
  /\ pc' = [pc EXCEPT ![c] = "listing"]
  /\ UNCHANGED <<stagerVars, held, reply>>

\* json.MarshalIndent reads an object at a time, without the lock.
LoadStatus(c) ==
  /\ pc[c] = "listing"
  /\ \E r \in DOMAIN shown[c], w \in {"text", "length"} :
       /\ shown[c][r][w] = "unread"
       /\ \A q \in DOMAIN shown[c] \ {r} :
            (shown[c][q].text = "unread") <=> (shown[c][q].length = "unread")
       /\ shown' = [shown EXCEPT ![c][r][w] = heap[r].status]
  /\ UNCHANGED <<stagerVars, pc, req, held, reply>>

AnswerListing(c) ==
  /\ pc[c] = "listing"
  /\ \A r \in DOMAIN shown[c] : "unread" \notin {shown[c][r].text, shown[c][r].length}
  /\ Answer(c, "listed", 0)
  /\ UNCHANGED <<stagerVars, req, held, shown>>

Begin(c) ==
  \E q \in Request :
    \/ RefuseMalformed(c, q)
    \/ StageBuild(c, q) \/ RunBuild(c, q) \/ ApplyFlavor(c, q)
    \/ ConfirmAction(c, q) \/ RefuseConfirm(c, q)
    \/ DiscardAction(c, q) \/ RefuseDiscard(c, q)
    \/ ListActions(c, q)

\* What a handler still has to do once it has released the lock.
Continue(c) == ExecuteConfirmed(c) \/ LoadStatus(c) \/ AnswerListing(c)

\* Nothing is left to do.
Quiescent ==
  /\ \A c \in Call : pc[c] = "done"
  /\ UNCHANGED vars

Init ==
  /\ StagerInit
  /\ pc = [c \in Call |-> "idle"]
  /\ req = [c \in Call |-> NoRequest]
  /\ held = [c \in Call |-> 0]
  /\ shown = [c \in Call |-> [r \in {} |-> Unread]]
  /\ reply = [c \in Call |-> [kind |-> "none", ref |-> 0]]

Next ==
  \/ Tick /\ UNCHANGED callVars
  \/ \E c \in Call : Begin(c) \/ Continue(c)
  \/ Quiescent

\* The Go scheduler runs every ready goroutine; no handler waits for a client.
Spec == Init /\ [][Next]_vars /\ \A c \in Call : WF_vars(Continue(c))

(***************************************************************************)
(* Properties.                                                             *)
(***************************************************************************)
Executed == {c \in Call : reply[c].kind = "executed"}

Settled(r, outcome) == \E c \in Call : reply[c] = [kind |-> outcome, ref |-> r]

\* The stage of object r in the abstract gate.
GateOf(r) ==
  IF Settled(r, "executed") THEN "executed"
  ELSE IF Settled(r, "rejected") THEN "rejected"
  ELSE IF \E c \in Call : held[c] = r THEN "approved"
  ELSE IF r \in Reachable /\ heap[r].status = "pending" THEN "pending"
  ELSE "dropped"

Gate == INSTANCE ConfirmGate WITH gate <- [r \in Ref |-> GateOf(r)]

\* Type invariant of the server.
TypeOK ==
  /\ StagerTypeOK
  /\ pc \in [Call -> HandlerStage]
  /\ req \in [Call -> Request \union {NoRequest}]
  /\ held \in [Call -> Ref \union {0}]
  /\ reply \in [Call -> [kind : ReplyKind, ref : Ref \union {0}]]
  /\ shown = [c \in Call |-> shown[c]]
  /\ \A c \in Call :
       /\ DOMAIN shown[c] \subseteq Ref
       /\ shown[c] \in [DOMAIN shown[c] -> [text : Word, length : Word]]

\* What makes the guardrail inductive.  An object taken by a confirmation is
\* out of "pending" and belongs to that handler alone, which answers with its
\* outcome and nothing else; a handler that holds none runs a build only if
\* the client passed confirmed=true.
HandlersSound ==
  \A c \in Call :
    /\ pc[c] \in {"idle", "listing"} => held[c] = 0
    /\ pc[c] = "confirmed" => held[c] # 0
    /\ pc[c] # "done" => reply[c].kind = "none"
    /\ held[c] # 0 => heap[held[c]].status # "pending"
    /\ \A d \in Call \ {c} : held[c] = held[d] => held[c] = 0
    /\ (pc[c] = "done" /\ held[c] # 0) =>
         reply[c].kind \in {"executed", "rejected"} /\ reply[c].ref = held[c]
    /\ (reply[c].kind \in {"executed", "rejected"} /\ held[c] = 0) => reply[c].ref = 0
    /\ (reply[c].kind = "executed" /\ held[c] = 0) => req[c].confirmed

\* The guardrail of trigger_build and confirm_action: what runs was either
\* asked for with confirmed=true, or is an object that left "pending", and
\* two confirmations never run one staged build twice, whatever identifiers
\* collide and whatever is pruned or discarded meanwhile.
AtMostOnce ==
  \A c \in Executed :
    /\ reply[c].ref = 0 => req[c].confirmed
    /\ reply[c].ref # 0 => heap[reply[c].ref].status # "pending"
    /\ \A d \in Executed \ {c} : reply[c].ref = reply[d].ref => reply[c].ref = 0

\* The handlers over the store implement the two-phase gate: a staged build is
\* settled only after one approval, once, and no discard, eviction or reused
\* identifier takes an approval back.
ImplementsGate == Gate!GateSpec

\* A pending build leaves the map unconfirmed only because it is older than
\* the TTL, a client discarded it, or a new one drew its identifier: the
\* capacity bound never costs a client a live action (Stage, pruneLocked).
NoPrematureLoss ==
  [][\A id \in DOMAIN actions :
       \/ id \in DOMAIN actions' /\ actions'[id] = actions[id]
       \/ now - heap[actions[id]].created_at > DefaultStagingTTL
       \/ heap'[actions[id]].status = "discarded"
       \/ Len(heap') > Len(heap) /\ heap'[Len(heap')].id = id]_vars

Rank == [pending |-> 1, confirmed |-> 2, discarded |-> 3]

\* A listing is read after the lock is gone and may lag behind the store; it
\* never shows a status that its object has not reached (list_staged_actions).
ListingNeverAhead ==
  \A c \in Call : \A r \in DOMAIN shown[c], w \in {"text", "length"} :
    shown[c][r][w] # "unread" => Rank[shown[c][r][w]] <= Rank[heap[r].status]

\* An approved build does not hang: its handler comes to an outcome, even when
\* the entry is discarded or evicted between Confirm and Dispatch.
ApprovalSettles ==
  \A c \in Call : pc[c] = "confirmed" ~> reply[c].kind \in {"executed", "rejected"}

(***************************************************************************)
(* What the documents promise and the code does not keep.                  *)
(***************************************************************************)
\* docs/tools/cli-mcp.md:194, "Discard and abort": after a discard of a staged
\* action was answered with success the action does not run any more.
DiscardAborts ==
  [][\A c, d \in Call :
       (reply[c].kind = "discarded" /\ reply'[d].kind = "executed" /\ pc[d] # "done")
         => reply[c].ref # reply'[d].ref]_vars

\* docs/tools/cli-mcp.md:210, staged actions expire after 15 minutes: an action
\* older than the TTL is not confirmed.
ExpiredNotConfirmed ==
  [][\A c \in Call :
       (pc[c] = "idle" /\ pc'[c] = "confirmed")
         => now - heap[held'[c]].created_at <= DefaultStagingTTL]_vars

\* staging.go:116, "a snapshot copy": the status a listing answers with is one
\* the object had, not the bytes of one and the length of another.
ListingNotTorn ==
  \A c \in Call : reply[c].kind = "listed" =>
    \A r \in DOMAIN shown[c] : shown[c][r].text = shown[c][r].length
=============================================================================
