--------------------------- MODULE HindsightBuffer ---------------------------
(***************************************************************************)
(* scripts/hindsight_mcp_server.py: bridges between MCP clients and the    *)
(* Hindsight memory engine that share one offline buffer, a JSON file in   *)
(* the checkout.  A retain is posted upstream; when that fails the fact is *)
(* appended to the buffer, when it succeeds the buffer is flushed.  Both   *)
(* read the whole file and write the whole file, without a lock.           *)
(*                                                                         *)
(* Each bridge serves one call at a time.  Recall, reflect, status and     *)
(* list_banks change nothing and are left out.                             *)
(***************************************************************************)
EXTENDS Integers, Sequences

CONSTANTS Bridge,   \* the bridge processes over one checkout
          Fact,     \* bound: the facts clients retain, each in one call
          Bank      \* memory banks

Entry == [fact : Fact, bank : Bank, pending_sync : BOOLEAN]

Retained == [fact : Fact, bank : Bank]

\* The call of a bridge that serves none.
NoCall == [fact |-> "none", bank |-> "none"]

VARIABLES
  file,       \* the buffer as read_local_buffer returns it: a file that is
              \* missing or does not parse reads as empty
  garbled,    \* the file holds text that does not parse
  upstream,   \* what the engine holds: pairs of a fact and a bank
  pc,         \* where each bridge stands
  call,       \* the fact and the bank it was asked to retain
  local,      \* its copy of the entries
  item,       \* the entry its flush has come to
  synced,     \* entries its flush has synced
  answer,     \* what the client was told of each fact
  disturbed   \* history: a write was cut, or two bridges had copies at once

bridgeVars == <<pc, call, local, item, synced>>
vars == <<file, garbled, upstream, bridgeVars, answer, disturbed>>

Answers == {"none", "upstream", "buffered", "error", "cut"}

Init ==
  /\ file = <<>>
  /\ garbled = FALSE
  /\ upstream = {}
  /\ pc = [p \in Bridge |-> "idle"]
  /\ call = [p \in Bridge |-> NoCall]
  /\ local = [p \in Bridge |-> <<>>]
  /\ item = [p \in Bridge |-> 1]
  /\ synced = [p \in Bridge |-> 0]
  /\ answer = [f \in Fact |-> "none"]
  /\ disturbed = FALSE

-----------------------------------------------------------------------------
(* http_api: a request may be applied or not, and an exception, a timeout  *)
(* or a status that is not 2xx hides an application from the bridge.       *)

\* Mutant: any answer counts as success.
PostedOrNot(f, b, ok) ==
  upstream' \in {upstream, upstream \union {<<f, b>>}}

Posted(f, b, ok) ==
  /\ ok => upstream' = upstream \union {<<f, b>>}
  /\ ~ok => upstream' \in {upstream, upstream \union {<<f, b>>}}

Holding(p) == pc[p] \in {"flush", "open", "write"}

\* A copy is taken while another bridge holds one.
Overlap(p) == disturbed \/ \E q \in Bridge \ {p} : Holding(q)

\* The call is answered, and what it held is gone.
Finish(p, kind) ==
  /\ answer' = [answer EXCEPT ![call[p].fact] = kind]
  /\ pc' = [pc EXCEPT ![p] = "idle"]
  /\ call' = [call EXCEPT ![p] = NoCall]
  /\ local' = [local EXCEPT ![p] = <<>>]
  /\ item' = [item EXCEPT ![p] = 1]
  /\ synced' = [synced EXCEPT ![p] = 0]

WriteBack(p) ==
  /\ pc' = [pc EXCEPT ![p] = "open"]
  /\ UNCHANGED <<call, local, item, synced, answer>>

-----------------------------------------------------------------------------
(* tool_hindsight_retain *)

Retain(p, f, b) ==
  /\ pc[p] = "idle"
  /\ answer[f] = "none"
  /\ \A q \in Bridge : pc[q] # "idle" => call[q].fact # f
  /\ call' = [call EXCEPT ![p] = [fact |-> f, bank |-> b]]
  /\ pc' = [pc EXCEPT ![p] = "post"]
  /\ UNCHANGED <<file, garbled, upstream, local, item, synced, answer, disturbed>>

\* Content that is empty once stripped is refused before the post, and so is
\* content that is not a string (the exception answers).
RefuseEmpty(p) ==
  /\ pc[p] = "post"
  /\ Finish(p, "error")
  /\ UNCHANGED <<file, garbled, upstream, disturbed>>

Post(p) ==
  /\ pc[p] = "post"
  /\ \E ok \in BOOLEAN :
       /\ Posted(call[p].fact, call[p].bank, ok)
       /\ pc' = [pc EXCEPT ![p] = IF ok THEN "stored" ELSE "unreachable"]
  /\ UNCHANGED <<file, garbled, call, local, item, synced, answer, disturbed>>

-----------------------------------------------------------------------------
(* append_local_fact *)

ReadToAppend(p) ==
  /\ pc[p] = "unreachable"
  /\ LET entry == [fact |-> call[p].fact, bank |-> call[p].bank,
                   pending_sync |-> TRUE]
     IN  local' = [local EXCEPT ![p] = Append(file, entry)]
  /\ pc' = [pc EXCEPT ![p] = "open"]
  /\ synced' = [synced EXCEPT ![p] = 0]
  /\ disturbed' = Overlap(p)
  /\ UNCHANGED <<file, garbled, upstream, call, item, answer>>

-----------------------------------------------------------------------------
(* flush_local_pending, with the bank of the retain that triggered it *)

ReadToFlush(p) ==
  /\ pc[p] = "stored"
  /\ local' = [local EXCEPT ![p] = file]
  /\ item' = [item EXCEPT ![p] = 1]
  /\ synced' = [synced EXCEPT ![p] = 0]
  /\ pc' = [pc EXCEPT ![p] = "flush"]
  /\ disturbed' = Overlap(p)
  /\ UNCHANGED <<file, garbled, upstream, call, answer>>

AtItem(p) == pc[p] = "flush" /\ item[p] <= Len(local[p])

SkipSynced(p) ==
  /\ AtItem(p)
  /\ ~local[p][item[p]].pending_sync
  /\ item' = [item EXCEPT ![p] = @ + 1]
  /\ UNCHANGED <<file, garbled, upstream, pc, call, local, synced, answer, disturbed>>

\* Mutant: the mark is set whatever the engine answered.
PostAndMark(p) ==
  /\ AtItem(p)
  /\ local[p][item[p]].pending_sync
  /\ \E ok \in BOOLEAN : Posted(local[p][item[p]].fact, call[p].bank, ok)
  /\ local' = [local EXCEPT ![p][item[p]].pending_sync = FALSE]
  /\ synced' = [synced EXCEPT ![p] = @ + 1]
  /\ item' = [item EXCEPT ![p] = @ + 1]
  /\ UNCHANGED <<file, garbled, pc, call, answer, disturbed>>

\* Mutant: what the engine took is removed from the list being walked.
PostAndRemove(p) ==
  /\ AtItem(p)
  /\ local[p][item[p]].pending_sync
  /\ \E ok \in BOOLEAN :
       /\ Posted(local[p][item[p]].fact, call[p].bank, ok)
       /\ local' = [local EXCEPT ![p] =
                      IF ok THEN [i \in 1..(Len(@) - 1) |->
                                    IF i < item[p] THEN @[i] ELSE @[i + 1]]
                            ELSE @]
       /\ synced' = [synced EXCEPT ![p] = IF ok THEN @ + 1 ELSE @]
  /\ item' = [item EXCEPT ![p] = @ + 1]
  /\ UNCHANGED <<file, garbled, pc, call, answer, disturbed>>

PostPending(p) ==
  /\ AtItem(p)
  /\ local[p][item[p]].pending_sync
  /\ \E ok \in BOOLEAN :
       /\ Posted(local[p][item[p]].fact, call[p].bank, ok)
       /\ local' = [local EXCEPT ![p][item[p]].pending_sync = ~ok]
       /\ synced' = [synced EXCEPT ![p] = IF ok THEN @ + 1 ELSE @]
  /\ item' = [item EXCEPT ![p] = @ + 1]
  /\ UNCHANGED <<file, garbled, pc, call, answer, disturbed>>

\* Mutant: the buffer is emptied when a flush has synced something.
EndFlushClears(p) ==
  /\ pc[p] = "flush"
  /\ item[p] > Len(local[p])
  /\ synced[p] > 0
  /\ local' = [local EXCEPT ![p] = <<>>]
  /\ pc' = [pc EXCEPT ![p] = "open"]
  /\ UNCHANGED <<file, garbled, upstream, call, item, synced, answer, disturbed>>

\* Mutant: the flush starts over until every entry is synced.
FlushUntilClean(p) ==
  /\ pc[p] = "flush"
  /\ item[p] > Len(local[p])
  /\ IF \E i \in 1..Len(local[p]) : local[p][i].pending_sync
       THEN /\ item' = [item EXCEPT ![p] = 1]
            /\ UNCHANGED <<pc, call, local, synced, answer>>
       ELSE IF synced[p] > 0 THEN WriteBack(p) ELSE Finish(p, "upstream")
  /\ UNCHANGED <<file, garbled, upstream, disturbed>>

\* The entries are written back only when one was synced.
EndFlush(p) ==
  /\ pc[p] = "flush"
  /\ item[p] > Len(local[p])
  /\ IF synced[p] > 0 THEN WriteBack(p) ELSE Finish(p, "upstream")
  /\ UNCHANGED <<file, garbled, upstream, disturbed>>

-----------------------------------------------------------------------------
(* write_local_buffer: Path.write_text truncates the file, then writes it *)

OpenFile(p) ==
  /\ pc[p] = "open"
  /\ file' = <<>>
  /\ garbled' = FALSE
  /\ pc' = [pc EXCEPT ![p] = "write"]
  /\ UNCHANGED <<upstream, call, local, item, synced, answer, disturbed>>

\* Over the text of another write, this one may leave the end of it standing.
\* The tool answers: a flush has synced something, an append has not.
WriteFile(p) ==
  /\ pc[p] = "write"
  /\ garbled' \in {FALSE, file # <<>> \/ garbled}
  /\ file' = IF garbled' THEN <<>> ELSE local[p]
  /\ Finish(p, IF synced[p] > 0 THEN "upstream" ELSE "buffered")
  /\ UNCHANGED <<upstream, disturbed>>

\* A write that does not come to its end leaves nothing of itself, or a piece.
CutShort(p) ==
  IF pc[p] = "write"
    THEN /\ garbled' \in {garbled, TRUE}
         /\ file' = IF garbled' THEN <<>> ELSE file
         /\ disturbed' = TRUE
    ELSE UNCHANGED <<file, garbled, disturbed>>

\* An OSError travels to the main loop, which answers with an error: the
\* file cannot be opened, or not written once it is empty.
WriteFails(p) ==
  /\ pc[p] \in {"open", "write"}
  /\ Finish(p, "error")
  /\ CutShort(p)
  /\ UNCHANGED upstream

\* The client ends the process; it starts a new one when it needs it.
Kill(p) ==
  /\ pc[p] # "idle"
  /\ Finish(p, "cut")
  /\ CutShort(p)
  /\ UNCHANGED upstream

-----------------------------------------------------------------------------

\* Every fact was retained in its one call.
Quiescent ==
  /\ \A f \in Fact : answer[f] # "none"
  /\ \A p \in Bridge : pc[p] = "idle"
  /\ UNCHANGED vars

Work(p) ==
  \/ RefuseEmpty(p) \/ Post(p)
  \/ ReadToAppend(p)
  \/ ReadToFlush(p) \/ SkipSynced(p) \/ PostPending(p) \/ EndFlush(p)
  \/ OpenFile(p) \/ WriteFile(p) \/ WriteFails(p)

Next ==
  \/ \E p \in Bridge : \/ \E f \in Fact, b \in Bank : Retain(p, f, b)
                       \/ Work(p) \/ Kill(p)
  \/ Quiescent

\* A bridge that is not killed runs on: a request ends by its timeout.
Spec == Init /\ [][Next]_vars /\ \A p \in Bridge : WF_vars(Work(p))

-----------------------------------------------------------------------------
(* Properties *)

\* The type of every variable; a flush stays within its copy.
BufferTypeOK ==
  /\ file \in Seq(Entry)
  /\ garbled \in BOOLEAN
  /\ upstream \subseteq Fact \X Bank
  /\ pc \in [Bridge -> {"idle", "post", "stored", "unreachable", "flush",
                        "open", "write"}]
  /\ call \in [Bridge -> Retained \union {NoCall}]
  /\ local \in [Bridge -> Seq(Entry)]
  /\ item \in [Bridge -> Nat \ {0}]
  /\ synced \in [Bridge -> Nat]
  /\ \A p \in Bridge : pc[p] = "flush" => item[p] <= Len(local[p]) + 1
  /\ answer \in [Fact -> Answers]
  /\ disturbed \in BOOLEAN

EntriesOf(entries) == {entries[i] : i \in 1..Len(entries)}

Stored(f) == \E b \in Bank : <<f, b>> \in upstream

\* An entry loses its pending mark (flush_local_pending) only once the engine
\* holds its fact, whatever stale copy a bridge writes back and whenever a
\* bridge dies: nothing is taken off the to-do list unsent.
SyncedIsStored ==
  \A e \in EntriesOf(file) \union UNION {EntriesOf(local[p]) : p \in Bridge} :
     ~e.pending_sync => Stored(e.fact)

\* A client told "[Hindsight Upstream] Retained" has its fact upstream, also
\* when the flush of the others' facts behind that answer went wrong.
UpstreamAnswerTrue == \A f \in Fact : answer[f] = "upstream" => Stored(f)

Kept(f) ==
  \/ Stored(f)
  \/ f \in {e.fact : e \in EntriesOf(file)}
  \/ \E p \in Bridge : /\ pc[p] = "write"
                       /\ f \in {e.fact : e \in EntriesOf(local[p])}

\* A fact that was answered "stored locally" stays in the buffer or reaches
\* the engine, over any number of appends, flushes, failures and restarts,
\* as long as no two bridges work on copies at once and no write is cut.
BufferedKept ==
  ~disturbed => \A f \in Fact : answer[f] = "buffered" => Kept(f)

\* A call comes to its answer, or its bridge is killed: a flush over a dead
\* connection does not go on for ever.
RetainEnds == \A p \in Bridge : pc[p] = "post" ~> pc[p] = "idle"

(***************************************************************************)
(* What the documents say and the code does not keep.                      *)
(***************************************************************************)
\* docs/adr/0013-hindsight-semantic-memory-mcp.md:55, "safely appended": with
\* two bridges over one checkout too.
SafelyAppended == \A f \in Fact : answer[f] = "buffered" => Kept(f)

\* hindsight_mcp_server.py:263, bank_id is the "Target memory bank identifier"
\* of hindsight_retain: a buffered fact reaches that bank and no other.
BankKept ==
  \A e \in EntriesOf(file), b \in Bank : <<e.fact, b>> \in upstream => b = e.bank
=============================================================================
