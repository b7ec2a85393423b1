----------------------- MODULE HindsightBuffer_proofs -----------------------
(***************************************************************************)
(* Theorems about the bridges: no entry is marked as synced, and no client *)
(* is told that its fact is upstream, before the engine holds the fact.    *)
(* They hold for any number of bridges, facts and banks, with every race,  *)
(* lost answer, failing write and kill of the model.                       *)
(***************************************************************************)
EXTENDS HindsightBuffer, SequenceTheorems, TLAPS

\* What is behind the answer a bridge is about to give: a call that got past
\* its own post, or is writing back a flush, has its fact upstream.
PastItsPost(p) ==
  \/ pc[p] \in {"stored", "flush"}
  \/ pc[p] \in {"open", "write"} /\ synced[p] > 0

CallsSound ==
  \A p \in Bridge : /\ pc[p] # "idle" => call[p] \in Retained
                    /\ PastItsPost(p) => Stored(call[p].fact)

\* The marks of one list of entries are true.
MarksTrue(entries) ==
  \A i \in 1..Len(entries) : ~entries[i].pending_sync => Stored(entries[i].fact)

AllMarksTrue == MarksTrue(file) /\ \A p \in Bridge : MarksTrue(local[p])

\* The inductive invariant: a mark travels from a copy to the file and an
\* answer from the call, so both have to be sound before they arrive.
BufferInv == BufferTypeOK /\ AllMarksTrue /\ UpstreamAnswerTrue /\ CallsSound

(***************************************************************************)
(* Lemmas about the operators the steps are built from.                    *)
(***************************************************************************)
\* A request adds to the engine or leaves it alone, and adds when it says so.
LEMMA PostedGrows ==
  ASSUME BufferTypeOK, NEW f \in Fact, NEW b \in Bank, NEW ok \in BOOLEAN,
         Posted(f, b, ok)
  PROVE  /\ upstream \subseteq upstream'
         /\ upstream' \subseteq Fact \X Bank
         /\ ok => Stored(f)'
  BY DEF BufferTypeOK, Posted, Stored

\* The engine forgets nothing.
LEMMA StoredStays ==
  ASSUME upstream \subseteq upstream', NEW f, Stored(f)
  PROVE  Stored(f)'
  BY DEF Stored

\* So marks that are true stay true.
LEMMA MarksStayTrue ==
  ASSUME upstream \subseteq upstream', NEW entries, MarksTrue(entries)
  PROVE  MarksTrue(entries)'
  BY DEF MarksTrue, Stored

\* A call that ends gives one answer and leaves its bridge empty.
LEMMA FinishShape ==
  ASSUME BufferTypeOK, NEW p \in Bridge, call[p] \in Retained,
         NEW kind \in Answers, Finish(p, kind)
  PROVE  /\ answer' \in [Fact -> Answers]
         /\ answer'[call[p].fact] = kind
         /\ \A f \in Fact : f # call[p].fact => answer'[f] = answer[f]
         /\ pc' \in [Bridge -> {"idle", "post", "stored", "unreachable",
                                "flush", "open", "write"}]
         /\ call' \in [Bridge -> Retained \union {NoCall}]
         /\ local' \in [Bridge -> Seq(Entry)]
         /\ item' \in [Bridge -> Nat \ {0}]
         /\ synced' \in [Bridge -> Nat]
         /\ pc'[p] = "idle"
         /\ local'[p] = <<>>
         /\ \A q \in Bridge \ {p} :
              /\ pc'[q] = pc[q] /\ call'[q] = call[q] /\ local'[q] = local[q]
              /\ item'[q] = item[q] /\ synced'[q] = synced[q]
  BY DEF BufferTypeOK, Finish, Retained

\* A finished call preserves the invariant when its answer is true.
LEMMA FinishSound ==
  ASSUME BufferInv, NEW p \in Bridge, pc[p] # "idle",
         NEW kind \in Answers, Finish(p, kind),
         kind = "upstream" => Stored(call[p].fact),
         upstream' = upstream,
         file' \in Seq(Entry), garbled' \in BOOLEAN, disturbed' \in BOOLEAN,
         MarksTrue(file')
  PROVE  BufferInv'
  <1>1. call[p] \in Retained
    BY DEF BufferInv, CallsSound
  <1>2. BufferTypeOK
    BY DEF BufferInv
  <1>3. BufferTypeOK'
    BY <1>1, <1>2, FinishShape DEF BufferTypeOK
  <1>4. AllMarksTrue'
    <2>1. MarksTrue(file)'
      BY DEF MarksTrue, Stored
    <2>2. ASSUME NEW q \in Bridge PROVE MarksTrue(local[q])'
      <3>1. CASE q = p
        BY <1>1, <1>2, <3>1, FinishShape DEF MarksTrue
      <3>2. CASE q # p
        <4>1. local'[q] = local[q]
          BY <1>1, <1>2, <3>2, FinishShape
        <4> QED
          BY <4>1 DEF BufferInv, AllMarksTrue, MarksTrue, Stored
      <3> QED
        BY <3>1, <3>2
    <2> QED
      BY <2>1, <2>2 DEF AllMarksTrue
  <1>5. UpstreamAnswerTrue'
    <2>1. \A f \in Fact : Stored(f)' <=> Stored(f)
      BY DEF Stored
    <2>2. /\ answer'[call[p].fact] = kind
          /\ \A f \in Fact : f # call[p].fact => answer'[f] = answer[f]
      BY <1>1, <1>2, FinishShape
    <2>3. ASSUME NEW f \in Fact, answer'[f] = "upstream" PROVE Stored(f)
      <3>1. CASE f = call[p].fact
        BY <2>2, <2>3, <3>1
      <3>2. CASE f # call[p].fact
        <4>1. answer[f] = "upstream"
          BY <2>2, <2>3, <3>2
        <4>2. UpstreamAnswerTrue
          BY DEF BufferInv
        <4> QED
          BY <4>1, <4>2 DEF UpstreamAnswerTrue
      <3> QED
        BY <3>1, <3>2
    <2> QED
      BY <2>1, <2>3 DEF UpstreamAnswerTrue
  <1>6. CallsSound'
    <2> SUFFICES ASSUME NEW q \in Bridge
                 PROVE  /\ pc'[q] # "idle" => call'[q] \in Retained
                        /\ PastItsPost(q)' => Stored(call[q].fact)'
      BY DEF CallsSound
    <2>1. CASE q = p
      BY <1>1, <1>2, <2>1, FinishShape DEF PastItsPost
    <2>2. CASE q # p
      <3>1. pc'[q] = pc[q] /\ call'[q] = call[q] /\ synced'[q] = synced[q]
        BY <1>1, <1>2, <2>2, FinishShape
      <3> QED
        BY <3>1 DEF BufferInv, CallsSound, PastItsPost, Stored
    <2> QED
      BY <2>1, <2>2
  <1> QED
    BY <1>3, <1>4, <1>5, <1>6 DEF BufferInv

\* What a write that is cut short leaves behind carries no false mark.
LEMMA CutShortSound ==
  ASSUME BufferInv, NEW p \in Bridge, CutShort(p)
  PROVE  /\ file' \in Seq(Entry)
         /\ garbled' \in BOOLEAN
         /\ disturbed' \in BOOLEAN
         /\ MarksTrue(file')
  <1>1. /\ file \in Seq(Entry) /\ garbled \in BOOLEAN /\ disturbed \in BOOLEAN
        /\ MarksTrue(file)
    BY DEF BufferInv, BufferTypeOK, AllMarksTrue
  <1>2. MarksTrue(<<>>)
    BY DEF MarksTrue
  <1>3. CASE pc[p] = "write"
    <2>1. /\ garbled' \in {garbled, TRUE}
          /\ file' = IF garbled' THEN <<>> ELSE file
          /\ disturbed' = TRUE
      BY <1>3 DEF CutShort
    <2>2. garbled' \in BOOLEAN /\ disturbed' \in BOOLEAN
      <3>1. garbled' \in BOOLEAN
        BY <1>1, <2>1
      <3>2. disturbed' = TRUE
        BY <2>1
      <3> QED
        BY <3>1, <3>2
    <2>3. file' = <<>> \/ file' = file
      BY <2>1
    <2>4. file' \in Seq(Entry)
      <3>1. <<>> \in Seq(Entry)
        BY EmptySeq
      <3> QED
        BY <1>1, <2>3, <3>1
    <2>5. MarksTrue(file')
      BY <1>1, <1>2, <2>3
    <2> QED
      BY <2>2, <2>4, <2>5
  <1>4. CASE pc[p] # "write"
    BY <1>1, <1>4 DEF CutShort
  <1> QED
    BY <1>3, <1>4

(***************************************************************************)
(* One lemma per action that does more than end a call.                    *)
(***************************************************************************)
LEMMA RetainSound ==
  ASSUME BufferInv, NEW p \in Bridge, NEW f \in Fact, NEW b \in Bank, Retain(p, f, b)
  PROVE  BufferInv'
  <1>1. BufferTypeOK'
    BY DEF BufferInv, BufferTypeOK, Retain, Retained
  <1>2. AllMarksTrue' /\ UpstreamAnswerTrue'
    BY DEF BufferInv, AllMarksTrue, MarksTrue, UpstreamAnswerTrue, Stored, Retain
  <1>3. CallsSound'
    BY DEF BufferInv, BufferTypeOK, CallsSound, PastItsPost, Stored, Retain, Retained
  <1> QED
    BY <1>1, <1>2, <1>3 DEF BufferInv

LEMMA PostSound ==
  ASSUME BufferInv, NEW p \in Bridge, Post(p)
  PROVE  BufferInv'
  <1>1. BufferTypeOK /\ call[p] \in Retained /\ pc[p] = "post"
    BY DEF BufferInv, CallsSound, Post
  <1>2. PICK ok \in BOOLEAN :
          /\ Posted(call[p].fact, call[p].bank, ok)
          /\ pc' = [pc EXCEPT ![p] = IF ok THEN "stored" ELSE "unreachable"]
    BY DEF Post
  <1>3. call[p].fact \in Fact /\ call[p].bank \in Bank
    BY <1>1 DEF Retained
  <1>4. /\ upstream \subseteq upstream'
        /\ upstream' \subseteq Fact \X Bank
        /\ ok => Stored(call[p].fact)'
    BY <1>1, <1>2, <1>3, PostedGrows DEF Post, Stored
  <1>5. BufferTypeOK'
    BY <1>1, <1>2, <1>4 DEF BufferTypeOK, Post
  <1>6. AllMarksTrue' /\ UpstreamAnswerTrue'
    BY <1>4 DEF BufferInv, AllMarksTrue, MarksTrue, UpstreamAnswerTrue, Stored, Post
  <1>7. CallsSound'
    <2> SUFFICES ASSUME NEW q \in Bridge
                 PROVE  /\ pc'[q] # "idle" => call'[q] \in Retained
                        /\ PastItsPost(q)' => Stored(call[q].fact)'
      BY DEF CallsSound
    <2>1. call' = call /\ synced' = synced
      BY DEF Post
    <2>2. CASE q = p
      BY <1>1, <1>2, <1>4, <2>1, <2>2 DEF PastItsPost, Stored, BufferTypeOK
    <2>3. CASE q # p
      <3>1. pc'[q] = pc[q]
        BY <1>2, <2>3, <1>1 DEF BufferTypeOK
      <3> QED
        BY <3>1, <2>1, <1>4 DEF BufferInv, CallsSound, PastItsPost, Stored
    <2> QED
      BY <2>2, <2>3
  <1> QED
    BY <1>5, <1>6, <1>7 DEF BufferInv

LEMMA ReadToAppendSound ==
  ASSUME BufferInv, NEW p \in Bridge, ReadToAppend(p)
  PROVE  BufferInv'
  <1> DEFINE entry == [fact |-> call[p].fact, bank |-> call[p].bank, pending_sync |-> TRUE]
  <1>1. /\ BufferTypeOK /\ call[p] \in Retained /\ pc[p] = "unreachable"
        /\ pc' = [pc EXCEPT ![p] = "open"] /\ synced' = [synced EXCEPT ![p] = 0]
        /\ UNCHANGED <<file, garbled, upstream, call, item, answer>>
    BY DEF BufferInv, CallsSound, ReadToAppend
  <1>2. entry \in Entry
    BY <1>1 DEF Retained, Entry
  <1>3. local' = [local EXCEPT ![p] = Append(file, entry)]
    BY DEF ReadToAppend
  <1>4. /\ Append(file, entry) \in Seq(Entry)
        /\ Len(Append(file, entry)) = Len(file) + 1
        /\ \A i \in 1..Len(file) : Append(file, entry)[i] = file[i]
        /\ Append(file, entry)[Len(file) + 1] = entry
        /\ Len(file) \in Nat
    BY <1>1, <1>2 DEF BufferTypeOK
  <1>5. disturbed' \in BOOLEAN
    <2>1. disturbed' = Overlap(p)
      BY DEF ReadToAppend
    <2> QED
      BY <2>1, <1>1 DEF Overlap, BufferTypeOK
  <1>6. BufferTypeOK'
    BY <1>1, <1>3, <1>4, <1>5 DEF BufferTypeOK
  <1>7. MarksTrue(file) /\ \A q \in Bridge : MarksTrue(local[q])
    BY DEF BufferInv, AllMarksTrue
  <1>8. MarksTrue(Append(file, entry))
    <2> SUFFICES ASSUME NEW i \in 1..Len(Append(file, entry)),
                        ~Append(file, entry)[i].pending_sync
                 PROVE  Stored(Append(file, entry)[i].fact)
      BY DEF MarksTrue
    <2>1. i # Len(file) + 1
      <3>1. entry.pending_sync = TRUE
        OBVIOUS
      <3> QED
        BY <1>4, <3>1
    <2>2. i \in 1..Len(file)
      BY <2>1, <1>4
    <2> QED
      BY <2>2, <1>4, <1>7 DEF MarksTrue
  <1>9. AllMarksTrue'
    <2>1. ASSUME NEW q \in Bridge PROVE MarksTrue(local'[q])
      BY <1>1, <1>3, <1>7, <1>8 DEF BufferTypeOK
    <2> QED
      BY <1>1, <1>7, <2>1 DEF AllMarksTrue, MarksTrue, Stored
  <1>10. UpstreamAnswerTrue'
    BY <1>1 DEF BufferInv, UpstreamAnswerTrue, Stored
  <1>11. CallsSound'
    <2> SUFFICES ASSUME NEW q \in Bridge
                 PROVE  /\ pc'[q] # "idle" => call'[q] \in Retained
                        /\ PastItsPost(q)' => Stored(call[q].fact)'
      BY DEF CallsSound
    <2>1. CASE q = p
      <3>1. pc'[p] = "open" /\ synced'[p] = 0
        BY <1>1 DEF BufferTypeOK
      <3> QED
        BY <1>1, <2>1, <3>1 DEF PastItsPost
    <2>2. CASE q # p
      <3>1. pc'[q] = pc[q] /\ synced'[q] = synced[q] /\ call'[q] = call[q]
        BY <1>1, <2>2 DEF BufferTypeOK
      <3> QED
        BY <1>1, <3>1 DEF BufferInv, CallsSound, PastItsPost, Stored
    <2> QED
      BY <2>1, <2>2
  <1> QED
    BY <1>6, <1>9, <1>10, <1>11 DEF BufferInv

LEMMA ReadToFlushSound ==
  ASSUME BufferInv, NEW p \in Bridge, ReadToFlush(p)
  PROVE  BufferInv'
  <1>1. /\ BufferTypeOK /\ pc[p] = "stored"
        /\ local' = [local EXCEPT ![p] = file]
        /\ item' = [item EXCEPT ![p] = 1]
        /\ pc' = [pc EXCEPT ![p] = "flush"] /\ synced' = [synced EXCEPT ![p] = 0]
        /\ UNCHANGED <<file, garbled, upstream, call, answer>>
    BY DEF BufferInv, ReadToFlush
  <1>2. disturbed' \in BOOLEAN
    <2>1. disturbed' = Overlap(p)
      BY DEF ReadToFlush
    <2> QED
      BY <2>1, <1>1 DEF Overlap, BufferTypeOK
  <1>3. BufferTypeOK'
    BY <1>1, <1>2 DEF BufferTypeOK
  <1>4. AllMarksTrue'
    <2>1. MarksTrue(file) /\ \A q \in Bridge : MarksTrue(local[q])
      BY DEF BufferInv, AllMarksTrue
    <2>2. ASSUME NEW q \in Bridge PROVE MarksTrue(local'[q])
      BY <1>1, <2>1 DEF BufferTypeOK
    <2> QED
      BY <1>1, <2>1, <2>2 DEF AllMarksTrue, MarksTrue, Stored
  <1>5. UpstreamAnswerTrue'
    BY <1>1 DEF BufferInv, UpstreamAnswerTrue, Stored
  <1>6. CallsSound'
    BY <1>1 DEF BufferInv, BufferTypeOK, CallsSound, PastItsPost, Stored
  <1> QED
    BY <1>3, <1>4, <1>5, <1>6 DEF BufferInv

LEMMA SkipSyncedSound ==
  ASSUME BufferInv, NEW p \in Bridge, SkipSynced(p)
  PROVE  BufferInv'
  <1>1. /\ BufferTypeOK /\ AtItem(p) /\ item' = [item EXCEPT ![p] = item[p] + 1]
        /\ UNCHANGED <<file, garbled, upstream, pc, call, local, synced, answer, disturbed>>
    BY DEF BufferInv, SkipSynced
  <1>2. BufferTypeOK'
    BY <1>1 DEF BufferTypeOK, AtItem
  <1>3. AllMarksTrue' /\ UpstreamAnswerTrue'
    BY <1>1 DEF BufferInv, AllMarksTrue, MarksTrue, UpstreamAnswerTrue, Stored
  <1>4. CallsSound'
    BY <1>1 DEF BufferInv, CallsSound, PastItsPost, Stored
  <1> QED
    BY <1>2, <1>3, <1>4 DEF BufferInv

\* Setting one mark changes nothing else of a list.
LEMMA MarkOne ==
  ASSUME NEW entries \in Seq(Entry), NEW k \in 1..Len(entries), NEW mark \in BOOLEAN
  PROVE  LET marked == [entries EXCEPT ![k].pending_sync = mark]
         IN  /\ marked \in Seq(Entry)
             /\ Len(marked) = Len(entries)
             /\ \A i \in 1..Len(entries) : i # k => marked[i] = entries[i]
             /\ marked[k].fact = entries[k].fact
             /\ marked[k].pending_sync = mark
  <1> DEFINE marked == [entries EXCEPT ![k].pending_sync = mark]
  <1>1. entries[k] \in Entry
    OBVIOUS
  <1>2. [entries[k] EXCEPT !.pending_sync = mark] \in Entry
    BY <1>1 DEF Entry
  <1>3. marked = [entries EXCEPT ![k] = [entries[k] EXCEPT !.pending_sync = mark]]
    OBVIOUS
  <1>4. marked \in Seq(Entry) /\ Len(marked) = Len(entries)
    BY <1>2, <1>3
  <1>5. marked[k] = [entries[k] EXCEPT !.pending_sync = mark]
    BY <1>3
  <1>6. marked[k].fact = entries[k].fact /\ marked[k].pending_sync = mark
    BY <1>1, <1>5 DEF Entry
  <1> QED
    BY <1>3, <1>4, <1>6

\* The step that sets a mark.
LEMMA PostPendingSound ==
  ASSUME BufferInv, NEW p \in Bridge, PostPending(p)
  PROVE  BufferInv'
  <1>1. /\ BufferTypeOK /\ AtItem(p)
        /\ UNCHANGED <<file, garbled, pc, call, answer, disturbed>>
        /\ item' = [item EXCEPT ![p] = item[p] + 1]
    BY DEF BufferInv, PostPending
  <1>2. /\ pc[p] = "flush" /\ call[p] \in Retained
    BY <1>1 DEF AtItem, BufferInv, CallsSound
  <1>3. /\ local[p] \in Seq(Entry) /\ item[p] \in 1..Len(local[p])
    BY <1>1 DEF AtItem, BufferTypeOK
  <1>4. PICK k \in 1..Len(local[p]) : k = item[p]
    BY <1>3
  <1>5. PICK f \in Fact : f = local[p][k].fact
    <2>1. local[p][k] \in Entry
      BY <1>3
    <2> QED
      BY <2>1 DEF Entry
  <1>6. PICK ok \in BOOLEAN :
          /\ Posted(f, call[p].bank, ok)
          /\ local' = [local EXCEPT ![p] = [@ EXCEPT ![k].pending_sync = ~ok]]
          /\ synced' = [synced EXCEPT ![p] = IF ok THEN @ + 1 ELSE @]
    BY <1>4, <1>5 DEF PostPending
  <1>7. PICK mark \in BOOLEAN : mark = ~ok
    OBVIOUS
  <1>8. /\ upstream \subseteq upstream'
        /\ upstream' \subseteq Fact \X Bank
        /\ ok => Stored(f)'
    BY <1>1, <1>2, <1>6, PostedGrows DEF Retained
  <1>9. PICK marked : marked = [local[p] EXCEPT ![k].pending_sync = mark]
    OBVIOUS
  <1>10. local' = [local EXCEPT ![p] = marked]
    BY <1>6, <1>7, <1>9
  <1>11. /\ marked \in Seq(Entry)
         /\ Len(marked) = Len(local[p])
         /\ \A i \in 1..Len(local[p]) : i # k => marked[i] = local[p][i]
         /\ marked[k].fact = f
         /\ marked[k].pending_sync = mark
    BY <1>3, <1>5, <1>9, MarkOne
  <1>12. /\ local' \in [Bridge -> Seq(Entry)]
         /\ local'[p] = marked
         /\ \A q \in Bridge : q # p => local'[q] = local[q]
    BY <1>1, <1>10, <1>11 DEF BufferTypeOK
  <1>13. /\ item' \in [Bridge -> Nat \ {0}]
         /\ item'[p] <= Len(marked) + 1
         /\ \A q \in Bridge : q # p => item'[q] = item[q]
    BY <1>1, <1>3, <1>11 DEF BufferTypeOK
  <1>14. synced' \in [Bridge -> Nat]
    BY <1>1, <1>6 DEF BufferTypeOK
  <1>15. BufferTypeOK'
    BY <1>1, <1>8, <1>12, <1>13, <1>14 DEF BufferTypeOK
  <1>16. MarksTrue(file) /\ \A q \in Bridge : MarksTrue(local[q])
    BY DEF BufferInv, AllMarksTrue
  <1>17. \A i \in 1..Len(marked) : ~marked[i].pending_sync => Stored(marked[i].fact)'
    <2> SUFFICES ASSUME NEW i \in 1..Len(marked), ~marked[i].pending_sync
                 PROVE  Stored(marked[i].fact)'
      OBVIOUS
    <2>1. CASE i = k
      BY <1>7, <1>8, <1>11, <2>1
    <2>2. CASE i # k
      <3>1. marked[i] = local[p][i]
        BY <1>11, <2>2
      <3>2. Stored(marked[i].fact)
        BY <1>11, <1>16, <3>1 DEF MarksTrue
      <3> QED
        BY <1>8, <3>2 DEF Stored
    <2> QED
      BY <2>1, <2>2
  <1>18. AllMarksTrue'
    <2>1. MarksTrue(file)'
      BY <1>1, <1>8, <1>16 DEF MarksTrue, Stored
    <2>2. MarksTrue(local[p])'
      BY <1>12, <1>17 DEF MarksTrue, Stored
    <2>3. ASSUME NEW q \in Bridge, q # p PROVE MarksTrue(local[q])'
      BY <1>8, <1>12, <1>16, <2>3 DEF MarksTrue, Stored
    <2> QED
      BY <2>1, <2>2, <2>3 DEF AllMarksTrue
  <1>19. UpstreamAnswerTrue'
    BY <1>1, <1>8 DEF BufferInv, UpstreamAnswerTrue, Stored
  <1>20. CallsSound'
    <2> SUFFICES ASSUME NEW q \in Bridge
                 PROVE  /\ pc'[q] # "idle" => call'[q] \in Retained
                        /\ PastItsPost(q)' => Stored(call[q].fact)'
      BY DEF CallsSound
    <2>1. PastItsPost(q)' => PastItsPost(q)
      BY <1>1, <1>2, <1>6 DEF PastItsPost, BufferTypeOK
    <2> QED
      BY <1>1, <1>8, <2>1 DEF BufferInv, CallsSound, Stored
  <1> QED
    BY <1>15, <1>18, <1>19, <1>20 DEF BufferInv

\* A flush that is through its copy answers, or goes on to write.
LEMMA EndFlushSound ==
  ASSUME BufferInv, NEW p \in Bridge, EndFlush(p)
  PROVE  BufferInv'
  <1>1. /\ pc[p] = "flush" /\ Stored(call[p].fact)
        /\ UNCHANGED <<file, garbled, upstream, disturbed>>
    BY DEF EndFlush, BufferInv, CallsSound, PastItsPost
  <1>2. BufferTypeOK /\ MarksTrue(file)
    BY DEF BufferInv, AllMarksTrue
  <1>3. CASE synced[p] > 0
    <2>1. WriteBack(p)
      BY <1>3 DEF EndFlush
    <2>2. BufferTypeOK'
      BY <1>1, <1>2, <2>1 DEF BufferTypeOK, WriteBack
    <2>3. AllMarksTrue' /\ UpstreamAnswerTrue'
      BY <1>1, <2>1 DEF BufferInv, AllMarksTrue, MarksTrue, UpstreamAnswerTrue, Stored, WriteBack
    <2>4. CallsSound'
      BY <1>1, <1>2, <2>1 DEF BufferInv, BufferTypeOK, CallsSound, PastItsPost, Stored, WriteBack
    <2> QED
      BY <2>2, <2>3, <2>4 DEF BufferInv
  <1>4. CASE ~(synced[p] > 0)
    <2>1. Finish(p, "upstream")
      BY <1>4 DEF EndFlush
    <2>2. "upstream" \in Answers
      BY DEF Answers
    <2>3. /\ file' \in Seq(Entry) /\ garbled' \in BOOLEAN /\ disturbed' \in BOOLEAN
          /\ MarksTrue(file')
      BY <1>1, <1>2 DEF BufferTypeOK
    <2> QED
      BY <1>1, <2>1, <2>2, <2>3, FinishSound
  <1> QED
    BY <1>3, <1>4

\* The file is emptied.
LEMMA OpenFileSound ==
  ASSUME BufferInv, NEW p \in Bridge, OpenFile(p)
  PROVE  BufferInv'
  <1>1. /\ BufferTypeOK /\ pc[p] = "open"
        /\ file' = <<>> /\ pc' = [pc EXCEPT ![p] = "write"]
        /\ UNCHANGED <<upstream, call, local, item, synced, answer, disturbed>>
    BY DEF BufferInv, OpenFile
  <1>2. garbled' = FALSE
    BY DEF OpenFile
  <1>3. file' \in Seq(Entry)
    <2>1. <<>> \in Seq(Entry)
      BY EmptySeq
    <2> QED
      BY <1>1, <2>1
  <1>4. BufferTypeOK'
    <2>1. garbled' \in BOOLEAN
      BY <1>2
    <2> QED
      BY <1>1, <1>3, <2>1 DEF BufferTypeOK
  <1>5. AllMarksTrue' /\ UpstreamAnswerTrue'
    <2>1. MarksTrue(file)'
      BY <1>1 DEF MarksTrue
    <2>2. \A q \in Bridge : MarksTrue(local[q])'
      BY <1>1 DEF BufferInv, AllMarksTrue, MarksTrue, Stored
    <2>3. UpstreamAnswerTrue'
      BY <1>1 DEF BufferInv, UpstreamAnswerTrue, Stored
    <2> QED
      BY <2>1, <2>2, <2>3 DEF AllMarksTrue
  <1>6. CallsSound'
    BY <1>1 DEF BufferInv, BufferTypeOK, CallsSound, PastItsPost, Stored
  <1> QED
    BY <1>4, <1>5, <1>6 DEF BufferInv

\* A copy, and with it its marks, becomes the file.
LEMMA WriteFileSound ==
  ASSUME BufferInv, NEW p \in Bridge, WriteFile(p)
  PROVE  BufferInv'
  <1> DEFINE kind == IF synced[p] > 0 THEN "upstream" ELSE "buffered"
  <1>1. /\ pc[p] = "write" /\ BufferTypeOK
        /\ upstream' = upstream /\ disturbed' = disturbed
        /\ Finish(p, kind)
    BY DEF BufferInv, WriteFile
  <1>2. kind \in Answers
    BY DEF Answers
  <1>3. kind = "upstream" => Stored(call[p].fact)
    BY <1>1 DEF BufferInv, CallsSound, PastItsPost
  <1>4. garbled' \in BOOLEAN
    <2>1. garbled' \in {FALSE, file # <<>> \/ garbled}
      BY DEF WriteFile
    <2> QED
      BY <2>1
  <1>5. file' = <<>> \/ file' = local[p]
    BY DEF WriteFile
  <1>6. file' \in Seq(Entry)
    <2>1. <<>> \in Seq(Entry)
      BY EmptySeq
    <2> QED
      BY <1>1, <1>5, <2>1 DEF BufferTypeOK
  <1>7. MarksTrue(file')
    <2>1. MarksTrue(<<>>)
      BY DEF MarksTrue
    <2>2. MarksTrue(local[p])
      BY DEF BufferInv, AllMarksTrue
    <2> QED
      BY <1>5, <2>1, <2>2
  <1>8. disturbed' \in BOOLEAN
    BY <1>1 DEF BufferTypeOK
  <1> QED
    BY <1>1, <1>2, <1>3, <1>4, <1>6, <1>7, <1>8, FinishSound

\* A write that fails, a kill and a refusal answer without a promise.
LEMMA UnpromisedSound ==
  ASSUME BufferInv, NEW p \in Bridge, WriteFails(p) \/ Kill(p) \/ RefuseEmpty(p)
  PROVE  BufferInv'
  <1>1. BufferTypeOK /\ MarksTrue(file)
    BY DEF BufferInv, AllMarksTrue
  <1>2. PICK kind \in {"error", "cut"} : Finish(p, kind)
    BY DEF WriteFails, Kill, RefuseEmpty
  <1>3. pc[p] # "idle" /\ upstream' = upstream
    BY DEF WriteFails, Kill, RefuseEmpty
  <1>4. kind \in Answers /\ kind # "upstream"
    BY DEF Answers
  <1>5. /\ file' \in Seq(Entry) /\ garbled' \in BOOLEAN /\ disturbed' \in BOOLEAN
        /\ MarksTrue(file')
    <2>1. CASE RefuseEmpty(p)
      BY <1>1, <2>1 DEF RefuseEmpty, BufferTypeOK
    <2>2. CASE WriteFails(p) \/ Kill(p)
      <3>1. CutShort(p)
        BY <2>2 DEF WriteFails, Kill
      <3> QED
        BY <3>1, CutShortSound
    <2> QED
      BY <2>1, <2>2
  <1> QED
    BY <1>2, <1>3, <1>4, <1>5, FinishSound

(***************************************************************************)
(* The theorems.                                                           *)
(***************************************************************************)
LEMMA BufferInvInit == Init => BufferInv
  <1> SUFFICES ASSUME Init PROVE BufferInv
    OBVIOUS
  <1>1. <<>> \in Seq(Entry)
    BY EmptySeq
  <1>2. BufferTypeOK
    <2>1. garbled \in BOOLEAN
      BY Zenon DEF Init
    <2>2. disturbed \in BOOLEAN
      BY Zenon DEF Init
    <2>3. /\ file \in Seq(Entry)
          /\ upstream \subseteq Fact \X Bank
          /\ local \in [Bridge -> Seq(Entry)]
      BY <1>1 DEF Init
    <2>4. /\ pc \in [Bridge -> {"idle", "post", "stored", "unreachable", "flush",
                                "open", "write"}]
          /\ call \in [Bridge -> Retained \union {NoCall}]
          /\ item \in [Bridge -> Nat \ {0}]
          /\ synced \in [Bridge -> Nat]
          /\ answer \in [Fact -> Answers]
          /\ \A p \in Bridge : pc[p] # "flush"
      BY DEF Init, Answers
    <2> QED
      BY <2>1, <2>2, <2>3, <2>4 DEF BufferTypeOK
  <1> QED
    BY <1>2 DEF Init, BufferInv, AllMarksTrue, MarksTrue, UpstreamAnswerTrue,
                CallsSound, PastItsPost

LEMMA BufferInvStep == BufferInv /\ [Next]_vars => BufferInv'
  <1> SUFFICES ASSUME BufferInv, [Next]_vars PROVE BufferInv'
    OBVIOUS
  <1>1. CASE UNCHANGED vars
    BY <1>1 DEF vars, bridgeVars, BufferInv, BufferTypeOK, AllMarksTrue, MarksTrue,
                UpstreamAnswerTrue, CallsSound, PastItsPost, Stored
  <1>2. CASE Quiescent
    BY <1>1, <1>2 DEF Quiescent
  <1>3. ASSUME NEW p \in Bridge, NEW f \in Fact, NEW b \in Bank, Retain(p, f, b)
        PROVE  BufferInv'
    BY <1>3, RetainSound
  <1>4. ASSUME NEW p \in Bridge, Work(p) \/ Kill(p) PROVE BufferInv'
    BY <1>4, PostSound, ReadToAppendSound, ReadToFlushSound, SkipSyncedSound,
       PostPendingSound, EndFlushSound, OpenFileSound, WriteFileSound,
       UnpromisedSound DEF Work
  <1> QED
    BY <1>1, <1>2, <1>3, <1>4 DEF Next

\* The invariant holds of every run of the bridges.
LEMMA BufferInvHolds == Spec => []BufferInv
  <1> QED
    BY BufferInvInit, BufferInvStep, PTL DEF Spec

\* Every variable keeps its type, and a flush walks its copy within bounds.
THEOREM BridgesTypeCorrect == Spec => []BufferTypeOK
  <1>1. BufferInv => BufferTypeOK
    BY DEF BufferInv
  <1> QED
    BY <1>1, BufferInvHolds, PTL

\* flush_local_pending never strikes a fact off that the engine does not hold,
\* and no stale copy, torn write or restart brings such a mark about.
THEOREM MarksAreTrue == Spec => []SyncedIsStored
  <1>1. BufferInv => SyncedIsStored
    <2> SUFFICES ASSUME BufferInv,
                        NEW e \in EntriesOf(file)
                                  \union UNION {EntriesOf(local[p]) : p \in Bridge},
                        ~e.pending_sync
                 PROVE  Stored(e.fact)
      BY DEF SyncedIsStored
    <2>1. CASE e \in EntriesOf(file)
      BY <2>1 DEF EntriesOf, BufferInv, AllMarksTrue, MarksTrue
    <2>2. CASE e \in UNION {EntriesOf(local[p]) : p \in Bridge}
      <3>1. PICK p \in Bridge : e \in EntriesOf(local[p])
        BY <2>2
      <3> QED
        BY <3>1 DEF EntriesOf, BufferInv, AllMarksTrue, MarksTrue
    <2> QED
      BY <2>1, <2>2
  <1> QED
    BY <1>1, BufferInvHolds, PTL

\* tool_hindsight_retain answers "Retained" only for what the engine holds.
THEOREM UpstreamAnswersTrue == Spec => []UpstreamAnswerTrue
  <1>1. BufferInv => UpstreamAnswerTrue
    BY DEF BufferInv
  <1> QED
    BY <1>1, BufferInvHolds, PTL

(***************************************************************************)
(* Nothing buffered is lost while one bridge at a time works on a copy.    *)
(***************************************************************************)
HasFact(entries, f) == \E i \in 1..Len(entries) : entries[i].fact = f

\* Where a fact is that a client was told is stored locally.
InKeeping(f) ==
  \/ Stored(f)
  \/ HasFact(file, f)
  \/ \E p \in Bridge : pc[p] = "write" /\ HasFact(local[p], f)

\* The inductive invariant behind BufferedKept.  Between its read and its
\* write a bridge is alone, its copy holds whatever the file holds, and an
\* append's copy the fact it is about to answer for.
KeepingInv ==
  ~disturbed =>
    /\ \A p, q \in Bridge : Holding(p) /\ Holding(q) => p = q
    /\ \A p \in Bridge : pc[p] \in {"flush", "open"} =>
         \A f \in Fact : HasFact(file, f) => HasFact(local[p], f)
    /\ \A p \in Bridge : pc[p] = "write" => file = <<>> /\ ~garbled
    /\ \A p \in Bridge :
         (pc[p] \in {"open", "write"} /\ synced[p] = 0) => HasFact(local[p], call[p].fact)
    /\ \A f \in Fact : answer[f] = "buffered" => InKeeping(f)

\* A step that leaves the file alone, takes no copy, and drops no fact of one.
QuietStep ==
  /\ upstream \subseteq upstream'
  /\ UNCHANGED <<file, garbled, disturbed>>
  /\ \A q \in Bridge :
       /\ Holding(q)' => Holding(q)
       /\ pc[q] = "write" <=> pc'[q] = "write"
       /\ Holding(q)' => \A f \in Fact : HasFact(local[q], f) => HasFact(local'[q], f)
       /\ (pc'[q] \in {"open", "write"} /\ synced'[q] = 0) =>
            /\ pc[q] \in {"open", "write"} /\ synced[q] = 0
            /\ call'[q] = call[q] /\ call[q].fact \in Fact
  /\ \A f \in Fact : answer'[f] = "buffered" => answer[f] = "buffered"

LEMMA QuietKeeps == KeepingInv /\ QuietStep => KeepingInv'
  <1> SUFFICES ASSUME KeepingInv, QuietStep, ~disturbed PROVE KeepingInv'
    BY DEF KeepingInv, QuietStep
  <1>1. \A p, q \in Bridge : Holding(p)' /\ Holding(q)' => p = q
    BY DEF KeepingInv, QuietStep
  <1>2. \A p \in Bridge : pc'[p] \in {"flush", "open"} =>
          \A f \in Fact : HasFact(file', f) => HasFact(local'[p], f)
    BY DEF KeepingInv, QuietStep, Holding
  <1>3. \A p \in Bridge : pc'[p] = "write" => file' = <<>> /\ ~garbled'
    BY DEF KeepingInv, QuietStep
  <1>4. \A p \in Bridge : (pc'[p] \in {"open", "write"} /\ synced'[p] = 0)
          => HasFact(local'[p], call'[p].fact)
    BY DEF KeepingInv, QuietStep, Holding
  <1>5. ASSUME NEW f \in Fact, answer'[f] = "buffered" PROVE InKeeping(f)'
    <2>1. InKeeping(f)
      BY <1>5 DEF KeepingInv, QuietStep
    <2>2. CASE Stored(f)
      BY <2>2, StoredStays DEF QuietStep, InKeeping
    <2>3. CASE HasFact(file, f)
      BY <2>3 DEF QuietStep, InKeeping
    <2>4. CASE \E p \in Bridge : pc[p] = "write" /\ HasFact(local[p], f)
      BY <2>4 DEF QuietStep, InKeeping, Holding
    <2> QED
      BY <2>1, <2>2, <2>3, <2>4 DEF InKeeping
  <1> QED
    BY <1>1, <1>2, <1>3, <1>4, <1>5 DEF KeepingInv

\* The calls that end without a write under way promise nothing new.
LEMMA FinishQuiet ==
  ASSUME BufferInv, NEW p \in Bridge, pc[p] \notin {"idle", "write"},
         NEW kind \in Answers \ {"buffered"}, Finish(p, kind),
         UNCHANGED <<file, garbled, upstream, disturbed>>
  PROVE  QuietStep
  <1>1. BufferTypeOK /\ call[p] \in Retained
    BY DEF BufferInv, CallsSound
  <1>2. /\ answer'[call[p].fact] # "buffered"
        /\ \A f \in Fact : f # call[p].fact => answer'[f] = answer[f]
        /\ pc'[p] = "idle"
        /\ \A q \in Bridge \ {p} :
              /\ pc'[q] = pc[q] /\ call'[q] = call[q] /\ local'[q] = local[q]
              /\ synced'[q] = synced[q]
    BY <1>1, FinishShape
  <1>3. \A q \in Bridge : pc[q] # "idle" => call[q].fact \in Fact
    BY DEF BufferInv, CallsSound, Retained
  <1> QED
    BY <1>2, <1>3 DEF QuietStep, Holding

LEMMA RetainKeeps ==
  ASSUME BufferInv, KeepingInv, NEW p \in Bridge, NEW f \in Fact, NEW b \in Bank,
         Retain(p, f, b)
  PROVE  KeepingInv'
  <1>1. /\ BufferTypeOK /\ pc[p] = "idle"
        /\ pc' = [pc EXCEPT ![p] = "post"]
        /\ call' = [call EXCEPT ![p] = [fact |-> f, bank |-> b]]
        /\ UNCHANGED <<file, garbled, upstream, local, item, synced, answer, disturbed>>
    BY DEF BufferInv, Retain
  <1>2. \A q \in Bridge : pc[q] # "idle" => call[q].fact \in Fact
    BY DEF BufferInv, CallsSound, Retained
  <1>3. QuietStep
    BY <1>1, <1>2 DEF QuietStep, Holding, BufferTypeOK
  <1> QED
    BY <1>3, QuietKeeps

LEMMA PostKeeps ==
  ASSUME BufferInv, KeepingInv, NEW p \in Bridge, Post(p)
  PROVE  KeepingInv'
  <1>1. /\ BufferTypeOK /\ pc[p] = "post" /\ call[p] \in Retained
        /\ UNCHANGED <<file, garbled, call, local, item, synced, answer, disturbed>>
    BY DEF BufferInv, CallsSound, Post
  <1>2. PICK ok \in BOOLEAN : /\ Posted(call[p].fact, call[p].bank, ok)
                              /\ pc' = [pc EXCEPT ![p] =
                                          IF ok THEN "stored" ELSE "unreachable"]
    BY DEF Post
  <1>3. upstream \subseteq upstream'
    BY <1>1, <1>2, PostedGrows DEF Retained
  <1>4. \A q \in Bridge : pc[q] # "idle" => call[q].fact \in Fact
    BY DEF BufferInv, CallsSound, Retained
  <1>5. /\ pc'[p] \in {"stored", "unreachable"}
        /\ \A q \in Bridge \ {p} : pc'[q] = pc[q]
    BY <1>1, <1>2 DEF BufferTypeOK
  <1>6. QuietStep
    BY <1>1, <1>3, <1>4, <1>5 DEF QuietStep, Holding
  <1> QED
    BY <1>6, QuietKeeps

\* The copy of an append holds the file and the fact of the call.
LEMMA ReadToAppendKeeps ==
  ASSUME BufferInv, KeepingInv, NEW p \in Bridge, ReadToAppend(p)
  PROVE  KeepingInv'
  <1> DEFINE entry == [fact |-> call[p].fact, bank |-> call[p].bank, pending_sync |-> TRUE]
             copy == Append(file, entry)
  <1> SUFFICES ASSUME ~disturbed' PROVE KeepingInv'
    BY DEF KeepingInv
  <1>1. /\ BufferTypeOK /\ call[p] \in Retained
        /\ pc[p] = "unreachable" /\ pc' = [pc EXCEPT ![p] = "open"]
        /\ local' = [local EXCEPT ![p] = copy]
        /\ synced' = [synced EXCEPT ![p] = 0]
        /\ UNCHANGED <<file, garbled, upstream, call, item, answer>>
    BY DEF BufferInv, CallsSound, ReadToAppend
  <1>2. ~disturbed /\ \A q \in Bridge \ {p} : ~Holding(q)
    BY DEF ReadToAppend, Overlap
  <1>3. /\ HasFact(copy, call[p].fact)
        /\ \A f \in Fact : HasFact(file, f) => HasFact(copy, f)
    <2>1. file \in Seq(Entry) /\ entry \in Entry
      BY <1>1 DEF BufferTypeOK, Entry, Retained
    <2>2. /\ Len(copy) = Len(file) + 1 /\ Len(file) \in Nat
          /\ copy[Len(file) + 1] = entry
          /\ \A i \in 1..Len(file) : copy[i] = file[i]
      BY <2>1
    <2> HIDE DEF copy
    <2>3. HasFact(copy, call[p].fact)
      BY <2>2 DEF HasFact
    <2>4. \A f \in Fact : HasFact(file, f) => HasFact(copy, f)
      BY <2>2 DEF HasFact
    <2> QED
      BY <2>3, <2>4
  <1> HIDE DEF copy, entry
  <1>4. /\ pc'[p] = "open" /\ local'[p] = copy /\ synced'[p] = 0
        /\ \A q \in Bridge \ {p} : /\ pc'[q] = pc[q] /\ local'[q] = local[q]
                                   /\ pc[q] \notin {"flush", "open", "write"}
    BY <1>1, <1>2 DEF BufferTypeOK, Holding
  <1>5. \A f \in Fact : answer'[f] = "buffered" => InKeeping(f)'
    BY <1>1, <1>2, <1>4 DEF KeepingInv, InKeeping, Stored
  <1> QED
    BY <1>1, <1>3, <1>4, <1>5 DEF KeepingInv, Holding

\* The copy of a flush is the file.
LEMMA ReadToFlushKeeps ==
  ASSUME BufferInv, KeepingInv, NEW p \in Bridge, ReadToFlush(p)
  PROVE  KeepingInv'
  <1> SUFFICES ASSUME ~disturbed' PROVE KeepingInv'
    BY DEF KeepingInv
  <1>1. /\ BufferTypeOK
        /\ pc[p] = "stored" /\ pc' = [pc EXCEPT ![p] = "flush"]
        /\ local' = [local EXCEPT ![p] = file]
        /\ UNCHANGED <<file, garbled, upstream, call, answer>>
    BY DEF BufferInv, ReadToFlush
  <1>2. ~disturbed /\ \A q \in Bridge \ {p} : ~Holding(q)
    BY DEF ReadToFlush, Overlap
  <1>3. /\ pc'[p] = "flush" /\ local'[p] = file
        /\ \A q \in Bridge \ {p} : /\ pc'[q] = pc[q] /\ local'[q] = local[q]
                                   /\ pc[q] \notin {"flush", "open", "write"}
    BY <1>1, <1>2 DEF BufferTypeOK, Holding
  <1>4. \A f \in Fact : answer'[f] = "buffered" => InKeeping(f)'
    BY <1>1, <1>2, <1>3 DEF KeepingInv, InKeeping, Stored
  <1> QED
    BY <1>1, <1>3, <1>4 DEF KeepingInv, Holding

LEMMA SkipSyncedKeeps ==
  ASSUME BufferInv, KeepingInv, NEW p \in Bridge, SkipSynced(p)
  PROVE  KeepingInv'
  <1>1. \A q \in Bridge : pc[q] # "idle" => call[q].fact \in Fact
    BY DEF BufferInv, CallsSound, Retained
  <1>2. QuietStep
    BY <1>1 DEF SkipSynced, QuietStep, Holding
  <1> QED
    BY <1>2, QuietKeeps

\* A mark is changed, a fact is not.
LEMMA PostPendingKeeps ==
  ASSUME BufferInv, KeepingInv, NEW p \in Bridge, PostPending(p)
  PROVE  KeepingInv'
  <1>1. /\ BufferTypeOK /\ pc[p] = "flush" /\ call[p] \in Retained
        /\ item[p] \in 1..Len(local[p]) /\ local[p] \in Seq(Entry)
        /\ UNCHANGED <<file, garbled, pc, call, answer, disturbed>>
    BY DEF BufferInv, BufferTypeOK, CallsSound, PostPending, AtItem
  <1>2. PICK k \in 1..Len(local[p]) : k = item[p]
    BY <1>1
  <1>3. PICK ok \in BOOLEAN :
          /\ Posted(local[p][k].fact, call[p].bank, ok)
          /\ local' = [local EXCEPT ![p] = [@ EXCEPT ![k].pending_sync = ~ok]]
          /\ synced' = [synced EXCEPT ![p] = IF ok THEN @ + 1 ELSE @]
    BY <1>2 DEF PostPending
  <1>4. upstream \subseteq upstream'
    <2>1. local[p][k] \in Entry
      BY <1>1
    <2>2. local[p][k].fact \in Fact /\ call[p].bank \in Bank
      BY <1>1, <2>1 DEF Entry, Retained
    <2> QED
      BY <1>1, <1>3, <2>2, PostedGrows
  <1>5. PICK mark \in BOOLEAN : mark = ~ok
    OBVIOUS
  <1>6. PICK marked : marked = [local[p] EXCEPT ![k].pending_sync = mark]
    OBVIOUS
  <1>7. local' = [local EXCEPT ![p] = marked]
    BY <1>3, <1>5, <1>6
  <1>8. /\ local'[p] = marked
        /\ \A q \in Bridge \ {p} : local'[q] = local[q] /\ synced'[q] = synced[q]
    BY <1>1, <1>3, <1>7 DEF BufferTypeOK
  <1>9. /\ marked \in Seq(Entry) /\ Len(marked) = Len(local[p])
        /\ \A i \in 1..Len(local[p]) : i # k => marked[i] = local[p][i]
        /\ marked[k].fact = local[p][k].fact
    BY <1>1, <1>6, MarkOne
  <1>10. \A f \in Fact : HasFact(local[p], f) => HasFact(local'[p], f)
    BY <1>8, <1>9 DEF HasFact
  <1>11. \A q \in Bridge : pc[q] # "idle" => call[q].fact \in Fact
    BY DEF BufferInv, CallsSound, Retained
  <1>12. QuietStep
    BY <1>1, <1>4, <1>8, <1>10, <1>11 DEF QuietStep, Holding
  <1> QED
    BY <1>12, QuietKeeps

LEMMA EndFlushKeeps ==
  ASSUME BufferInv, KeepingInv, NEW p \in Bridge, EndFlush(p)
  PROVE  KeepingInv'
  <1>1. pc[p] = "flush" /\ UNCHANGED <<file, garbled, upstream, disturbed>>
    BY DEF EndFlush
  <1>2. CASE synced[p] > 0
    <2>1. /\ BufferTypeOK /\ pc' = [pc EXCEPT ![p] = "open"]
          /\ UNCHANGED <<call, local, item, synced, answer>>
      BY <1>2 DEF BufferInv, EndFlush, WriteBack
    <2>2. \A q \in Bridge : pc[q] # "idle" => call[q].fact \in Fact
      BY DEF BufferInv, CallsSound, Retained
    <2>3. synced[p] # 0
      BY <1>2, <2>1 DEF BufferTypeOK
    <2>4. pc'[p] = "open" /\ \A q \in Bridge \ {p} : pc'[q] = pc[q]
      BY <2>1 DEF BufferTypeOK
    <2>5. QuietStep
      BY <1>1, <2>1, <2>2, <2>3, <2>4 DEF QuietStep, Holding
    <2> QED
      BY <2>5, QuietKeeps
  <1>3. CASE ~(synced[p] > 0)
    <2>1. Finish(p, "upstream")
      BY <1>3 DEF EndFlush
    <2>2. "upstream" \in Answers \ {"buffered"}
      BY DEF Answers
    <2> QED
      BY <1>1, <2>1, <2>2, FinishQuiet, QuietKeeps
  <1> QED
    BY <1>2, <1>3

\* The file is emptied while the copy holds all of it.
LEMMA OpenFileKeeps ==
  ASSUME BufferInv, KeepingInv, NEW p \in Bridge, OpenFile(p)
  PROVE  KeepingInv'
  <1> SUFFICES ASSUME ~disturbed' PROVE KeepingInv'
    BY DEF KeepingInv
  <1>1. /\ BufferTypeOK /\ ~disturbed
        /\ pc[p] = "open" /\ pc' = [pc EXCEPT ![p] = "write"]
        /\ file' = <<>> /\ ~garbled'
        /\ UNCHANGED <<upstream, call, local, item, synced, answer>>
    BY DEF BufferInv, OpenFile
  <1>2. /\ pc'[p] = "write"
        /\ \A q \in Bridge \ {p} : /\ pc'[q] = pc[q]
                                   /\ pc[q] \notin {"flush", "open", "write"}
    BY <1>1 DEF KeepingInv, Holding, BufferTypeOK
  <1>3. ASSUME NEW f \in Fact, answer'[f] = "buffered" PROVE InKeeping(f)'
    <2>1. InKeeping(f)
      BY <1>1, <1>3 DEF KeepingInv
    <2>2. Stored(f) \/ HasFact(local[p], f)
      BY <1>1, <1>2, <2>1 DEF KeepingInv, InKeeping
    <2> QED
      BY <1>1, <1>2, <2>2 DEF InKeeping, Stored
  <1>4. synced'[p] = 0 => HasFact(local'[p], call'[p].fact)
    BY <1>1 DEF KeepingInv
  <1> QED
    BY <1>1, <1>2, <1>3, <1>4 DEF KeepingInv, Holding

\* What was kept in the copy is in the file, the answered fact among it.
LEMMA WriteFileKeeps ==
  ASSUME BufferInv, KeepingInv, NEW p \in Bridge, WriteFile(p)
  PROVE  KeepingInv'
  <1> SUFFICES ASSUME ~disturbed' PROVE KeepingInv'
    BY DEF KeepingInv
  <1> DEFINE kind == IF synced[p] > 0 THEN "upstream" ELSE "buffered"
  <1>1. /\ BufferTypeOK /\ call[p] \in Retained /\ ~disturbed /\ pc[p] = "write"
        /\ UNCHANGED upstream /\ Finish(p, kind) /\ kind \in Answers
    BY DEF BufferInv, CallsSound, WriteFile, Answers
  <1>2. file = <<>> /\ garbled = FALSE
    BY <1>1 DEF KeepingInv, BufferTypeOK
  <1>3. ~garbled' /\ file' = local[p]
    BY <1>2 DEF WriteFile
  <1>4. /\ pc'[p] = "idle" /\ answer'[call[p].fact] = kind
        /\ \A f \in Fact : f # call[p].fact => answer'[f] = answer[f]
        /\ \A q \in Bridge \ {p} : pc'[q] = pc[q]
    BY <1>1, FinishShape
  <1>5. \A q \in Bridge : pc'[q] \notin {"flush", "open", "write"}
    BY <1>1, <1>4 DEF KeepingInv, Holding
  <1>6. ASSUME NEW f \in Fact, answer'[f] = "buffered" PROVE InKeeping(f)'
    <2>1. CASE f = call[p].fact
      <3>1. synced[p] \in Nat /\ ~(synced[p] > 0)
        BY <1>1, <1>4, <1>6, <2>1 DEF BufferTypeOK
      <3>2. HasFact(local[p], f)
        BY <1>1, <2>1, <3>1 DEF KeepingInv
      <3> QED
        BY <1>3, <3>2 DEF InKeeping
    <2>2. CASE f # call[p].fact
      <3>1. InKeeping(f)
        BY <1>1, <1>4, <1>6, <2>2 DEF KeepingInv
      <3>2. ~HasFact(file, f)
        BY <1>2 DEF HasFact
      <3>3. \A q \in Bridge : pc[q] = "write" => q = p
        BY <1>1 DEF KeepingInv, Holding
      <3>4. Stored(f) \/ HasFact(local[p], f)
        BY <3>1, <3>2, <3>3 DEF InKeeping
      <3> QED
        BY <1>1, <1>3, <3>4 DEF InKeeping, Stored
    <2> QED
      BY <2>1, <2>2
  <1> QED
    BY <1>5, <1>6 DEF KeepingInv, Holding

LEMMA UnpromisedKeeps ==
  ASSUME BufferInv, KeepingInv, NEW p \in Bridge,
         WriteFails(p) \/ Kill(p) \/ RefuseEmpty(p)
  PROVE  KeepingInv'
  <1>1. pc[p] # "idle" /\ \E kind \in {"error", "cut"} : Finish(p, kind)
    BY DEF WriteFails, Kill, RefuseEmpty
  <1>2. CASE pc[p] = "write"
    <2>1. disturbed'
      BY <1>2 DEF WriteFails, Kill, RefuseEmpty, CutShort
    <2> QED
      BY <2>1 DEF KeepingInv
  <1>3. CASE pc[p] # "write"
    <2>1. UNCHANGED <<file, garbled, upstream, disturbed>>
      BY <1>3 DEF WriteFails, Kill, RefuseEmpty, CutShort
    <2>2. {"error", "cut"} \subseteq Answers \ {"buffered"}
      BY DEF Answers
    <2> QED
      BY <1>1, <1>3, <2>1, <2>2, FinishQuiet, QuietKeeps
  <1> QED
    BY <1>2, <1>3

LEMMA KeepingInvInit == Init => KeepingInv
  BY DEF Init, KeepingInv, Holding

LEMMA KeepingInvStep == BufferInv /\ KeepingInv /\ [Next]_vars => KeepingInv'
  <1> SUFFICES ASSUME BufferInv, KeepingInv, [Next]_vars PROVE KeepingInv'
    OBVIOUS
  <1>1. CASE UNCHANGED vars
    <2>1. \A q \in Bridge : pc[q] # "idle" => call[q].fact \in Fact
      BY DEF BufferInv, CallsSound, Retained
    <2>2. QuietStep
      BY <1>1, <2>1 DEF vars, bridgeVars, QuietStep, Holding
    <2> QED
      BY <2>2, QuietKeeps
  <1>2. CASE Quiescent
    BY <1>1, <1>2 DEF Quiescent
  <1>3. ASSUME NEW p \in Bridge, NEW f \in Fact, NEW b \in Bank, Retain(p, f, b)
        PROVE  KeepingInv'
    BY <1>3, RetainKeeps
  <1>4. ASSUME NEW p \in Bridge, Work(p) \/ Kill(p) PROVE KeepingInv'
    BY <1>4, PostKeeps, ReadToAppendKeeps, ReadToFlushKeeps, SkipSyncedKeeps,
       PostPendingKeeps, EndFlushKeeps, OpenFileKeeps, WriteFileKeeps,
       UnpromisedKeeps DEF Work
  <1> QED
    BY <1>1, <1>2, <1>3, <1>4 DEF Next

\* A fact answered "stored locally" is in the buffer, in the copy being
\* written over it, or upstream, as long as bridges take turns and no write is
\* cut: append_local_fact and flush_local_pending lose nothing by themselves.
THEOREM BufferedFactsStay == Spec => []BufferedKept
  <1>1. KeepingInv => BufferedKept
    <2> SUFFICES ASSUME ~disturbed, KeepingInv, NEW f \in Fact, answer[f] = "buffered"
                 PROVE  Kept(f)
      BY DEF BufferedKept
    <2>1. InKeeping(f)
      BY DEF KeepingInv
    <2> QED
      BY <2>1 DEF InKeeping, Kept, HasFact, EntriesOf
  <1> QED
    BY <1>1, KeepingInvInit, KeepingInvStep, BufferInvHolds, PTL DEF Spec
=============================================================================
