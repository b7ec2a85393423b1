------------------------ MODULE StdoutRedirect_proofs ------------------------
(***************************************************************************)
(* Theorems about the stdout redirect, for any number of writers, any line *)
(* length, pipe capacity and read size.                                    *)
(***************************************************************************)
EXTENDS StdoutRedirect, SequenceTheorems, TLAPS

USE RedirectAssumption

(***************************************************************************)
(* The inductive invariant, a part per concern.                            *)
(***************************************************************************)
\* While the session runs every writer has resolved os.Stdout to the pipe.
Redirected ==
  /\ main = "start" => \A w \in Writer : pc[w] = "idle"
  /\ main = "serving" => stdout = "pipe"
  /\ main \in {"start", "serving"} =>
       /\ \A w \in Writer : pc[w] = "idle" \/ dest[w] = "pipe"
       /\ \A i \in 1..Len(real) : real[i] = "frame"

\* The drain ends, with a sink that works, only after the last cell was
\* written and the write end closed; Close returns only after that.
DrainSound ==
  /\ main = "start" => drain = "absent"
  /\ drain # "holding" => held = <<>>
  /\ writeEnd = "closed" <=> main \in {"waiting", "returned"}
  /\ writeEnd = "closed" => \A w \in Writer : ~Writing(w)
  /\ drain \in {"ended", "done"} /\ sinkOK => pipe = <<>> /\ writeEnd = "closed"
  /\ main = "returned" => drain = "done"

\* Nothing was taken, or the last line taken is complete.
LastWhole == accepted = <<>> \/ accepted[Len(accepted)][2] = LineLength

\* One writer is inside the file, and the line it is in the middle of is the
\* last; without one a torn line is left only by a closed or broken pipe.
OneLine ==
  /\ \A v, w \in Writer : Writing(v) /\ Writing(w) => v = w
  /\ \A w \in Writer :
       /\ pc[w] \in {"idle", "resolved"} => sent[w] = 0
       /\ Writing(w) => sent[w] < LineLength
       /\ Writing(w) /\ sent[w] > 0 =>
            accepted # <<>> /\ accepted[Len(accepted)] = <<w, sent[w]>>
       /\ Writing(w) /\ sent[w] = 0 /\ readOpen => LastWhole
  /\ (\A w \in Writer : ~Writing(w)) =>
       LastWhole \/ writeEnd # "open" \/ ~readOpen

\* The sink has the beginning of what the pipe took, and a failure ends the
\* copy, so that nothing is written behind a gap.
SinkIsPrefix ==
  /\ ~sinkOK => drain \in {"ended", "done"}
  /\ Len(sink) <= Len(accepted)
  /\ \A i \in 1..Len(sink) : sink[i] = accepted[i]

\* From the first print on there is a drain; it leaves only with the read end,
\* so that a writer is never left before a full pipe; and the write end is
\* barred while Close waits for the writer in it.
WaitsSound ==
  /\ main \in {"start", "failed"} <=> drain = "absent"
  /\ drain = "absent" => \A w \in Writer : pc[w] = "idle"
  /\ drain = "done" => ~readOpen
  /\ main = "closing" => writeEnd = "closing"

RedirectInv ==
  /\ RedirectTypeOK /\ Redirected /\ DrainSound /\ WaitsSound
  /\ NothingLost /\ OneLine /\ Unbroken(accepted) /\ SinkIsPrefix

(***************************************************************************)
(* Lemmas about sequences of cells.                                        *)
(***************************************************************************)
\* Reading n cells splits the pipe in two.
LEMMA ReadSplits ==
  ASSUME NEW S, NEW s \in Seq(S), NEW n \in 0..Len(s)
  PROVE  /\ SubSeq(s, 1, n) \in Seq(S)
         /\ SubSeq(s, n + 1, Len(s)) \in Seq(S)
         /\ Len(SubSeq(s, n + 1, Len(s))) = Len(s) - n
         /\ s = SubSeq(s, 1, n) \o SubSeq(s, n + 1, Len(s))
  <1> DEFINE a == SubSeq(s, 1, n)
             b == SubSeq(s, n + 1, Len(s))
  <1>1. Len(s) \in Nat /\ n \in Nat /\ n <= Len(s)
    BY LenProperties
  <1>2. \A i \in 1..Len(s) : s[i] \in S
    BY ElementOfSeq
  <1>3. /\ a \in Seq(S) /\ Len(a) = n
        /\ \A i \in 1..n : a[i] = s[i]
    <2>1. \A i \in 1..n : s[i] \in S
      BY <1>1, <1>2
    <2>2. /\ a \in Seq(S) /\ Len(a) = IF 1 <= n THEN n - 1 + 1 ELSE 0
          /\ \A i \in 1 .. n - 1 + 1 : a[i] = s[1 + i - 1]
      BY <1>1, <2>1, SubSeqProperties
    <2> HIDE DEF a
    <2> QED
      BY <1>1, <2>2
  <1>4. /\ b \in Seq(S) /\ Len(b) = Len(s) - n
        /\ \A j \in 1..(Len(s) - n) : b[j] = s[n + j]
    <2>1. \A i \in (n + 1)..Len(s) : s[i] \in S
      BY <1>1, <1>2
    <2>2. /\ b \in Seq(S)
          /\ Len(b) = IF n + 1 <= Len(s) THEN Len(s) - (n + 1) + 1 ELSE 0
          /\ \A j \in 1 .. Len(s) - (n + 1) + 1 : b[j] = s[n + 1 + j - 1]
      BY <1>1, <2>1, SubSeqProperties
    <2> HIDE DEF b
    <2> QED
      BY <1>1, <2>2
  <1> HIDE DEF a, b
  <1>5. /\ a \o b \in Seq(S) /\ Len(a \o b) = Len(a) + Len(b)
        /\ \A i \in 1 .. Len(a) + Len(b) :
             (a \o b)[i] = IF i <= Len(a) THEN a[i] ELSE b[i - Len(a)]
    BY <1>3, <1>4, ConcatProperties
  <1>6. ASSUME NEW i \in 1..Len(s) PROVE s[i] = (a \o b)[i]
    <2>1. (a \o b)[i] = IF i <= n THEN a[i] ELSE b[i - n]
      BY <1>1, <1>3, <1>4, <1>5
    <2>2. CASE i <= n
      <3>1. i \in 1..n
        BY <1>1, <2>2
      <3>2. a[i] = s[i]
        BY <1>3, <3>1
      <3> QED
        BY <2>1, <2>2, <3>2
    <2>3. CASE ~(i <= n)
      <3>1. /\ i - n \in 1..(Len(s) - n)
            /\ n + (i - n) = i
        BY <1>1, <2>3
      <3>2. b[i - n] = s[n + (i - n)]
        BY <1>4, <3>1
      <3> QED
        BY <2>1, <2>3, <3>1, <3>2
    <2> QED
      BY <2>2, <2>3
  <1>7. s = a \o b
    <2>1. Len(s) = Len(a \o b)
      BY <1>1, <1>3, <1>4, <1>5
    <2> QED
      BY <1>5, <1>6, <2>1, SeqEqual
  <1> QED
    BY <1>3, <1>4, <1>7 DEF a, b

\* Appending at the end of a concatenation is appending to its last part.
LEMMA AppendLast ==
  ASSUME NEW s \in Seq(Cell), NEW t \in Seq(Cell), NEW e \in Cell
  PROVE  Append(s \o t, e) = s \o Append(t, e)
  <1>1. Append(s \o t, e) = (s \o t) \o <<e>>
    <2>1. s \o t \in Seq(Cell)
      BY ConcatProperties
    <2> QED
      BY <2>1, AppendIsConcat
  <1>2. Append(t, e) = t \o <<e>>
    BY AppendIsConcat
  <1>3. <<e>> \in Seq(Cell)
    OBVIOUS
  <1> QED
    BY <1>1, <1>2, <1>3, ConcatAssociative

(***************************************************************************)
(* Types.                                                                  *)
(***************************************************************************)
\* A read moves n >= 1 cells from the pipe to the buffer.
LEMMA ReadShape ==
  ASSUME RedirectTypeOK, ReadPipe
  PROVE  /\ held' \in Seq(Cell) /\ pipe' \in Seq(Cell)
         /\ Len(pipe') <= Len(pipe)
         /\ pipe = held' \o pipe'
  <1>1. pipe \in Seq(Cell) /\ Len(pipe) \in Nat
    BY DEF RedirectTypeOK
  <1>2. PICK n \in 0..Len(pipe) :
          held' = SubSeq(pipe, 1, n) /\ pipe' = SubSeq(pipe, n + 1, Len(pipe))
    <2>1. Least(ReadSize, Len(pipe)) \in 0..Len(pipe)
      BY <1>1 DEF Least
    <2> QED
      BY <2>1 DEF ReadPipe
  <1>3. /\ SubSeq(pipe, 1, n) \in Seq(Cell)
        /\ SubSeq(pipe, n + 1, Len(pipe)) \in Seq(Cell)
        /\ Len(SubSeq(pipe, n + 1, Len(pipe))) = Len(pipe) - n
        /\ pipe = SubSeq(pipe, 1, n) \o SubSeq(pipe, n + 1, Len(pipe))
    BY <1>1, ReadSplits
  <1>4. held' \in Seq(Cell) /\ pipe' \in Seq(Cell) /\ Len(pipe') = Len(pipe) - n
    BY <1>2, <1>3
  <1>5. pipe = held' \o pipe'
    BY <1>2, <1>3
  <1> QED
    BY <1>1, <1>4, <1>5

\* A failing sink keeps a prefix of the buffer.
LEMMA SinkFailsShape ==
  ASSUME RedirectTypeOK, SinkFails
  PROVE  sink' \in Seq(Cell)
  <1>1. held \in Seq(Cell) /\ sink \in Seq(Cell) /\ Len(held) \in Nat
    BY DEF RedirectTypeOK
  <1>2. PICK k \in 0..(Len(held) - 1) : sink' = sink \o SubSeq(held, 1, k)
    BY DEF SinkFails
  <1>3. SubSeq(held, 1, k) \in Seq(Cell)
    <2>1. k \in 0..Len(held)
      BY <1>1
    <2> QED
      BY <1>1, <2>1, ReadSplits
  <1> QED
    BY <1>1, <1>2, <1>3, ConcatProperties

\* A cell is pushed behind the others, and the writer leaves with its last.
LEMMA PushShape ==
  ASSUME RedirectTypeOK, NEW w \in Writer, sent[w] < LineLength, Push(w)
  PROVE  /\ <<w, sent[w] + 1>> \in Cell
         /\ pipe' \in Seq(Cell) /\ Len(pipe') <= PipeCapacity
         /\ accepted' \in Seq(Cell)
         /\ accepted' = Append(accepted, <<w, sent[w] + 1>>)
         /\ Len(accepted') = Len(accepted) + 1
         /\ accepted'[Len(accepted) + 1] = <<w, sent[w] + 1>>
         /\ \A i \in 1..Len(accepted) : accepted'[i] = accepted[i]
         /\ sent' = [sent EXCEPT ![w] = sent[w] + 1]
         /\ sent' \in [Writer -> 0..LineLength]
  <1>1. <<w, sent[w] + 1>> \in Cell /\ sent[w] + 1 \in 0..LineLength
    BY DEF RedirectTypeOK, Cell
  <1>2. /\ pipe \in Seq(Cell) /\ accepted \in Seq(Cell)
        /\ pipe' = Append(pipe, <<w, sent[w] + 1>>)
        /\ accepted' = Append(accepted, <<w, sent[w] + 1>>)
        /\ sent' = [sent EXCEPT ![w] = sent[w] + 1]
        /\ ~(Len(pipe) >= PipeCapacity)
    BY DEF RedirectTypeOK, Push, PipeFull
  <1>3. pipe' \in Seq(Cell) /\ Len(pipe') = Len(pipe) + 1
    BY <1>1, <1>2, AppendProperties
  <1>4. /\ accepted' \in Seq(Cell) /\ Len(accepted') = Len(accepted) + 1
        /\ accepted'[Len(accepted) + 1] = <<w, sent[w] + 1>>
        /\ \A i \in 1..Len(accepted) : accepted'[i] = accepted[i]
    BY <1>1, <1>2, AppendProperties
  <1>5. Len(pipe') <= PipeCapacity
    BY <1>2, <1>3
  <1>6. sent' \in [Writer -> 0..LineLength]
    BY <1>1, <1>2 DEF RedirectTypeOK
  <1> QED
    BY <1>1, <1>2, <1>3, <1>4, <1>5, <1>6

LEMMA TypeStep ==
  ASSUME RedirectInv, [Next]_vars
  PROVE  RedirectTypeOK'
  <1> USE DEF RedirectInv
  <1>1. CASE Install \/ InstallFails \/ Restore \/ CloseWriteEnd \/ WriteEndClosed
               \/ Return \/ EndOfFile \/ EndDrain \/ UNCHANGED vars
    <2>1. /\ UNCHANGED <<real, pipe, held, sink, sinkOK, pc, dest, sent, accepted>>
          /\ readOpen' \in {readOpen, FALSE}
      BY <1>1 DEF Install, InstallFails, Restore, CloseWriteEnd,
                WriteEndClosed, Return, EndOfFile, EndDrain, vars, mainVars,
                drainVars, writerVars
    <2>2. /\ main' \in {"start", "serving", "restored", "closing", "waiting",
                         "returned", "failed"}
          /\ stdout' \in {"real", "pipe"}
          /\ writeEnd' \in {"open", "closing", "closed"}
          /\ drain' \in {"absent", "copying", "holding", "ended", "done"}
      BY <1>1 DEF RedirectTypeOK, Install, InstallFails, Restore, CloseWriteEnd,
                WriteEndClosed, Return, EndOfFile, EndDrain, vars, mainVars,
                drainVars, writerVars
    <2> QED
      BY <2>1, <2>2 DEF RedirectTypeOK
  <1>2. CASE Frame
    <2>1. real' \in Seq({"frame", "stray"})
      BY <1>2 DEF RedirectTypeOK, Frame
    <2> QED
      BY <1>2, <2>1 DEF RedirectTypeOK, Frame, mainVars, drainVars, writerVars
  <1>3. CASE ReadPipe
    <2>1. held' \in Seq(Cell) /\ pipe' \in Seq(Cell) /\ Len(pipe') <= Len(pipe)
      BY <1>3, ReadShape
    <2>2. drain' = "holding" /\ UNCHANGED <<mainVars, sink, sinkOK, readOpen, writerVars, real>>
      BY <1>3 DEF ReadPipe
    <2>3. Len(pipe') <= PipeCapacity
      BY <2>1 DEF RedirectTypeOK
    <2> QED
      BY <2>1, <2>2, <2>3 DEF RedirectTypeOK, mainVars, writerVars
  <1>4. CASE WriteSink
    <2>1. sink' \in Seq(Cell)
      BY <1>4, ConcatProperties DEF RedirectTypeOK, WriteSink
    <2> QED
      BY <1>4, <2>1 DEF RedirectTypeOK, WriteSink, mainVars, writerVars
  <1>5. CASE SinkFails
    <2>1. sink' \in Seq(Cell)
      BY <1>5, SinkFailsShape
    <2>2. /\ drain' = "ended" /\ held' = <<>>
          /\ UNCHANGED <<mainVars, readOpen, writerVars, real, pipe>>
      BY <1>5 DEF SinkFails
    <2>3. held' \in Seq(Cell)
      BY <2>2
    <2>4. sinkOK' = FALSE
      BY <1>5 DEF SinkFails
    <2>5. sinkOK' \in BOOLEAN
      BY <2>4
    <2> QED
      BY <2>1, <2>2, <2>3, <2>5 DEF RedirectTypeOK, mainVars, writerVars
  <1>6. ASSUME NEW w \in Writer,
               Resolve(w) \/ LockFile(w) \/ Park(w) \/ Wake(w) \/ GiveUp(w)
        PROVE  RedirectTypeOK'
    <2>1. UNCHANGED <<mainVars, drainVars, real, pipe, sent, accepted>>
      BY <1>6 DEF Resolve, LockFile, Park, Wake, GiveUp
    <2>2. /\ pc' \in [Writer -> {"idle", "resolved", "writing", "parked", "done"}]
          /\ dest' \in [Writer -> {"real", "pipe"}]
      BY <1>6 DEF RedirectTypeOK, Resolve, LockFile, Park, Wake, GiveUp
    <2> QED
      BY <2>1, <2>2 DEF RedirectTypeOK, mainVars, drainVars
  <1>7. ASSUME NEW w \in Writer, WriteReal(w)
        PROVE  RedirectTypeOK'
    <2>1. real' \in Seq({"frame", "stray"})
      BY <1>7 DEF RedirectTypeOK, WriteReal
    <2> QED
      BY <1>7, <2>1 DEF RedirectTypeOK, WriteReal, mainVars, drainVars
  <1>8. ASSUME NEW w \in Writer, Push(w)
        PROVE  RedirectTypeOK'
    <2>1. sent[w] < LineLength
      BY <1>8 DEF Push, OneLine, Writing
    <2>2. /\ pipe' \in Seq(Cell) /\ Len(pipe') <= PipeCapacity
          /\ accepted' \in Seq(Cell) /\ sent' \in [Writer -> 0..LineLength]
      BY <1>8, <2>1, PushShape
    <2> QED
      BY <1>8, <2>2 DEF RedirectTypeOK, Push, mainVars, drainVars
  <1> QED
    BY <1>1, <1>2, <1>3, <1>4, <1>5, <1>6, <1>7, <1>8
       DEF Next, Close, Drain, Write, Quiescent

(***************************************************************************)
(* Framing.                                                                *)
(***************************************************************************)
LEMMA RedirectedStep ==
  ASSUME RedirectInv, [Next]_vars
  PROVE  Redirected'
  <1> USE DEF RedirectInv
  <1>1. CASE Install \/ InstallFails \/ Restore \/ CloseWriteEnd \/ WriteEndClosed
               \/ Return \/ Drain \/ UNCHANGED vars
    BY <1>1 DEF Redirected, Install, InstallFails, Restore, CloseWriteEnd,
                WriteEndClosed, Return, Drain, ReadPipe, WriteSink, SinkFails,
                EndOfFile, EndDrain, vars, mainVars, drainVars, writerVars
  <1>2. CASE Frame
    <2>1. /\ real \in Seq({"frame", "stray"}) /\ main = "serving"
          /\ real' = Append(real, "frame")
      BY <1>2 DEF RedirectTypeOK, Frame
    <2>2. Len(real') = Len(real) + 1 /\ real'[Len(real) + 1] = "frame"
          /\ \A i \in 1..Len(real) : real'[i] = real[i]
      BY <2>1, AppendProperties
    <2>3. \A i \in 1..Len(real') : real'[i] = "frame"
      BY <2>1, <2>2 DEF Redirected
    <2> QED
      BY <1>2, <2>3 DEF Redirected, Frame, mainVars, writerVars
  <1>3. ASSUME NEW w \in Writer, Resolve(w) \/ Write(w)
        PROVE  Redirected'
    <2>1. CASE Resolve(w)
      BY <2>1 DEF Redirected, Resolve, mainVars, RedirectTypeOK
    <2>2. CASE WriteReal(w)
      BY <2>2 DEF Redirected, WriteReal, mainVars, RedirectTypeOK
    <2>3. CASE LockFile(w) \/ Push(w) \/ Park(w) \/ Wake(w) \/ GiveUp(w)
      BY <2>3 DEF Redirected, LockFile, Push, Park, Wake, GiveUp, mainVars,
                  RedirectTypeOK, Writing
    <2> QED
      BY <1>3, <2>1, <2>2, <2>3 DEF Write
  <1> QED
    BY <1>1, <1>2, <1>3 DEF Next, Close, Quiescent

(***************************************************************************)
(* Conservation.                                                           *)
(***************************************************************************)
LEMMA DrainStep ==
  ASSUME RedirectInv, [Next]_vars
  PROVE  DrainSound'
  <1> USE DEF RedirectInv
  <1>1. CASE Install \/ InstallFails \/ Frame \/ Restore \/ CloseWriteEnd
               \/ WriteEndClosed \/ Return \/ UNCHANGED vars
    <2>1. UNCHANGED <<held, pipe, sinkOK, pc>> /\ drain' \in {drain, "copying"}
      BY <1>1 DEF Install, InstallFails, Frame, Restore, CloseWriteEnd,
                WriteEndClosed, Return, vars, mainVars, drainVars, writerVars
    <2>2. CASE Install \/ InstallFails \/ Restore \/ CloseWriteEnd
      <3>1. writeEnd # "closed" /\ writeEnd' # "closed" /\ main' # "returned"
        BY <2>2 DEF DrainSound, Install, InstallFails, Restore, CloseWriteEnd
      <3> QED
        BY <2>1, <2>2, <3>1 DEF DrainSound, Install, InstallFails, Restore,
                                CloseWriteEnd, drainVars
    <2>3. CASE WriteEndClosed
      BY <2>1, <2>3 DEF DrainSound, WriteEndClosed, Writing, drainVars
    <2>4. CASE Return
      BY <2>1, <2>4 DEF DrainSound, Return, Writing, drainVars
    <2>5. CASE Frame \/ UNCHANGED vars
      BY <2>1, <2>5 DEF DrainSound, Frame, Writing, vars, mainVars, drainVars
    <2> QED
      BY <1>1, <2>2, <2>3, <2>4, <2>5
  <1>2. CASE WriteSink \/ SinkFails \/ EndOfFile \/ EndDrain
    BY <1>2 DEF DrainSound, WriteSink, SinkFails, EndOfFile, EndDrain, Writing,
                mainVars, writerVars
  <1>3. CASE ReadPipe
    <2>1. /\ drain = "copying" /\ drain' = "holding"
          /\ UNCHANGED <<main, writeEnd, sinkOK, pc>>
      BY <1>3 DEF ReadPipe, mainVars, writerVars
    <2> QED
      BY <2>1 DEF DrainSound, Writing
  <1>4. ASSUME NEW w \in Writer, Resolve(w) \/ Write(w)
        PROVE  DrainSound'
    <2>1. CASE Push(w)
      <3>1. /\ writeEnd # "closed"
            /\ UNCHANGED <<main, writeEnd, drain, held, sinkOK>>
        BY <2>1 DEF DrainSound, Push, Writing, mainVars, drainVars
      <3> QED
        BY <3>1 DEF DrainSound
    <2>2. CASE Resolve(w) \/ WriteReal(w) \/ LockFile(w) \/ Park(w) \/ Wake(w) \/ GiveUp(w)
      <3>1. UNCHANGED <<main, writeEnd, drain, held, sinkOK, pipe>>
        BY <2>2 DEF Resolve, WriteReal, LockFile, Park, Wake, GiveUp, mainVars, drainVars
      <3>2. writeEnd = "closed" => \A v \in Writer : ~Writing(v)'
        BY <2>2 DEF DrainSound, Resolve, WriteReal, LockFile, Park, Wake, GiveUp,
                    Writing, RedirectTypeOK
      <3> QED
        BY <3>1, <3>2 DEF DrainSound
    <2> QED
      BY <1>4, <2>1, <2>2 DEF Write
  <1> QED
    BY <1>1, <1>2, <1>3, <1>4 DEF Next, Close, Drain, Quiescent

LEMMA WaitsStep ==
  ASSUME RedirectInv, [Next]_vars
  PROVE  WaitsSound'
  <1> USE DEF RedirectInv
  <1>1. CASE Install \/ InstallFails \/ Frame \/ Restore \/ CloseWriteEnd
               \/ WriteEndClosed \/ Return \/ UNCHANGED vars
    <2>1. UNCHANGED <<readOpen, pc>>
      BY <1>1 DEF Install, InstallFails, Frame, Restore, CloseWriteEnd,
                WriteEndClosed, Return, vars, drainVars, writerVars
    <2>2. CASE Install \/ InstallFails \/ CloseWriteEnd
      BY <2>1, <2>2 DEF WaitsSound, Install, InstallFails, CloseWriteEnd, drainVars
    <2>3. CASE Frame \/ Restore \/ WriteEndClosed \/ Return \/ UNCHANGED vars
      BY <2>1, <2>3 DEF WaitsSound, Frame, Restore, WriteEndClosed, Return, vars,
                        mainVars, drainVars
    <2> QED
      BY <1>1, <2>2, <2>3
  <1>2. CASE Drain
    BY <1>2 DEF WaitsSound, Drain, ReadPipe, WriteSink, SinkFails, EndOfFile, EndDrain,
                mainVars, writerVars
  <1>3. ASSUME NEW w \in Writer, Resolve(w) \/ Write(w)
        PROVE  WaitsSound'
    <2>1. UNCHANGED <<main, writeEnd, drain, readOpen>>
      BY <1>3 DEF Resolve, Write, WriteReal, LockFile, Push, Park, Wake, GiveUp,
                  mainVars, drainVars
    <2>2. drain # "absent"
      BY <1>3 DEF WaitsSound, Resolve, Write, WriteReal, LockFile, Push, Park, Wake,
                  GiveUp, Writing
    <2> QED
      BY <2>1, <2>2 DEF WaitsSound
  <1> QED
    BY <1>1, <1>2, <1>3 DEF Next, Close, Quiescent

LEMMA NothingLostStep ==
  ASSUME RedirectInv, [Next]_vars
  PROVE  NothingLost'
  <1> USE DEF RedirectInv
  <1>0. /\ sink \in Seq(Cell) /\ held \in Seq(Cell) /\ pipe \in Seq(Cell)
        /\ <<>> \in Seq(Cell) /\ sink \o held \in Seq(Cell)
    BY ConcatProperties, EmptySeq DEF RedirectTypeOK
  <1>1. CASE UNCHANGED <<sinkOK, accepted, sink, held, pipe>> \/ ~sinkOK'
    BY <1>1 DEF NothingLost
  <1>2. CASE ReadPipe
    <2>1. /\ held = <<>> /\ sink' = sink /\ accepted' = accepted /\ sinkOK' = sinkOK
      BY <1>2 DEF DrainSound, ReadPipe, writerVars
    <2>2. /\ held' \in Seq(Cell) /\ pipe' \in Seq(Cell) /\ pipe = held' \o pipe'
      BY <1>2, ReadShape
    <2>3. sink \o held = sink
      BY <1>0, <2>1, ConcatEmptySeq
    <2>4. sink \o (held' \o pipe') = (sink \o held') \o pipe'
      BY <1>0, <2>2, ConcatAssociative
    <2> QED
      BY <2>1, <2>2, <2>3, <2>4 DEF NothingLost
  <1>3. CASE WriteSink
    <2>1. /\ held' = <<>> /\ sink' = sink \o held
          /\ UNCHANGED <<accepted, sinkOK, pipe>>
      BY <1>3 DEF WriteSink, writerVars
    <2>2. (sink \o held) \o <<>> = sink \o held
      BY <1>0, ConcatEmptySeq
    <2> QED
      BY <2>1, <2>2 DEF NothingLost
  <1>4. ASSUME NEW w \in Writer, Push(w)
        PROVE  NothingLost'
    <2>1. <<w, sent[w] + 1>> \in Cell
      <3>1. sent[w] < LineLength
        BY <1>4 DEF OneLine, Push, Writing
      <3> QED
        BY <1>4, <3>1, PushShape
    <2>2. /\ accepted' = Append(accepted, <<w, sent[w] + 1>>)
          /\ pipe' = Append(pipe, <<w, sent[w] + 1>>)
          /\ UNCHANGED <<sink, held, sinkOK>>
      BY <1>4 DEF Push, drainVars
    <2>3. Append((sink \o held) \o pipe, <<w, sent[w] + 1>>)
            = (sink \o held) \o Append(pipe, <<w, sent[w] + 1>>)
      BY <1>0, <2>1, AppendLast
    <2>4. ASSUME sinkOK PROVE accepted' = (sink' \o held') \o pipe'
      BY <2>2, <2>3, <2>4 DEF NothingLost
    <2> QED
      BY <2>2, <2>4 DEF NothingLost
  <1>5. ASSUME NEW w \in Writer,
               Resolve(w) \/ WriteReal(w) \/ LockFile(w) \/ Park(w) \/ Wake(w) \/ GiveUp(w)
        PROVE  UNCHANGED <<sinkOK, accepted, sink, held, pipe>>
    BY <1>5 DEF Resolve, WriteReal, LockFile, Park, Wake, GiveUp, drainVars
  <1>6. ASSUME Install \/ InstallFails \/ Frame \/ Close \/ EndOfFile \/ EndDrain
                 \/ UNCHANGED vars
        PROVE  UNCHANGED <<sinkOK, accepted, sink, held, pipe>>
    BY <1>6 DEF Install, InstallFails, Frame, Close, Restore, CloseWriteEnd,
                WriteEndClosed, Return, EndOfFile, EndDrain, vars, drainVars, writerVars
  <1>7. SinkFails => ~sinkOK'
    BY DEF SinkFails
  <1> QED
    BY <1>1, <1>2, <1>3, <1>4, <1>5, <1>6, <1>7 DEF Next, Drain, Write, Quiescent

(***************************************************************************)
(* Whole lines.                                                            *)
(***************************************************************************)
\* The cell that is pushed continues the last line or starts one after it.
LEMMA PushContinues ==
  ASSUME RedirectInv, NEW w \in Writer, Push(w), accepted # <<>>
  PROVE  <<w, sent[w] + 1>> =
           IF accepted[Len(accepted)][2] < LineLength
             THEN <<accepted[Len(accepted)][1], accepted[Len(accepted)][2] + 1>>
             ELSE <<w, 1>>
  <1>1. /\ Writing(w) /\ readOpen /\ sent[w] \in 0..LineLength
        /\ sent[w] < LineLength
    BY DEF RedirectInv, RedirectTypeOK, OneLine, Push, Writing
  <1>2. CASE sent[w] = 0
    <2>1. accepted[Len(accepted)][2] = LineLength
      BY <1>1, <1>2 DEF RedirectInv, OneLine, LastWhole
    <2> QED
      BY <1>2, <2>1
  <1>3. CASE sent[w] > 0
    <2>1. accepted[Len(accepted)] = <<w, sent[w]>>
      BY <1>1, <1>3 DEF RedirectInv, OneLine
    <2> QED
      BY <1>1, <2>1
  <1> QED
    BY <1>1, <1>2, <1>3

LEMMA LinesStep ==
  ASSUME RedirectInv, [Next]_vars
  PROVE  Unbroken(accepted)'
  <1>1. CASE accepted' = accepted
    BY <1>1 DEF RedirectInv, Unbroken
  <1>2. ASSUME NEW w \in Writer, Push(w)
        PROVE  Unbroken(accepted)'
    <2>1. sent[w] < LineLength /\ accepted \in Seq(Cell) /\ Len(accepted) \in Nat
      BY <1>2 DEF RedirectInv, RedirectTypeOK, OneLine, Push, Writing
    <2>2. /\ Len(accepted') = Len(accepted) + 1
          /\ accepted'[Len(accepted) + 1] = <<w, sent[w] + 1>>
          /\ \A i \in 1..Len(accepted) : accepted'[i] = accepted[i]
      BY <1>2, <2>1, PushShape DEF RedirectInv
    <2>3. ASSUME NEW i \in 1..(Len(accepted') - 1)
          PROVE  accepted'[i + 1] = IF accepted'[i][2] < LineLength
                                      THEN <<accepted'[i][1], accepted'[i][2] + 1>>
                                      ELSE <<accepted'[i + 1][1], 1>>
      <3>1. i \in 1..Len(accepted) /\ accepted'[i] = accepted[i]
        BY <2>1, <2>2
      <3>2. CASE i = Len(accepted)
        <4>1. accepted # <<>>
          BY <2>1, <3>1
        <4> QED
          BY <1>2, <2>2, <3>1, <3>2, <4>1, PushContinues
      <3>3. CASE i # Len(accepted)
        <4>1. i \in 1..(Len(accepted) - 1) /\ i + 1 \in 1..Len(accepted)
          BY <2>1, <3>1, <3>3
        <4>2. accepted'[i + 1] = accepted[i + 1]
          BY <2>2, <4>1
        <4> QED
          BY <3>1, <4>1, <4>2 DEF RedirectInv, Unbroken
      <3> QED
        BY <3>2, <3>3
    <2> QED
      BY <2>3 DEF Unbroken
  <1>3. accepted' = accepted \/ \E w \in Writer : Push(w)
    BY DEF Next, Install, InstallFails, Frame, Close, Restore, CloseWriteEnd,
           WriteEndClosed, Return, Drain, ReadPipe, WriteSink, SinkFails, EndOfFile,
           EndDrain, Resolve, Write, WriteReal, LockFile, Park, Wake, GiveUp,
           Quiescent, vars, writerVars
  <1> QED
    BY <1>1, <1>2, <1>3

\* The sink receives what is next in line, or less of it and then no more.
LEMMA SinkStep ==
  ASSUME RedirectInv, [Next]_vars
  PROVE  SinkIsPrefix'
  <1>0. /\ sink \in Seq(Cell) /\ held \in Seq(Cell) /\ pipe \in Seq(Cell)
        /\ accepted \in Seq(Cell)
        /\ Len(sink) \in Nat /\ Len(held) \in Nat /\ Len(pipe) \in Nat
        /\ Len(accepted) \in Nat
    BY DEF RedirectInv, RedirectTypeOK
  <1>1. SinkIsPrefix
    BY DEF RedirectInv
  <1>2. CASE /\ UNCHANGED <<sink, accepted>>
             /\ sinkOK' = sinkOK
             /\ drain \in {"ended", "done"} => drain' \in {"ended", "done"}
    BY <1>1, <1>2 DEF SinkIsPrefix
  <1>3. CASE WriteSink \/ SinkFails
    <2>1. /\ drain = "holding" /\ accepted' = accepted
          /\ sinkOK /\ accepted = (sink \o held) \o pipe
      BY <1>1, <1>3 DEF RedirectInv, NothingLost, SinkIsPrefix, WriteSink, SinkFails,
                        writerVars
    <2>2. PICK part \in Seq(Cell) :
            /\ sink' = sink \o part
            /\ Len(part) <= Len(held)
            /\ \A i \in 1..Len(part) : part[i] = held[i]
      <3>1. CASE WriteSink
        <4>1. sink' = sink \o held
          BY <3>1 DEF WriteSink
        <4>2. Len(held) <= Len(held) /\ \A i \in 1..Len(held) : held[i] = held[i]
          BY <1>0
        <4>3. held \in Seq(Cell)
          BY <1>0
        <4> QED
          BY <4>1, <4>2, <4>3
      <3>2. CASE SinkFails
        <4>1. PICK k \in 0..(Len(held) - 1) : sink' = sink \o SubSeq(held, 1, k)
          BY <3>2 DEF SinkFails
        <4>2. k \in 0..Len(held)
          BY <1>0
        <4>3. SubSeq(held, 1, k) \in Seq(Cell)
          BY <1>0, <4>2, ReadSplits
        <4>4. /\ Len(SubSeq(held, 1, k)) = k
              /\ \A i \in 1..k : SubSeq(held, 1, k)[i] = held[i]
          BY <1>0, <4>2
        <4>5. k <= Len(held)
          BY <1>0, <4>2
        <4> QED
          BY <4>1, <4>3, <4>4, <4>5
      <3> QED
        BY <1>3, <3>1, <3>2
    <2>3. Len(part) \in Nat
      BY <2>2
    <2>4. /\ sink \o held \in Seq(Cell)
          /\ Len(sink \o held) = Len(sink) + Len(held)
          /\ \A i \in 1..(Len(sink) + Len(held)) :
               (sink \o held)[i] = IF i <= Len(sink) THEN sink[i] ELSE held[i - Len(sink)]
      BY <1>0, ConcatProperties
    <2>5. /\ Len(accepted) = Len(sink) + Len(held) + Len(pipe)
          /\ \A i \in 1..(Len(sink) + Len(held)) : accepted[i] = (sink \o held)[i]
      BY <1>0, <2>1, <2>4, ConcatProperties
    <2>6. /\ Len(sink') = Len(sink) + Len(part)
          /\ \A i \in 1..(Len(sink) + Len(part)) :
               sink'[i] = IF i <= Len(sink) THEN sink[i]
                                            ELSE part[i - Len(sink)]
      BY <1>0, <2>2, <2>3, ConcatProperties
    <2>7. ASSUME NEW i \in 1..Len(sink') PROVE sink'[i] = accepted[i]
      <3>1. i \in 1..(Len(sink) + Len(part)) /\ i \in 1..(Len(sink) + Len(held))
        BY <1>0, <2>2, <2>3, <2>6
      <3>2. CASE i <= Len(sink)
        BY <2>4, <2>5, <2>6, <3>1, <3>2
      <3>3. CASE ~(i <= Len(sink))
        <4>1. i - Len(sink) \in 1..Len(part)
          BY <1>0, <2>3, <3>1, <3>3
        <4> QED
          BY <2>2, <2>4, <2>5, <2>6, <3>1, <3>3, <4>1
      <3> QED
        BY <3>2, <3>3
    <2>8. Len(sink') <= Len(accepted)
      BY <1>0, <2>2, <2>3, <2>5, <2>6
    <2>9. ~sinkOK' => drain' \in {"ended", "done"}
      BY <1>3, <2>1 DEF WriteSink, SinkFails
    <2> QED
      BY <2>1, <2>7, <2>8, <2>9 DEF SinkIsPrefix
  <1>4. ASSUME NEW w \in Writer, Push(w)
        PROVE  SinkIsPrefix'
    <2>1. sent[w] < LineLength
      BY <1>4 DEF RedirectInv, OneLine, Push, Writing
    <2>2. /\ Len(accepted') = Len(accepted) + 1
          /\ \A i \in 1..Len(accepted) : accepted'[i] = accepted[i]
      BY <1>4, <2>1, PushShape DEF RedirectInv
    <2>3. sink' = sink /\ sinkOK' = sinkOK /\ drain' = drain
      BY <1>4 DEF Push, drainVars
    <2> QED
      BY <1>0, <1>1, <2>2, <2>3 DEF SinkIsPrefix
  <1>5. ASSUME NEW w \in Writer,
               Resolve(w) \/ WriteReal(w) \/ LockFile(w) \/ Park(w) \/ Wake(w) \/ GiveUp(w)
        PROVE  UNCHANGED <<sink, sinkOK, accepted, drain>>
    BY <1>5 DEF Resolve, WriteReal, LockFile, Park, Wake, GiveUp, drainVars
  <1>6. CASE Install \/ InstallFails \/ Frame \/ Close \/ ReadPipe \/ EndOfFile
               \/ EndDrain \/ UNCHANGED vars
    <2>1. UNCHANGED <<sink, accepted>> /\ sinkOK' = sinkOK
      BY <1>6 DEF Install, InstallFails, Frame, Close, Restore, CloseWriteEnd,
                  WriteEndClosed, Return, ReadPipe, EndOfFile, EndDrain, vars,
                  drainVars, writerVars
    <2>2. drain \in {"ended", "done"} => drain' \in {"ended", "done"}
      BY <1>6 DEF Install, InstallFails, Frame, Close, Restore, CloseWriteEnd,
                  WriteEndClosed, Return, ReadPipe, EndOfFile, EndDrain, vars,
                  drainVars, RedirectInv, DrainSound
    <2> QED
      BY <1>2, <2>1, <2>2
  <1> QED
    BY <1>2, <1>3, <1>4, <1>5, <1>6 DEF Next, Drain, Write, Quiescent

\* Steps that leave the file, the answers of the kernel and the ends alone.
LEMMA LineFrame ==
  ASSUME OneLine, UNCHANGED <<accepted, sent, pc>>,
         writeEnd' # "open" \/ writeEnd' = writeEnd,
         ~readOpen' \/ readOpen' = readOpen
  PROVE  OneLine'
  BY DEF OneLine, LastWhole, Writing

LEMMA OneLineStep ==
  ASSUME RedirectInv, [Next]_vars
  PROVE  OneLine'
  <1> USE DEF RedirectInv
  <1>1. CASE Install \/ InstallFails \/ Frame \/ Close \/ Drain \/ UNCHANGED vars
    <2>1. /\ UNCHANGED <<accepted, sent, pc>>
          /\ writeEnd' # "open" \/ writeEnd' = writeEnd
      BY <1>1 DEF Install, InstallFails, Frame, Close, Restore, CloseWriteEnd,
             WriteEndClosed, Return, Drain, ReadPipe, WriteSink, SinkFails, EndOfFile,
             EndDrain, vars, mainVars, writerVars
    <2>2. ~readOpen' \/ readOpen' = readOpen
      BY <1>1 DEF Install, InstallFails, Frame, Close, Restore, CloseWriteEnd,
             WriteEndClosed, Return, Drain, ReadPipe, WriteSink, SinkFails, EndOfFile,
             EndDrain, vars, drainVars
    <2> QED
      BY <2>1, <2>2, LineFrame
  <1>2. ASSUME NEW w \in Writer, Resolve(w) \/ WriteReal(w)
        PROVE  OneLine'
    <2>1. /\ UNCHANGED <<accepted, sent, writeEnd, readOpen>>
          /\ pc[w] \in {"idle", "resolved"} /\ pc'[w] \in {"resolved", "done"}
          /\ \A v \in Writer \ {w} : pc'[v] = pc[v]
      BY <1>2 DEF Resolve, WriteReal, mainVars, drainVars, RedirectTypeOK
    <2>2. \A v \in Writer : Writing(v)' <=> Writing(v)
      BY <2>1 DEF Writing
    <2> QED
      BY <2>1, <2>2 DEF OneLine, LastWhole
  <1>3. ASSUME NEW w \in Writer, LockFile(w)
        PROVE  OneLine'
    <2>1. /\ UNCHANGED <<accepted, sent, writeEnd, readOpen>> /\ writeEnd = "open"
          /\ pc[w] = "resolved" /\ pc'[w] = "writing" /\ sent[w] = 0
          /\ \A v \in Writer : ~Writing(v)
          /\ \A v \in Writer \ {w} : pc'[v] = pc[v]
      BY <1>3 DEF LockFile, mainVars, drainVars, RedirectTypeOK, OneLine
    <2>2. \A v \in Writer : Writing(v)' <=> v = w
      BY <2>1 DEF Writing
    <2>3. LastWhole \/ ~readOpen
      BY <2>1 DEF OneLine
    <2> QED
      BY <2>1, <2>2, <2>3 DEF OneLine, LastWhole
  <1>4. ASSUME NEW w \in Writer, Park(w) \/ Wake(w)
        PROVE  OneLine'
    <2>1. /\ UNCHANGED <<accepted, sent, writeEnd, readOpen>>
          /\ pc[w] \in {"writing", "parked"} /\ pc'[w] \in {"writing", "parked"}
          /\ \A v \in Writer \ {w} : pc'[v] = pc[v]
      BY <1>4 DEF Park, Wake, mainVars, drainVars, RedirectTypeOK
    <2>2. \A v \in Writer : Writing(v)' <=> Writing(v)
      BY <2>1 DEF Writing
    <2> QED
      BY <2>1, <2>2 DEF OneLine, LastWhole
  <1>5. ASSUME NEW w \in Writer, GiveUp(w)
        PROVE  OneLine'
    <2>1. /\ UNCHANGED <<accepted, sent, writeEnd, readOpen>>
          /\ writeEnd # "open" \/ ~readOpen
          /\ pc'[w] = "done"
          /\ \A v \in Writer \ {w} : pc'[v] = pc[v]
      BY <1>5 DEF GiveUp, mainVars, drainVars, RedirectTypeOK
    <2>2. \A v \in Writer : Writing(v)' <=> Writing(v) /\ v # w
      BY <2>1 DEF Writing
    <2> QED
      BY <2>1, <2>2 DEF OneLine, LastWhole
  <1>6. ASSUME NEW w \in Writer, Push(w)
        PROVE  OneLine'
    <2>1. Writing(w) /\ sent[w] < LineLength /\ sent[w] \in Nat /\ Len(accepted) \in Nat
      BY <1>6 DEF OneLine, Push, Writing, RedirectTypeOK
    <2>2. /\ accepted' # <<>> /\ Len(accepted') = Len(accepted) + 1
          /\ accepted'[Len(accepted')] = <<w, sent[w] + 1>>
      <3>1. /\ accepted' \in Seq(Cell) /\ Len(accepted') = Len(accepted) + 1
            /\ accepted'[Len(accepted) + 1] = <<w, sent[w] + 1>>
        BY <1>6, <2>1, PushShape
      <3> QED
        BY <2>1, <3>1
    <2>3. /\ UNCHANGED <<writeEnd, readOpen>>
          /\ sent'[w] = sent[w] + 1
          /\ pc'[w] = IF sent[w] + 1 = LineLength THEN "done" ELSE pc[w]
          /\ \A v \in Writer \ {w} : pc'[v] = pc[v] /\ sent'[v] = sent[v] /\ ~Writing(v)
      BY <1>6, <2>1 DEF Push, mainVars, drainVars, RedirectTypeOK, OneLine
    <2>4. CASE sent[w] + 1 = LineLength
      <3>1. \A v \in Writer : ~Writing(v)'
        BY <2>3, <2>4 DEF Writing
      <3>2. LastWhole'
        BY <2>2, <2>4 DEF LastWhole
      <3> QED
        BY <2>3, <2>4, <3>1, <3>2 DEF OneLine
    <2>5. CASE sent[w] + 1 # LineLength
      <3>1. \A v \in Writer : Writing(v)' <=> v = w
        BY <2>1, <2>3, <2>5 DEF Writing
      <3>2. sent'[w] < LineLength /\ sent'[w] > 0
        BY <2>1, <2>3, <2>5
      <3>3. pc'[w] \notin {"idle", "resolved"}
        BY <2>1, <2>3, <2>5 DEF Writing
      <3> QED
        BY <2>2, <2>3, <3>1, <3>2, <3>3 DEF OneLine
    <2> QED
      BY <2>4, <2>5
  <1> QED
    BY <1>1, <1>2, <1>3, <1>4, <1>5, <1>6 DEF Next, Write, Quiescent

(***************************************************************************)
(* The theorems.                                                           *)
(***************************************************************************)
THEOREM RedirectInvariance == Spec => []RedirectInv
  <1>1. Init => RedirectInv
    BY ConcatEmptySeq, EmptySeq
       DEF Init, RedirectInv, RedirectTypeOK, Redirected, DrainSound, NothingLost,
           OneLine, LastWhole, Unbroken, SinkIsPrefix, WaitsSound, Writing
  <1>2. RedirectInv /\ [Next]_vars => RedirectInv'
    BY TypeStep, RedirectedStep, DrainStep, WaitsStep, NothingLostStep, LinesStep, OneLineStep,
       SinkStep
       DEF RedirectInv
  <1> QED
    BY <1>1, <1>2, PTL DEF Spec

\* Type correctness of the redirect.
THEOREM RedirectTypeCorrect == Spec => []RedirectTypeOK
  BY RedirectInvariance, PTL DEF RedirectInv

\* No stray write reaches the real stdout while frames are written to it.
THEOREM FramesUndisturbed == Spec => []FramingHeld
  <1>1. RedirectInv => FramingHeld
    BY DEF RedirectInv, Redirected, FramingHeld
  <1> QED
    BY <1>1, RedirectInvariance, PTL

\* As long as the sink works, all that the pipe took is delivered or on its way.
THEOREM OutputConserved == Spec => []NothingLost
  BY RedirectInvariance, PTL DEF RedirectInv

\* And it is delivered when Close has returned.
THEOREM CloseDrains == Spec => []DrainedOnReturn
  <1>1. RedirectInv => DrainedOnReturn
    <2> SUFFICES ASSUME RedirectInv, main = "returned", sinkOK
                 PROVE  sink = accepted
      BY DEF DrainedOnReturn
    <2>1. pipe = <<>> /\ held = <<>> /\ sink \in Seq(Cell)
      BY DEF RedirectInv, DrainSound, RedirectTypeOK
    <2>2. accepted = sink \o <<>> \o <<>>
      BY <2>1 DEF RedirectInv, NothingLost
    <2> QED
      BY <2>1, <2>2, ConcatEmptySeq
  <1> QED
    BY <1>1, RedirectInvariance, PTL

\* No stray line on stderr is cut by another.
THEOREM LinesStayWhole == Spec => []LinesWhole
  <1>1. RedirectInv => LinesWhole
    <2> SUFFICES ASSUME RedirectInv, NEW i \in 1..(Len(sink) - 1)
                 PROVE  sink[i + 1] = IF sink[i][2] < LineLength
                                        THEN <<sink[i][1], sink[i][2] + 1>>
                                        ELSE <<sink[i + 1][1], 1>>
      BY DEF LinesWhole, Unbroken
    <2>1. Len(sink) \in Nat /\ Len(accepted) \in Nat /\ Len(sink) <= Len(accepted)
      BY DEF RedirectInv, RedirectTypeOK, SinkIsPrefix
    <2>2. /\ i \in 1..Len(sink) /\ i + 1 \in 1..Len(sink)
          /\ i \in 1..(Len(accepted) - 1)
      BY <2>1
    <2>3. sink[i] = accepted[i] /\ sink[i + 1] = accepted[i + 1]
      BY <2>2 DEF RedirectInv, SinkIsPrefix
    <2>4. Unbroken(accepted)
      BY DEF RedirectInv
    <2> QED
      BY <2>2, <2>3, <2>4 DEF Unbroken
  <1> QED
    BY <1>1, RedirectInvariance, PTL

\* For any number of writers and a pipe of any size, nobody waits in a circle.
THEOREM NobodyWaitsInACircle == Spec => []NoCircularWait
  <1>1. RedirectInv => NoCircularWait
    <2> DEFINE DrainWorks == drain \notin {"absent", "done"} /\ ~DrainWaits
               WriterWorks == \E w \in Writer : Writing(w) /\ ~WriterWaits(w)
    <2> SUFFICES ASSUME RedirectInv, CloseWaits \/ \E w \in Writer : WriterWaits(w)
                 PROVE  DrainWorks \/ WriterWorks
      BY DEF NoCircularWait
    <2>1. CASE main = "closing" /\ \E w \in Writer : Writing(w)
      BY <2>1 DEF RedirectInv, WaitsSound, WriterWaits
    <2>2. CASE main = "waiting" /\ drain # "done"
      <3>1. drain # "absent" /\ writeEnd = "closed"
        BY <2>2 DEF RedirectInv, WaitsSound, DrainSound
      <3> QED
        BY <2>2, <3>1 DEF DrainWaits
    \* Before a full pipe: it holds a cell for a drain that is still there.
    <2>3. ASSUME NEW w \in Writer, pc[w] = "parked", PipeFull, readOpen
          PROVE  DrainWorks
      <3>1. drain \notin {"absent", "done"}
        BY <2>3 DEF RedirectInv, WaitsSound
      <3>2. pipe # <<>>
        BY <2>3, EmptySeq DEF PipeFull
      <3> QED
        BY <3>1, <3>2 DEF DrainWaits
    \* Before the file: the one in it goes on or is before a full pipe.
    <2>4. ASSUME NEW w \in Writer, NEW v \in Writer, Writing(v)
          PROVE  DrainWorks \/ WriterWorks
      <3>1. CASE ~WriterWaits(v)
        BY <2>4, <3>1
      <3>2. CASE WriterWaits(v)
        <4>1. pc[v] = "parked" /\ PipeFull /\ readOpen
          BY <2>4, <3>2 DEF WriterWaits, Writing
        <4> QED
          BY <2>3, <4>1
      <3> QED
        BY <3>1, <3>2
    <2> HIDE DEF DrainWorks, WriterWorks
    <2> QED
      BY <2>1, <2>2, <2>3, <2>4 DEF CloseWaits, WriterWaits
  <1> QED
    BY <1>1, RedirectInvariance, PTL

(***************************************************************************)
(* The redirect implements the conduit.  A cell is taken when the kernel   *)
(* takes it into the pipe and delivered when a write of the copy ends; the *)
(* conduit ends when Close returns, and everything else is a stutter.      *)
(***************************************************************************)
\* A sequence that agrees with the beginning of another is that beginning.
LEMMA PrefixIsSubSeq ==
  ASSUME NEW S, NEW s \in Seq(S), NEW t \in Seq(S), Len(s) <= Len(t),
         \A i \in 1..Len(s) : s[i] = t[i]
  PROVE  s = SubSeq(t, 1, Len(s))
  <1> DEFINE n == Len(s)
             a == SubSeq(t, 1, n)
  <1>1. n \in Nat /\ Len(t) \in Nat /\ n <= Len(t)
    BY LenProperties
  <1>2. \A i \in 1..n : t[i] \in S
    BY <1>1, ElementOfSeq
  <1>3. /\ a \in Seq(S) /\ Len(a) = IF 1 <= n THEN n - 1 + 1 ELSE 0
        /\ \A i \in 1 .. n - 1 + 1 : a[i] = t[1 + i - 1]
    BY <1>1, <1>2, SubSeqProperties
  <1> HIDE DEF a
  <1>4. Len(a) = n /\ \A i \in 1..n : a[i] = t[i]
    BY <1>1, <1>3
  <1>5. \A i \in 1..Len(s) : s[i] = a[i]
    BY <1>4
  <1>6. s = a
    BY <1>3, <1>4, <1>5, SeqEqual
  <1> QED
    BY <1>6 DEF a

\* What the sink has received is a beginning of what was taken.
LEMMA DeliveredIsSubSeq ==
  ASSUME RedirectInv
  PROVE  sink = SubSeq(accepted, 1, Len(sink))
  BY PrefixIsSubSeq DEF RedirectInv, RedirectTypeOK, SinkIsPrefix

\* The kernel takes the cell that is next, while the conduit is there.
LEMMA PushTakes ==
  ASSUME RedirectInv, NEW w \in Writer, Push(w)
  PROVE  Lines!Take
  <1>1. /\ Writing(w) /\ sent[w] \in 0..LineLength /\ sent[w] < LineLength
        /\ UNCHANGED <<sink, sinkOK, main>>
        /\ accepted' = Append(accepted, <<w, sent[w] + 1>>)
    BY DEF RedirectInv, RedirectTypeOK, OneLine, Push, Writing, mainVars, drainVars
  <1>2. main # "returned"
    BY <1>1 DEF RedirectInv, DrainSound
  <1>3. sent[w] + 1 \in 1..LineLength
    BY <1>1
  <1>4. Lines!Continues(w, sent[w] + 1)
    <2>1. CASE accepted = <<>>
      <3>1. sent[w] = 0
        BY <1>1, <2>1 DEF RedirectInv, OneLine
      <3> QED
        BY <2>1, <3>1 DEF Lines!Continues
    <2>2. CASE accepted # <<>> /\ sent[w] = 0
      <3>1. accepted[Len(accepted)][2] = LineLength
        BY <1>1, <2>2 DEF RedirectInv, OneLine, LastWhole, Push
      <3> QED
        BY <2>2, <3>1 DEF Lines!Continues
    <2>3. CASE accepted # <<>> /\ sent[w] > 0
      <3>1. accepted[Len(accepted)] = <<w, sent[w]>>
        BY <1>1, <2>3 DEF RedirectInv, OneLine
      <3>2. accepted[Len(accepted)][2] # LineLength
        BY <1>1, <3>1
      <3>3. (sent[w] + 1) - 1 = sent[w]
        BY <1>1
      <3>4. accepted[Len(accepted)] = <<w, (sent[w] + 1) - 1>>
        BY <3>1, <3>3
      <3> QED
        BY <2>3, <3>2, <3>4 DEF Lines!Continues
    <2> QED
      BY <1>1, <2>1, <2>2, <2>3
  <1> QED
    BY <1>1, <1>2, <1>3, <1>4 DEF Lines!Take

\* A write of the copy delivers what is next, the whole buffer or less of it.
LEMMA WriteDelivers ==
  ASSUME RedirectInv, RedirectInv', WriteSink \/ SinkFails
  PROVE  Lines!Deliver \/ Lines!Break \/ UNCHANGED Lines!conduitVars
  <1>1. /\ sink \in Seq(Cell) /\ held \in Seq(Cell) /\ pipe \in Seq(Cell)
        /\ Len(sink) \in Nat /\ Len(held) \in Nat /\ Len(pipe) \in Nat
        /\ Len(sink') \in Nat
    BY DEF RedirectInv, RedirectTypeOK
  <1>2. /\ main # "returned" /\ sinkOK /\ UNCHANGED <<main, accepted>>
    BY DEF RedirectInv, DrainSound, SinkIsPrefix, WriteSink, SinkFails, mainVars,
           writerVars
  <1>3. Len(accepted) = Len(sink) + Len(held) + Len(pipe)
    <2>1. accepted = (sink \o held) \o pipe
      BY <1>2 DEF RedirectInv, NothingLost
    <2>2. sink \o held \in Seq(Cell) /\ Len(sink \o held) = Len(sink) + Len(held)
      BY <1>1, ConcatProperties
    <2> QED
      BY <1>1, <2>1, <2>2, ConcatProperties
  <1>4. sink' = SubSeq(accepted, 1, Len(sink'))
    <2>1. sink' = SubSeq(accepted', 1, Len(sink'))
      <3>1. RedirectInv => sink = SubSeq(accepted, 1, Len(sink))
        BY DeliveredIsSubSeq
      <3>2. (RedirectInv => sink = SubSeq(accepted, 1, Len(sink)))'
        BY DeliveredIsSubSeq, PTL
      <3> QED
        BY <3>2
    <2> QED
      BY <1>2, <2>1
  <1>5. CASE WriteSink
    <2>1. sink' = sink \o held /\ sinkOK' = sinkOK
      BY <1>5 DEF WriteSink
    <2>2. Len(sink') = Len(sink) + Len(held)
      BY <1>1, <2>1, ConcatProperties
    <2>3. CASE held = <<>>
      <3>1. sink' = sink
        BY <1>1, <2>1, <2>3, ConcatEmptySeq
      <3> QED
        BY <1>2, <2>1, <3>1 DEF Lines!conduitVars
    <2>4. CASE held # <<>>
      <3>1. Len(held) > 0
        BY <1>1, <2>4, EmptySeq
      <3>2. Len(sink') \in (Len(sink) + 1)..Len(accepted)
        BY <1>1, <1>3, <2>2, <3>1
      <3>3. Lines!Deliver
        BY <1>2, <1>4, <2>1, <3>2 DEF Lines!Deliver
      <3> QED
        BY <3>3
    <2> QED
      BY <2>3, <2>4
  <1>6. CASE SinkFails
    <2>1. PICK k \in 0..(Len(held) - 1) : sink' = sink \o SubSeq(held, 1, k)
      BY <1>6 DEF SinkFails
    <2>2. /\ SubSeq(held, 1, k) \in Seq(Cell) /\ Len(SubSeq(held, 1, k)) = k
      <3>1. k \in 0..Len(held)
        BY <1>1
      <3>2. SubSeq(held, 1, k) \in Seq(Cell)
        BY <1>1, <3>1, ReadSplits
      <3> QED
        BY <1>1, <3>1, <3>2
    <2>3. Len(sink') = Len(sink) + k
      BY <1>1, <2>1, <2>2, ConcatProperties
    <2>4. Len(sink') \in Len(sink)..(Len(accepted) - 1)
      BY <1>1, <1>3, <2>3
    <2>5. sinkOK' = FALSE
      BY <1>6 DEF SinkFails
    <2>6. Lines!Break
      BY <1>2, <1>4, <2>4, <2>5 DEF Lines!Break
    <2> QED
      BY <2>6
  <1> QED
    BY <1>5, <1>6

\* Close returns when everything is delivered or the sink has failed.
LEMMA ReturnFinishes ==
  ASSUME RedirectInv, Return
  PROVE  Lines!Finish
  <1>1. /\ main # "returned" /\ main' = "returned"
        /\ UNCHANGED <<accepted, sink, sinkOK>>
    BY DEF Return, drainVars, writerVars
  <1>2. ~sinkOK \/ sink = accepted
    <2> SUFFICES ASSUME sinkOK PROVE sink = accepted
      OBVIOUS
    <2>1. pipe = <<>> /\ held = <<>> /\ sink \in Seq(Cell)
      BY DEF RedirectInv, DrainSound, RedirectTypeOK, Return
    <2>2. accepted = sink \o <<>> \o <<>>
      BY <2>1 DEF RedirectInv, NothingLost
    <2> QED
      BY <2>1, <2>2, ConcatEmptySeq
  <1> QED
    BY <1>1, <1>2 DEF Lines!Finish

\* Every step of the redirect is a step of the conduit or a stutter.
LEMMA ConduitStep ==
  ASSUME RedirectInv, RedirectInv', [Next]_vars
  PROVE  [Lines!ConduitNext]_(Lines!conduitVars)
  <1>1. ASSUME NEW w \in Writer, Push(w)
        PROVE  Lines!ConduitNext
    BY <1>1, PushTakes DEF Lines!ConduitNext
  <1>2. CASE WriteSink \/ SinkFails
    BY <1>2, WriteDelivers DEF Lines!ConduitNext
  <1>3. CASE Return
    BY <1>3, ReturnFinishes DEF Lines!ConduitNext
  <1>4. CASE \/ Install \/ InstallFails \/ Frame \/ Restore \/ CloseWriteEnd
             \/ WriteEndClosed \/ ReadPipe \/ EndOfFile \/ EndDrain \/ UNCHANGED vars
    <2>1. UNCHANGED <<accepted, sink, sinkOK>>
      BY <1>4 DEF Install, InstallFails, Frame, Restore, CloseWriteEnd, WriteEndClosed,
                  ReadPipe, EndOfFile, EndDrain, vars, drainVars, writerVars
    <2>2. (main = "returned") = (main' = "returned")
      BY <1>4 DEF Install, InstallFails, Frame, Restore, CloseWriteEnd, WriteEndClosed,
                  ReadPipe, EndOfFile, EndDrain, vars, mainVars
    <2> QED
      BY <2>1, <2>2 DEF Lines!conduitVars
  <1>5. ASSUME NEW w \in Writer,
               \/ Resolve(w) \/ WriteReal(w) \/ LockFile(w) \/ Park(w)
               \/ Wake(w) \/ GiveUp(w)
        PROVE  UNCHANGED Lines!conduitVars
    BY <1>5 DEF Resolve, WriteReal, LockFile, Park, Wake, GiveUp, mainVars, drainVars,
                Lines!conduitVars
  <1> QED
    BY <1>1, <1>2, <1>3, <1>4, <1>5 DEF Next, Close, Drain, Write, Quiescent

\* The redirect is a conduit: for any number of writers, any line length, pipe
\* and read size, whole lines one at a time arrive in order and without a gap
\* up to a failure, and Close returns when that is done.
THEOREM RefinesConduit == Spec => ImplementsConduit
  <1>1. Init => Lines!ConduitInit
    BY DEF Init, Lines!ConduitInit
  <1>2. RedirectInv /\ RedirectInv' /\ [Next]_vars
          => [Lines!ConduitNext]_(Lines!conduitVars)
    BY ConduitStep
  <1> QED
    BY <1>1, <1>2, RedirectInvariance, PTL DEF Spec, ImplementsConduit, Lines!ConduitSpec
=============================================================================
